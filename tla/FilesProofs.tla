----------------------------- MODULE FilesProofs -----------------------------
(***************************************************************************)
(* Files is Transfer with more said, and what it says of the files.        *)
(***************************************************************************)
EXTENDS Files, TransferProofs

(* Every step of Files is one of Transfer, or leaves its variables alone.  *)
LEMMA FilesStep == [FilesNext]_filesVars => [Next]_vars
BY DEF FilesNext, filesVars, Next, FilesHandle, PutRefused, PutExists, GetGiven, PutGoesOn,
       FilesTell, FilesCopy, FilesReadFails, FilesConnect, PutOpen, PutChunk, GetOpen, GetChunk, RmMark,
       RmUnlink, Handle

LEMMA FilesAllInv == FilesSpec => []AllInv
<1>1. FilesInit => AllInv
  BY TransferInit, AnswerInit, RouteInit DEF FilesInit, AllInv
<1>2. AllInv /\ [FilesNext]_filesVars => AllInv'
  BY FilesStep, TransferNext, AnswerNext, RouteNext DEF AllInv
<1> QED BY <1>1, <1>2, PTL DEF FilesSpec

(* The files take nothing away from what is shown of the counter of get,   *)
(* of the answers and of whose client a handler serves.                    *)
THEOREM FilesKeepTransfer ==
    FilesSpec => [](BarrierKept /\ AnswersInOrder) /\ ImplementsExchange
<1>1. AllInv => BarrierKept
  BY DEF AllInv, TransferInv, CountInv, Waited, BarrierKept
<1>2. AllInv => AnswersInOrder
  BY DEF AllInv, AnswerInv, AnswerState, AnswersInOrder
<1>3. FilesInit => Promise!Init
  BY ExchangeInit DEF FilesInit
<1>4. AllInv /\ [FilesNext]_filesVars => [Promise!Next \/ Mixed']_Promise!exchange
  BY FilesStep, ExchangeStep DEF AllInv
<1> QED BY <1>1, <1>2, <1>3, <1>4, FilesAllInv, PTL DEF FilesSpec, ImplementsExchange
-----------------------------------------------------------------------------
(* The invariant about the files.                                          *)

LEMMA InodesOfTransfers ==
    /\ Transfers \subseteq Inodes \ {0}
    /\ Inodes \subseteq Int
    /\ 0 \in Inodes
    /\ None \notin Inodes /\ Unset \notin Inodes /\ None # Unset
BY TransferAssumption DEF Transfers, Inodes, None, Unset

(* A file is as it was while its data, and what its writers have done, is. *)
LEMMA FilledStill ==
    ASSUME NEW j, Filled(j), data'[j] = data[j], Writers(j)' = Writers(j),
           emptied'[j] = emptied[j],
           \A w \in Writers(j) : done'[w] = done[w] /\ peer'[w] = peer[w]
    PROVE  Filled(j)'
BY DEF Filled

LEMMA FilesInvInit == FilesInit => FilesInv
<1> SUFFICES ASSUME FilesInit PROVE FilesInv
  OBVIOUS
<1> USE DEF FilesInit, Init
<1>1. FilesTypes
  <2>1. data \in [Inodes -> Seq(Int)]
    <3>1. OldFile \in Seq(Int) /\ <<>> \in Seq(Int)
      BY FilesAssumption DEF OldFile
    <3> QED BY <3>1
  <2>2. Anything \in Seq(Int)
    BY DEF Anything, None
  <2> QED BY <2>1, <2>2, FilesAssumption, TransferAssumption, InodesOfTransfers
          DEF FilesTypes, None
<1>2. \A t \in Transfers : Progress(t)
  BY DEF Progress
<1>3. Belongs
  BY InodesOfTransfers, FilesAssumption DEF Belongs, Putting, None, Unset
<1>4. Contents
  <2>1. \A i \in Inodes : Writers(i) = {}
    BY DEF Writers
  <2>2. data[0] = OldFile
    BY InodesOfTransfers
  <2>3. \A i \in Inodes \ {0} : data[i] = <<>>
    OBVIOUS
  <2>4. Len(<<>>) = 0 /\ \A k : k \notin 1..0
    OBVIOUS
  <2>5. \A i \in Inodes \ {0} : Filled(i)
    BY <2>1, <2>3, <2>4 DEF Filled
  <2> QED BY <2>2, <2>5 DEF Contents
<1>5. \A t \in Transfers : Undisturbed(t)
  BY DEF Undisturbed
<1> QED BY <1>1, <1>2, <1>3, <1>4, <1>5 DEF FilesInv

(* Where a handler may get to in one step that leaves the files alone.     *)
Moves(t) ==
    \/ step'[t] = step[t]
    \/ /\ step[t] \notin {"unused", "done"}
       /\ step'[t] # "unused"
       /\ step[t] \in {"tell", "accept"} => step'[t] \in {"accept", "copy", "done"}
       /\ step[t] \in {"copy", "free", "close"} => step'[t] \in {"free", "close", "done"}
       /\ step[t] = "copy" =>
             IF kind[t] = "put" THEN step'[t] = "done" /\ done[t] = size[t]
             ELSE ~Readable(t) \/ t \in cut'
       /\ step[t] \notin {"copy", "free", "close"} => step'[t] \notin {"free", "close"}

Untouched ==
    /\ UNCHANGED <<asking, order, names, disk, open, length, done, sent, wanted>>
    /\ cut \subseteq cut'

Still ==
    /\ UNCHANGED kind
    /\ Untouched
    /\ \A t \in Transfers : Moves(t)
    /\ \A t \in Transfers :
          /\ peer'[t] = peer[t] \/ (step[t] = "accept" /\ step'[t] = "copy")
          /\ step'[t] = "copy" => step[t] = "copy" \/ peer'[t] # 0

LEMMA FilesUntouched == UNCHANGED files => Untouched
BY DEF files, stream, Untouched

LEMMA StillKeeps ==
    ASSUME HandlerTypes, \A t \in Transfers : AnswerState(t), FilesInv, Still
    PROVE  FilesInv'
<1>1. /\ UNCHANGED <<kind, asking, place, size, bareNamed, entry, data, emptied>>
      /\ UNCHANGED <<open, length, done, sent, wanted>>
      /\ cut \subseteq cut'
  BY DEF Still, Untouched, names, order, disk
<1>2. FilesTypes'
  BY <1>1 DEF FilesInv, FilesTypes
<1>3. \A t \in Transfers : Progress(t)'
  <2> SUFFICES ASSUME NEW t \in Transfers PROVE Progress(t)'
    OBVIOUS
  <2>1. /\ Progress(t) /\ kind[t] \in {"get", "put"} /\ Moves(t)
        /\ peer'[t] = peer[t] \/ (step[t] = "accept" /\ step'[t] = "copy")
        /\ step'[t] = "copy" => step[t] = "copy" \/ peer'[t] # 0
    BY DEF FilesInv, HandlerTypes, Still
  <2> QED BY <1>1, <2>1 DEF Progress, Moves
<1>4. \A t \in Transfers : Putting(t)' => Putting(t)
  BY <1>1 DEF Putting, Still, Moves
<1>5. Belongs'
  BY <1>1, <1>4 DEF FilesInv, Belongs
<1>6. Contents'
  <2>1. \A i : Writers(i)' = Writers(i)
    BY <1>1 DEF Writers
  <2>2. \A i \in Inodes : \A w \in Writers(i) : peer'[w] = peer[w]
    BY InodesOfTransfers DEF Writers, FilesInv, Progress, Still
  <2>3. \A i \in Inodes \ {0} : Filled(i)'
    BY <1>1, <2>1, <2>2, FilledStill DEF FilesInv, Contents
  <2> QED BY <1>1, <2>3 DEF FilesInv, Contents, OldFile
<1>7. ASSUME NEW t \in Transfers, kind'[t] = "get" PROVE Undisturbed(t)'
  <2>1. Undisturbed(t) /\ Moves(t) /\ kind[t] = "get"
        /\ (peer'[t] = peer[t] \/ (step[t] = "accept" /\ step'[t] = "copy"))
        /\ (peer[t] # 0 => step[t] \in {"copy", "free", "close", "done"})
    BY <1>1, <1>7 DEF FilesInv, Still, AnswerState
  <2> SUFFICES ASSUME wanted[t] # Anything,
                      step'[t] \in {"free", "close", "done"}, peer'[t] # 0
               PROVE  t \in cut' \/ done[t] = length[t]
    BY <1>1, <1>4, <2>1 DEF Undisturbed
  <2>2. step[t] \in {"copy", "free", "close", "done"} /\ peer[t] # 0
    BY <2>1 DEF Moves
  <2>3. CASE step[t] = "copy" /\ t \notin cut'
    <3>1. ~Readable(t)
      BY <2>1, <2>3 DEF Moves
    <3>2. done[t] \in Nat /\ length[t] \in Int /\ done[t] <= length[t]
          /\ length[t] = Len(data[open[t]]) /\ open[t] \in Inodes
      BY <2>1 DEF Undisturbed, FilesInv, FilesTypes
    <3> QED BY <3>1, <3>2, InodesOfTransfers DEF Readable
  <2> QED BY <1>1, <2>1, <2>2, <2>3 DEF Undisturbed
<1> QED BY <1>2, <1>3, <1>5, <1>6, <1>7 DEF FilesInv

(* The steps of Transfer that this module leaves as they are.              *)
LEMMA SessionStill ==
    ASSUME TypeOK, Reserved, NEW s \in Sessions, Run(s) \/ Exit(s), UNCHANGED files
    PROVE  Still
<1> USE FilesUntouched DEF TypeOK, Become, Still, Moves, command, handler, sockets
<1>1. CASE GetCreate(s)
  BY <1>1 DEF GetCreate, Reserved
<1>2. CASE GetUndo(s) \/ GetCheck(s) \/ PutUndo(s) \/ Exit(s)
  BY <1>2 DEF GetUndo, GetCheck, PutUndo, Exit
<1> QED BY <1>1, <1>2 DEF Run

LEMMA AcceptStill ==
    ASSUME TypeOK, HandlerTypes, NEW t \in Transfers, Accept(t), UNCHANGED files
    PROVE  Still
<1>1. fd[t] \in Transfers
  <2>1. fd[t] \in 0..MaxTransfers /\ fd[t] # 0
    BY DEF HandlerTypes, Accept
  <2> QED BY <2>1, TransferAssumption DEF Transfers
<1>2. Head(queue[fd[t]]) \in Transfers
  BY <1>1 DEF Accept, HandlerTypes
<1>3. step[t] = "accept" /\ step' = [step EXCEPT ![t] = "copy"] /\ kind' = kind
  BY DEF Accept, Advance, command
<1>4. \A u \in Transfers : u # t => peer'[u] = peer[u]
  BY DEF Accept, HandlerTypes
<1>5. peer'[t] # 0
  <2>1. peer'[t] = Head(queue[fd[t]]) /\ 0 \notin Transfers
    BY DEF Accept, HandlerTypes, Transfers
  <2> QED BY <1>2, <2>1
<1> QED BY <1>3, <1>4, <1>5, FilesUntouched DEF Still, Moves, TypeOK

LEMMA HandlerStill ==
    ASSUME TypeOK, HandlerTypes, NEW t \in Transfers,
           \/ UNCHANGED files /\ (Handle(t) \/ AcceptFails(t))
           \/ FilesCopy(t) \/ FilesReadFails(t)
    PROVE  Still
<1> USE FilesUntouched DEF TypeOK, Advance, Still, Moves, command, sockets
<1>1. CASE UNCHANGED files /\ (Signal(t) \/ Examine(t) \/ Claim(t))
  BY <1>1 DEF Signal, Examine, Claim
<1>2. CASE UNCHANGED files /\ Probe(t)
  <2>1. UNCHANGED <<kind, peer>> /\ step[t] = "probe" /\ step' = [step EXCEPT ![t] = step'[t]]
        /\ step'[t] \in {"bind", "claim", "probe", "tell"}
    BY <1>2 DEF Probe
  <2> QED BY <1>2, <2>1
<1>7. CASE UNCHANGED files /\ Bind(t)
  <2>1. UNCHANGED <<kind, peer>> /\ step[t] = "bind" /\ step' = [step EXCEPT ![t] = step'[t]]
        /\ step'[t] \in {"done", "tell"}
    BY <1>7 DEF Bind
  <2> QED BY <1>7, <2>1
<1>3. CASE UNCHANGED files /\ (Tell(t) \/ AcceptFails(t) \/ Free(t) \/ Close(t))
  BY <1>3 DEF Tell, AcceptFails, Free, Close
<1>4. CASE FilesCopy(t)
  BY <1>4 DEF FilesCopy, Copy, HandlerTypes
<1>5. CASE FilesReadFails(t)
  <2>1. Untouched /\ t \in cut'
    BY <1>5 DEF FilesReadFails, Untouched
  <2> QED BY <1>5, <2>1 DEF FilesReadFails, ReadFails
<1>6. CASE UNCHANGED files /\ Accept(t)
  BY <1>6, AcceptStill
<1> QED BY <1>1, <1>2, <1>3, <1>4, <1>5, <1>6, <1>7 DEF Handle

LEMMA ConnectStill ==
    ASSUME NEW c \in Transfers, Connect(c), UNCHANGED files
    PROVE  Still
BY FilesUntouched DEF Still, Moves, Connect, command, handler

(* A step that changes only what sessions ask and what rm does to names.   *)
LEMMA NamesKeep ==
    ASSUME FilesInv,
           UNCHANGED <<vars, order, bareNamed, disk, stream>>,
           asking' \in [Sessions -> Places \cup {"nothing"}],
           \A p \in Places : entry'[p] = entry[p] \/ entry'[p] = None,
           entry' \in [Places -> Inodes \cup {None}],
           \A s \in Sessions : asking'[s] \in Places =>
               asking'[s] = asking[s] \/ entry'[asking'[s]] = None
    PROVE  FilesInv'
<1>1. /\ UNCHANGED <<kind, step, peer, place, size, bareNamed, data, emptied>>
      /\ UNCHANGED <<open, length, done, sent, cut, wanted>>
  BY DEF vars, command, handler, order, disk, stream
<1>2. FilesTypes'
  BY <1>1 DEF FilesInv, FilesTypes
<1>3. \A t \in Transfers : Progress(t)'
  BY <1>1 DEF FilesInv, Progress
<1>4. \A t \in Transfers : Putting(t)' = Putting(t)
  BY <1>1 DEF Putting
<1>5. \A s \in Sessions : asking[s] \in Places \cup {"nothing"}
  BY DEF FilesInv, FilesTypes
<1>6. \A t \in Transfers : place[t] \in Places
  BY DEF FilesInv, FilesTypes
<1>7. Belongs'
  BY <1>1, <1>4, <1>6, InodesOfTransfers DEF FilesInv, Belongs
<1>8. Contents'
  BY <1>1 DEF FilesInv, Contents, Filled, Writers, OldFile
<1>9. ASSUME NEW t \in Transfers, kind[t] = "get" PROVE Undisturbed(t)'
  <2>1. Undisturbed(t)
    BY <1>9 DEF FilesInv
  <2> QED BY <1>1, <1>4, <1>6, <2>1, InodesOfTransfers DEF Undisturbed
<1> QED BY <1>1, <1>2, <1>3, <1>7, <1>8, <1>9 DEF FilesInv

LEMMA NamesStep ==
    ASSUME FilesInv,
           \/ \E s \in Sessions : PutRefused(s)
           \/ \E s \in Sessions, p \in Places : PutExists(s, p)
           \/ \E p \in Places : RmMark(p) \/ RmUnlink(p)
    PROVE  FilesInv'
<1>1. asking \in [Sessions -> Places \cup {"nothing"}] /\ entry \in [Places -> Inodes \cup {None}]
  BY DEF FilesInv, FilesTypes
<1>2. ASSUME NEW s \in Sessions, PutRefused(s) PROVE FilesInv'
  BY <1>1, <1>2, FilesAssumption, NamesKeep DEF PutRefused, names
<1>3. ASSUME NEW s \in Sessions, NEW p \in Places, PutExists(s, p) PROVE FilesInv'
  BY <1>1, <1>3, NamesKeep DEF PutExists, names
<1>4. ASSUME NEW p \in Places, RmMark(p) PROVE FilesInv'
  BY <1>1, <1>4, NamesKeep DEF RmMark
<1>5. ASSUME NEW p \in Places, RmUnlink(p) PROVE FilesInv'
  BY <1>1, <1>5, NamesKeep DEF RmUnlink
<1> QED BY <1>2, <1>3, <1>4, <1>5

(* A command is given: a transfer that was unused gets its place.          *)
LEMMA GetGivenKeeps ==
    ASSUME TypeOK, HandlerTypes, FilesInv, NEW s \in Sessions, NEW t \in Transfers, GetGiven(s, t)
    PROVE  FilesInv'
<1>1. /\ step[t] = "unused" /\ step' = [step EXCEPT ![t] = "reserved"]
      /\ UNCHANGED <<kind, peer, asking, size, bareNamed, entry, data, emptied>>
      /\ UNCHANGED <<open, length, done, sent, cut, wanted>>
      /\ place' \in [Transfers -> Places] /\ \A u \in Transfers : u # t => place'[u] = place[u]
  BY DEF GetGiven, GetStart, Fresh, FilesInv, FilesTypes, command, names, disk, stream
<1>2. kind[t] = "get" /\ open[t] = Unset
  BY <1>1 DEF FilesInv, Progress, HandlerTypes
<1>3. FilesTypes'
  BY <1>1 DEF FilesInv, FilesTypes
<1>4. \A u \in Transfers : Progress(u)'
  <2> SUFFICES ASSUME NEW u \in Transfers PROVE Progress(u)'
    OBVIOUS
  <2>1. Progress(u)
    BY DEF FilesInv
  <2> QED BY <1>1, <1>2, <2>1 DEF Progress, TypeOK
<1>5. \A u \in Transfers : Putting(u)' => Putting(u) /\ u # t
  BY <1>1, <1>2 DEF Putting, TypeOK
<1>6. \A i \in Inodes : kind[i] = "put" => i # t
  BY <1>2
<1>7. Belongs'
  BY <1>1, <1>2, <1>5, InodesOfTransfers DEF FilesInv, Belongs, Inodes, Transfers
<1>8. Contents'
  BY <1>1 DEF FilesInv, Contents, Filled, Writers, OldFile
<1>9. ASSUME NEW u \in Transfers, kind[u] = "get" PROVE Undisturbed(u)'
  <2>1. Undisturbed(u) /\ Progress(u)
    BY <1>9 DEF FilesInv
  <2>2. u = t => wanted[u] = Anything
    BY <1>1, <1>2, <2>1, InodesOfTransfers DEF Undisturbed
  <2> QED BY <1>1, <1>5, <2>1, <2>2 DEF Undisturbed, TypeOK
<1> QED BY <1>1, <1>3, <1>4, <1>7, <1>8, <1>9 DEF FilesInv

LEMMA PutGoesOnKeeps ==
    ASSUME TypeOK, HandlerTypes, FilesInv, NEW s \in Sessions, NEW t \in Transfers, PutGoesOn(s, t)
    PROVE  FilesInv'
<1>1. /\ asking[s] \in Places /\ asking' = [asking EXCEPT ![s] = "nothing"]
      /\ step[t] = "unused" /\ step' = [step EXCEPT ![t] = step'[t]] /\ step'[t] \in {"probe", "done"}
      /\ UNCHANGED <<peer, bareNamed, entry, data, emptied, open, length, done, sent, cut, wanted>>
      /\ place' = [place EXCEPT ![t] = asking[s]]
      /\ kind' = [kind EXCEPT ![t] = "put"]
      /\ \E n \in Sizes : size' = [size EXCEPT ![t] = n]
  BY DEF PutGoesOn, Put, Fresh, FilesInv, FilesTypes, command, names, disk, stream, TypeOK
<1>2. kind[t] = "get" /\ open[t] = Unset /\ done[t] = 0
  BY <1>1 DEF FilesInv, Progress, HandlerTypes
<1>3. FilesTypes'
  <2>1. size' \in [Transfers -> Nat]
    BY <1>1, FilesAssumption DEF FilesInv, FilesTypes
  <2> QED BY <1>1, <2>1 DEF FilesInv, FilesTypes
<1>11. size'[t] \in Nat /\ \A u \in Transfers : u # t => size'[u] = size[u]
  BY <1>1, FilesAssumption DEF FilesInv, FilesTypes
<1>4. \A u \in Transfers : Progress(u)'
  <2> SUFFICES ASSUME NEW u \in Transfers PROVE Progress(u)'
    OBVIOUS
  <2>1. Progress(u) /\ kind \in [Transfers -> {"get", "put"}]
    BY DEF FilesInv, HandlerTypes
  <2>2. u # t => Progress(u)'
    BY <1>1, <1>11, <2>1 DEF Progress, TypeOK
  <2>3. u = t => Progress(u)'
    BY <1>1, <1>2, <1>11, <2>1 DEF Progress, TypeOK
  <2> QED BY <2>2, <2>3
<1>5. \A u \in Transfers : u # t => Putting(u)' = Putting(u) /\ kind'[u] = kind[u] /\ place'[u] = place[u]
  <2>1. \A u \in Transfers : u # t => step'[u] = step[u] /\ kind'[u] = kind[u]
    BY <1>1 DEF TypeOK, HandlerTypes
  <2>2. \A u \in Transfers : u # t => place'[u] = place[u]
    BY <1>1 DEF FilesInv, FilesTypes
  <2> QED BY <2>1, <2>2 DEF Putting
<1>6. "nothing" \notin Places
  BY FilesAssumption
<1>7. kind'[t] = "put" /\ place'[t] = asking[s]
  BY <1>1 DEF HandlerTypes, FilesInv, FilesTypes
<1>8. Belongs'
  <2> USE DEF FilesInv, Belongs
  <2>1. \A r \in Sessions : asking'[r] \in Places => asking'[r] = asking[r]
    BY <1>1, <1>6 DEF FilesTypes
  <2>2. \A i \in Inodes \ {0} : i \in Transfers
    BY DEF Inodes, Transfers
  <2>3. \A u \in Transfers : open[u] \in Inodes \ {0} =>
            u # t /\ open[u] # t /\ open[u] \in Transfers
    BY <1>2, <2>2, InodesOfTransfers
  <2>4. \A p \in Places : entry[p] \in Inodes \ {0} => entry[p] # t /\ entry[p] \in Transfers
    BY <1>2, <2>2
  <2>5. (\A r \in Sessions : asking[r] \in Places => entry[asking[r]] # 0)'
    BY <1>1, <2>1
  <2>6. (\A u \in Transfers : Putting(u) => entry[place[u]] # 0)'
    BY <1>1, <1>5, <1>7
  <2>7. (\A u \in Transfers : open[u] \in Inodes \ {0} =>
            /\ kind[open[u]] = "put" /\ open[open[u]] = open[u]
            /\ kind[u] = "put" => place[open[u]] = place[u])'
    BY <1>1, <1>5, <2>3
  <2>8. (\A u \in Transfers : kind[u] = "put" => open[u] # 0)'
    BY <1>1, <1>2, <1>5, InodesOfTransfers
  <2>9. (\A p \in Places : entry[p] \in Inodes \ {0} =>
            kind[entry[p]] = "put" /\ open[entry[p]] = entry[p] /\ place[entry[p]] = p)'
    BY <1>1, <1>5, <2>4
  <2> QED BY <2>5, <2>6, <2>7, <2>8, <2>9
<1>9. Contents'
  <2>1. \A i \in Inodes : Writers(i)' = Writers(i)
    BY <1>1, <1>2, <1>5, InodesOfTransfers DEF Writers
  <2> QED BY <1>1, <2>1, FilledStill DEF FilesInv, Contents, Writers, OldFile
<1>10. ASSUME NEW u \in Transfers, kind'[u] = "get" PROVE Undisturbed(u)'
  <2>1. Undisturbed(u) /\ u # t
    BY <1>5, <1>7, <1>10 DEF FilesInv
  <2>2. UNCHANGED <<wanted, open, data, length, done, sent, cut, peer, entry>> /\ step'[u] = step[u]
    BY <1>1, <2>1 DEF TypeOK
  <2>3. wanted[u] # Anything => open[t] # open[u] /\ entry[place'[t]] # open[u]
    BY <1>1, <1>2, <1>7, <2>1, InodesOfTransfers DEF Undisturbed
  <2>4. \A r \in Sessions : asking'[r] \in Places => asking'[r] = asking[r]
    BY <1>1, <1>6 DEF FilesInv, FilesTypes
  <2> QED BY <1>5, <2>1, <2>2, <2>3, <2>4 DEF Undisturbed
<1> QED BY <1>3, <1>4, <1>8, <1>9, <1>10 DEF FilesInv

(* No put can reach the file of a get that found none under way.           *)
LEMMA GetOpenKeeps ==
    ASSUME HandlerTypes, FilesInv, NEW t \in Transfers, GetOpen(t)
    PROVE  FilesInv'
<1> DEFINE i == entry[place[t]]
<1>1. /\ kind[t] = "get" /\ step[t] = "tell" /\ open[t] = Unset
      /\ open' = [open EXCEPT ![t] = i]
      /\ length' = [length EXCEPT ![t] = IF i = None THEN None ELSE Len(data[i])]
      /\ wanted' = [wanted EXCEPT ![t] =
            IF i = None \/ PutUnderWay(place[t]) THEN Anything ELSE data[i]]
      /\ UNCHANGED <<kind, step, peer, asking, place, size, bareNamed, entry, data, emptied, done, sent, cut>>
  BY DEF GetOpen, vars, command, handler, order, names, disk
<1>2. i \in Inodes \cup {None} /\ (i # None => data[i] \in Seq(Int))
  BY DEF FilesInv, FilesTypes
<1>3. FilesTypes'
  <2>1. Anything \in Seq(Int) /\ None \in Int
    BY DEF Anything, None
  <2>2. length' \in [Transfers -> Int] /\ wanted' \in [Transfers -> Seq(Int)]
    BY <1>1, <1>2, <2>1 DEF FilesInv, FilesTypes
  <2> QED BY <1>1, <1>2, <2>2 DEF FilesInv, FilesTypes
<1>4. \A u \in Transfers : Progress(u)'
  <2> SUFFICES ASSUME NEW u \in Transfers PROVE Progress(u)'
    OBVIOUS
  <2>1. Progress(u) /\ open \in [Transfers -> Inodes \cup {None, Unset}]
        /\ length \in [Transfers -> Int]
    BY DEF FilesInv, FilesTypes
  <2> QED BY <1>1, <1>2, <2>1, InodesOfTransfers DEF Progress
<1>5. \A u \in Transfers : u # t => open'[u] = open[u] /\ length'[u] = length[u] /\ wanted'[u] = wanted[u]
  BY <1>1 DEF FilesInv, FilesTypes
<1>6. open'[t] = i
  BY <1>1 DEF FilesInv, FilesTypes
<1>7. Belongs'
  <2> USE DEF FilesInv, Belongs
  <2>1. \A j \in Inodes \ {0} : j \in Transfers
    BY DEF Inodes, Transfers
  <2>2. \A j \in Inodes \ {0} : kind[j] = "put" => open'[j] = open[j]
    BY <1>1, <1>5, <2>1
  <2>3. place[t] \in Places
    BY DEF FilesTypes
  <2>4. i \in Inodes \ {0} => kind[i] = "put" /\ open'[i] = i
    BY <2>2, <2>3
  <2>5. (\A u \in Transfers : open[u] \in Inodes \ {0} =>
            /\ kind[open[u]] = "put" /\ open[open[u]] = open[u]
            /\ kind[u] = "put" => place[open[u]] = place[u])'
    BY <1>1, <1>5, <1>6, <2>2, <2>4
  <2>6. (\A u \in Transfers : kind[u] = "put" => open[u] # 0)'
    BY <1>1, <1>5
  <2>7. (\A p \in Places : entry[p] \in Inodes \ {0} =>
            kind[entry[p]] = "put" /\ open[entry[p]] = entry[p] /\ place[entry[p]] = p)'
    BY <1>1, <2>2
  <2>8. \A u \in Transfers : Putting(u)' = Putting(u)
    BY <1>1 DEF Putting
  <2> QED BY <1>1, <2>5, <2>6, <2>7, <2>8
<1>8. Contents'
  <2>1. \A j \in Inodes : Writers(j)' = Writers(j)
    BY <1>1, <1>5 DEF Writers
  <2> QED BY <1>1, <2>1, FilledStill DEF FilesInv, Contents, Writers, OldFile
<1>9. \A u \in Transfers : Putting(u)' = Putting(u)
  BY <1>1 DEF Putting
<1>10. ASSUME NEW u \in Transfers, kind[u] = "get", u # t PROVE Undisturbed(u)'
  <2>1. Undisturbed(u)
    BY <1>10 DEF FilesInv
  <2>2. \A v \in Transfers : Putting(v) => v # t
    BY <1>1 DEF Putting
  <2> QED BY <1>1, <1>5, <1>9, <1>10, <2>1, <2>2 DEF Undisturbed
<1>11. Undisturbed(t)'
  <2> SUFFICES ASSUME wanted'[t] # Anything PROVE Undisturbed(t)'
    BY DEF Undisturbed
  <2>1. i \in Inodes /\ ~PutUnderWay(place[t]) /\ wanted'[t] = data[i] /\ length'[t] = Len(data[i])
    BY <1>1, <1>2 DEF FilesInv, FilesTypes
  <2>2. done[t] = 0 /\ sent[t] = <<>>
    BY <1>1 DEF FilesInv, Progress
  <2>3. place \in [Transfers -> Places]
    BY DEF FilesInv, FilesTypes
  <2>4. ASSUME NEW u \in Transfers, Putting(u) PROVE open[u] # i /\ entry[place[u]] # i /\ u # t
    <3>1. place[u] # place[t] /\ kind[u] = "put"
      BY <2>1, <2>4 DEF PutUnderWay, Putting
    <3>2. open[u] # 0 /\ entry[place[u]] # 0
      BY <2>4, <3>1 DEF FilesInv, Belongs
    <3> QED BY <1>1, <2>1, <2>3, <3>1, <3>2 DEF FilesInv, Belongs
  <2>5. ASSUME NEW s \in Sessions, asking[s] \in Places PROVE entry[asking[s]] # i
    <3>1. asking[s] # place[t]
      BY <2>1 DEF PutUnderWay
    <3>2. entry[asking[s]] # 0
      BY <2>5 DEF FilesInv, Belongs
    <3> QED BY <2>1, <2>3, <2>5, <3>1, <3>2 DEF FilesInv, Belongs
  <2>6. Len(data[i]) \in Nat
    BY <1>2, <2>1, InodesOfTransfers
  <2> QED BY <1>1, <1>5, <1>6, <1>9, <2>1, <2>2, <2>4, <2>5, <2>6 DEF Undisturbed
<1> QED BY <1>1, <1>3, <1>4, <1>7, <1>8, <1>10, <1>11 DEF FilesInv

LEMMA GetChunkKeeps ==
    ASSUME FilesInv, NEW t \in Transfers, GetChunk(t)
    PROVE  FilesInv'
<1> DEFINE chunk == data[open[t]][done[t] + 1]
<1>1. /\ kind[t] = "get" /\ step[t] = "copy" /\ Readable(t)
      /\ done' = [done EXCEPT ![t] = @ + 1]
      /\ sent' = [sent EXCEPT ![t] = Append(@, chunk)]
      /\ UNCHANGED <<kind, step, peer, asking, place, size, bareNamed, entry, data, emptied>>
      /\ UNCHANGED <<open, length, cut, wanted>>
  BY DEF GetChunk, vars, command, handler, order, names, disk
<1>2. /\ done[t] \in Nat /\ length[t] \in Int /\ sent[t] \in Seq(Int)
      /\ open[t] \in Inodes \cup {None, Unset} /\ data \in [Inodes -> Seq(Int)]
  BY DEF FilesInv, FilesTypes
<1>3. open[t] \in Inodes
  <2>1. open[t] # Unset
    BY <1>1, <1>2 DEF Readable, FilesInv, Progress, None
  <2> QED BY <1>1, <1>2, <2>1 DEF Readable
<1>4. chunk \in Int
  BY <1>1, <1>2, <1>3 DEF Readable
<1>5. FilesTypes'
  <2>1. Append(sent[t], chunk) \in Seq(Int) /\ done[t] + 1 \in Nat
    BY <1>2, <1>4
  <2> QED BY <1>1, <2>1 DEF FilesInv, FilesTypes
<1>6. \A u \in Transfers : u # t => done'[u] = done[u] /\ sent'[u] = sent[u]
  BY <1>1 DEF FilesInv, FilesTypes
<1>7. \A u \in Transfers : Progress(u)'
  <2> SUFFICES ASSUME NEW u \in Transfers PROVE Progress(u)'
    OBVIOUS
  <2>1. Progress(u)
    BY DEF FilesInv
  <2> QED BY <1>1, <1>3, <1>6, <2>1, InodesOfTransfers DEF Progress
<1>8. \A u \in Transfers : Putting(u)' = Putting(u)
  BY <1>1 DEF Putting
<1>9. Belongs'
  BY <1>1, <1>8 DEF FilesInv, Belongs
<1>10. Contents'
  <2>1. \A j : Writers(j)' = Writers(j)
    BY <1>1 DEF Writers
  <2>2. \A j : \A w \in Writers(j) : done'[w] = done[w]
    BY <1>1, <1>6 DEF Writers
  <2> QED BY <1>1, <2>1, <2>2, FilledStill DEF FilesInv, Contents, OldFile
<1>11. ASSUME NEW u \in Transfers, kind[u] = "get" PROVE Undisturbed(u)'
  <2>1. Undisturbed(u)
    BY <1>11 DEF FilesInv
  <2>2. CASE u # t
    BY <1>1, <1>6, <1>8, <2>1, <2>2 DEF Undisturbed
  <2>3. CASE u = t /\ wanted[t] # Anything
    <3>1. /\ data[open[t]] = wanted[t] /\ length[t] = Len(wanted[t]) /\ done[t] < length[t]
          /\ Len(sent[t]) = done[t] /\ \A k \in 1..done[t] : sent[t][k] = wanted[t][k]
      BY <1>1, <2>1, <2>3 DEF Undisturbed, Readable
    <3>2. done'[t] = done[t] + 1 /\ sent'[t] = Append(sent[t], wanted[t][done[t] + 1])
      BY <1>1, <3>1 DEF FilesInv, FilesTypes
    <3>3. Len(sent'[t]) = done'[t] /\ done'[t] <= length[t]
      BY <1>2, <1>4, <3>1, <3>2
    <3>4. \A k \in 1..done'[t] : sent'[t][k] = wanted[t][k]
      BY <1>2, <1>4, <3>1, <3>2
    <3> QED BY <1>1, <1>8, <2>1, <2>3, <3>3, <3>4 DEF Undisturbed
  <2>4. CASE u = t /\ wanted[t] = Anything
    BY <1>1, <2>4 DEF Undisturbed
  <2> QED BY <2>2, <2>3, <2>4
<1> QED BY <1>1, <1>5, <1>7, <1>9, <1>10, <1>11 DEF FilesInv

(* The file put opens, made or emptied, is not one a get that found no put *)
(* under way has open.                                                     *)
LEMMA PutOpenKeeps ==
    ASSUME HandlerTypes, FilesInv, NEW t \in Transfers, PutOpen(t)
    PROVE  FilesInv'
<1> DEFINE i == IF entry[place[t]] = None THEN t ELSE entry[place[t]]
<1>1. /\ kind[t] = "put" /\ step[t] = "copy" /\ open[t] = Unset /\ Putting(t)
      /\ UNCHANGED <<kind, step, peer, asking, place, size, bareNamed, length, done, sent, cut, wanted>>
  BY DEF PutOpen, Putting, vars, command, handler, order
<1>2. /\ open \in [Transfers -> Inodes \cup {None, Unset}]
      /\ entry \in [Places -> Inodes \cup {None}]
      /\ data \in [Inodes -> Seq(Int)] /\ place[t] \in Places
  BY DEF FilesInv, FilesTypes
<1>3. \A u \in Transfers : Putting(u)' = Putting(u)
  BY <1>1 DEF Putting
<1>4. done[t] = 0 /\ peer[t] # 0 /\ size[t] \in Nat
  BY <1>1 DEF FilesInv, Progress, FilesTypes
<1>5. \A j \in Inodes \ {0} : j \in Transfers
  BY DEF Inodes, Transfers
<1>6. ASSUME \/ open' = [open EXCEPT ![t] = i]
             \/ open' = [open EXCEPT ![t] = None]
      PROVE  \A u \in Transfers : Progress(u)'
  <2> SUFFICES ASSUME NEW u \in Transfers PROVE Progress(u)'
    OBVIOUS
  <2>1. Progress(u)
    BY DEF FilesInv
  <2>2. i # Unset
    BY <1>2, InodesOfTransfers
  <2> QED BY <1>1, <1>2, <1>4, <1>6, <2>1, <2>2, InodesOfTransfers DEF Progress
<1>7. CASE open' = [open EXCEPT ![t] = None] /\ UNCHANGED <<entry, data, emptied>>
  <2>1. FilesTypes'
    BY <1>1, <1>2, <1>7 DEF FilesInv, FilesTypes
  <2>2. \A u \in Transfers : u # t => open'[u] = open[u]
    BY <1>2, <1>7
  <2>3. open'[t] = None
    BY <1>2, <1>7
  <2>4. Belongs'
    BY <1>1, <1>3, <1>5, <1>7, <2>2, <2>3, InodesOfTransfers DEF FilesInv, Belongs
  <2>5. \A j \in Inodes : Writers(j)' = Writers(j)
    BY <1>1, <2>2, <2>3, InodesOfTransfers DEF Writers
  <2>6. Contents'
    BY <1>1, <1>7, <2>5, FilledStill DEF FilesInv, Contents, OldFile
  <2>7. ASSUME NEW u \in Transfers, kind[u] = "get" PROVE Undisturbed(u)'
    <3>1. Undisturbed(u) /\ u # t
      BY <1>1, <2>7 DEF FilesInv
    <3> QED BY <1>1, <1>3, <1>7, <2>2, <2>3, <3>1, InodesOfTransfers DEF Undisturbed
  <2> QED BY <1>1, <1>6, <1>7, <2>1, <2>4, <2>6, <2>7 DEF FilesInv
<1>8. CASE /\ open' = [open EXCEPT ![t] = i]
           /\ entry' = [entry EXCEPT ![place[t]] = i]
           /\ data' = [data EXCEPT ![i] = <<>>]
           /\ emptied' = [emptied EXCEPT ![i] = t]
  <2>1. i \in Inodes \ {0}
    BY <1>1, <1>2, InodesOfTransfers DEF FilesInv, Belongs
  <2>2. FilesTypes'
    <3>1. emptied' \in [Inodes -> Inodes] /\ emptied'[i] = t
          /\ \A j \in Inodes : j # i => emptied'[j] = emptied[j]
      BY <1>8, <2>1, InodesOfTransfers DEF FilesInv, FilesTypes
    <3> QED BY <1>1, <1>2, <1>8, <2>1, <3>1 DEF FilesInv, FilesTypes
  <2>3. open'[t] = i /\ \A u \in Transfers : u # t => open'[u] = open[u]
    BY <1>2, <1>8
  <2>4. \A p \in Places : entry'[p] = IF p = place[t] THEN i ELSE entry[p]
    BY <1>2, <1>8
  <2>5. \A j \in Inodes \ {0} : open[j] = j => j # t
    BY <1>1, InodesOfTransfers
  <2>6. i # t => kind[i] = "put" /\ open[i] = i /\ place[i] = place[t]
    BY <1>2, <2>1 DEF FilesInv, Belongs
  <2>7. kind[i] = "put" /\ open'[i] = i /\ place[i] = place[t]
    BY <1>1, <1>5, <2>1, <2>3, <2>6
  <2>8. Belongs'
    <3> USE DEF FilesInv, Belongs
    <3>1. (\A s \in Sessions : asking[s] \in Places => entry[asking[s]] # 0)'
      BY <1>1, <2>1, <2>4
    <3>2. (\A u \in Transfers : Putting(u) => entry[place[u]] # 0)'
      BY <1>1, <1>3, <2>1, <2>4 DEF FilesTypes
    <3>3. ASSUME NEW u \in Transfers, open'[u] \in Inodes \ {0}
          PROVE  /\ kind[open'[u]] = "put" /\ open'[open'[u]] = open'[u]
                 /\ kind[u] = "put" => place[open'[u]] = place[u]
      <4>1. CASE u = t
        BY <2>3, <2>7, <4>1
      <4>2. CASE u # t
        <5>1. open[u] \in Inodes \ {0} /\ open'[u] = open[u]
          BY <2>3, <3>3, <4>2
        <5>2. open[open[u]] = open[u] /\ open[u] # t /\ open[u] \in Transfers
          BY <1>5, <2>5, <5>1
        <5> QED BY <2>3, <5>1, <5>2
      <4> QED BY <4>1, <4>2
    <3>4. (\A u \in Transfers : kind[u] = "put" => open[u] # 0)'
      BY <1>1, <2>1, <2>3
    <3>5. ASSUME NEW p \in Places, entry'[p] \in Inodes \ {0}
          PROVE  kind[entry'[p]] = "put" /\ open'[entry'[p]] = entry'[p] /\ place[entry'[p]] = p
      <4>1. CASE p = place[t]
        BY <2>4, <2>7, <4>1
      <4>2. CASE p # place[t]
        <5>1. entry'[p] = entry[p] /\ entry[p] \in Inodes \ {0}
          BY <2>4, <3>5, <4>2
        <5>2. kind[entry[p]] = "put" /\ open[entry[p]] = entry[p] /\ place[entry[p]] = p
          BY <5>1
        <5> QED BY <1>5, <2>3, <2>5, <5>1, <5>2
      <4> QED BY <4>1, <4>2
    <3> QED BY <1>1, <3>1, <3>2, <3>3, <3>4, <3>5
  <2>9. Contents'
    <3>1. \A u \in Transfers : u # t => open'[u] = open[u] /\ kind'[u] = kind[u]
      BY <1>1, <2>3
    <3>2. kind'[t] = "put" /\ open'[t] = i /\ open[t] \notin Inodes
      BY <1>1, <2>3, InodesOfTransfers
    <3>3. \A j \in Inodes : j # i => Writers(j)' = Writers(j)
      BY <3>1, <3>2 DEF Writers
    <3>4. ASSUME NEW j, j = i PROVE t \in Writers(j)' /\ done'[t] = 0
      BY <1>1, <1>4, <3>2, <3>4 DEF Writers
    <3>5. /\ data'[i] = <<>> /\ emptied'[i] = t
          /\ \A j \in Inodes : j # i => data'[j] = data[j] /\ emptied'[j] = emptied[j]
      BY <1>2, <1>8, <2>1 DEF FilesInv, FilesTypes
    <3>6. ASSUME NEW j \in Inodes \ {0}, j # i PROVE Filled(j)'
      BY <1>1, <3>3, <3>5, <3>6, FilledStill DEF FilesInv, Contents
    <3>7. ASSUME NEW j \in Inodes \ {0}, j = i PROVE Filled(j)'
      <4>1. Len(<<>>) = 0 /\ \A k : k \notin 1..0
        OBVIOUS
      <4>2. t \in Writers(j)' /\ done'[t] = 0 /\ data'[j] = <<>> /\ emptied'[j] = t
        BY <3>4, <3>5, <3>7
      <4> QED BY <4>1, <4>2 DEF Filled
    <3>8. data'[0] = OldFile
      BY <2>1, <3>5, InodesOfTransfers DEF FilesInv, Contents
    <3> QED BY <3>6, <3>7, <3>8 DEF Contents, OldFile
  <2>10. ASSUME NEW u \in Transfers, kind[u] = "get" PROVE Undisturbed(u)'
    <3>1. Undisturbed(u) /\ u # t
      BY <1>1, <2>10 DEF FilesInv
    <3> SUFFICES ASSUME wanted[u] # Anything PROVE Undisturbed(u)'
      BY <1>1 DEF Undisturbed
    <3>2. open[u] \in Inodes /\ entry[place[t]] # open[u]
      BY <1>1, <3>1 DEF Undisturbed
    <3>3. open[u] # t
      BY <1>1, <3>2, InodesOfTransfers DEF FilesInv, Belongs
    <3>4. i # open[u]
      BY <3>2, <3>3
    <3>5. data'[open[u]] = data[open[u]]
      BY <1>2, <1>8, <2>1, <3>2, <3>4
    <3>6. \A v \in Transfers : Putting(v) => open'[v] # open[u] /\ entry'[place[v]] # open[u]
      BY <2>3, <2>4, <3>1, <3>4 DEF Undisturbed, FilesInv, FilesTypes
    <3>7. \A s \in Sessions : asking[s] \in Places => entry'[asking[s]] # open[u]
      BY <2>4, <3>1, <3>4 DEF Undisturbed
    <3> QED BY <1>1, <1>3, <2>3, <3>1, <3>5, <3>6, <3>7 DEF Undisturbed
  <2> QED BY <1>1, <1>6, <1>8, <2>2, <2>8, <2>9, <2>10 DEF FilesInv
<1> QED BY <1>7, <1>8 DEF PutOpen, disk

(* What writing a chunk makes of a file.                                   *)
LEMMA WrittenFile ==
    ASSUME NEW file \in Seq(Int), NEW n \in Nat \ {0}, NEW chunk \in Int
    PROVE  LET new == Written(file, n, chunk)
           IN  /\ new \in Seq(Int)
               /\ Len(new) = IF n > Len(file) THEN n ELSE Len(file)
               /\ \A k \in 1..Len(new) :
                     new[k] = IF k = n THEN chunk ELSE IF k <= Len(file) THEN file[k] ELSE Hole
<1> DEFINE m == IF n > Len(file) THEN n ELSE Len(file)
<1> DEFINE at(k) == IF k = n THEN chunk ELSE IF k <= Len(file) THEN file[k] ELSE Hole
<1>1. m \in Nat /\ Len(file) \in Nat
  OBVIOUS
<1>2. \A k \in 1..m : at(k) \in Int
  BY <1>1 DEF Hole
<1>3. Written(file, n, chunk) = [k \in 1..m |-> at(k)]
  BY DEF Written
<1> HIDE DEF m, at
<1>4. [k \in 1..m |-> at(k)] \in Seq(Int) /\ Len([k \in 1..m |-> at(k)]) = m
  BY <1>1, <1>2
<1>5. \A k \in 1..m : [j \in 1..m |-> at(j)][k] = at(k)
  OBVIOUS
<1> QED BY <1>3, <1>4, <1>5 DEF m, at

LEMMA PutChunkKeeps ==
    ASSUME HandlerTypes, FilesInv, NEW t \in Transfers, PutChunk(t)
    PROVE  FilesInv'
<1> DEFINE i == open[t]
<1> DEFINE n == done[t] + 1
<1>1. /\ kind[t] = "put" /\ step[t] = "copy" /\ i # Unset /\ done[t] < size[t] /\ Putting(t)
      /\ done' = [done EXCEPT ![t] = n]
      /\ data' = IF i = None THEN data ELSE [data EXCEPT ![i] = Written(@, n, peer[t])]
      /\ UNCHANGED <<kind, step, peer, asking, place, size, bareNamed, entry, emptied>>
      /\ UNCHANGED <<open, length, sent, cut, wanted>>
  BY DEF PutChunk, Putting, vars, command, handler, order, names
<1>2. /\ done \in [Transfers -> Nat] /\ data \in [Inodes -> Seq(Int)]
      /\ i \in Inodes \cup {None, Unset} /\ peer[t] \in 0..MaxTransfers /\ size[t] \in Nat
  BY DEF HandlerTypes, FilesInv, FilesTypes
<1>3. peer[t] \in Int /\ peer[t] # Hole /\ n \in Nat \ {0} /\ n <= size[t]
  BY <1>1, <1>2, TransferAssumption DEF Hole
<1>4. i # None => i \in Inodes \ {0}
  BY <1>1, <1>2 DEF FilesInv, Belongs
<1>5. i # None =>
        /\ data'[i] \in Seq(Int)
        /\ Len(data'[i]) = IF n > Len(data[i]) THEN n ELSE Len(data[i])
        /\ \A k \in 1..Len(data'[i]) :
              data'[i][k] = IF k = n THEN peer[t] ELSE IF k <= Len(data[i]) THEN data[i][k] ELSE Hole
  <2> SUFFICES ASSUME i # None
               PROVE  /\ data'[i] \in Seq(Int)
                      /\ Len(data'[i]) = IF n > Len(data[i]) THEN n ELSE Len(data[i])
                      /\ \A k \in 1..Len(data'[i]) :
                            data'[i][k] = IF k = n THEN peer[t]
                                          ELSE IF k <= Len(data[i]) THEN data[i][k] ELSE Hole
    OBVIOUS
  <2>1. data'[i] = Written(data[i], n, peer[t]) /\ data[i] \in Seq(Int)
    BY <1>1, <1>2, <1>4
  <2>2. data[i] \in Seq(Int) /\ n \in Nat \ {0} /\ peer[t] \in Int
    BY <1>3, <2>1
  <2> HIDE DEF i, n
  <2> DEFINE new == Written(data[i], n, peer[t])
  <2>3. /\ new \in Seq(Int)
        /\ Len(new) = IF n > Len(data[i]) THEN n ELSE Len(data[i])
        /\ \A k \in 1..Len(new) :
              new[k] = IF k = n THEN peer[t] ELSE IF k <= Len(data[i]) THEN data[i][k] ELSE Hole
    BY ONLY <2>2, WrittenFile
  <2>4. data'[i] = new
    BY <2>1
  <2> HIDE DEF new
  <2> QED BY ONLY <2>3, <2>4
<1>6. \A j \in Inodes : j # i => data'[j] = data[j]
  BY <1>1, <1>2
<1>7. done'[t] = n /\ \A u \in Transfers : u # t => done'[u] = done[u]
  BY <1>1, <1>2
<1>8. FilesTypes'
  <2>1. done' \in [Transfers -> Nat]
    BY <1>1, <1>2, <1>3
  <2>2. data' \in [Inodes -> Seq(Int)]
    BY <1>1, <1>2, <1>3, <1>4, WrittenFile
  <2> QED BY <1>1, <2>1, <2>2 DEF FilesInv, FilesTypes
<1>9. \A u \in Transfers : Progress(u)'
  <2> SUFFICES ASSUME NEW u \in Transfers PROVE Progress(u)'
    OBVIOUS
  <2>1. Progress(u)
    BY DEF FilesInv
  <2>2. u # t => Progress(u)'
    BY <1>1, <1>7, <2>1 DEF Progress
  <2>3. u = t => Progress(u)'
    BY <1>1, <1>3, <1>7, <2>1 DEF Progress
  <2> QED BY <2>2, <2>3
<1>10. \A u \in Transfers : Putting(u)' = Putting(u)
  BY <1>1 DEF Putting
<1>11. Belongs'
  BY <1>1, <1>10 DEF FilesInv, Belongs
<1>12. Contents'
  <2>1. \A j : Writers(j)' = Writers(j)
    BY <1>1 DEF Writers
  <2>2. t \in Writers(i) /\ \A j : j # i => t \notin Writers(j)
    BY <1>1 DEF Writers
  <2>3. data'[0] = OldFile
    BY <1>4, <1>6, InodesOfTransfers DEF FilesInv, Contents
  <2>4. ASSUME NEW j \in Inodes \ {0}, j # i PROVE Filled(j)'
    <3>1. \A w \in Writers(j) : done'[w] = done[w]
      BY <1>7, <2>2, <2>4 DEF Writers
    <3> QED BY <1>1, <1>6, <2>1, <2>4, <3>1, FilledStill DEF FilesInv, Contents
  <2>5. ASSUME i # None PROVE Filled(i)'
    <3> DEFINE old == data[i]
    <3> DEFINE new == data'[i]
    <3> DEFINE e == emptied[i]
    <3>1. i \in Inodes \ {0} /\ Filled(i) /\ Len(old) \in Nat
      BY <1>2, <1>4, <2>5 DEF FilesInv, Contents
    <3>2. /\ Len(new) = IF n > Len(old) THEN n ELSE Len(old)
          /\ \A k \in 1..Len(new) :
                new[k] = IF k = n THEN peer[t] ELSE IF k <= Len(old) THEN old[k] ELSE Hole
      BY <1>5, <2>5
    <3>3. /\ e \in Writers(i) /\ done[e] <= Len(old) /\ \A k \in 1..done[e] : old[k] # Hole
          /\ \A k \in 1..Len(old) :
                old[k] = Hole \/ \E w \in Writers(i) : old[k] = peer[w] /\ k <= done[w]
          /\ old # <<>> => old[Len(old)] # Hole
      BY <2>2, <3>1 DEF Filled
    <3>4. done[e] \in Nat /\ \A w \in Writers(i) : done[w] \in Nat /\ done[w] <= done'[w]
      <4>1. \A w \in Transfers : done[w] \in Nat /\ done[w] <= done'[w]
        BY <1>2, <1>7
      <4> QED BY <3>3, <4>1 DEF Writers
    <3>5. old \in Seq(Int) /\ (Len(old) > 0 => old # <<>>)
      BY <1>2, <3>1
    <3> HIDE DEF old, new
    <3>6. Len(new) \in Nat /\ Len(old) <= Len(new) /\ n <= Len(new)
      BY <1>3, <3>1, <3>2
    <3>7. ASSUME NEW k \in 1..Len(new)
          PROVE  new[k] = Hole \/ \E v \in Writers(i) : new[k] = peer[v] /\ k <= done'[v]
      <4>1. CASE k = n
        BY <1>3, <1>7, <2>2, <3>2, <4>1
      <4>2. CASE k # n /\ k <= Len(old)
        <5>1. k \in 1..Len(old) /\ new[k] = old[k]
          BY <3>1, <3>2, <3>6, <4>2
        <5>2. CASE old[k] # Hole
          <6>1. PICK w \in Writers(i) : old[k] = peer[w] /\ k <= done[w]
            BY <3>3, <5>1, <5>2
          <6>2. done'[w] \in Nat /\ k <= done'[w]
            BY <1>3, <1>7, <2>2, <3>4, <6>1 DEF Writers
          <6> QED BY <5>1, <6>1, <6>2
        <5> QED BY <5>1, <5>2
      <4>3. CASE k # n /\ ~(k <= Len(old))
        BY <3>2, <4>3
      <4> QED BY <4>1, <4>2, <4>3
    <3>8. done'[e] \in Nat /\ done'[e] <= Len(new)
      BY <1>3, <1>7, <3>1, <3>3, <3>4, <3>6 DEF Writers
    <3>9. ASSUME NEW k \in 1..done'[e] PROVE new[k] # Hole
      <4>1. k \in 1..Len(new)
        BY <3>6, <3>8
      <4>2. CASE k = n
        BY <1>3, <3>2, <4>1, <4>2
      <4>3. CASE k # n
        <5>1. k \in 1..done[e]
          BY <1>3, <1>7, <3>3, <3>4, <4>3 DEF Writers
        <5>2. k <= Len(old)
          BY <3>1, <3>3, <3>4, <5>1
        <5> QED BY <3>2, <3>3, <4>1, <4>3, <5>1, <5>2
      <4> QED BY <4>2, <4>3
    <3>10. new[Len(new)] # Hole
      <4>1. Len(new) \in 1..Len(new)
        BY <1>3, <3>6
      <4>2. CASE Len(new) = n
        BY <1>3, <3>2, <4>1, <4>2
      <4>3. CASE Len(new) # n
        <5>1. Len(new) = Len(old) /\ Len(old) > 0
          BY <1>3, <3>1, <3>2, <3>6, <4>3
        <5>2. new[Len(new)] = old[Len(old)]
          BY <3>1, <3>2, <4>1, <4>3, <5>1
        <5> QED BY <3>3, <3>5, <5>1, <5>2
      <4> QED BY <4>2, <4>3
    <3> QED BY <1>1, <2>1, <2>2, <3>3, <3>7, <3>8, <3>9, <3>10 DEF Filled, new
  <2>6. \A j \in Inodes \ {0} : Filled(j)'
    <3>1. ASSUME NEW j \in Inodes \ {0}, j = i PROVE Filled(j)'
      <4>1. open'[t] = j /\ i # None
        BY <1>1, <3>1, InodesOfTransfers
      <4> QED BY <2>5, <4>1
    <3> QED BY <2>4, <3>1
  <2> QED BY <2>3, <2>6 DEF Contents, OldFile
<1>13. ASSUME NEW u \in Transfers, kind[u] = "get" PROVE Undisturbed(u)'
  <2>1. Undisturbed(u) /\ u # t
    BY <1>1, <1>13 DEF FilesInv
  <2> SUFFICES ASSUME wanted[u] # Anything PROVE Undisturbed(u)'
    BY <1>1 DEF Undisturbed
  <2>2. i # open[u] /\ open[u] \in Inodes
    BY <1>1, <2>1 DEF Undisturbed
  <2> QED BY <1>1, <1>6, <1>7, <1>10, <2>1, <2>2 DEF Undisturbed
<1> QED BY <1>1, <1>8, <1>9, <1>11, <1>12, <1>13 DEF FilesInv

(* What a step is, sorted by what it does to the files.                    *)
Names ==
    \/ \E s \in Sessions : PutRefused(s)
    \/ \E s \in Sessions, p \in Places : PutExists(s, p)
    \/ \E p \in Places : RmMark(p) \/ RmUnlink(p)

Given == \E s \in Sessions, t \in Transfers : GetGiven(s, t) \/ PutGoesOn(s, t)

Moved == \E t \in Transfers : GetOpen(t) \/ PutOpen(t) \/ PutChunk(t) \/ GetChunk(t)

LEMMA FilesCases ==
    ASSUME TypeOK, AnswerInv, [FilesNext]_filesVars
    PROVE  Still \/ Names \/ Given \/ Moved
<1>1. Reserved /\ HandlerTypes
  BY DEF AnswerInv
<1>2. CASE UNCHANGED filesVars
  BY <1>2, FilesUntouched DEF Still, Moves, filesVars, vars, command, handler
<1>3. ASSUME NEW s \in Sessions, Run(s) \/ Exit(s), UNCHANGED files PROVE Still
  BY <1>1, <1>3, SessionStill
<1>4. ASSUME NEW t \in Transfers,
             \/ FilesTell(t) \/ FilesCopy(t) \/ FilesReadFails(t)
             \/ UNCHANGED files /\ (Handle(t) \/ AcceptFails(t))
      PROVE  Still
  <2>1. FilesTell(t) => UNCHANGED files /\ Handle(t)
    BY DEF FilesTell, Handle
  <2> QED BY <1>1, <1>4, <2>1, HandlerStill
<1>5. ASSUME NEW t \in Transfers, FilesConnect(t) PROVE Still
  BY <1>5, ConnectStill DEF FilesConnect
<1>6. CASE Die /\ UNCHANGED files
  BY <1>6, FilesUntouched DEF Die, Still, Moves, command, handler
<1> QED BY <1>2, <1>3, <1>4, <1>5, <1>6 DEF FilesNext, FilesHandle, Names, Given, Moved

LEMMA FilesInvNext == TypeOK /\ AnswerInv /\ FilesInv /\ [FilesNext]_filesVars => FilesInv'
<1> SUFFICES ASSUME TypeOK, AnswerInv, FilesInv, [FilesNext]_filesVars PROVE FilesInv'
  OBVIOUS
<1> USE DEF AnswerInv
<1>1. CASE Still
  BY <1>1, StillKeeps
<1>2. CASE Names
  BY <1>2, NamesStep DEF Names
<1>3. CASE Given
  BY <1>3, GetGivenKeeps, PutGoesOnKeeps DEF Given
<1>4. CASE Moved
  BY <1>4, GetOpenKeeps, PutOpenKeeps, PutChunkKeeps, GetChunkKeeps DEF Moved
<1> QED BY <1>1, <1>2, <1>3, <1>4, FilesCases

LEMMA FilesInvHolds == FilesSpec => [](TypeOK /\ AnswerInv /\ FilesInv)
<1>1. FilesInit => Init
  BY DEF FilesInit
<1>2. TransferInv => TypeOK
  BY DEF TransferInv
<1> QED BY <1>1, <1>2, FilesStep, TransferInit, TransferNext, AnswerInit, AnswerNext,
           FilesInvInit, FilesInvNext, PTL DEF FilesSpec
-----------------------------------------------------------------------------
(* A file no put is writing has all that was announced by the put which    *)
(* emptied it last, from clients that puts of the file served; what lies   *)
(* beyond comes from puts that announced more (put_handler, one stream and *)
(* one filesize each).                                                     *)
THEOREM PutsAreWhole == FilesSpec => []PutsWhole
<1>1. FilesInv => PutsWhole
  <2> SUFFICES ASSUME FilesInv, NEW i \in Inodes, \A t \in Writers(i) : step[t] = "done"
               PROVE  IF i = 0 THEN data[i] = OldFile
                      ELSE IF Writers(i) = {} THEN data[i] = <<>>
                      ELSE /\ emptied[i] \in Writers(i)
                           /\ size[emptied[i]] <= Len(data[i])
                           /\ \E t \in Writers(i) : Len(data[i]) <= size[t]
                           /\ \A k \in 1..Len(data[i]) :
                                 \/ data[i][k] = Hole /\ k > size[emptied[i]]
                                 \/ \E t \in Writers(i) : data[i][k] = peer[t] /\ k <= size[t]
    BY DEF PutsWhole
  <2>1. i = 0 => data[i] = OldFile
    BY DEF FilesInv, Contents
  <2>2. i # 0 => Filled(i)
    BY DEF FilesInv, Contents
  <2>3. CASE i # 0 /\ Writers(i) # {}
    <3> DEFINE e == emptied[i]
    <3>1. \A w \in Writers(i) : done[w] = size[w] /\ size[w] \in Nat
      BY InodesOfTransfers DEF Writers, FilesInv, Progress, FilesTypes
    <3>2. /\ e \in Writers(i) /\ done[e] <= Len(data[i])
          /\ \A k \in 1..done[e] : data[i][k] # Hole
          /\ \A k \in 1..Len(data[i]) :
                data[i][k] = Hole \/ \E w \in Writers(i) : data[i][k] = peer[w] /\ k <= done[w]
          /\ data[i] # <<>> => data[i][Len(data[i])] # Hole
      BY <2>2, <2>3 DEF Filled
    <3>3. data[i] \in Seq(Int)
      BY DEF FilesInv, FilesTypes
    <3>4. Len(data[i]) \in Nat /\ (data[i] = <<>> <=> Len(data[i]) = 0)
      BY <3>3
    <3>5. \E t \in Writers(i) : Len(data[i]) <= size[t]
      <4>1. CASE Len(data[i]) = 0
        BY <3>1, <3>2, <4>1
      <4>2. CASE Len(data[i]) # 0
        <5>1. Len(data[i]) \in 1..Len(data[i]) /\ data[i][Len(data[i])] # Hole
          BY <3>2, <3>4, <4>2
        <5> QED BY <3>1, <3>2, <5>1
      <4> QED BY <4>1, <4>2
    <3>6. ASSUME NEW k \in 1..Len(data[i])
          PROVE  \/ data[i][k] = Hole /\ k > size[e]
                 \/ \E t \in Writers(i) : data[i][k] = peer[t] /\ k <= size[t]
      <4>1. CASE data[i][k] = Hole
        <5>1. ~(k <= done[e])
          BY <3>2, <3>4, <4>1
        <5> QED BY <3>1, <3>2, <3>4, <4>1, <5>1
      <4>2. CASE data[i][k] # Hole
        BY <3>1, <3>2, <4>2
      <4> QED BY <4>1, <4>2
    <3>7. size[e] <= Len(data[i])
      BY <3>1, <3>2
    <3> QED BY <2>3, <3>2, <3>5, <3>6, <3>7
  <2> QED BY <2>1, <2>2, <2>3 DEF Filled
<1> QED BY <1>1, FilesInvHolds, PTL

(* What a put that was alone with its file leaves is what its own client   *)
(* sent, all it had announced: no handler knows more of its client than    *)
(* the port it was told, so this needs that no port is shared              *)
(* (put_handler).                                                          *)
THEOREM PutsKeepTheirOwn == FilesSpec => []PutsTheirOwn
<1>1. FilesInv /\ RouteInv => PutsTheirOwn
  <2> SUFFICES ASSUME FilesInv, RouteInv, ~Mixed, NEW t \in Transfers,
                      kind[t] = "put", step[t] = "done", open[t] \in Inodes, Writers(open[t]) = {t}
               PROVE  data[open[t]] = [n \in 1..size[t] |-> t]
    BY DEF PutsTheirOwn
  <2> DEFINE i == open[t]
  <2>1. i \in Inodes \ {0} /\ Filled(i)
    BY DEF FilesInv, Belongs, Contents
  <2>2. peer[t] = t /\ done[t] = size[t] /\ size[t] \in Nat
    BY InodesOfTransfers DEF RouteInv, OwnClient, FilesInv, Progress, FilesTypes
  <2>3. /\ done[t] <= Len(data[i]) /\ \A k \in 1..done[t] : data[i][k] # Hole
        /\ \A k \in 1..Len(data[i]) : data[i][k] = Hole \/ (data[i][k] = peer[t] /\ k <= done[t])
        /\ data[i] # <<>> => data[i][Len(data[i])] # Hole
    BY <2>1 DEF Filled
  <2>4. data[i] \in Seq(Int) /\ Len(data[i]) \in Nat /\ (data[i] = <<>> <=> Len(data[i]) = 0)
    BY <2>1 DEF FilesInv, FilesTypes
  <2>5. Len(data[i]) <= size[t]
    <3>1. CASE Len(data[i]) # 0
      <4>1. Len(data[i]) \in 1..Len(data[i])
        BY <2>4, <3>1
      <4> QED BY <2>2, <2>3, <2>4, <3>1, <4>1
    <3> QED BY <2>2, <3>1
  <2>6. Len(data[i]) = size[t]
    BY <2>2, <2>3, <2>4, <2>5
  <2>7. \A k \in 1..size[t] : data[i][k] = t
    BY <2>2, <2>3, <2>6
  <2>8. DOMAIN data[i] = 1..size[t] /\ data[i] = [k \in DOMAIN data[i] |-> data[i][k]]
    BY <2>4, <2>6
  <2> QED BY <2>7, <2>8
<1>2. AllInv => RouteInv
  BY DEF AllInv
<1> QED BY <1>1, <1>2, FilesAllInv, FilesInvHolds, PTL

(* A get sends the file as it was when it was opened, whole, or up to      *)
(* where it could not be read on, if no put of that name was under way     *)
(* then (get_handler).                                                     *)
THEOREM GetsAreWhole == FilesSpec => []GetsWhole
<1>1. FilesInv => GetsWhole
  <2> SUFFICES ASSUME FilesInv, NEW t \in Transfers, kind[t] = "get", peer[t] # 0,
                      step[t] \in {"free", "close", "done"}, wanted[t] # Anything
               PROVE  /\ \A k \in 1..Len(sent[t]) :
                            k <= Len(wanted[t]) /\ sent[t][k] = wanted[t][k]
                      /\ t \in cut \/ Len(sent[t]) = Len(wanted[t])
    BY DEF GetsWhole
  <2>1. /\ length[t] = Len(wanted[t]) /\ done[t] <= length[t] /\ Len(sent[t]) = done[t]
        /\ \A k \in 1..done[t] : sent[t][k] = wanted[t][k]
        /\ t \in cut \/ done[t] = length[t]
    BY DEF FilesInv, Undisturbed
  <2>2. done[t] \in Nat /\ length[t] \in Int
    BY DEF FilesInv, FilesTypes
  <2> QED BY <2>1, <2>2
<1> QED BY <1>1, FilesInvHolds, PTL

(* Once an rm has marked a file right below the base and the puts that had *)
(* already passed their tests are over, no put that gives the bare name    *)
(* there brings the file back (put, which asks isBeingDeleted; rm, which   *)
(* calls setAsDeleted).                                                    *)
THEOREM RemovedIsForever == FilesSpec => RemovedStaysAway
<1> DEFINE Away == \A p \in bareNamed : p \in marked /\ NoPutOf(p) =>
                       /\ NoPutOf(p)'
                       /\ entry'[p] \in {entry[p], None}
<1>1. TypeOK /\ AnswerInv /\ FilesInv /\ [FilesNext]_filesVars => [Away]_filesVars
  <2> SUFFICES ASSUME TypeOK, AnswerInv, FilesInv, [FilesNext]_filesVars,
                      NEW p \in bareNamed, p \in marked, NoPutOf(p)
               PROVE  NoPutOf(p)' /\ entry'[p] \in {entry[p], None}
    OBVIOUS
  <2>1. /\ entry \in [Places -> Inodes \cup {None}] /\ place \in [Transfers -> Places]
        /\ kind \in [Transfers -> {"get", "put"}] /\ p \in Places
    BY DEF AnswerInv, HandlerTypes, FilesInv, FilesTypes
  <2>2. CASE Still
    BY <2>2 DEF Still, Untouched, Moves, NoPutOf, Putting, order, names
  <2>3. CASE Names
    <3>1. UNCHANGED <<kind, step, place>>
      BY <2>3 DEF Names, PutRefused, PutExists, RmMark, RmUnlink, vars, command, handler, order
    <3>2. entry'[p] \in {entry[p], None}
      BY <2>1, <2>3 DEF Names, PutRefused, PutExists, RmMark, RmUnlink, names
    <3> QED BY <3>1, <3>2 DEF NoPutOf, Putting
  <2>4. ASSUME NEW s \in Sessions, NEW t \in Transfers, GetGiven(s, t) \/ PutGoesOn(s, t)
        PROVE  NoPutOf(p)' /\ entry'[p] \in {entry[p], None}
    <3>1. step[t] = "unused" /\ entry' = entry
          /\ \A u \in Transfers : u # t =>
                kind'[u] = kind[u] /\ step'[u] = step[u] /\ place'[u] = place[u]
      BY <2>1, <2>4 DEF GetGiven, PutGoesOn, GetStart, Put, Fresh, names, command, TypeOK
    <3>2. kind[t] = "get"
      BY <3>1 DEF FilesInv, Progress
    <3>3. kind'[t] = "get" \/ place'[t] # p
      BY <2>1, <2>4, <3>2 DEF GetGiven, PutGoesOn, GetStart, command, MarkFound
    <3> QED BY <3>1, <3>3 DEF NoPutOf, Putting
  <2>5. CASE Moved
    <3>1. UNCHANGED <<kind, step, place>>
      BY <2>5 DEF Moved, GetOpen, PutOpen, PutChunk, GetChunk, vars, command, handler, order
    <3>2. \A t \in Transfers : Putting(t) => place[t] # p
      BY DEF NoPutOf
    <3>3. entry'[p] \in {entry[p], None}
      BY <2>1, <2>5, <3>2 DEF Moved, GetOpen, PutOpen, PutChunk, GetChunk, names
    <3> QED BY <3>1, <3>3 DEF NoPutOf, Putting
  <2> QED BY <2>2, <2>3, <2>4, <2>5, FilesCases DEF Given
<1> QED BY <1>1, FilesInvHolds, PTL DEF FilesSpec, RemovedStaysAway
=============================================================================
