--------------------------- MODULE TransferProofs ---------------------------
(***************************************************************************)
(* get waits for the handler it has started, however many sessions share   *)
(* the counter.                                                            *)
(***************************************************************************)
EXTENDS Transfer, FiniteSetTheorems, SequenceTheorems, TLAPS

TransferInv == TypeOK /\ CountInv

LEMMA PendingFinite == IsFiniteSet(Pending) /\ Cardinality(Pending) \in Nat
<1>1. Pending \subseteq Sessions
  BY DEF Pending
<1> QED BY <1>1, TransferAssumption, FS_Subset, FS_CardinalityType

LEMMA TransferInit == Init => TransferInv
<1> SUFFICES ASSUME Init PROVE TransferInv
  OBVIOUS
<1>1. TypeOK
  <2>1. spoiled \in BOOLEAN
    BY DEF Init
  <2> QED BY <2>1, TransferAssumption DEF Init, TypeOK, Transfers
<1>2. Pending = {}
  BY DEF Init, Pending
<1>3. copying = Cardinality(Pending)
  BY <1>2, FS_EmptySet DEF Init
<1>4. InsideGet /\ Waited
  BY DEF Init, InsideGet, Waited
<1> QED BY <1>1, <1>3, <1>4 DEF TransferInv, CountInv, Init

(* A step of a handler that has lowered the counter, or of a put: no       *)
(* session and no get that is being started is concerned.                  *)
Elsewhere ==
    /\ UNCHANGED <<pc, current, counter, owner>>
    /\ step' \in [Transfers -> {"unused", "reserved", "created", "examine", "probe", "claim",
                               "bind", "tell", "accept", "copy", "free", "close", "done"}]
    /\ \A t \in Transfers : step'[t] # step[t] =>
          /\ step[t] \notin {"reserved", "created", "done"}
          /\ step'[t] \notin {"reserved", "created"}

LEMMA ElsewhereKeeps == TransferInv /\ Elsewhere => TransferInv'
<1> SUFFICES ASSUME TransferInv, Elsewhere PROVE TransferInv'
  OBVIOUS
<1> USE DEF TransferInv, Elsewhere, counter
<1>1. TypeOK'
  BY DEF TypeOK
<1>2. ASSUME ~spoiled'
      PROVE  /\ InsideGet'
             /\ Waited'
             /\ copying' = Cardinality(Pending')
  <2>1. InsideGet /\ Waited /\ copying = Cardinality(Pending)
    BY <1>2 DEF CountInv
  <2>2. InsideGet' /\ Waited'
    BY <2>1 DEF InsideGet, Waited, TypeOK
  <2>3. Pending' = Pending
    BY <2>1 DEF Pending, InsideGet, TypeOK
  <2> QED BY <1>2, <2>1, <2>2, <2>3 DEF CountInv
<1> QED BY <1>1, <1>2 DEF CountInv

(* The part of the invariant about the counter, once the parts about the   *)
(* sessions and the types hold and the counter follows the set.            *)
LEMMA Recount ==
    ASSUME TypeOK',
           ~spoiled' =>
               /\ InsideGet'
               /\ Waited'
               /\ copying' = Cardinality(Pending')
    PROVE  TransferInv'
BY DEF TransferInv, CountInv

LEMMA GetStartKeeps ==
    ASSUME TransferInv, NEW s \in Sessions, NEW t \in Transfers, GetStart(s, t)
    PROVE  TransferInv'
<1> USE DEF TransferInv
<1>1. /\ pc[s] = "idle" /\ pc' = [pc EXCEPT ![s] = "get_create"]
      /\ current' = [current EXCEPT ![s] = t]
      /\ step[t] = "unused" /\ step' = [step EXCEPT ![t] = "reserved"]
      /\ owner[t] = s /\ owner' = owner /\ copying' = copying + 1 /\ spoiled' = spoiled
  BY DEF GetStart, Become, Fresh, command
<1>2. TypeOK'
  BY <1>1 DEF TypeOK, Transfers
<1>3. ASSUME ~spoiled'
      PROVE  /\ InsideGet'
             /\ Waited'
             /\ copying' = Cardinality(Pending')
  <2>1. InsideGet /\ Waited /\ copying = Cardinality(Pending)
    BY <1>1, <1>3 DEF CountInv
  <2>2. InsideGet' /\ Waited'
    BY <1>1, <2>1 DEF InsideGet, Waited, TypeOK
  <2>3. Pending' = Pending \cup {s} /\ s \notin Pending
    BY <1>1, <2>1 DEF Pending, InsideGet, TypeOK
  <2> QED BY <1>1, <2>1, <2>2, <2>3, PendingFinite, FS_AddElement
<1> QED BY <1>2, <1>3, Recount

LEMMA GetCreateKeeps ==
    ASSUME TransferInv, NEW s \in Sessions, GetCreate(s)
    PROVE  TransferInv'
<1> USE DEF TransferInv
<1> DEFINE t == current[s]
<1>1. /\ pc[s] = "get_create"
      /\ \/ /\ pc' = [pc EXCEPT ![s] = "get_wait"]
            /\ step' = [step EXCEPT ![t] = "created"]
         \/ /\ pc' = [pc EXCEPT ![s] = "get_undo"]
            /\ step' = [step EXCEPT ![t] = "done"]
      /\ current' = current /\ owner' = owner /\ copying' = copying /\ spoiled' = spoiled
  BY DEF GetCreate, Become, command, counter
<1>2. TypeOK'
  BY <1>1 DEF TypeOK, Transfers
<1>3. ASSUME ~spoiled'
      PROVE  /\ InsideGet'
             /\ Waited'
             /\ copying' = Cardinality(Pending')
  <2>1. InsideGet /\ Waited /\ copying = Cardinality(Pending)
    BY <1>1, <1>3 DEF CountInv
  <2>2. t \in Transfers /\ owner[t] = s /\ step[t] = "reserved"
    BY <1>1, <2>1 DEF InsideGet
  <2>3. InsideGet'
    BY <1>1, <2>1, <2>2 DEF InsideGet, TypeOK
  <2>4. Waited'
    BY <1>1, <2>1, <2>2 DEF Waited, TypeOK
  <2>5. Pending' = Pending
    BY <1>1, <2>1, <2>2 DEF Pending, InsideGet, TypeOK
  <2> QED BY <1>1, <2>1, <2>3, <2>4, <2>5
<1> QED BY <1>2, <1>3, Recount

LEMMA GetUndoKeeps ==
    ASSUME TransferInv, NEW s \in Sessions, GetUndo(s)
    PROVE  TransferInv'
<1> USE DEF TransferInv
<1>1. /\ pc[s] = "get_undo" /\ pc' = [pc EXCEPT ![s] = "get_wait"]
      /\ current' = current /\ owner' = owner /\ step' = step
      /\ copying' = copying - 1 /\ spoiled' = spoiled
  BY DEF GetUndo, Become, command, handler
<1>2. TypeOK'
  BY <1>1 DEF TypeOK
<1>3. ASSUME ~spoiled'
      PROVE  /\ InsideGet'
             /\ Waited'
             /\ copying' = Cardinality(Pending')
  <2>1. InsideGet /\ Waited /\ copying = Cardinality(Pending)
    BY <1>1, <1>3 DEF CountInv
  <2>2. InsideGet' /\ Waited'
    BY <1>1, <2>1 DEF InsideGet, Waited, TypeOK
  <2>3. Pending' = Pending \ {s} /\ s \in Pending
    BY <1>1, <2>1 DEF Pending, InsideGet, TypeOK
  <2> QED BY <1>1, <2>1, <2>2, <2>3, PendingFinite, FS_RemoveElement
<1> QED BY <1>2, <1>3, Recount

(* When the counter is down nothing is pending, this session's get         *)
(* included.                                                               *)
LEMMA GetCheckKeeps ==
    ASSUME TransferInv, NEW s \in Sessions, GetCheck(s)
    PROVE  TransferInv'
<1> USE DEF TransferInv
<1>1. /\ pc[s] = "get_wait" /\ pc' = [pc EXCEPT ![s] = "idle"]
      /\ current' = current /\ owner' = owner /\ step' = step
      /\ copying' = copying /\ copying <= 0 /\ spoiled' = spoiled
  BY DEF GetCheck, Become, command, handler, counter
<1>2. TypeOK'
  BY <1>1 DEF TypeOK
<1>3. ASSUME ~spoiled'
      PROVE  /\ InsideGet'
             /\ Waited'
             /\ copying' = Cardinality(Pending')
  <2>1. InsideGet /\ Waited /\ copying = Cardinality(Pending)
    BY <1>1, <1>3 DEF CountInv
  <2>2. Pending = {}
    <3>1. Cardinality(Pending) = 0
      BY <1>1, <2>1, PendingFinite
    <3> QED BY <3>1, PendingFinite, FS_EmptySet
  <2>3. step[current[s]] # "created"
    BY <1>1, <2>2 DEF Pending
  <2>4. InsideGet'
    BY <1>1, <2>1 DEF InsideGet, TypeOK
  <2>5. Waited'
    BY <1>1, <2>1, <2>3 DEF Waited, TypeOK
  <2>6. Pending' = Pending
    BY <1>1, <2>2 DEF Pending, TypeOK
  <2> QED BY <1>1, <2>1, <2>4, <2>5, <2>6
<1> QED BY <1>2, <1>3, Recount

LEMMA SignalKeeps ==
    ASSUME TransferInv, NEW t \in Transfers, Signal(t)
    PROVE  TransferInv'
<1> USE DEF TransferInv
<1>1. /\ step[t] = "created" /\ step' = [step EXCEPT ![t] = "examine"]
      /\ pc' = pc /\ current' = current /\ owner' = owner
      /\ copying' = copying - 1 /\ spoiled' = spoiled
  BY DEF Signal, Advance, thread, command
<1>2. TypeOK'
  BY <1>1 DEF TypeOK
<1>3. ASSUME ~spoiled'
      PROVE  /\ InsideGet'
             /\ Waited'
             /\ copying' = Cardinality(Pending')
  <2>1. InsideGet /\ Waited /\ copying = Cardinality(Pending)
    BY <1>1, <1>3 DEF CountInv
  <2>2. /\ owner[t] \in Sessions
        /\ pc[owner[t]] = "get_wait" /\ current[owner[t]] = t
    BY <1>1, <2>1 DEF Waited, TypeOK
  <2>3. InsideGet' /\ Waited'
    BY <1>1, <2>1 DEF InsideGet, Waited, TypeOK
  <2>4. Pending' = Pending \ {owner[t]} /\ owner[t] \in Pending
    BY <1>1, <2>1, <2>2 DEF Pending, InsideGet, TypeOK
  <2> QED BY <1>1, <2>1, <2>3, <2>4, PendingFinite, FS_RemoveElement
<1> QED BY <1>2, <1>3, Recount

LEMMA PutKeeps ==
    ASSUME TransferInv, NEW s \in Sessions, NEW t \in Transfers, Put(s, t)
    PROVE  TransferInv'
<1>1. CASE pc[s] = "idle" /\ pc' = [pc EXCEPT ![s] = "idle"]
           /\ step[t] = "unused" /\ step' = [step EXCEPT ![t] = "probe"]
  <2>1. Elsewhere
    BY <1>1 DEF Elsewhere, Put, TransferInv, TypeOK
  <2> QED BY <2>1, ElsewhereKeeps
<1>2. CASE pc[s] = "idle" /\ pc' = [pc EXCEPT ![s] = "put_undo"]
           /\ step[t] = "unused" /\ step' = [step EXCEPT ![t] = "done"]
  <2> USE DEF TransferInv
  <2>1. UNCHANGED <<current, copying, spoiled, owner>>
    BY DEF Put, counter
  <2>2. TypeOK'
    BY <1>2, <2>1 DEF TypeOK
  <2>3. ASSUME ~spoiled'
        PROVE  InsideGet' /\ Waited' /\ copying' = Cardinality(Pending')
    <3>1. InsideGet /\ Waited /\ copying = Cardinality(Pending)
      BY <2>1, <2>3 DEF CountInv
    <3>2. InsideGet' /\ Waited'
      BY <1>2, <2>1, <3>1 DEF InsideGet, Waited, TypeOK
    <3>3. Pending' = Pending
      BY <1>2, <2>1, <3>1 DEF Pending, InsideGet, TypeOK
    <3> QED BY <2>1, <3>1, <3>2, <3>3
  <2> QED BY <2>2, <2>3, Recount
<1> QED BY <1>1, <1>2 DEF Put, Become, Fresh

(* From here on nothing is said of the counter.                            *)
LEMMA PutUndoKeeps ==
    ASSUME TransferInv, NEW s \in Sessions, PutUndo(s)
    PROVE  TransferInv'
<1>1. spoiled' /\ TypeOK'
  BY DEF PutUndo, Become, command, handler, TransferInv, TypeOK
<1> QED BY <1>1, Recount

LEMMA ExitKeeps ==
    ASSUME TransferInv, NEW s \in Sessions, Exit(s)
    PROVE  TransferInv'
<1> USE DEF TransferInv
<1>1. /\ pc[s] = "idle" /\ pc' = [pc EXCEPT ![s] = "gone"]
      /\ current' = current /\ owner' = owner /\ step' = step /\ copying' = copying /\ spoiled' = spoiled
  BY DEF Exit, Become, command, handler, counter
<1>2. TypeOK'
  BY <1>1 DEF TypeOK
<1>3. ASSUME ~spoiled'
      PROVE  /\ InsideGet'
             /\ Waited'
             /\ copying' = Cardinality(Pending')
  <2>1. InsideGet /\ Waited /\ copying = Cardinality(Pending)
    BY <1>1, <1>3 DEF CountInv
  <2>2. InsideGet' /\ Waited'
    BY <1>1, <2>1 DEF InsideGet, Waited, TypeOK
  <2>3. Pending' = Pending
    BY <1>1 DEF Pending, TypeOK
  <2> QED BY <1>1, <2>1, <2>2, <2>3
<1> QED BY <1>2, <1>3, Recount

(* Past the counter.                                                       *)
LEMMA HandlerKeeps ==
    ASSUME TransferInv, NEW t \in Transfers,
           Examine(t) \/ Probe(t) \/ Claim(t) \/ Bind(t) \/ Tell(t) \/ Accept(t)
               \/ AcceptFails(t) \/ Copy(t) \/ ReadFails(t) \/ Free(t) \/ Close(t)
    PROVE  TransferInv'
<1> USE DEF TransferInv, TypeOK, Advance, thread, command
<1>1. Examine(t) => Elsewhere
  BY DEF Examine, Elsewhere
<1>2. Probe(t) => Elsewhere
  BY DEF Probe, Elsewhere
<1>3. Claim(t) => Elsewhere
  BY DEF Claim, Elsewhere
<1>4. Bind(t) => Elsewhere
  BY DEF Bind, Elsewhere
<1>5. Tell(t) => Elsewhere
  BY DEF Tell, Elsewhere
<1>6. Accept(t) => Elsewhere
  BY DEF Accept, Elsewhere
<1>7. AcceptFails(t) => Elsewhere
  BY DEF AcceptFails, Elsewhere
<1>8. Copy(t) => Elsewhere
  BY DEF Copy, Elsewhere
<1>9. Free(t) => Elsewhere
  BY DEF Free, Elsewhere
<1>10. Close(t) => Elsewhere
  BY DEF Close, Elsewhere
<1>11. ReadFails(t) => Elsewhere
  BY DEF ReadFails, Elsewhere
<1> QED BY <1>1, <1>2, <1>3, <1>4, <1>5, <1>6, <1>7, <1>8, <1>9, <1>10, <1>11, ElsewhereKeeps

LEMMA TransferNext == TransferInv /\ [Next]_vars => TransferInv'
<1> SUFFICES ASSUME TransferInv, [Next]_vars PROVE TransferInv'
  OBVIOUS
<1>1. CASE UNCHANGED <<pc, current, counter, owner, step>>
  <2>1. Elsewhere
    BY <1>1 DEF Elsewhere, TransferInv, TypeOK
  <2> QED BY <2>1, ElsewhereKeeps
<1>2. CASE UNCHANGED vars
  BY <1>1, <1>2 DEF vars, thread, command, handler
<1>3. CASE Die
  BY <1>1, <1>3 DEF Die, thread, command, handler
<1>4. ASSUME NEW t \in Transfers, Connect(t) PROVE TransferInv'
  BY <1>1, <1>4 DEF Connect, thread, command, handler
<1>5. ASSUME NEW s \in Sessions, Run(s) \/ Exit(s) PROVE TransferInv'
  BY <1>5, GetCreateKeeps, GetUndoKeeps, GetCheckKeeps, PutUndoKeeps, ExitKeeps DEF Run
<1>6. ASSUME NEW s \in Sessions, NEW t \in Transfers, GetStart(s, t) \/ Put(s, t)
      PROVE  TransferInv'
  BY <1>6, GetStartKeeps, PutKeeps
<1>7. ASSUME NEW t \in Transfers, Handle(t) \/ AcceptFails(t) \/ Copy(t) \/ ReadFails(t)
      PROVE  TransferInv'
  BY <1>7, SignalKeeps, HandlerKeeps DEF Handle
<1> QED BY <1>2, <1>3, <1>4, <1>5, <1>6, <1>7 DEF Next

(* However many sessions give however many gets, and however many of their *)
(* threads fail, none returns before its handler has lowered the counter,  *)
(* until a put lowers it in its place.                                     *)
THEOREM GetsWait == Spec => []BarrierKept
<1>1. TransferInv => BarrierKept
  BY DEF TransferInv, CountInv, Waited, BarrierKept
<1> QED BY TransferInit, TransferNext, <1>1, PTL DEF Spec
-----------------------------------------------------------------------------
(* Answers.                                                                *)

LEMMA AnswerInit == Init => AnswerInv
<1> SUFFICES ASSUME Init PROVE AnswerInv
  OBVIOUS
<1> USE DEF Init
<1>1. HandlerTypes
  <2>1. 0 \in 0..MaxTransfers /\ 1 \in Nat
    BY TransferAssumption
  <2>2. queue \in [Transfers -> Seq(Transfers)] /\ answers \in [Transfers -> Seq({"port", "error"})]
    OBVIOUS
  <2>3. /\ port \in [Transfers -> Nat] /\ fd \in [Transfers -> 0..MaxTransfers]
        /\ peer \in [Transfers -> 0..MaxTransfers]
    BY <2>1
  <2> QED BY <2>2, <2>3 DEF HandlerTypes
<1>2. Reserved /\ \A t \in Transfers : AnswerState(t) /\ SocketState(t)
  BY DEF AnswerState, SocketState, Reserved
<1> QED BY <1>1, <1>2 DEF AnswerInv

(* Only the session that has reserved a transfer takes it further.         *)
LEMMA ReservedNext ==
    ASSUME TypeOK, Reserved, [Next]_vars
    PROVE  Reserved'
<1> USE DEF Reserved, TypeOK
<1>1. CASE UNCHANGED <<pc, current, owner, step>>
  BY <1>1
<1>2. CASE UNCHANGED vars \/ Die \/ \E t \in Transfers : Connect(t)
  BY <1>1, <1>2 DEF vars, Die, Connect, thread, command, handler
<1>3. ASSUME NEW s \in Sessions, Run(s) \/ Exit(s) PROVE Reserved'
  BY <1>3 DEF Run, Exit, GetCreate, GetUndo, GetCheck, PutUndo, Become, command, handler
<1>4. ASSUME NEW s \in Sessions, NEW t \in Transfers, GetStart(s, t) \/ Put(s, t) PROVE Reserved'
  BY <1>4 DEF GetStart, Put, Fresh, Become, command
<1>5. ASSUME NEW t \in Transfers, Handle(t) \/ AcceptFails(t) \/ Copy(t) \/ ReadFails(t)
      PROVE  Reserved'
  <2>1. /\ UNCHANGED <<pc, current, owner>>
        /\ \A u \in Transfers : step[u] = "reserved" => step'[u] = "reserved"
    BY <1>5 DEF Handle, Signal, Examine, Probe, Claim, Bind, Tell, Accept, AcceptFails, Copy,
                ReadFails, Free, Close, Advance, thread, command
  <2> QED BY <2>1
<1> QED BY <1>2, <1>3, <1>4, <1>5 DEF Next

(* The answers a transfer may have had, and how they grow.                 *)
LEMMA AnswerSequences ==
    /\ Append(<<>>, "error") = <<"error">> /\ Append(<<>>, "port") = <<"port">>
    /\ Append(<<"port">>, "error") = <<"port", "error">>
    /\ <<>> # <<"error">> /\ <<>> # <<"port">> /\ <<"error">> # <<"port">>
    /\ <<>> # <<"port", "error">> /\ <<"port">> # <<"port", "error">>
    /\ <<"error">> # <<"port", "error">>
<1>1. Append(<<>>, "error") = <<"error">>
  OBVIOUS
<1>2. Append(<<>>, "port") = <<"port">>
  OBVIOUS
<1>3. Append(<<"port">>, "error") = <<"port", "error">>
  <2> DEFINE said == Append(<<"port">>, "error")
             both == <<"port", "error">>
  <2>1. <<"port">> \in Seq({"port", "error"}) /\ both \in Seq({"port", "error"})
    OBVIOUS
  <2>2. said \in Seq({"port", "error"}) /\ Len(said) = 2 /\ said[1] = "port" /\ said[2] = "error"
    BY <2>1
  <2>3. Len(both) = 2 /\ both[1] = "port" /\ both[2] = "error"
    OBVIOUS
  <2>4. \A i \in 1..2 : i = 1 \/ i = 2
    OBVIOUS
  <2> HIDE DEF said, both
  <2>5. said = both
    BY <2>1, <2>2, <2>3, <2>4, SeqEqual
  <2> QED BY <2>5 DEF said, both
<1>4. /\ Len(<<>>) = 0 /\ Len(<<"error">>) = 1 /\ Len(<<"port">>) = 1
      /\ Len(<<"port", "error">>) = 2
  OBVIOUS
<1>5. <<"error">>[1] = "error" /\ <<"port">>[1] = "port"
  OBVIOUS
<1> QED BY <1>1, <1>2, <1>3, <1>4, <1>5

LEMMA AnswerGrows ==
    ASSUME HandlerTypes, NEW t \in Transfers, NEW what \in {"port", "error"}, Answer(t, what)
    PROVE  /\ answers' \in [Transfers -> Seq({"port", "error"})]
           /\ \/ answers' = answers /\ pc[owner[t]] = "gone"
              \/ answers'[t] = Append(answers[t], what) /\ answers' # answers
           /\ \A u \in Transfers : u # t => answers'[u] = answers[u]
<1>1. answers[t] \in Seq({"port", "error"}) /\ answers \in [Transfers -> Seq({"port", "error"})]
  BY DEF HandlerTypes
<1>2. /\ Append(answers[t], what) \in Seq({"port", "error"})
      /\ Append(answers[t], what) # answers[t]
  <2>1. Len(Append(answers[t], what)) = Len(answers[t]) + 1 /\ Len(answers[t]) \in Nat
    BY <1>1
  <2> QED BY <1>1, <2>1
<1>3. \/ answers' = answers /\ pc[owner[t]] = "gone"
      \/ answers' = [answers EXCEPT ![t] = Append(@, what)]
  BY DEF Answer
<1> HIDE DEF Transfers
<1> QED BY <1>1, <1>2, <1>3

(* A search only ever goes up.                                             *)
LEMMA ProbePorts ==
    ASSUME HandlerTypes, NEW t \in Transfers, Probe(t)
    PROVE  /\ port' \in [Transfers -> Nat]
           /\ \A u \in Transfers : /\ u # t => port'[u] = port[u]
                                   /\ port[u] \in Nat /\ port'[u] \in Nat /\ port'[u] >= port[u]
<1>1. port \in [Transfers -> Nat]
  BY DEF HandlerTypes
<1>2. port' = port \/ port' = [port EXCEPT ![t] = @ + 1]
  BY DEF Probe
<1>3. CASE port' = port
  BY <1>1, <1>3
<1>4. CASE port' = [port EXCEPT ![t] = @ + 1]
  <2>1. port[t] \in Nat /\ port[t] + 1 \in Nat /\ port[t] + 1 >= port[t]
    BY <1>1
  <2>2. port'[t] = port[t] + 1 /\ \A u \in Transfers : u # t => port'[u] = port[u]
    BY <1>1, <1>4
  <2>3. port' \in [Transfers -> Nat]
    BY <1>1, <1>4, <2>1
  <2> QED BY <1>1, <2>1, <2>2, <2>3
<1> QED BY <1>2, <1>3, <1>4

LEMMA HandlerTypesNext == HandlerTypes /\ [Next]_vars => HandlerTypes'
<1> SUFFICES ASSUME HandlerTypes, [Next]_vars PROVE HandlerTypes'
  OBVIOUS
<1> DEFINE Same == UNCHANGED <<kind, port, fd, peer, listening, shared, queue, answers, client>>
<1>1. CASE Same
  BY <1>1 DEF HandlerTypes
<1>2. CASE Die \/ UNCHANGED vars \/ \E s \in Sessions : Run(s) \/ Exit(s)
  <2>1. Same
    BY <1>2 DEF Die, vars, Run, GetCreate, GetUndo, GetCheck, PutUndo, Exit, command, handler, sockets
  <2> QED BY <1>1, <2>1
<1>3. ASSUME NEW s \in Sessions, NEW t \in Transfers, GetStart(s, t) \/ Put(s, t) PROVE HandlerTypes'
  <2>1. UNCHANGED <<port, fd, peer, listening, shared, queue, answers, client>>
    BY <1>3 DEF GetStart, Put, sockets
  <2>2. kind' \in [Transfers -> {"get", "put"}]
    BY <1>3 DEF GetStart, Put, command, HandlerTypes
  <2> QED BY <2>1, <2>2 DEF HandlerTypes
<1>4. ASSUME NEW t \in Transfers, Signal(t) \/ Claim(t) \/ Copy(t) \/ Free(t) PROVE HandlerTypes'
  <2>1. Same
    BY <1>4 DEF Signal, Claim, Copy, Free, command, sockets
  <2> QED BY <1>1, <2>1
<1>5. ASSUME NEW t \in Transfers, Examine(t) \/ AcceptFails(t) \/ ReadFails(t) PROVE HandlerTypes'
  <2>1. UNCHANGED <<kind, port, fd, peer, listening, shared, queue, client>>
    BY <1>5 DEF Examine, AcceptFails, ReadFails, command, sockets
  <2>2. answers' = answers \/ Answer(t, "error")
    BY <1>5 DEF Examine, AcceptFails, ReadFails
  <2>3. answers' \in [Transfers -> Seq({"port", "error"})]
    BY <2>2, AnswerGrows DEF HandlerTypes
  <2> QED BY <2>1, <2>3 DEF HandlerTypes
<1>6. ASSUME NEW t \in Transfers, Probe(t) PROVE HandlerTypes'
  <2>1. UNCHANGED <<kind, peer, listening, shared, queue, answers, client>>
    BY <1>6 DEF Probe, command, sockets
  <2>2. port' \in [Transfers -> Nat]
    BY <1>6, ProbePorts
  <2>3. fd' \in [Transfers -> 0..MaxTransfers]
    <3>1. fd \in [Transfers -> 0..MaxTransfers] /\ Transfers \subseteq 0..MaxTransfers
      BY TransferAssumption DEF HandlerTypes, Transfers
    <3>2. fd' = fd \/ \E u \in {0} \cup Transfers : fd' = [fd EXCEPT ![t] = u]
      BY <1>6 DEF Probe
    <3> QED BY <3>1, <3>2, TransferAssumption
  <2> QED BY <2>1, <2>2, <2>3 DEF HandlerTypes
<1>7. ASSUME NEW t \in Transfers, Bind(t) PROVE HandlerTypes'
  <2>1. UNCHANGED <<kind, port, peer, queue, client>>
    BY <1>7 DEF Bind, command
  <2>2. fd' = fd \/ fd' = [fd EXCEPT ![t] = t]
    BY <1>7 DEF Bind
  <2>3. fd' \in [Transfers -> 0..MaxTransfers]
    <3>1. fd \in [Transfers -> 0..MaxTransfers] /\ t \in 0..MaxTransfers
      BY TransferAssumption DEF HandlerTypes, Transfers
    <3> QED BY <2>2, <3>1
  <2>4. listening' \in [Transfers -> BOOLEAN] /\ shared' \in BOOLEAN
    BY <1>7 DEF Bind, HandlerTypes
  <2>5. answers' = answers \/ Answer(t, "error")
    BY <1>7 DEF Bind
  <2>6. answers' \in [Transfers -> Seq({"port", "error"})]
    BY <2>5, AnswerGrows DEF HandlerTypes
  <2> QED BY <2>1, <2>3, <2>4, <2>6 DEF HandlerTypes
<1>8. ASSUME NEW t \in Transfers, Tell(t) PROVE HandlerTypes'
  <2>1. UNCHANGED <<kind, port, fd, peer, listening, shared, queue>>
    BY <1>8 DEF Tell, command
  <2>2. answers' \in [Transfers -> Seq({"port", "error"})]
    BY <1>8, AnswerGrows DEF Tell
  <2>3. client' \in [Transfers -> {"none", "told", "connected", "refused"}]
    BY <1>8 DEF Tell, HandlerTypes
  <2> QED BY <2>1, <2>2, <2>3 DEF HandlerTypes
<1>9. ASSUME NEW t \in Transfers, Accept(t) PROVE HandlerTypes'
  <2> DEFINE u == fd[t]
  <2>1. u \in Transfers
    BY <1>9 DEF Accept, HandlerTypes, Transfers
  <2>2. queue[u] \in Seq(Transfers) /\ queue[u] # <<>>
    BY <1>9, <2>1 DEF Accept, HandlerTypes
  <2>3. Head(queue[u]) \in 0..MaxTransfers /\ Tail(queue[u]) \in Seq(Transfers)
    <3>1. Head(queue[u]) \in Transfers /\ Tail(queue[u]) \in Seq(Transfers)
      BY <2>2
    <3> QED BY <3>1, TransferAssumption DEF Transfers
  <2>4. peer' = [peer EXCEPT ![t] = Head(queue[u])] /\ queue' = [queue EXCEPT ![u] = Tail(@)]
        /\ UNCHANGED <<kind, port, fd, listening, shared, answers, client>>
    BY <1>9 DEF Accept, command
  <2> QED BY <2>3, <2>4 DEF HandlerTypes
<1>10. ASSUME NEW t \in Transfers, Close(t) PROVE HandlerTypes'
  <2>1. UNCHANGED <<kind, port, fd, peer, shared, answers, client>>
    BY <1>10 DEF Close, command
  <2>2. listening' \in [Transfers -> BOOLEAN]
    BY <1>10 DEF Close, HandlerTypes
  <2>3. \A u \in Transfers : queue[u] \in Seq(Transfers) /\ <<>> \in Seq(Transfers)
    BY DEF HandlerTypes
  <2>4. queue' \in [Transfers -> Seq(Transfers)]
    BY <1>10, <2>3 DEF Close
  <2> QED BY <2>1, <2>2, <2>4 DEF HandlerTypes
<1>11. ASSUME NEW t \in Transfers, Connect(t) PROVE HandlerTypes'
  <2>1. UNCHANGED <<kind, port, fd, peer, listening, shared, answers>>
    BY <1>11 DEF Connect, command, handler
  <2>2. client' \in [Transfers -> {"none", "told", "connected", "refused"}]
    BY <1>11 DEF Connect, HandlerTypes
  <2>3. \A u \in Transfers : Append(queue[u], t) \in Seq(Transfers)
    BY DEF HandlerTypes
  <2>4. queue' \in [Transfers -> Seq(Transfers)]
    BY <1>11, <2>3 DEF Connect, HandlerTypes
  <2> QED BY <2>1, <2>2, <2>4 DEF HandlerTypes
<1> QED BY <1>2, <1>3, <1>4, <1>5, <1>6, <1>7, <1>8, <1>9, <1>10, <1>11 DEF Next, Handle

(* A step after which each transfer has the answers it had, and may have   *)
(* them where it is.                                                       *)
Unsaid ==
    /\ answers' = answers /\ owner' = owner
    /\ \A s \in Sessions : pc[s] = "gone" => pc'[s] = "gone"
    /\ \A t \in Transfers :
          /\ kind'[t] = kind[t] \/ step[t] = "unused"
          /\ peer'[t] = peer[t] \/ (step[t] = "accept" /\ step'[t] = "copy")
          /\ \/ step'[t] = step[t]
             \/ step[t] \in Unanswered /\ step'[t] \in Unanswered \cup {"done"}
             \/ step[t] = "accept" /\ step'[t] = "copy"
             \/ step[t] \in {"copy", "free", "close"} /\ step'[t] \in {"free", "close", "done"}

LEMMA UnsaidKeeps ==
    ASSUME TypeOK, Unsaid, \A t \in Transfers : AnswerState(t)
    PROVE  \A t \in Transfers : AnswerState(t)'
<1> SUFFICES ASSUME NEW t \in Transfers, AnswerState(t) PROVE AnswerState(t)'
  OBVIOUS
<1>1. \/ step'[t] = step[t]
      \/ step[t] \in Unanswered /\ step'[t] \in Unanswered \cup {"done"}
      \/ step[t] = "accept" /\ step'[t] = "copy"
      \/ step[t] \in {"copy", "free", "close"} /\ step'[t] \in {"free", "close", "done"}
  BY DEF Unsaid
<1>2. /\ answers'[t] = answers[t]
      /\ kind'[t] = kind[t] \/ step[t] = "unused"
      /\ peer'[t] = peer[t] \/ (step[t] = "accept" /\ step'[t] = "copy")
      /\ pc[owner[t]] = "gone" => pc'[owner'[t]] = "gone"
  BY DEF Unsaid, TypeOK
<1> QED BY <1>1, <1>2 DEF AnswerState, Unanswered

(* One that leaves descriptors and sockets alone as well.                  *)
Quiet ==
    /\ Unsaid
    /\ UNCHANGED <<port, fd, listening>>
    /\ \A t \in Transfers : step'[t] = "tell" => step[t] = "tell"

LEMMA QuietKeeps == TypeOK /\ AnswerInv /\ HandlerTypes' /\ Reserved' /\ Quiet => AnswerInv'
<1> SUFFICES ASSUME TypeOK, AnswerInv, HandlerTypes', Reserved', Quiet PROVE AnswerInv'
  OBVIOUS
<1>1. \A t \in Transfers : AnswerState(t)'
  BY UnsaidKeeps DEF AnswerInv, Quiet
<1>2. ASSUME NEW t \in Transfers, SocketState(t) PROVE SocketState(t)'
  BY <1>2 DEF SocketState, Unanswered, Quiet, Unsaid
<1>3. Exhausted => Exhausted'
  BY DEF Exhausted, Quiet
<1> QED BY <1>1, <1>2, <1>3 DEF AnswerInv

LEMMA SessionQuiet ==
    ASSUME TypeOK, HandlerTypes, Reserved, NEW s \in Sessions,
           Run(s) \/ Exit(s) \/ \E t \in Transfers : GetStart(s, t) \/ Put(s, t)
    PROVE  Quiet
<1> USE DEF Become, TypeOK, Unanswered, Quiet, Unsaid, command, handler, sockets
<1>1. CASE GetCreate(s)
  BY <1>1 DEF GetCreate, Reserved
<1>2. CASE GetUndo(s) \/ GetCheck(s) \/ PutUndo(s) \/ Exit(s)
  BY <1>2 DEF GetUndo, GetCheck, PutUndo, Exit
<1>3. ASSUME NEW t \in Transfers, GetStart(s, t) PROVE Quiet
  BY <1>3 DEF GetStart, Fresh
<1>4. ASSUME NEW t \in Transfers, Put(s, t) PROVE Quiet
  BY <1>4 DEF Put, Fresh, HandlerTypes
<1> QED BY <1>1, <1>2, <1>3, <1>4 DEF Run

LEMMA HandlerQuiet ==
    ASSUME TypeOK, HandlerTypes, NEW t \in Transfers,
           Signal(t) \/ Claim(t) \/ Accept(t) \/ Copy(t) \/ Free(t)
               \/ (Examine(t) /\ step'[t] # "done")
    PROVE  Quiet
<1> USE DEF Advance, TypeOK, Unanswered, Quiet, Unsaid, thread, command, sockets
<1>1. CASE Accept(t)
  BY <1>1 DEF Accept, HandlerTypes
<1>2. CASE Signal(t) \/ Claim(t) \/ Copy(t) \/ Free(t)
  BY <1>2 DEF Signal, Claim, Copy, Free
<1>3. CASE Examine(t) /\ step'[t] # "done"
  BY <1>3 DEF Examine
<1> QED BY <1>1, <1>2, <1>3

(* A handler answers: its first answer, or an error after its port.        *)
Says(t) ==
    /\ UNCHANGED <<pc, owner, kind, port, fd, peer, listening>>
    /\ step' = [step EXCEPT ![t] = step'[t]]
    /\ \/ step[t] \in {"examine", "bind"} /\ step'[t] = "done" /\ Answer(t, "error")
       \/ step[t] = "tell" /\ step'[t] = "accept" /\ Answer(t, "port")
       \/ step[t] = "accept" /\ step'[t] = "done" /\ Answer(t, "error")
       \/ step[t] = "copy" /\ step'[t] = "free" /\ kind[t] = "get" /\ Answer(t, "error")

LEMMA SaysKeeps ==
    ASSUME TypeOK, AnswerInv, HandlerTypes', Reserved', NEW t \in Transfers, Says(t)
    PROVE  AnswerInv'
<1> USE DEF Says
<1>1. HandlerTypes /\ \A u \in Transfers : AnswerState(u)
  BY DEF AnswerInv
<1>2. PICK what \in {"port", "error"} : Answer(t, what)
  OBVIOUS
<1>3. \A u \in Transfers : u # t => step'[u] = step[u] /\ answers'[u] = answers[u]
  BY <1>1, <1>2, AnswerGrows DEF TypeOK
<1>4. ASSUME NEW u \in Transfers, u # t PROVE AnswerState(u)'
  BY <1>1, <1>3, <1>4 DEF AnswerState
<1>5. AnswerState(t)'
  <2>1. AnswerState(t)
    BY <1>1
  <2>2. CASE step[t] \in {"examine", "bind"} /\ step'[t] = "done" /\ Answer(t, "error")
    <3>1. answers[t] = <<>> /\ peer[t] = 0
      BY <2>1, <2>2 DEF AnswerState, Unanswered
    <3>2. answers'[t] \in {<<>>, <<"error">>}
      BY <1>1, <2>2, <3>1, AnswerGrows, AnswerSequences
    <3> QED BY <2>2, <3>1, <3>2 DEF AnswerState, Unanswered
  <2>3. CASE step[t] = "tell" /\ step'[t] = "accept" /\ Answer(t, "port")
    <3>1. answers[t] = <<>> /\ peer[t] = 0
      BY <2>1, <2>3 DEF AnswerState, Unanswered
    <3>2. answers'[t] = <<"port">> \/ (answers'[t] = <<>> /\ pc[owner[t]] = "gone")
      BY <1>1, <2>3, <3>1, AnswerGrows, AnswerSequences
    <3> QED BY <2>3, <3>1, <3>2 DEF AnswerState, Unanswered
  <2>4. CASE step[t] \in {"accept", "copy"} /\ step'[t] \in {"done", "free"} /\ Answer(t, "error")
             /\ (step[t] = "copy" => kind[t] = "get")
    <3>1. answers[t] \in {<<>>, <<"port">>} /\ (step[t] = "accept" => peer[t] = 0)
      BY <2>1, <2>4 DEF AnswerState
    <3>2. answers'[t] \in {<<>>, <<"error">>, <<"port">>, <<"port", "error">>}
      BY <1>1, <2>4, <3>1, AnswerGrows, AnswerSequences
    <3> QED BY <2>4, <3>1, <3>2 DEF AnswerState, Unanswered
  <2> QED BY <2>2, <2>3, <2>4
<1>6. ASSUME NEW u \in Transfers, SocketState(u) PROVE SocketState(u)'
  BY <1>3, <1>6 DEF SocketState
<1>7. Exhausted => Exhausted'
  BY DEF Exhausted
<1> QED BY <1>4, <1>5, <1>6, <1>7 DEF AnswerInv

LEMMA HandlerSays ==
    ASSUME TypeOK, NEW t \in Transfers,
           \/ (Examine(t) \/ Bind(t)) /\ step'[t] = "done"
           \/ Tell(t) \/ AcceptFails(t) \/ ReadFails(t)
    PROVE  Says(t)
<1> USE DEF TypeOK, Advance, Says, thread, command, sockets
<1>1. CASE Examine(t) /\ step'[t] = "done"
  BY <1>1 DEF Examine
<1>2. CASE Bind(t) /\ step'[t] = "done"
  BY <1>2 DEF Bind
<1>3. CASE Tell(t) \/ AcceptFails(t) \/ ReadFails(t)
  BY <1>3 DEF Tell, AcceptFails, ReadFails
<1> QED BY <1>1, <1>2, <1>3

(* A search that goes past the last port says nothing more of sockets.     *)
LEMMA ProbeKeeps ==
    ASSUME TypeOK, AnswerInv, HandlerTypes', Reserved', NEW t \in Transfers, Probe(t)
    PROVE  AnswerInv'
<1> USE DEF TypeOK, Advance
<1>1. Unsaid /\ listening' = listening
  BY DEF Probe, Unsaid, Unanswered, thread, command, sockets
<1>2. \A u \in Transfers : AnswerState(u)'
  BY <1>1, UnsaidKeeps DEF AnswerInv
<1>3. \A u \in Transfers : port[u] \in Nat /\ port'[u] \in Nat /\ port'[u] >= port[u]
  BY ProbePorts DEF AnswerInv
<1>4. Exhausted => Exhausted'
  BY <1>3, TransferAssumption DEF Exhausted
<1>5. CASE port[t] > MaxPort
  BY <1>2, <1>4, <1>5 DEF AnswerInv, Exhausted
<1>6. CASE ~(port[t] > MaxPort)
  <2>1. fd' = fd /\ step[t] = "probe" /\ step' = [step EXCEPT ![t] = step'[t]]
        /\ step'[t] \in {"bind", "claim", "probe"}
    BY <1>6 DEF Probe
  <2>2. ASSUME NEW u \in Transfers, SocketState(u) PROVE SocketState(u)'
    BY <1>1, <2>1, <2>2 DEF SocketState
  <2> QED BY <1>2, <1>4, <2>2 DEF AnswerInv
<1> QED BY <1>5, <1>6

LEMMA BindKeeps ==
    ASSUME TypeOK, AnswerInv, HandlerTypes', Reserved', NEW t \in Transfers, Bind(t), step'[t] # "done"
    PROVE  AnswerInv'
<1>1. /\ step[t] = "bind" /\ step' = [step EXCEPT ![t] = "tell"]
      /\ fd' = [fd EXCEPT ![t] = t] /\ listening' = [listening EXCEPT ![t] = TRUE]
      /\ UNCHANGED <<pc, owner, kind, port, peer, answers>>
  BY DEF Bind, Advance, TypeOK, thread, command
<1>2. Unsaid
  BY <1>1 DEF Unsaid, Unanswered, TypeOK
<1>3. \A u \in Transfers : AnswerState(u)'
  BY <1>2, UnsaidKeeps DEF AnswerInv
<1>4. ASSUME NEW u \in Transfers, SocketState(u) PROVE SocketState(u)'
  BY <1>1, <1>4 DEF SocketState, AnswerInv, HandlerTypes, TypeOK
<1>5. Exhausted => Exhausted'
  BY <1>1 DEF Exhausted
<1> QED BY <1>3, <1>4, <1>5 DEF AnswerInv

(* A handler closes its own socket.                                        *)
LEMMA CloseKeeps ==
    ASSUME TypeOK, AnswerInv, HandlerTypes', Reserved', NEW t \in Transfers, Close(t)
    PROVE  AnswerInv'
<1>1. /\ step[t] = "close" /\ step' = [step EXCEPT ![t] = "done"]
      /\ UNCHANGED <<pc, owner, kind, port, fd, peer, answers>>
      /\ listening' = [u \in Transfers |-> listening[u] /\ u # fd[t]]
  BY DEF Close, Advance, thread, command
<1>2. Unsaid
  BY <1>1 DEF Unsaid, TypeOK
<1>3. \A u \in Transfers : AnswerState(u)'
  BY <1>2, UnsaidKeeps DEF AnswerInv
<1>4. ASSUME \A u \in Transfers : SocketState(u), NEW u \in Transfers PROVE SocketState(u)'
  <2>1. fd[t] = t
    BY <1>1, <1>4 DEF SocketState
  <2>2. CASE u # t
    BY <1>1, <1>4, <2>1, <2>2 DEF SocketState, TypeOK
  <2>3. CASE u = t
    BY <1>1, <2>3 DEF SocketState, TypeOK
  <2> QED BY <2>2, <2>3
<1>5. Exhausted => Exhausted'
  BY <1>1 DEF Exhausted
<1> QED BY <1>3, <1>4, <1>5 DEF AnswerInv

LEMMA AnswerNext == TransferInv /\ AnswerInv /\ [Next]_vars => AnswerInv'
<1> SUFFICES ASSUME TransferInv, AnswerInv, [Next]_vars PROVE AnswerInv'
  OBVIOUS
<1>1. TypeOK /\ HandlerTypes /\ Reserved /\ HandlerTypes' /\ Reserved'
  BY ReservedNext, HandlerTypesNext DEF TransferInv, AnswerInv
<1>2. CASE UNCHANGED vars \/ Die \/ \E t \in Transfers : Connect(t)
  <2>1. Quiet
    BY <1>2 DEF vars, Die, Connect, thread, command, handler, sockets, Quiet, Unsaid
  <2> QED BY <1>1, <2>1, QuietKeeps
<1>3. ASSUME NEW s \in Sessions, Run(s) \/ Exit(s) PROVE AnswerInv'
  BY <1>1, <1>3, SessionQuiet, QuietKeeps
<1>4. ASSUME NEW s \in Sessions, NEW t \in Transfers, GetStart(s, t) \/ Put(s, t)
      PROVE  AnswerInv'
  BY <1>1, <1>4, SessionQuiet, QuietKeeps
<1>5. ASSUME NEW t \in Transfers, Handle(t) \/ AcceptFails(t) \/ Copy(t) \/ ReadFails(t)
      PROVE  AnswerInv'
  BY <1>1, <1>5, HandlerQuiet, QuietKeeps, HandlerSays, SaysKeeps, ProbeKeeps, BindKeeps,
     CloseKeeps DEF Handle
<1> QED BY <1>2, <1>3, <1>4, <1>5 DEF Next

(* For any number of transfers and of ports, however the search, the       *)
(* binding, accept and the reads go: a transfer is answered with an error  *)
(* or its port, then with nothing but one error.                           *)
THEOREM AnswersAreInOrder == Spec => []AnswersInOrder
<1>1. AnswerInv => AnswersInOrder
  BY DEF AnswerInv, AnswerState, AnswersInOrder
<1> QED BY TransferInit, TransferNext, AnswerInit, AnswerNext, <1>1, PTL DEF Spec
-----------------------------------------------------------------------------
(* Whose client a handler serves.                                          *)

LEMMA RouteInit == Init => RouteInv
<1> SUFFICES ASSUME Init PROVE PortsDiffer /\ \A t \in Transfers : OwnClient(t)
  BY DEF RouteInv
<1> QED BY DEF Init, PortsDiffer, OwnClient

(* What has been mixed up once remains so.                                 *)
LEMMA MixedStays ==
    ASSUME TypeOK, AnswerInv, [Next]_vars, Mixed
    PROVE  Mixed'
<1>1. \A t \in Transfers : port'[t] >= port[t] /\ port[t] \in Nat /\ port'[t] \in Nat
  <2>1. CASE UNCHANGED port
    BY <2>1 DEF AnswerInv, HandlerTypes
  <2>2. CASE \E t \in Transfers : Probe(t)
    BY <2>2, ProbePorts DEF AnswerInv
  <2>3. CASE \/ Die \/ UNCHANGED vars
             \/ \E t \in Transfers : Connect(t) \/ AcceptFails(t) \/ Copy(t) \/ ReadFails(t)
    BY <2>1, <2>3 DEF Die, vars, Connect, AcceptFails, Copy, ReadFails, handler
  <2>4. CASE \E s \in Sessions : Run(s) \/ Exit(s) \/ \E t \in Transfers : GetStart(s, t) \/ Put(s, t)
    BY <2>1, <2>4 DEF Run, GetCreate, GetUndo, GetCheck, PutUndo, Exit, GetStart, Put, handler
  <2>5. CASE \E t \in Transfers : Handle(t) /\ ~Probe(t)
    BY <2>1, <2>5 DEF Handle, Signal, Examine, Claim, Bind, Tell, Accept, Free, Close
  <2> QED BY <2>2, <2>3, <2>4, <2>5 DEF Next
<1>2. shared => shared'
  <2>1. CASE UNCHANGED shared
    BY <2>1
  <2>2. CASE \/ Die \/ UNCHANGED vars
             \/ \E t \in Transfers : Connect(t) \/ AcceptFails(t) \/ Copy(t) \/ ReadFails(t)
    BY <2>1, <2>2 DEF Die, vars, Connect, AcceptFails, Copy, ReadFails, sockets
  <2>3. CASE \E s \in Sessions : Run(s) \/ Exit(s) \/ \E t \in Transfers : GetStart(s, t) \/ Put(s, t)
    BY <2>1, <2>3 DEF Run, GetCreate, GetUndo, GetCheck, PutUndo, Exit, GetStart, Put, sockets
  <2>4. CASE \E t \in Transfers : Handle(t)
    BY <2>1, <2>4 DEF Handle, Signal, Examine, Probe, Claim, Bind, Tell, Accept, Free, Close, sockets
  <2> QED BY <2>2, <2>3, <2>4 DEF Next
<1>3. Exhausted => Exhausted'
  BY <1>1, TransferAssumption DEF Exhausted
<1> QED BY <1>2, <1>3 DEF Mixed

Routed == PortsDiffer /\ \A t \in Transfers : OwnClient(t)

Told == {<<"port">>, <<"port", "error">>}

(* Whoever has been told a port has been told it, whatever follows.        *)
LEMMA ToldStays ==
    ASSUME AnswerInv, NEW t \in Transfers, Says(t)
    PROVE  \A u \in Transfers : answers[u] \in Told => answers'[u] \in Told
<1>1. HandlerTypes /\ AnswerState(t)
  BY DEF AnswerInv
<1>2. PICK what \in {"port", "error"} : Answer(t, what)
  BY DEF Says
<1>3. \A u \in Transfers : u # t => answers'[u] = answers[u]
  BY <1>1, <1>2, AnswerGrows
<1>4. ASSUME answers[t] \in Told PROVE answers'[t] \in Told
  <2>1. answers[t] = <<"port">> /\ Answer(t, "error")
    BY <1>1, <1>4, AnswerSequences DEF Says, AnswerState, Told, Unanswered
  <2> QED BY <1>1, <2>1, AnswerGrows, AnswerSequences DEF Told
<1> QED BY <1>3, <1>4

(* A step that leaves the sockets and their clients alone.                 *)
OwnStill ==
    /\ UNCHANGED <<listening, shared, queue, client, peer>>
    /\ \A t \in Transfers :
          /\ port'[t] # port[t] => step[t] = "probe"
          /\ answers[t] \in Told => answers'[t] \in Told
          /\ \/ step'[t] = step[t]
             \/ step[t] \in Unanswered \ {"tell"} /\ step'[t] \in (Unanswered \ {"tell"}) \cup {"done"}
             \/ step[t] = "accept" /\ step'[t] = "done"
             \/ step[t] \in {"copy", "free"} /\ step'[t] \in {"free", "close", "done"}

LEMMA StillRouted == Routed /\ OwnStill => Routed'
<1> SUFFICES ASSUME Routed, OwnStill PROVE Routed'
  OBVIOUS
<1>1. PortsDiffer'
  <2>1. \A t \in Transfers : listening[t] => port'[t] = port[t]
    BY DEF Routed, OwnClient, OwnStill
  <2> QED BY <2>1 DEF Routed, PortsDiffer, OwnStill
<1>2. ASSUME NEW t \in Transfers PROVE OwnClient(t)'
  <2>1. OwnClient(t)
    BY DEF Routed
  <2> QED BY <2>1 DEF OwnClient, OwnStill, Unanswered, Told
<1> QED BY <1>1, <1>2 DEF Routed

LEMMA StepsStill ==
    ASSUME TypeOK, AnswerInv, ~Mixed',
           \/ \E s \in Sessions : Run(s) \/ Exit(s) \/ \E t \in Transfers : GetStart(s, t) \/ Put(s, t)
           \/ \E t \in Transfers : Signal(t) \/ Examine(t) \/ Probe(t) \/ Claim(t) \/ Copy(t) \/ Free(t)
           \/ \E t \in Transfers : AcceptFails(t) \/ ReadFails(t) \/ (Bind(t) /\ step'[t] = "done")
           \/ Die \/ UNCHANGED vars
    PROVE  OwnStill
<1> USE DEF OwnStill, TypeOK
<1>1. ASSUME NEW s \in Sessions, Run(s) \/ Exit(s) \/ \E t \in Transfers : GetStart(s, t) \/ Put(s, t)
      PROVE  OwnStill
  <2>1. UNCHANGED <<sockets, peer, port, answers>>
    BY <1>1 DEF Run, GetCreate, GetUndo, GetCheck, PutUndo, Exit, GetStart, Put, handler
  <2>2. CASE GetCreate(s)
    BY <2>1, <2>2 DEF GetCreate, Become, AnswerInv, Reserved, sockets, Unanswered
  <2>3. CASE GetUndo(s) \/ GetCheck(s) \/ PutUndo(s) \/ Exit(s)
    BY <2>1, <2>3 DEF GetUndo, GetCheck, PutUndo, Exit, handler, sockets
  <2>4. CASE \E t \in Transfers : GetStart(s, t) \/ Put(s, t)
    BY <2>1, <2>4 DEF GetStart, Put, Fresh, Become, sockets, Unanswered
  <2> QED BY <1>1, <2>2, <2>3, <2>4 DEF Run
<1>2. ASSUME NEW t \in Transfers, Signal(t) \/ Claim(t) \/ Copy(t) \/ Free(t) PROVE OwnStill
  BY <1>2 DEF Signal, Claim, Copy, Free, Advance, sockets, Unanswered
<1>3. ASSUME NEW t \in Transfers, Says(t), step[t] # "tell",
             UNCHANGED <<shared, queue, client>>
      PROVE  OwnStill
  <2>1. \A u \in Transfers : answers[u] \in Told => answers'[u] \in Told
    BY <1>3, ToldStays
  <2>2. /\ UNCHANGED <<listening, port, peer>> /\ step' = [step EXCEPT ![t] = step'[t]]
        /\ \/ step[t] \in {"examine", "bind", "accept"} /\ step'[t] = "done"
           \/ step[t] = "copy" /\ step'[t] = "free"
    BY <1>3 DEF Says
  <2> QED BY <1>3, <2>1, <2>2 DEF Unanswered
<1>4. ASSUME NEW t \in Transfers, Probe(t) PROVE OwnStill
  <2>1. UNCHANGED <<sockets, peer, answers>> /\ step[t] = "probe"
        /\ \A u \in Transfers : u # t => port'[u] = port[u]
    BY <1>4, ProbePorts DEF Probe, Advance, AnswerInv
  <2>2. ~(port[t] > MaxPort)
    <3>1. port'[t] <= MaxPort /\ port[t] \in Nat /\ port'[t] \in Nat /\ port'[t] >= port[t]
      <4>1. port[t] \in Nat /\ port'[t] \in Nat /\ port'[t] >= port[t] /\ ~(port'[t] > MaxPort)
        BY <1>4, ProbePorts DEF Mixed, Exhausted, AnswerInv
      <4> QED BY <4>1, TransferAssumption
    <3> QED BY <3>1, TransferAssumption
  <2>3. step' = [step EXCEPT ![t] = step'[t]] /\ step'[t] \in {"bind", "claim", "probe"}
    BY <1>4, <2>2 DEF Probe, Advance
  <2> QED BY <2>1, <2>3 DEF sockets, Unanswered
<1>5. ASSUME NEW t \in Transfers,
             ((Examine(t) \/ Bind(t)) /\ step'[t] = "done") \/ AcceptFails(t) \/ ReadFails(t)
      PROVE  OwnStill
  <2>1. Says(t) /\ step[t] # "tell"
    BY <1>5, HandlerSays DEF Examine, Bind, AcceptFails, ReadFails, Advance
  <2>2. UNCHANGED <<shared, queue, client>>
    BY <1>5 DEF Examine, Bind, AcceptFails, ReadFails, Advance, sockets
  <2> QED BY <1>3, <2>1, <2>2
<1>6. ASSUME NEW t \in Transfers, Examine(t), step'[t] # "done" PROVE OwnStill
  BY <1>6 DEF Examine, Advance, sockets, Unanswered
<1>7. CASE Die \/ UNCHANGED vars
  BY <1>7 DEF Die, vars, handler, sockets
<1> QED BY <1>1, <1>2, <1>4, <1>5, <1>6, <1>7

(* The port is nobody else's, or it would be shared.                       *)
LEMMA BindRouted ==
    ASSUME TypeOK, AnswerInv, Routed, ~Mixed', NEW t \in Transfers, Bind(t), step'[t] # "done"
    PROVE  Routed'
<1>1. /\ step[t] = "bind" /\ step' = [step EXCEPT ![t] = "tell"]
      /\ listening' = [listening EXCEPT ![t] = TRUE]
      /\ \A u \in Transfers \ {t} : ~(listening[u] /\ port[u] = port[t])
      /\ UNCHANGED <<port, queue, client, peer, answers>>
  BY DEF Bind, Advance, Mixed, TypeOK
<1>2. PortsDiffer'
  BY <1>1 DEF Routed, PortsDiffer, AnswerInv, HandlerTypes
<1>3. ASSUME NEW u \in Transfers PROVE OwnClient(u)'
  BY <1>1 DEF Routed, OwnClient, Unanswered, AnswerInv, HandlerTypes, TypeOK
<1> QED BY <1>2, <1>3 DEF Routed

(* The descriptor is the handler's own socket.                             *)
LEMMA OwnSocket ==
    ASSUME AnswerInv, ~Mixed, NEW t \in Transfers, step[t] \in {"tell", "accept", "copy", "free", "close"}
    PROVE  fd[t] = t /\ (step[t] \in {"tell", "accept"} => listening[t])
BY DEF AnswerInv, Mixed, SocketState

LEMMA TellRouted ==
    ASSUME TypeOK, AnswerInv, ~Mixed, Routed, NEW t \in Transfers, Tell(t)
    PROVE  Routed'
<1>1. /\ step[t] = "tell" /\ step' = [step EXCEPT ![t] = "accept"]
      /\ UNCHANGED <<port, listening, queue, peer>>
      /\ Answer(t, "port")
      /\ client' = [client EXCEPT ![t] = IF answers' = answers THEN @ ELSE "told"]
  BY DEF Tell, Advance
<1>2. PortsDiffer'
  BY <1>1 DEF Routed, PortsDiffer
<1>3. /\ \A u \in Transfers : u # t => answers'[u] = answers[u]
      /\ answers' # answers => answers'[t] = <<"port">>
  <2>1. answers[t] = <<>>
    BY <1>1 DEF AnswerInv, AnswerState, Unanswered
  <2> QED BY <1>1, <2>1, AnswerGrows, AnswerSequences DEF AnswerInv
<1>4. ASSUME NEW u \in Transfers PROVE OwnClient(u)'
  <2>1. client[t] = "none" /\ queue[t] = <<>> /\ listening[t]
    BY <1>1, OwnSocket DEF Routed, OwnClient, Unanswered
  <2>2. CASE u # t
    <3>1. /\ step'[u] = step[u] /\ client'[u] = client[u] /\ answers'[u] = answers[u]
          /\ UNCHANGED <<port, listening, queue, peer>>
      BY <1>1, <1>3, <2>2 DEF TypeOK, AnswerInv, HandlerTypes
    <3> QED BY <3>1 DEF Routed, OwnClient
  <2>3. CASE u = t
    <3>1. step'[t] = "accept" /\ queue'[t] = <<>> /\ listening'[t]
      BY <1>1, <2>1 DEF TypeOK
    <3>2. client'[t] = "none" \/ (client'[t] = "told" /\ answers'[t] = <<"port">>)
      BY <1>1, <1>3, <2>1 DEF AnswerInv, HandlerTypes
    <3>3. peer'[t] \in {0, t}
      BY <1>1 DEF Routed, OwnClient
    <3>4. \A i \in 1..Len(queue'[t]) : queue'[t][i] = t
      BY <3>1
    <3>5. client'[t] # "none" => answers'[t] \in {<<"port">>, <<"port", "error">>}
      BY <3>2
    <3> QED BY ONLY <2>3, <3>1, <3>2, <3>3, <3>4, <3>5 DEF OwnClient, Unanswered
  <2> QED BY <2>2, <2>3
<1> QED BY <1>2, <1>4 DEF Routed

LEMMA AcceptRouted ==
    ASSUME TypeOK, AnswerInv, ~Mixed, Routed, NEW t \in Transfers, Accept(t)
    PROVE  /\ Routed'
           /\ client[t] = "connected" /\ peer[t] = 0 /\ peer' = [peer EXCEPT ![t] = t]
<1>1. fd[t] = t /\ step[t] = "accept" /\ step' = [step EXCEPT ![t] = "copy"]
  BY OwnSocket DEF Accept, Advance
<1>2. /\ queue[t] # <<>>
      /\ peer' = [peer EXCEPT ![t] = Head(queue[t])]
      /\ queue' = [queue EXCEPT ![t] = Tail(@)]
      /\ UNCHANGED <<port, listening, client, answers>>
  BY <1>1 DEF Accept
<1>3. queue[t] \in Seq(Transfers) /\ Len(queue[t]) > 0 /\ Head(queue[t]) = queue[t][1]
      /\ \A i \in 1..Len(Tail(queue[t])) : Tail(queue[t])[i] = queue[t][i + 1]
                                          /\ i + 1 \in 1..Len(queue[t])
  BY <1>2 DEF AnswerInv, HandlerTypes
<1>4. Head(queue[t]) = t /\ client[t] = "connected" /\ peer[t] = 0
  <2>1. 1 \in 1..Len(queue[t])
    BY <1>3
  <2>2. OwnClient(t)
    BY DEF Routed
  <2>3. peer[t] = 0
    BY <1>1 DEF AnswerInv, AnswerState
  <2> QED BY <1>2, <1>3, <2>1, <2>2, <2>3 DEF OwnClient
<1>5. PortsDiffer'
  BY <1>2 DEF Routed, PortsDiffer
<1>6. ASSUME NEW u \in Transfers PROVE OwnClient(u)'
  <2>1. CASE u # t
    <3>1. /\ step'[u] = step[u] /\ peer'[u] = peer[u] /\ queue'[u] = queue[u]
          /\ UNCHANGED <<port, listening, client, answers>>
      BY <1>1, <1>2, <2>1 DEF TypeOK, AnswerInv, HandlerTypes
    <3> QED BY <3>1 DEF Routed, OwnClient
  <2>2. CASE u = t
    <3>1. \A i \in 1..Len(Tail(queue[t])) : Tail(queue[t])[i] = t
      BY <1>3 DEF Routed, OwnClient
    <3>2. queue'[t] = Tail(queue[t]) /\ peer'[t] = t /\ step'[t] = "copy"
      BY <1>1, <1>2, <1>4 DEF AnswerInv, HandlerTypes, TypeOK
    <3> QED BY <1>2, <1>4, <2>2, <3>1, <3>2 DEF Routed, OwnClient, Unanswered
  <2> QED BY <2>1, <2>2
<1> QED BY <1>2, <1>4, <1>5, <1>6 DEF Routed

LEMMA CloseRouted ==
    ASSUME TypeOK, AnswerInv, ~Mixed, Routed, NEW t \in Transfers, Close(t)
    PROVE  Routed'
<1>1. /\ fd[t] = t /\ step[t] = "close" /\ step' = [step EXCEPT ![t] = "done"]
      /\ listening' = [u \in Transfers |-> listening[u] /\ u # t]
      /\ queue' = [u \in Transfers |-> IF u = t THEN <<>> ELSE queue[u]]
      /\ UNCHANGED <<port, peer, client, answers>>
  BY OwnSocket DEF Close, Advance
<1>2. PortsDiffer'
  BY <1>1 DEF Routed, PortsDiffer
<1>3. ASSUME NEW u \in Transfers PROVE OwnClient(u)'
  <2>1. CASE u # t
    <3>1. step'[u] = step[u] /\ listening'[u] = listening[u] /\ queue'[u] = queue[u]
      BY <1>1, <2>1 DEF TypeOK, AnswerInv, HandlerTypes
    <3> QED BY <1>1, <3>1 DEF Routed, OwnClient
  <2>2. CASE u = t
    <3>1. step'[t] = "done" /\ listening'[t] = FALSE /\ queue'[t] = <<>>
      BY <1>1 DEF TypeOK
    <3> QED BY <1>1, <2>2, <3>1 DEF Routed, OwnClient, Unanswered
  <2> QED BY <2>1, <2>2
<1> QED BY <1>2, <1>3 DEF Routed

(* Whoever has been told a port finds one socket there.                    *)
LEMMA ConnectRouted ==
    ASSUME TypeOK, AnswerInv, ~Mixed, Routed, NEW c \in Transfers, Connect(c)
    PROVE  /\ Routed'
           /\ client[c] = "told" /\ client' = [client EXCEPT ![c] = "connected"]
           /\ UNCHANGED <<step, answers, peer, pc, owner>>
<1> DEFINE there == {u \in Transfers : listening[u] /\ port[u] = port[c]}
<1>1. client[c] = "told" /\ step[c] \in {"accept", "done"} /\ listening[c] /\ answers[c] \in Told
  BY DEF Connect, Routed, OwnClient, Told
<1>2. there = {c}
  BY <1>1 DEF Routed, PortsDiffer
<1>3. /\ client' = [client EXCEPT ![c] = "connected"]
      /\ queue' = [queue EXCEPT ![c] = Append(@, c)]
      /\ UNCHANGED <<port, listening, step, answers, peer, pc, owner>>
  BY <1>2 DEF Connect, handler, thread, command
<1>4. PortsDiffer'
  BY <1>3 DEF Routed, PortsDiffer
<1>5. ASSUME NEW u \in Transfers PROVE OwnClient(u)'
  <2>1. CASE u # c
    BY <1>3, <2>1 DEF Routed, OwnClient, AnswerInv, HandlerTypes
  <2>2. CASE u = c
    <3>1. queue[c] \in Seq(Transfers) /\ \A i \in 1..Len(queue[c]) : queue[c][i] = c
      BY DEF AnswerInv, HandlerTypes, Routed, OwnClient
    <3>2. \A i \in 1..Len(Append(queue[c], c)) : Append(queue[c], c)[i] = c
      BY <3>1
    <3>3. queue'[c] = Append(queue[c], c) /\ client'[c] = "connected"
      BY <1>3 DEF AnswerInv, HandlerTypes
    <3> QED BY <1>1, <1>3, <2>2, <3>2, <3>3 DEF Routed, OwnClient, Unanswered, Told
  <2> QED BY <2>1, <2>2
<1> QED BY <1>1, <1>3, <1>4, <1>5 DEF Routed

LEMMA RouteNext == TransferInv /\ AnswerInv /\ RouteInv /\ [Next]_vars => RouteInv'
<1> SUFFICES ASSUME TransferInv, AnswerInv, RouteInv, [Next]_vars, ~Mixed' PROVE Routed'
  BY DEF RouteInv, Routed
<1>1. TypeOK /\ ~Mixed
  BY MixedStays DEF TransferInv
<1>2. Routed
  BY <1>1 DEF RouteInv, Routed
<1>3. CASE OwnStill
  BY <1>2, <1>3, StillRouted
<1>4. ASSUME NEW t \in Transfers, Bind(t) PROVE Routed'
  BY <1>1, <1>2, <1>3, <1>4, StepsStill, BindRouted
<1>5. ASSUME NEW t \in Transfers, Tell(t) \/ Accept(t) \/ Close(t) \/ Connect(t) PROVE Routed'
  BY <1>1, <1>2, <1>5, TellRouted, AcceptRouted, CloseRouted, ConnectRouted
<1> QED BY <1>1, <1>3, <1>4, <1>5, StepsStill DEF Next, Handle

-----------------------------------------------------------------------------
(* Each step as Exchange sees it.                                          *)

LEMMA ExchangeInit == Init => Promise!Init
<1> SUFFICES ASSUME Init PROVE Promise!Init
  OBVIOUS
<1>1. Heard = [t \in Transfers |-> "none"]
  BY DEF Init, Heard
<1>2. Link = [t \in Transfers |-> "none"]
  BY DEF Init, Link
<1>3. peer = [t \in Transfers |-> 0] /\ Ended = {}
  BY DEF Init, Ended
<1> QED BY <1>1, <1>2, <1>3 DEF Promise!Init

(* One transfer hears something and the rest is as it was.                 *)
LEMMA OneHears ==
    ASSUME NEW t \in Transfers, NEW to, Heard'[t] = to,
           \A u \in Transfers : u # t => Heard'[u] = Heard[u],
           UNCHANGED <<Link, peer, Ended>>
    PROVE  Promise!Hears(t, Heard[t], to)
<1>1. Heard' = [Heard EXCEPT ![t] = to]
  <2>1. Heard' = [u \in Transfers |-> Heard'[u]] /\ Heard = [u \in Transfers |-> Heard[u]]
    BY DEF Heard
  <2> QED BY <2>1
<1> QED BY <1>1 DEF Promise!Hears

(* Nothing of a transfer that Exchange sees changes.                       *)
LEMMA SameHeard ==
    ASSUME NEW u \in Transfers, answers'[u] = answers[u],
           \/ step'[u] = step[u]
           \/ {step[u], step'[u]} \subseteq {"unused", "reserved"}
           \/ {step[u], step'[u]} \subseteq Unanswered \ {"unused", "reserved"}
           \/ {step[u], step'[u]} \cap Unanswered = {}
    PROVE  Heard'[u] = Heard[u]
BY DEF Heard, Unanswered

LEMMA SameEnded ==
    ASSUME TypeOK, owner' = owner, \A s \in Sessions : pc'[s] = "gone" <=> pc[s] = "gone"
    PROVE  Ended' = Ended
BY DEF Ended, TypeOK

SessionAlone(s) == GetUndo(s) \/ GetCheck(s) \/ PutUndo(s) \/ \E t \in Transfers : GetStart(s, t)

HandlerAlone(t) ==
    \/ Signal(t) \/ Probe(t) \/ Claim(t) \/ Copy(t) \/ Free(t) \/ Close(t)
    \/ Examine(t) /\ step'[t] = "probe"
    \/ Bind(t) /\ step'[t] = "tell"

LEMMA Unseen ==
    ASSUME TypeOK,
           \/ \E s \in Sessions : SessionAlone(s)
           \/ \E t \in Transfers : HandlerAlone(t)
           \/ Die \/ UNCHANGED vars
    PROVE  UNCHANGED Promise!exchange
<1> USE DEF TypeOK
<1>1. ASSUME UNCHANGED <<client, answers, peer, Ended>>,
             \A u \in Transfers :
                 \/ step'[u] = step[u]
                 \/ {step[u], step'[u]} \subseteq {"unused", "reserved"}
                 \/ {step[u], step'[u]} \subseteq Unanswered \ {"unused", "reserved"}
                 \/ {step[u], step'[u]} \cap Unanswered = {}
      PROVE  UNCHANGED Promise!exchange
  <2>1. \A u \in Transfers : Heard'[u] = Heard[u]
    BY <1>1, SameHeard
  <2>2. Heard' = Heard
    <3>1. Heard' = [u \in Transfers |-> Heard'[u]] /\ Heard = [u \in Transfers |-> Heard[u]]
      BY DEF Heard
    <3> QED BY <2>1, <3>1
  <2> QED BY <1>1, <2>2 DEF Promise!exchange, Link
<1>2. ASSUME NEW s \in Sessions, SessionAlone(s) PROVE UNCHANGED Promise!exchange
  <2>1. UNCHANGED <<client, answers, peer, owner>>
    BY <1>2 DEF SessionAlone, GetUndo, GetCheck, PutUndo, GetStart, handler, command, sockets
  <2>2. Ended' = Ended
    <3>1. \A r \in Sessions : pc'[r] = "gone" <=> pc[r] = "gone"
      BY <1>2 DEF SessionAlone, GetUndo, GetCheck, PutUndo, GetStart, Become
    <3> QED BY <2>1, <3>1, SameEnded
  <2>3. step' = step \/ \E t \in Transfers : step[t] = "unused" /\ step' = [step EXCEPT ![t] = "reserved"]
    BY <1>2 DEF SessionAlone, GetUndo, GetCheck, PutUndo, GetStart, Fresh, handler
  <2> QED BY <1>1, <2>1, <2>2, <2>3
<1>3. ASSUME NEW t \in Transfers, HandlerAlone(t) PROVE UNCHANGED Promise!exchange
  <2> USE DEF HandlerAlone, Advance
  <2>1. UNCHANGED <<client, peer, pc, owner>>
    BY <1>3 DEF Signal, Probe, Claim, Copy, Free, Close, Examine, Bind, thread, command, sockets
  <2>2. UNCHANGED answers
    BY <1>3 DEF Signal, Probe, Claim, Copy, Free, Close, Examine, Bind
  <2>3. Ended' = Ended
    BY <2>1, SameEnded
  <2>4. step' = [step EXCEPT ![t] = step'[t]]
        /\ \/ {step[t], step'[t]} \subseteq Unanswered \ {"unused", "reserved"}
           \/ {step[t], step'[t]} \cap Unanswered = {}
    BY <1>3 DEF Signal, Probe, Claim, Copy, Free, Close, Examine, Bind, Unanswered
  <2> QED BY <1>1, <2>1, <2>2, <2>3, <2>4
<1>4. CASE Die \/ UNCHANGED vars
  <2>1. UNCHANGED <<client, answers, peer, pc, owner, step>>
    BY <1>4 DEF Die, vars, thread, command, handler, sockets
  <2> QED BY <1>1, <2>1, SameEnded
<1> QED BY <1>2, <1>3, <1>4

(* The thread of a transfer starts, or can not be started.                 *)
LEMMA BeginSeen ==
    ASSUME TypeOK, AnswerInv, NEW s \in Sessions, GetCreate(s) \/ \E t \in Transfers : Put(s, t)
    PROVE  Promise!Next
<1> USE DEF TypeOK, Become
<1>1. PICK t \in Transfers :
          /\ step[t] \in {"unused", "reserved"}
          /\ step' = [step EXCEPT ![t] = step'[t]]
          /\ step'[t] \in {"created", "probe", "done"}
  BY DEF GetCreate, Put, Fresh, AnswerInv, Reserved
<1>2. UNCHANGED <<client, answers, peer, owner>>
  BY DEF GetCreate, Put, command, sockets
<1>3. Ended' = Ended
  <2>1. \A r \in Sessions : pc'[r] = "gone" <=> pc[r] = "gone"
    BY DEF GetCreate, Put
  <2> QED BY <1>2, <2>1, SameEnded
<1>4. answers[t] = <<>>
  BY <1>1 DEF AnswerInv, AnswerState, Unanswered
<1>5. Heard[t] = "none" /\ Heard'[t] \in {"begun", "nothing"}
  BY <1>1, <1>2, <1>4, AnswerSequences DEF Heard, Unanswered
<1>6. \A u \in Transfers : u # t => Heard'[u] = Heard[u]
  BY <1>1, <1>2, SameHeard
<1>7. Promise!Hears(t, Heard[t], Heard'[t])
  BY <1>2, <1>3, <1>6, OneHears DEF Link
<1> QED BY <1>5, <1>7 DEF Promise!Next, Promise!Begin

(* The handler answers with its port, or an error, before or after it; or  *)
(* the answer is lost.                                                     *)
LEMMA SaysSeen ==
    ASSUME TypeOK, AnswerInv, Routed, NEW t \in Transfers,
           Tell(t) \/ AcceptFails(t) \/ ReadFails(t) \/ ((Examine(t) \/ Bind(t)) /\ step'[t] = "done")
    PROVE  Promise!Next \/ UNCHANGED Promise!exchange
<1> USE DEF TypeOK
<1>1. Says(t)
  BY HandlerSays
<1>2. UNCHANGED <<peer, pc, owner>> /\ step' = [step EXCEPT ![t] = step'[t]]
  BY <1>1 DEF Says
<1>3. HandlerTypes /\ AnswerState(t)
  BY DEF AnswerInv
<1>4. Link' = Link
  <2>1. CASE Tell(t)
    <3>1. client[t] = "none"
      BY <2>1 DEF Tell, Advance, Routed, OwnClient, Unanswered
    <3>2. client' = client \/ client' = [client EXCEPT ![t] = "told"]
      BY <2>1, <1>3 DEF Tell, HandlerTypes
    <3> QED BY <1>3, <3>1, <3>2 DEF Link, HandlerTypes
  <2>2. CASE client' = client
    BY <2>2 DEF Link
  <2> QED BY <2>1, <2>2 DEF AcceptFails, ReadFails, Examine, Bind, Advance, sockets
<1>5. Ended' = Ended
  BY <1>2, SameEnded
<1>6. \A u \in Transfers : u # t => Heard'[u] = Heard[u]
  <2>1. \A u \in Transfers : u # t => answers'[u] = answers[u]
    BY <1>1, <1>3, AnswerGrows DEF Says
  <2> QED BY <1>2, <2>1, SameHeard
<1>7. Promise!Hears(t, Heard[t], Heard'[t])
  BY <1>2, <1>4, <1>5, <1>6, OneHears
<1>8. CASE step[t] \in Unanswered
  <2>1. answers[t] = <<>> /\ step[t] \notin {"unused", "reserved"} /\ step'[t] \in {"accept", "done"}
    BY <1>1, <1>3, <1>8 DEF Says, AnswerState, Unanswered
  <2>2. \/ answers'[t] \in {<<"error">>, <<"port">>}
        \/ answers'[t] = <<>> /\ t \in Ended
    BY <1>1, <1>3, <2>1, AnswerGrows, AnswerSequences DEF Says, Ended
  <2>3. Heard[t] = "begun"
    BY <1>8, <2>1, AnswerSequences DEF Heard
  <2>4. \/ Heard'[t] \in {"told", "refused"}
        \/ Heard'[t] = "nothing" /\ t \in Ended
    BY <2>1, <2>2, AnswerSequences DEF Heard, Unanswered
  <2> QED BY <1>7, <2>3, <2>4 DEF Promise!Next, Promise!Reply, Promise!Lose
<1>9. CASE step[t] \notin Unanswered
  <2>1. /\ step[t] \in {"accept", "copy"} /\ step'[t] \in {"done", "free"} /\ Answer(t, "error")
        /\ answers[t] = <<"port">> \/ (answers[t] = <<>> /\ t \in Ended)
    BY <1>1, <1>3, <1>9 DEF Says, AnswerState, Unanswered, Ended
  <2>2. CASE answers' = answers
    <3>1. Heard'[t] = Heard[t]
      BY <2>1, <2>2, SameHeard DEF Unanswered
    <3>2. Heard' = Heard
      <4>1. Heard' = [u \in Transfers |-> Heard'[u]] /\ Heard = [u \in Transfers |-> Heard[u]]
        BY DEF Heard
      <4> QED BY <1>6, <3>1, <4>1
    <3> QED BY <1>2, <1>4, <1>5, <3>2 DEF Promise!exchange
  <2>3. CASE answers[t] = <<"port">> /\ answers' # answers
    <3>1. answers'[t] = <<"port", "error">>
      BY <1>3, <2>1, <2>3, AnswerGrows, AnswerSequences
    <3>2. Heard[t] = "told" /\ Heard'[t] = "failed"
      BY <2>1, <2>3, <3>1, AnswerSequences DEF Heard
    <3> QED BY <1>7, <3>2 DEF Promise!Next, Promise!Fail
  <2>4. CASE answers[t] = <<>> /\ answers' # answers
    <3>1. answers'[t] = <<"error">> /\ t \in Ended
      BY <1>3, <2>1, <2>4, AnswerGrows, AnswerSequences
    <3>2. Heard[t] = "nothing" /\ Heard'[t] = "refused"
      BY <2>1, <2>4, <3>1, AnswerSequences DEF Heard, Unanswered
    <3> QED BY <1>7, <3>1, <3>2 DEF Promise!Next, Promise!Lose
  <2> QED BY <2>1, <2>2, <2>3, <2>4
<1> QED BY <1>8, <1>9

LEMMA ServeSeen ==
    ASSUME TypeOK, AnswerInv, Routed, ~Mixed, NEW t \in Transfers, Accept(t)
    PROVE  Promise!Next
<1>1. client[t] = "connected" /\ peer[t] = 0 /\ peer' = [peer EXCEPT ![t] = t]
  BY AcceptRouted
<1>2. UNCHANGED <<client, answers, pc, owner>> /\ step[t] = "accept" /\ step' = [step EXCEPT ![t] = "copy"]
  BY DEF Accept, Advance, thread, command
<1>3. UNCHANGED <<Link, Ended>> /\ Link[t] = "connected"
  BY <1>1, <1>2 DEF Link, Ended
<1>4. Heard' = Heard
  BY <1>2 DEF Heard, Unanswered, TypeOK
<1>5. Heard[t] = "told"
  <2>1. answers[t] = <<"port">>
    <3>1. answers[t] \in {<<"port">>, <<"port", "error">>}
      BY <1>1 DEF Routed, OwnClient
    <3>2. answers[t] \in {<<>>, <<"port">>}
      BY <1>2 DEF AnswerInv, AnswerState
    <3> QED BY <3>1, <3>2, AnswerSequences
  <2> QED BY <1>2, <2>1 DEF Heard
<1> QED BY <1>1, <1>3, <1>4, <1>5 DEF Promise!Next, Promise!Serve

LEMMA ConnectSeen ==
    ASSUME TypeOK, AnswerInv, Routed, ~Mixed, NEW c \in Transfers, Connect(c)
    PROVE  Promise!Next
<1>1. /\ client[c] = "told" /\ client' = [client EXCEPT ![c] = "connected"]
      /\ UNCHANGED <<step, answers, peer, pc, owner>>
  BY ConnectRouted
<1>2. step[c] \in {"accept", "done"} /\ answers[c] \in {<<"port">>, <<"port", "error">>}
  BY <1>1 DEF Routed, OwnClient
<1>3. Link[c] = "none" /\ Link' = [Link EXCEPT ![c] = "connected"]
  BY <1>1 DEF Link, AnswerInv, HandlerTypes
<1>4. Heard[c] \in {"told", "failed"} /\ Heard' = Heard
  BY <1>1, <1>2 DEF Heard
<1>5. Ended' = Ended
  BY <1>1 DEF Ended
<1> QED BY <1>1, <1>3, <1>4, <1>5 DEF Promise!Next, Promise!Connect

LEMMA ExitSeen ==
    ASSUME TypeOK, NEW s \in Sessions, Exit(s)
    PROVE  Promise!Next
<1>1. pc[s] = "idle" /\ pc' = [pc EXCEPT ![s] = "gone"] /\ UNCHANGED <<step, client, answers, peer, owner>>
  BY DEF Exit, Become, command, handler, sockets
<1>2. Ended \subseteq Ended'
  BY <1>1 DEF Ended, TypeOK
<1>3. UNCHANGED <<Heard, Link, peer>>
  BY <1>1 DEF Heard, Link
<1> QED BY <1>2, <1>3 DEF Promise!Next, Promise!Leave

LEMMA ExchangeStep ==
    TransferInv /\ AnswerInv /\ RouteInv /\ [Next]_vars => [Promise!Next \/ Mixed']_Promise!exchange
<1> SUFFICES ASSUME TransferInv, AnswerInv, RouteInv, [Next]_vars, ~Mixed'
             PROVE  Promise!Next \/ UNCHANGED Promise!exchange
  OBVIOUS
<1>1. TypeOK /\ ~Mixed /\ Routed
  BY MixedStays DEF TransferInv, RouteInv, Routed
<1>2. CASE Die \/ UNCHANGED vars
  BY <1>1, <1>2, Unseen
<1>3. ASSUME NEW s \in Sessions, Run(s) \/ Exit(s) PROVE Promise!Next \/ UNCHANGED Promise!exchange
  BY <1>1, <1>3, BeginSeen, ExitSeen, Unseen DEF Run, SessionAlone
<1>4. ASSUME NEW s \in Sessions, NEW t \in Transfers, GetStart(s, t) \/ Put(s, t)
      PROVE  Promise!Next \/ UNCHANGED Promise!exchange
  BY <1>1, <1>4, BeginSeen, Unseen DEF SessionAlone
<1>5. ASSUME NEW t \in Transfers, Signal(t) \/ Probe(t) \/ Claim(t) \/ Copy(t) \/ Free(t) \/ Close(t)
      PROVE  UNCHANGED Promise!exchange
  BY <1>1, <1>5, Unseen DEF HandlerAlone
<1>6. ASSUME NEW t \in Transfers, Examine(t) \/ Bind(t)
      PROVE  Promise!Next \/ UNCHANGED Promise!exchange
  <2>1. step'[t] = "done" \/ HandlerAlone(t)
    BY <1>1, <1>6 DEF Examine, Bind, HandlerAlone, Advance, TypeOK
  <2> QED BY <1>1, <1>6, <2>1, SaysSeen, Unseen
<1>7. ASSUME NEW t \in Transfers, Tell(t) \/ AcceptFails(t) \/ ReadFails(t)
      PROVE  Promise!Next \/ UNCHANGED Promise!exchange
  BY <1>1, <1>7, SaysSeen
<1>8. ASSUME NEW t \in Transfers, Accept(t) \/ Connect(t) PROVE Promise!Next
  BY <1>1, <1>8, ServeSeen, ConnectSeen
<1> QED BY <1>2, <1>3, <1>4, <1>5, <1>6, <1>7, <1>8 DEF Next, Handle

AllInv == TransferInv /\ AnswerInv /\ RouteInv

LEMMA AlwaysAllInv == Spec => []AllInv
<1>1. Init => AllInv
  BY TransferInit, AnswerInit, RouteInit DEF AllInv
<1>2. AllInv /\ [Next]_vars => AllInv'
  BY TransferNext, AnswerNext, RouteNext DEF AllInv
<1> QED BY <1>1, <1>2, PTL DEF Spec

(* For any number of sessions, transfers and ports, get and put keep the   *)
(* promises of Exchange, however threads, bindings, accepts and reads      *)
(* fail, until a search runs out of ports or two sockets listen on the     *)
(* same one (put_handler, get_handler, bind_to_port).                      *)
THEOREM TransferImplementsExchange == Spec => ImplementsExchange
<1>1. AllInv /\ [Next]_vars => [Promise!Next \/ Mixed']_Promise!exchange
  BY ExchangeStep DEF AllInv
<1> QED BY <1>1, ExchangeInit, AlwaysAllInv, PTL DEF Spec, ImplementsExchange

(* Until then the handler of a get serves the client it was started for:   *)
(* what docs/documentation.tex:22 says, which fails when two handlers get  *)
(* the same port.                                                          *)
THEOREM GetsServeTheirClients == Spec => [](Mixed \/ ServesItsClient)
<1>1. AllInv => Mixed \/ ServesItsClient
  BY DEF AllInv, RouteInv, OwnClient, ServesItsClient
<1> QED BY <1>1, AlwaysAllInv, PTL
=============================================================================
