-------------------------------- MODULE Files --------------------------------
(***************************************************************************)
(* The files that get and put of Transfer read and write, beside the rm    *)
(* that Grass has.  A name leads to an inode; rm takes the name away, and  *)
(* whoever has the file open keeps the inode.  put tests that the name is  *)
(* free and not marked by an rm, and opens the file much later, when the   *)
(* client has connected to its handler; get tests that the name is that of *)
(* a file, then opens it and tells its length, then reads it, when the     *)
(* client has connected.  Each step of this module is one of Transfer or   *)
(* leaves the state of Transfer alone.                                     *)
(***************************************************************************)
EXTENDS Transfer

CONSTANTS Places,     \* the files the transfers and rm are about
          OldPlace,   \* the one that exists when the server starts
          OldSize,    \* the chunks it has; a chunk is what one recv brings
          Sizes       \* bound: the sizes announced to put, in chunks

ASSUME FilesAssumption ==
    /\ OldPlace \in Places /\ "nothing" \notin Places
    /\ OldSize \in Nat
    /\ Sizes \subseteq Nat \ {0}

(* An inode is named after the put that makes it; 0 is that of the old     *)
(* file.  A chunk is named after the client it came from.                  *)
Inodes == 0..MaxTransfers
None   == -1     \* no inode: a name that does not exist, an open that failed
Unset  == -2     \* not opened yet
Hole   == -1     \* a chunk nobody has written

VARIABLES
    asking,    \* per session: the name put has found free, or "nothing"
    place,     \* per transfer: its file
    size,      \* per transfer: filesize, what a put has announced
    bareNamed, \* the places right below the base directory that every put
               \* names by a bare name, given there
    marked,    \* filesBeingDeleted; no mark is ever erased (see GrassPromises)
    entry,     \* per name: its inode
    data,      \* per inode: its chunks
    emptied,   \* history: per inode, the put that has made or emptied it last
    open,      \* per transfer: the inode infile or out_file has
    length,    \* per transfer: file_length of a get
    done,      \* per transfer: chunks read or written
    sent,      \* history: per get, the chunks sent to the client
    cut,       \* history: the gets that could not read on
    wanted     \* history: per get, the file when it was opened, unless a put
               \* of its name was under way

order  == <<place, size>>
names  == <<bareNamed, marked, entry>>
disk   == <<data, emptied>>
stream == <<open, length, done, sent, cut, wanted>>
files  == <<asking, order, names, disk, stream>>
filesVars == <<vars, files>>

Anything == <<None>>
OldFile  == [n \in 1..OldSize |-> 0]

FilesInit ==
    /\ Init
    /\ asking = [s \in Sessions |-> "nothing"]
    /\ place = [t \in Transfers |-> OldPlace]
    /\ bareNamed \in SUBSET Places
    /\ marked = {}
    /\ entry = [p \in Places |-> IF p = OldPlace THEN 0 ELSE None]
    /\ size = [t \in Transfers |-> 0]
    /\ data = [i \in Inodes |-> IF i = 0 THEN OldFile ELSE <<>>]
    /\ emptied = [i \in Inodes |-> 0]
    /\ open = [t \in Transfers |-> Unset]
    /\ length = [t \in Transfers |-> None]
    /\ done = [t \in Transfers |-> 0]
    /\ sent = [t \in Transfers |-> <<>>]
    /\ cut = {}
    /\ wanted = [t \in Transfers |-> Anything]

(* A put that has passed its tests and may still write.                    *)
Putting(t) == kind[t] = "put" /\ step[t] \notin {"unused", "done"}

(* A put of that name has found it free and is not over.                   *)
PutUnderWay(p) ==
    \/ \E s \in Sessions : asking[s] = p
    \/ \E t \in Transfers : Putting(t) /\ place[t] = p

-----------------------------------------------------------------------------
(* rm, of which Grass has the rest: it marks the name, then takes it away. *)

RmMark(p) ==
    /\ up
    /\ marked' = marked \cup {p}
    /\ UNCHANGED <<vars, asking, order, bareNamed, entry, disk, stream>>

RmUnlink(p) ==
    /\ up
    /\ p \in marked
    /\ entry' = [entry EXCEPT ![p] = None]
    /\ UNCHANGED <<vars, asking, order, bareNamed, marked, disk, stream>>

-----------------------------------------------------------------------------
(* put.                                                                    *)

(* The thread of the session may take a command; there is a transfer left  *)
(* for it, which is the bound of the model.                                *)
Idle(s) ==
    /\ up
    /\ pc[s] = "idle"
    /\ asking[s] = "nothing"
    /\ \E t \in Transfers : owner[t] = s /\ step[t] = "unused"

(* Broken variant: the name may be taken.                                  *)
PutExistsSkipped(s, p) ==
    /\ Idle(s)
    /\ asking' = [asking EXCEPT ![s] = p]
    /\ UNCHANGED <<vars, order, names, disk, stream>>

(* pathvalidate::exists, which finds nothing; otherwise put is refused.    *)
PutExists(s, p) ==
    /\ Idle(s)
    /\ entry[p] = None
    /\ asking' = [asking EXCEPT ![s] = p]
    /\ UNCHANGED <<vars, order, names, disk, stream>>

(* Broken variant: the FileDeleteTable is not looked into.                 *)
MarkFoundNever(p) == p \in {}

(* isBeingDeleted compares texts: put asks with getCurrentDir(filename),    *)
(* and rm has marked the path it has resolved.  They are the same for a    *)
(* bare name in the base directory; below it, or with a "." or "..", they  *)
(* may differ, and the mark is missed.                                     *)
MarkFound(p) == p \in marked /\ p \in bareNamed

PutRefused(s) ==
    /\ up
    /\ asking[s] \in marked
    /\ asking' = [asking EXCEPT ![s] = "nothing"]
    /\ UNCHANGED <<vars, order, names, disk, stream>>

PutGoesOn(s, t) ==
    /\ asking[s] # "nothing"
    /\ ~MarkFound(asking[s])
    /\ Put(s, t)
    /\ place' = [place EXCEPT ![t] = asking[s]]
    /\ \E n \in Sizes : size' = [size EXCEPT ![t] = n]
    /\ asking' = [asking EXCEPT ![s] = "nothing"]
    /\ UNCHANGED <<names, disk, stream>>

(* The ofstream makes the file, or empties the one that is there; where    *)
(* the directory has gone, or the name has become that of a directory, it  *)
(* fails, which nobody notices.                                            *)
PutOpen(t) ==
    /\ up
    /\ Putting(t) /\ step[t] = "copy"
    /\ open[t] = Unset
    /\ \/ LET i == IF entry[place[t]] = None THEN t ELSE entry[place[t]]
          IN  /\ open' = [open EXCEPT ![t] = i]
              /\ entry' = [entry EXCEPT ![place[t]] = i]
              /\ data' = [data EXCEPT ![i] = <<>>]
              /\ emptied' = [emptied EXCEPT ![i] = t]
       \/ /\ open' = [open EXCEPT ![t] = None]
          /\ UNCHANGED <<entry, disk>>
    /\ UNCHANGED <<vars, asking, order, bareNamed, marked, length, done, sent, cut, wanted>>

(* Broken variant: the stream writes at the end of the file.               *)
WrittenAtEnd(file, n, chunk) ==
    [k \in 1..(Len(file) + 1) |-> IF k <= Len(file) THEN file[k] ELSE chunk]

(* The file with its n-th chunk written; holes before it are left.         *)
Written(file, n, chunk) ==
    [k \in 1..(IF n > Len(file) THEN n ELSE Len(file)) |->
        IF k = n THEN chunk ELSE IF k <= Len(file) THEN file[k] ELSE Hole]

(* receive_N has a chunk from whoever has connected and writes it where    *)
(* this stream has got to, until it has the number of bytes announced.     *)
(* The client sends what its file holds, be that more; of less see Die.    *)
(* The client of a get sends nothing.                                      *)
PutChunk(t) ==
    /\ up
    /\ Putting(t) /\ step[t] = "copy"
    /\ open[t] # Unset
    /\ done[t] < size[t]
    /\ kind[peer[t]] = "put"
    /\ done' = [done EXCEPT ![t] = @ + 1]
    /\ data' = IF open[t] = None THEN data
               ELSE [data EXCEPT ![open[t]] = Written(@, done[t] + 1, peer[t])]
    /\ UNCHANGED <<vars, asking, order, names, emptied, open, length, sent, cut, wanted>>

-----------------------------------------------------------------------------
(* get.                                                                    *)

GetGiven(s, t) ==
    /\ asking[s] = "nothing"
    /\ GetStart(s, t)
    /\ \E p \in Places : place' = [place EXCEPT ![t] = p]
    /\ UNCHANGED <<asking, size, names, disk, stream>>

(* The ifstream is opened and its end sought; the length is -1 when the    *)
(* file has gone since it was tested.                                      *)
GetOpen(t) ==
    LET i == entry[place[t]]
    IN  /\ up
        /\ kind[t] = "get" /\ step[t] = "tell"
        /\ open[t] = Unset
        /\ open' = [open EXCEPT ![t] = i]
        /\ length' = [length EXCEPT ![t] = IF i = None THEN None ELSE Len(data[i])]
        /\ wanted' = [wanted EXCEPT ![t] =
              IF i = None \/ PutUnderWay(place[t]) THEN Anything ELSE data[i]]
        /\ UNCHANGED <<vars, asking, order, names, disk, done, sent, cut>>

(* There is something left to read, up to the length that was told.        *)
Readable(t) ==
    open[t] # None /\ done[t] < length[t] /\ done[t] < Len(data[open[t]])

GetChunk(t) ==
    /\ up
    /\ kind[t] = "get" /\ step[t] = "copy"
    /\ Readable(t)
    /\ done' = [done EXCEPT ![t] = @ + 1]
    /\ sent' = [sent EXCEPT ![t] = Append(@, data[open[t]][done[t] + 1])]
    /\ UNCHANGED <<vars, asking, order, names, disk, open, length, cut, wanted>>

-----------------------------------------------------------------------------
(* The steps of Transfer.                                                  *)

FilesTell(t) ==
    /\ kind[t] = "get" => open[t] # Unset
    /\ Tell(t)
    /\ UNCHANGED files

(* Broken variant: put leaves the loop one recv too early.                 *)
FilesCopyShort(t) ==
    /\ IF kind[t] = "get" THEN ~Readable(t) ELSE done[t] >= size[t] - 1
    /\ Copy(t)
    /\ UNCHANGED files

(* The loop of get ends when it reads nothing, that of put with the number *)
(* of bytes announced to this put.                                         *)
FilesCopy(t) ==
    /\ IF kind[t] = "get" THEN ~Readable(t) ELSE done[t] = size[t]
    /\ Copy(t)
    /\ UNCHANGED files

(* Before its end the file can not be read on.                             *)
FilesReadFails(t) ==
    /\ open[t] # None /\ done[t] < length[t]
    /\ ReadFails(t)
    /\ cut' = cut \cup {t}
    /\ UNCHANGED <<asking, order, names, disk, open, length, done, sent, wanted>>

(* A client that is told the length -1 finds no number in the answer.      *)
FilesConnect(c) ==
    /\ kind[c] = "get" => open[c] # None
    /\ Connect(c)
    /\ UNCHANGED files

FilesHandle(t) ==
    \/ GetOpen(t)
    \/ FilesTell(t)
    \/ Handle(t) /\ step[t] # "tell" /\ UNCHANGED files

FilesNext ==
    \/ \E s \in Sessions :
          \/ Run(s) /\ UNCHANGED files
          \/ asking[s] = "nothing" /\ Exit(s) /\ UNCHANGED files
          \/ PutRefused(s)
    \/ \E s \in Sessions, p \in Places : PutExists(s, p)
    \/ \E s \in Sessions, t \in Transfers : GetGiven(s, t) \/ PutGoesOn(s, t)
    \/ \E t \in Transfers :
          \/ FilesHandle(t) \/ FilesCopy(t) \/ FilesReadFails(t) \/ FilesConnect(t)
          \/ AcceptFails(t) /\ UNCHANGED files
          \/ PutOpen(t) \/ PutChunk(t) \/ GetChunk(t)
    \/ \E p \in Places : RmMark(p) \/ RmUnlink(p)
    \/ Die /\ UNCHANGED files

(* As in Transfer, with the opening of the file by the handler of a get.   *)
FilesFairness ==
    /\ \A s \in Sessions : WF_filesVars(Run(s) /\ UNCHANGED files)
    /\ \A t \in Transfers : WF_filesVars(FilesHandle(t))

FilesSpec == FilesInit /\ [][FilesNext]_filesVars /\ FilesFairness
-----------------------------------------------------------------------------
(* Properties.                                                             *)

(* Once an rm has marked a file right below the base and the puts that had *)
(* already passed their tests are over, no put brings the file back,       *)
(* however late a handler opens it, if each put gives the bare name there  *)
(* (isBeingDeleted in put against setAsDeleted in rm; the file is opened   *)
(* only after the client has connected).                                   *)
NoPutOf(p) == \A t \in Transfers : Putting(t) => place[t] # p

RemovedStaysAway ==
    [][\A p \in bareNamed : p \in marked /\ NoPutOf(p) =>
          /\ NoPutOf(p)'
          /\ entry'[p] \in {entry[p], None}]_filesVars

(* A get sends the file as it was when it was opened, whole, or up to      *)
(* where it could not be read on, if no put of that name was under way     *)
(* then: an rm, or a later put of the same name, while the client is being *)
(* waited for, or between two reads, changes nothing of it (get_handler,   *)
(* which reads long after it has told the length).                         *)
GetsWhole ==
    \A t \in Transfers :
        (/\ kind[t] = "get" /\ peer[t] # 0 /\ step[t] \in {"free", "close", "done"}
         /\ wanted[t] # Anything) =>
            /\ \A k \in 1..Len(sent[t]) : k <= Len(wanted[t]) /\ sent[t][k] = wanted[t][k]
            /\ t \in cut \/ Len(sent[t]) = Len(wanted[t])

Writers(i) == {t \in Transfers : kind[t] = "put" /\ open[t] = i}

(* A file no put is writing: as many chunks as the put that has emptied it *)
(* last has announced are there, each from a client that a put of the file *)
(* served, and what lies beyond comes from puts that announced more, with  *)
(* a hole only where such a put had written before the file was emptied    *)
(* under it (put_handler, one stream and one filesize each).  So puts of a *)
(* name at the same time, which all find it free, leave no hole and        *)
(* nothing too much when they announce the same size.                      *)
PutsWhole ==
    \A i \in Inodes : (\A t \in Writers(i) : step[t] = "done") =>
        IF i = 0 THEN data[i] = OldFile
        ELSE IF Writers(i) = {} THEN data[i] = <<>>
        ELSE /\ emptied[i] \in Writers(i)
             /\ size[emptied[i]] <= Len(data[i])
             /\ \E t \in Writers(i) : Len(data[i]) <= size[t]
             /\ \A k \in 1..Len(data[i]) :
                   \/ data[i][k] = Hole /\ k > size[emptied[i]]
                   \/ \E t \in Writers(i) : data[i][k] = peer[t] /\ k <= size[t]

(* A file only one put has opened is, once that is over, what the client   *)
(* who gave this put has sent, all that was announced and nothing of       *)
(* another's, as long as no port has been shared and none was missing      *)
(* (put_handler, which knows its client by the port alone).                *)
PutsTheirOwn ==
    Mixed \/ \A t \in Transfers :
        (/\ kind[t] = "put" /\ step[t] = "done" /\ open[t] \in Inodes
         /\ Writers(open[t]) = {t}) =>
            data[open[t]] = [n \in 1..size[t] |-> t]
-----------------------------------------------------------------------------
(* The inductive invariant behind PutsWhole and GetsWhole.                 *)

FilesTypes ==
    /\ asking \in [Sessions -> Places \cup {"nothing"}]
    /\ place \in [Transfers -> Places]
    /\ size \in [Transfers -> Nat]
    /\ bareNamed \subseteq Places
    /\ entry \in [Places -> Inodes \cup {None}]
    /\ data \in [Inodes -> Seq(Int)]
    /\ emptied \in [Inodes -> Inodes]
    /\ open \in [Transfers -> Inodes \cup {None, Unset}]
    /\ length \in [Transfers -> Int]
    /\ done \in [Transfers -> Nat]
    /\ sent \in [Transfers -> Seq(Int)]
    /\ wanted \in [Transfers -> Seq(Int)]

(* How far a transfer is, by its step.                                     *)
Progress(t) ==
    /\ step[t] = "unused" => kind[t] = "get"
    /\ step[t] = "copy" => peer[t] # 0
    /\ open[t] = Unset => done[t] = 0 /\ sent[t] = <<>> /\ length[t] = None
    /\ kind[t] = "get" /\ open[t] # Unset =>
          step[t] \in {"tell", "accept", "copy", "free", "close", "done"}
    /\ kind[t] = "put" =>
          /\ done[t] <= size[t]
          /\ open[t] # Unset => step[t] \in {"copy", "done"} /\ peer[t] # 0
          /\ open[t] # Unset /\ step[t] = "done" => done[t] = size[t]

(* Whose a file is: no put reaches the old one, and those that share one   *)
(* have the name of the put that made it.                                  *)
Belongs ==
    /\ \A s \in Sessions : asking[s] \in Places => entry[asking[s]] # 0
    /\ \A t \in Transfers : Putting(t) => entry[place[t]] # 0
    /\ \A t \in Transfers : open[t] \in Inodes \ {0} =>
          /\ kind[open[t]] = "put" /\ open[open[t]] = open[t]
          /\ kind[t] = "put" => place[open[t]] = place[t]
    /\ \A t \in Transfers : kind[t] = "put" => open[t] # 0
    /\ \A p \in Places : entry[p] \in Inodes \ {0} =>
          kind[entry[p]] = "put" /\ open[entry[p]] = entry[p] /\ place[entry[p]] = p

(* The put that emptied a file last has filled it as far as it has got;    *)
(* only puts of the file have written to it, each as far as it has got;    *)
(* and a file ends where somebody has written.                             *)
Filled(i) ==
    /\ Writers(i) = {} => data[i] = <<>>
    /\ Writers(i) # {} =>
          /\ emptied[i] \in Writers(i)
          /\ done[emptied[i]] <= Len(data[i])
          /\ \A k \in 1..done[emptied[i]] : data[i][k] # Hole
    /\ \A k \in 1..Len(data[i]) :
          data[i][k] = Hole \/ \E w \in Writers(i) : data[i][k] = peer[w] /\ k <= done[w]
    /\ data[i] # <<>> => data[i][Len(data[i])] # Hole

Contents ==
    /\ data[0] = OldFile
    /\ \A i \in Inodes \ {0} : Filled(i)

(* The file of a get that found no put under way is out of every put's     *)
(* reach, and what has been sent is its beginning.                         *)
Undisturbed(t) ==
    wanted[t] # Anything =>
        /\ open[t] \in Inodes
        /\ data[open[t]] = wanted[t]
        /\ length[t] = Len(wanted[t])
        /\ done[t] <= length[t]
        /\ Len(sent[t]) = done[t]
        /\ \A k \in 1..done[t] : sent[t][k] = wanted[t][k]
        /\ step[t] \in {"free", "close", "done"} /\ peer[t] # 0 => t \in cut \/ done[t] = length[t]
        /\ \A u \in Transfers : Putting(u) => open[u] # open[t] /\ entry[place[u]] # open[t]
        /\ \A s \in Sessions : asking[s] \in Places => entry[asking[s]] # open[t]

FilesInv ==
    /\ FilesTypes
    /\ \A t \in Transfers : Progress(t)
    /\ Belongs
    /\ Contents
    /\ \A t \in Transfers : kind[t] = "get" => Undisturbed(t)
=============================================================================
