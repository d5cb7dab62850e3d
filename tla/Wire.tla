-------------------------------- MODULE Wire --------------------------------
(***************************************************************************)
(* One client and the thread of its connection, as two ends of a TCP       *)
(* stream that may cut what is written at any place: the client gives a    *)
(* command at a time and reads up to the end-of-transmission byte          *)
(* (client.cpp, sockets::receive_all); the server puts the lines together  *)
(* again and runs them (connection_handler).  What a command does is the   *)
(* subject of Grass and Transfer; here it sends one answer, of any length. *)
(* A get or put may be answered later, by a thread of its own, which may   *)
(* send an error after the port; and the client starts a thread for an     *)
(* answer in which it finds a port, whatever command it thinks answered.   *)
(***************************************************************************)
EXTENDS Integers, Sequences
LOCAL INSTANCE SequencesExt

CONSTANTS Letters,       \* what lines and answers are made of
          GetLines,      \* the lines that are a get, or a put with a valid
          PutLines,      \* length
          PortText,      \* per kind of transfer: the text that tells a port
          NewLine,
          EOT,           \* sockets::end_of_transmission
          ServerBuffer,  \* SOCKET_BUFFER_SIZE
          ClientBuffer,  \* the buffer of receive_all
          MaxLine,       \* bounds: length of a line and of an answer, and
          MaxAnswer,     \* number of commands given
          MaxCommands

ASSUME WireAssumption ==
    /\ NewLine \notin Letters
    /\ EOT \notin Letters
    /\ GetLines \cap PutLines = {}
    /\ {ServerBuffer, ClientBuffer} \subseteq Nat \ {0}
    /\ {MaxLine, MaxAnswer, MaxCommands} \subseteq Nat

Lines   == BoundedSeq(Letters, MaxLine) \ {<<>>}
Texts   == BoundedSeq(Letters, MaxAnswer)

Kinds == {"get", "put"}

(* regex_search: the text may be anywhere in the answer.                   *)
Has(text, port) == port \in SubSeqs(text)
HasPort(text)   == \E k \in Kinds : Has(text, PortText[k])

IsTransfer(line) == line \in GetLines \cup PutLines
KindOf(line)     == IF line \in GetLines THEN "get" ELSE "put"
IsKind(line, k)  == IsTransfer(line) /\ KindOf(line) = k

VARIABLES
    client,      \* "ready" to give a command, "polling" for the answer, in the
                 \* loop of recv ("receiving"), or "gone"
    errno,       \* what the last call that failed in the client left there
    watching,    \* watching_for_port_number and watching_for_port_number_put
    started,     \* history: the threads it started, <<command, kind>>
    untainted,   \* history: how many were given while errno was 0
    toServer,    \* bytes on their way
    toClient,
    received,    \* output_buffer
    server,      \* the connection's thread: "reading", "running" or "ended"
    toProcess,   \* to_process
    pending,     \* processed_lines, from command_line on
    late,        \* the handlers that have yet to answer: their kinds
    serving,     \* how many have told a port and may still send an error
    twice,       \* history: whether one did
    given,       \* history: the lines given, and the answers printed, by the
    printed,     \* client; the lines run, and the answers sent, by the server
    ran,
    answered

transferVars == <<errno, watching, started, untainted>>
clientVars   == <<client, received, given, printed, transferVars>>
handlerVars  == <<late, serving, twice>>
serverVars   == <<server, toProcess, pending, handlerVars, ran, answered>>
vars == <<clientVars, serverVars, toServer, toClient>>

Init ==
    /\ client = "ready"
    /\ server = "reading"
    /\ toServer = <<>> /\ toClient = <<>>
    /\ received = <<>> /\ toProcess = <<>> /\ pending = <<>>
    /\ late = <<>> /\ serving = 0 /\ twice = FALSE
    /\ errno = "none" /\ watching = {} /\ started = {} /\ untainted = 0
    /\ given = <<>> /\ printed = <<>> /\ ran = <<>> /\ answered = <<>>

-----------------------------------------------------------------------------
(* The client.                                                             *)

(* The kinds of transfer whose port the client looks for from now on.  For *)
(* a put it converts the length and takes any errno, whoever left it, for  *)
(* a failure of strtol.                                                    *)
Watched(line) ==
    IF line \in PutLines /\ errno # "none" THEN {}
    ELSE IF IsTransfer(line) THEN {KindOf(line)} ELSE {}

Give(line) ==
    /\ client = "ready"
    /\ Len(given) < MaxCommands
    /\ client' = "polling"
    /\ given' = Append(given, line)
    /\ received' = <<>>
    /\ toServer' = toServer \o line \o <<NewLine>>
    /\ watching' = watching \cup Watched(line)
    /\ untainted' = untainted + (IF errno = "none" THEN 1 ELSE 0)
    /\ UNCHANGED <<printed, errno, started, serverVars, toClient>>

(* The kinds that are looked for and found in an answer.                   *)
Found(response) == {k \in watching : Has(response, PortText[k])}

(* Broken variant: the flags stay set.                                     *)
TakeAnswerKeeping(response) ==
    /\ client' = "ready"
    /\ received' = <<>>
    /\ printed' = Append(printed, response)
    /\ started' = started \cup {<<Len(given), k>> : k \in Found(response)}
    /\ watching' = watching

(* The answer is complete: it is printed, and for each kind of port that   *)
(* is looked for and found in it, a thread is started.                     *)
TakeAnswer(response) ==
    /\ client' = "ready"
    /\ received' = <<>>
    /\ printed' = Append(printed, response)
    /\ started' = started \cup {<<Len(given), k>> : k \in Found(response)}
    /\ watching' = watching \ Found(response)

(* One recv of receive_all: it looks for the end-of-transmission byte at   *)
(* the end of what it got.                                                 *)
Receive(n) ==
    LET all == received \o SubSeq(toClient, 1, n)
    IN  /\ client \in {"polling", "receiving"}
        /\ n <= Len(toClient)
        /\ toClient' = SubSeq(toClient, n + 1, Len(toClient))
        /\ IF Last(all) = EOT
           THEN TakeAnswer(Front(all))
           ELSE /\ client' = "receiving"
                /\ received' = all
                /\ UNCHANGED <<printed, watching, started>>
        /\ UNCHANGED <<given, errno, untainted, serverVars, toServer>>

(* A recv that finds nothing, as the rest is still on its way, fails, and  *)
(* the loop polls again.                                                   *)
WouldBlock ==
    /\ client = "receiving"
    /\ client' = "polling"
    /\ errno' = "EWOULDBLOCK"
    /\ UNCHANGED <<received, given, printed, watching, started, untainted, serverVars, toServer,
                   toClient>>

(* Broken variant: poll without a time limit.                              *)
GiveUpNever ==
    /\ client = "never"
    /\ client' = "gone"
    /\ UNCHANGED <<received, given, printed, transferVars, serverVars, toServer, toClient>>

(* poll finds nothing for 1500 ms: the client ends.                        *)
GiveUp ==
    /\ client = "polling"
    /\ toClient = <<>>
    /\ client' = "gone"
    /\ UNCHANGED <<received, given, printed, transferVars, serverVars, toServer, toClient>>

-----------------------------------------------------------------------------
(* The server.                                                             *)

(* The macro push_inside_to_process on the chunk that was read; idx and    *)
(* end are buffer_idx and end_last_copy.  It gives substr an index where a *)
(* length is meant.                                                        *)
Pushed(chunk, cut) ==
    LET last == cut.end + 1 + cut.idx
    IN  IF cut.idx > cut.end + 1
        THEN cut.line \o SubSeq(chunk, cut.end + 2,
                                IF last < Len(chunk) THEN last ELSE Len(chunk))
        ELSE cut.line

(* Broken variant: the line is not reset.                                  *)
ScanKeeping(chunk, cut, chr) ==
    LET line == Pushed(chunk, cut)
    IN  IF chr # NewLine
        THEN [cut EXCEPT !.idx = @ + 1]
        ELSE [idx |-> cut.idx + 1, end |-> cut.idx, line |-> line,
              lines |-> IF line = <<>> THEN cut.lines ELSE Append(cut.lines, line)]

(* One round of the loop over the characters of the chunk.                 *)
Scan(chunk, cut, chr) ==
    LET line == Pushed(chunk, cut)
    IN  IF chr # NewLine
        THEN [cut EXCEPT !.idx = @ + 1]
        ELSE [idx |-> cut.idx + 1, end |-> cut.idx, line |-> <<>>,
              lines |-> IF line = <<>> THEN cut.lines ELSE Append(cut.lines, line)]

(* The state of the loop before its first round and after each of them.    *)
Rounds(line, chunk) ==
    LET start == [idx |-> 0, end |-> -1, line |-> line, lines |-> <<>>]
        cut[k \in 0..Len(chunk)] ==
            IF k = 0 THEN start ELSE Scan(chunk, cut[k - 1], chunk[k])
    IN  cut

(* What the loop makes of a chunk, with the macro that follows it.         *)
CutUp(line, chunk) ==
    LET cut == Rounds(line, chunk)[Len(chunk)]
    IN  [line |-> Pushed(chunk, cut), lines |-> cut.lines]

Read(n) ==
    LET cut == CutUp(toProcess, SubSeq(toServer, 1, n))
    IN  /\ server = "reading"
        /\ n <= Len(toServer)
        /\ n < ServerBuffer
        /\ toServer' = SubSeq(toServer, n + 1, Len(toServer))
        /\ toProcess' = cut.line
        /\ pending' = cut.lines
        /\ server' = IF cut.lines = <<>> THEN "reading" ELSE "running"
        /\ UNCHANGED <<handlerVars, ran, answered, clientVars, toClient>>

(* A read that fills the buffer, or that finds the client gone, ends the   *)
(* thread; the socket stays open.                                          *)
ReadEnds ==
    /\ server = "reading"
    /\ Len(toServer) >= ServerBuffer \/ (client = "gone" /\ toServer = <<>>)
    /\ server' = "ended"
    /\ UNCHANGED <<toProcess, pending, handlerVars, ran, answered, clientVars, toServer, toClient>>

(* send_message: the text with the byte at its end.                        *)
Send(text) ==
    /\ answered' = Append(answered, text)
    /\ toClient' = toClient \o text \o <<EOT>>

(* run_command returns.                                                    *)
Ran ==
    /\ server = "running"
    /\ ran' = Append(ran, Head(pending))
    /\ pending' = Tail(pending)
    /\ server' = IF Len(pending) = 1 THEN "reading" ELSE "running"
    /\ UNCHANGED <<toProcess, clientVars, toServer>>

(* A command that its handler answers, with any text: what a file, a       *)
(* directory or a program makes of it may read like a port.                *)
RunCommand(text) ==
    /\ Ran
    /\ Send(text)
    /\ UNCHANGED handlerVars

(* A get or put that leaves the answer to a thread.                        *)
RunTransfer ==
    /\ Ran
    /\ IsTransfer(Head(pending))
    /\ late' = Append(late, KindOf(Head(pending)))
    /\ UNCHANGED <<serving, twice, answered, toClient>>

(* The handler tells a port, or an error.                                  *)
LateAnswer(text) ==
    /\ \E i \in 1..Len(late) :
          /\ late' = RemoveAt(late, i)
          /\ \/ text = PortText[late[i]] /\ serving' = serving + 1
             \/ ~HasPort(text) /\ serving' = serving
    /\ Send(text)
    /\ UNCHANGED <<twice, server, toProcess, pending, ran, clientVars, toServer>>

(* A handler that has told its port fails in accept, or in reading the     *)
(* file, and sends an error on the same connection.                        *)
SecondAnswer(text) ==
    /\ serving > 0
    /\ serving' = serving - 1
    /\ twice' = TRUE
    /\ ~HasPort(text)
    /\ Send(text)
    /\ UNCHANGED <<late, server, toProcess, pending, ran, clientVars, toServer>>

-----------------------------------------------------------------------------
ClientNext ==
    \/ GiveUp
    \/ WouldBlock
    \/ \E n \in 1..ClientBuffer : Receive(n)

Next ==
    \/ ClientNext
    \/ \E line \in Lines : Give(line)
    \/ \E n \in 1..ServerBuffer : Read(n)
    \/ ReadEnds
    \/ RunTransfer
    \/ \E text \in Texts : RunCommand(text) \/ LateAnswer(text) \/ SecondAnswer(text)

(* The client's loop goes on; nothing is assumed of the server.            *)
Spec == Init /\ [][Next]_vars /\ WF_vars(ClientNext)
-----------------------------------------------------------------------------
(* Properties.                                                             *)

Promise == INSTANCE Dialogue WITH
    caller <- IF client \in {"polling", "receiving"} THEN "waiting" ELSE client

(* However the stream cuts what is written, and whichever thread answers,  *)
(* the server runs the lines the client gave, each once, unaltered and in  *)
(* order, although the cutting takes an index for a length                 *)
(* (push_inside_to_process), and what the client prints for its k-th       *)
(* command is the answer to it, complete (receive_all, which looks at the  *)
(* last byte of a recv only).  All this until a handler that has told its  *)
(* port sends an error too: then the answers are one more than the lines,  *)
(* and the client takes each for the answer to a later line.               *)
ImplementsDialogue ==
    Promise!Init /\ [][Promise!Next \/ twice']_Promise!dialogue

(* Whatever the flags were left at by transfers that failed, whatever the  *)
(* answers say and however many there are, the client starts a thread for  *)
(* a port only while a transfer of that kind has had none: the answer has  *)
(* the port, and since some get (put) up to that command no thread of the  *)
(* kind was started.  And a transfer whose own answer has the port has its *)
(* thread at once, but for a put given after an answer that came in        *)
(* pieces, when errno was no longer 0 (client.cpp, main).  That the port   *)
(* is the one of that transfer is not promised: a get that failed leaves   *)
(* the flag, and an answer of cat, ls or grep may read like a port.        *)
PortsGetThreads ==
    client = "ready" =>
        \A k \in 1..Len(given), kind \in Kinds :
            /\ <<k, kind>> \in started =>
                  /\ Has(printed[k], PortText[kind])
                  /\ \E j \in 1..k : /\ IsKind(given[j], kind)
                                     /\ \A i \in j..(k - 1) : <<i, kind>> \notin started
            /\ IsKind(given[k], kind) /\ Has(printed[k], PortText[kind]) =>
                  <<k, kind>> \in started \/ (kind = "put" /\ k > untainted)

(* The client does not wait for ever, even when the server's thread has    *)
(* ended and left the socket open.                                         *)
ClientGoesOn == client = "polling" ~> client \in {"ready", "gone"}
=============================================================================
