------------------------------ MODULE Transfer ------------------------------
(***************************************************************************)
(* get and put: the thread of a connection starts a handler thread, which  *)
(* looks for a port, listens on it, tells the client the number, accepts   *)
(* one connection and sends or receives the file.  get waits until no      *)
(* handler of a get has yet to read its arguments (copying_get_args); put  *)
(* does not wait.  A step ends where a thread touches something shared:    *)
(* the counter, the list of ports, the network.                            *)
(*                                                                         *)
(* bind_to_port sets the option SO_REUSEADDR | SO_REUSEPORT, which is the  *)
(* number of SO_REUSEPORT: sockets of the server may listen on one port at *)
(* the same time, and the kernel gives a connection to any of them.        *)
(***************************************************************************)
EXTENDS Integers, Sequences, FiniteSets

CONSTANTS Sessions,
          MaxTransfers,   \* bound: get and put commands given
          MaxPort         \* the ports are 1..MaxPort, MIN_FREE_PORT being 1

ASSUME TransferAssumption ==
    /\ IsFiniteSet(Sessions)
    /\ MaxTransfers \in Nat
    /\ MaxPort \in Nat

Transfers == 1..MaxTransfers
Ports     == 1..MaxPort

VARIABLES
    pc,            \* per session: where its thread is
    current,       \* per session: the transfer of the command under way
    copying,       \* copying_get_args
    spoiled,       \* history: a put has lowered it without having raised it
    kind,          \* per transfer: "get" or "put"
    owner,         \* per transfer: its session, whose conn the handler uses
    step,          \* per transfer: where its handler thread is
    port,          \* per transfer: the local variable port
    fd,            \* per transfer: server_fd, the transfer that opened it or 0
    peer,          \* per transfer: whose client accept returned, or 0
    unavailable,   \* unavailable_ports
    listening,     \* per transfer: its socket listens
    shared,        \* history: two sockets have listened on one port
    queue,         \* per transfer: clients connected to its socket
    answers,       \* history: per transfer, the answers sent, each "port" or "error"
    client,        \* per transfer: its client thread
    up             \* the server process runs

thread  == <<pc, current>>
counter == <<copying, spoiled>>
command == <<kind, owner>>
handler == <<step, port, fd, peer>>
sockets == <<listening, shared, queue, client>>
vars    == <<thread, counter, command, handler, unavailable, sockets, answers, up>>

Init ==
    /\ pc = [s \in Sessions |-> "idle"]
    /\ current = [s \in Sessions |-> 0]
    /\ copying = 0
    /\ spoiled = FALSE
    /\ kind = [t \in Transfers |-> "get"]
    /\ owner \in [Transfers -> Sessions]
    /\ step = [t \in Transfers |-> "unused"]
    /\ port = [t \in Transfers |-> 1]
    /\ fd = [t \in Transfers |-> 0]
    /\ peer = [t \in Transfers |-> 0]
    /\ unavailable = {}
    /\ listening = [t \in Transfers |-> FALSE]
    /\ shared = FALSE
    /\ queue = [t \in Transfers |-> <<>>]
    /\ answers = [t \in Transfers |-> <<>>]
    /\ client = [t \in Transfers |-> "none"]
    /\ up = TRUE

-----------------------------------------------------------------------------
(* The thread of the connection.                                           *)

Become(s, from, to) ==
    /\ up
    /\ pc[s] = from
    /\ pc' = [pc EXCEPT ![s] = to]

(* Whose transfer is a bookkeeping of the model: transfers are used in     *)
(* order, and Init has chosen their owners.                                *)
Fresh(s, t) ==
    /\ owner[t] = s
    /\ step[t] = "unused"
    /\ \A u \in 1..(t - 1) : step[u] # "unused"

(* get: copying_get_args++.                                                *)
GetStart(s, t) ==
    /\ Fresh(s, t)
    /\ Become(s, "idle", "get_create")
    /\ current' = [current EXCEPT ![s] = t]
    /\ step' = [step EXCEPT ![t] = "reserved"]
    /\ copying' = copying + 1
    /\ UNCHANGED <<spoiled, command, port, fd, peer, unavailable, sockets, answers, up>>

(* Broken variant: the failure is not undone.                              *)
GetCreateKept(s) ==
    /\ Become(s, "get_create", "get_wait")
    /\ \E to \in {"created", "done"} : step' = [step EXCEPT ![current[s]] = to]
    /\ UNCHANGED <<current, counter, command, port, fd, peer, unavailable, sockets, answers, up>>

(* pthread_create; nothing is answered when it fails.                      *)
GetCreate(s) ==
    /\ \/ /\ Become(s, "get_create", "get_wait")
          /\ step' = [step EXCEPT ![current[s]] = "created"]
       \/ /\ Become(s, "get_create", "get_undo")
          /\ step' = [step EXCEPT ![current[s]] = "done"]
    /\ UNCHANGED <<current, counter, command, port, fd, peer, unavailable, sockets, answers, up>>

GetUndo(s) ==
    /\ Become(s, "get_undo", "get_wait")
    /\ copying' = copying - 1
    /\ UNCHANGED <<spoiled, current, command, handler, unavailable, sockets, answers, up>>

(* Broken variant: the counter is not waited for.                          *)
GetCheckSkipped(s) ==
    /\ Become(s, "get_wait", "idle")
    /\ UNCHANGED <<current, counter, command, handler, unavailable, sockets, answers, up>>

(* The loop that polls the counter ends.                                   *)
GetCheck(s) ==
    /\ copying <= 0
    /\ Become(s, "get_wait", "idle")
    /\ UNCHANGED <<current, counter, command, handler, unavailable, sockets, answers, up>>

(* put, once it has found that the entry is neither there nor being        *)
(* deleted: its thread starts, or it undoes an increment it never made.    *)
Put(s, t) ==
    /\ Fresh(s, t)
    /\ \/ /\ Become(s, "idle", "idle")
          /\ step' = [step EXCEPT ![t] = "probe"]
       \/ /\ Become(s, "idle", "put_undo")
          /\ step' = [step EXCEPT ![t] = "done"]
    /\ kind' = [kind EXCEPT ![t] = "put"]
    /\ UNCHANGED <<current, counter, owner, port, fd, peer, unavailable, sockets, answers, up>>

PutUndo(s) ==
    /\ Become(s, "put_undo", "idle")
    /\ copying' = copying - 1
    /\ spoiled' = TRUE
    /\ UNCHANGED <<current, command, handler, unavailable, sockets, answers, up>>

(* exit deletes the conn the handlers of the session use.                  *)
Exit(s) ==
    /\ Become(s, "idle", "gone")
    /\ UNCHANGED <<current, counter, command, handler, unavailable, sockets, answers, up>>

-----------------------------------------------------------------------------
(* The handler thread.                                                     *)

Advance(t, from, to) ==
    /\ up
    /\ step[t] = from
    /\ step' = [step EXCEPT ![t] = to]

(* send_message on the conn of the session; a deleted one may lose it.     *)
Answer(t, what) ==
    answers' \in {[answers EXCEPT ![t] = Append(@, what)]}
                    \cup (IF pc[owner[t]] = "gone" THEN {answers} ELSE {})

(* get_handler lowers the counter before it reads its arguments.           *)
Signal(t) ==
    /\ Advance(t, "created", "examine")
    /\ copying' = copying - 1
    /\ UNCHANGED <<spoiled, thread, command, port, fd, peer, unavailable, sockets, answers, up>>

(* The session must be logged in and the name be that of a file: neither   *)
(* is part of this module, so both outcomes are possible.                  *)
Examine(t) ==
    /\ \/ Advance(t, "examine", "done") /\ Answer(t, "error")
       \/ Advance(t, "examine", "probe") /\ UNCHANGED answers
    /\ UNCHANGED <<thread, counter, command, port, fd, peer, unavailable, sockets, up>>

(* Broken variant: the next round looks at the same port.                  *)
ProbeSame(t) ==
    /\ port[t] \in Ports \ unavailable
    /\ Advance(t, "probe", IF kind[t] = "get" THEN "bind" ELSE "claim")
    /\ UNCHANGED <<thread, counter, command, port, fd, peer, unavailable, sockets, answers, up>>

(* One round of the search.  When no port is left the loop ends without a  *)
(* socket, and server_fd is what the stack held: perhaps a socket of       *)
(* another handler.                                                        *)
Probe(t) ==
    /\ \/ /\ port[t] \in Ports \ unavailable
          /\ Advance(t, "probe", IF kind[t] = "get" THEN "bind" ELSE "claim")
          /\ UNCHANGED <<port, fd>>
       \/ /\ port[t] \in unavailable
          /\ port' = [port EXCEPT ![t] = @ + 1]
          /\ Advance(t, "probe", "probe")
          /\ UNCHANGED fd
       \/ /\ port[t] > MaxPort
          /\ Advance(t, "probe", "tell")
          /\ \E u \in {0} \cup {v \in Transfers : listening[v]} : fd' = [fd EXCEPT ![t] = u]
          /\ UNCHANGED port
    /\ UNCHANGED <<thread, counter, command, peer, unavailable, sockets, answers, up>>

(* Only put_handler puts its port into the list.                           *)
Claim(t) ==
    /\ Advance(t, "claim", "bind")
    /\ unavailable' = unavailable \cup {port[t]}
    /\ UNCHANGED <<thread, counter, command, port, fd, peer, sockets, answers, up>>

(* Broken variant: listen is left to the accept.                           *)
BindOnly(t) ==
    /\ \/ Advance(t, "bind", "done") /\ Answer(t, "error") /\ UNCHANGED fd
       \/ Advance(t, "bind", "tell") /\ fd' = [fd EXCEPT ![t] = t] /\ UNCHANGED answers
    /\ UNCHANGED <<thread, counter, command, port, peer, unavailable, sockets, up>>

(* Broken variant: the handler goes on after it has reported the failure.  *)
BindGoesOn(t) ==
    /\ Advance(t, "bind", "tell")
    /\ \/ Answer(t, "error") /\ UNCHANGED <<fd, listening, shared>>
       \/ /\ fd' = [fd EXCEPT ![t] = t]
          /\ listening' = [listening EXCEPT ![t] = TRUE]
          /\ shared' = (shared \/ \E u \in Transfers \ {t} : listening[u] /\ port[u] = port[t])
          /\ UNCHANGED answers
    /\ UNCHANGED <<thread, counter, command, port, peer, unavailable, queue, client, up>>

(* bind_to_port, which throws when another program has the port, but not   *)
(* when a socket of the server listens on it.                              *)
Bind(t) ==
    /\ \/ /\ Advance(t, "bind", "done")
          /\ Answer(t, "error")
          /\ UNCHANGED <<fd, listening, shared>>
       \/ /\ Advance(t, "bind", "tell")
          /\ fd' = [fd EXCEPT ![t] = t]
          /\ listening' = [listening EXCEPT ![t] = TRUE]
          /\ shared' = (shared \/ \E u \in Transfers \ {t} : listening[u] /\ port[u] = port[t])
          /\ UNCHANGED answers
    /\ UNCHANGED <<thread, counter, command, port, peer, unavailable, queue, client, up>>

Tell(t) ==
    /\ Advance(t, "tell", "accept")
    /\ Answer(t, "port")
    /\ client' = [client EXCEPT ![t] = IF answers' = answers THEN @ ELSE "told"]
    /\ UNCHANGED <<thread, counter, command, port, fd, peer, unavailable, listening, shared, queue, up>>

(* accept returns the oldest connection of the socket.                     *)
Accept(t) ==
    /\ Advance(t, "accept", "copy")
    /\ fd[t] # 0
    /\ queue[fd[t]] # <<>>
    /\ peer' = [peer EXCEPT ![t] = Head(queue[fd[t]])]
    /\ queue' = [queue EXCEPT ![fd[t]] = Tail(@)]
    /\ UNCHANGED <<thread, counter, command, port, fd, unavailable, listening, shared, client, answers, up>>

(* accept may fail on any socket: on what is not one, when no descriptor is *)
(* left, when the connection is gone again.  The client hears of it after  *)
(* it has been told the port, where the socket goes on listening.          *)
AcceptFails(t) ==
    /\ Advance(t, "accept", "done")
    /\ Answer(t, "error")
    /\ UNCHANGED <<thread, counter, command, port, fd, peer, unavailable, sockets, up>>

(* get_handler sends the file and goes on; put_handler returns when it has *)
(* received the number of bytes announced.                                 *)
Copy(t) ==
    /\ Advance(t, "copy", IF kind[t] = "get" THEN "free" ELSE "done")
    /\ UNCHANGED <<thread, counter, command, port, fd, peer, unavailable, sockets, answers, up>>

(* get_handler can not read on: it sends the error where answers go, ends  *)
(* what it has sent of the file, and goes on as if it were complete.       *)
ReadFails(t) ==
    /\ kind[t] = "get"
    /\ Advance(t, "copy", "free")
    /\ Answer(t, "error")
    /\ UNCHANGED <<thread, counter, command, port, fd, peer, unavailable, sockets, up>>

(* Only get_handler takes its port out of the list and closes its socket.  *)
Free(t) ==
    /\ Advance(t, "free", "close")
    /\ unavailable' = unavailable \ {port[t]}
    /\ UNCHANGED <<thread, counter, command, port, fd, peer, sockets, answers, up>>

Close(t) ==
    /\ Advance(t, "close", "done")
    /\ listening' = [u \in Transfers |-> listening[u] /\ u # fd[t]]
    /\ queue' = [u \in Transfers |-> IF u = fd[t] THEN <<>> ELSE queue[u]]
    /\ UNCHANGED <<thread, counter, command, port, fd, peer, unavailable, shared, client, answers, up>>

(* receive_N throws in the thread of a put whose client is silent or       *)
(* closes, and nothing catches it; a get that sends to a client that has   *)
(* gone raises SIGPIPE, which nothing handles; a handler touches a deleted *)
(* conn.                                                                   *)
Die ==
    /\ up
    /\ \E t \in Transfers :
          \/ step[t] = "copy"
          \/ pc[owner[t]] = "gone" /\ step[t] \in {"created", "examine", "bind", "tell", "accept"}
    /\ up' = FALSE
    /\ UNCHANGED <<thread, counter, command, handler, unavailable, sockets, answers>>

-----------------------------------------------------------------------------
(* The thread the client starts when it reads the number of a port.        *)
Connect(c) ==
    LET open == {u \in Transfers : listening[u] /\ port[u] = port[c]}
    IN  /\ up
        /\ client[c] = "told"
        /\ \/ /\ open = {}
              /\ client' = [client EXCEPT ![c] = "refused"]
              /\ UNCHANGED queue
           \/ /\ client' = [client EXCEPT ![c] = "connected"]
              /\ \E u \in open : queue' = [queue EXCEPT ![u] = Append(@, c)]
        /\ UNCHANGED <<thread, counter, command, handler, unavailable, listening, shared, answers, up>>

-----------------------------------------------------------------------------
Run(s) == GetCreate(s) \/ GetUndo(s) \/ GetCheck(s) \/ PutUndo(s)

Handle(t) ==
    \/ Signal(t) \/ Examine(t) \/ Probe(t) \/ Claim(t) \/ Bind(t) \/ Tell(t)
    \/ Accept(t) \/ Free(t) \/ Close(t)

Next ==
    \/ \E s \in Sessions : Run(s) \/ Exit(s)
    \/ \E s \in Sessions, t \in Transfers : GetStart(s, t) \/ Put(s, t)
    \/ \E t \in Transfers :
          Handle(t) \/ AcceptFails(t) \/ Copy(t) \/ ReadFails(t) \/ Connect(t)
    \/ Die

(* Every thread of the server gets to run.  Nothing is assumed of clients, *)
(* nor of copying a file, which waits for them; accept need not fail.      *)
Spec ==
    /\ Init
    /\ [][Next]_vars
    /\ \A s \in Sessions : WF_vars(Run(s))
    /\ \A t \in Transfers : WF_vars(Handle(t))
-----------------------------------------------------------------------------
(* Properties.                                                             *)

(* The control variables have their types.                                 *)
TypeOK ==
    /\ pc \in [Sessions -> {"idle", "get_create", "get_undo", "get_wait", "put_undo", "gone"}]
    /\ current \in [Sessions -> 0..MaxTransfers]
    /\ copying \in Int
    /\ spoiled \in BOOLEAN
    /\ owner \in [Transfers -> Sessions]
    /\ step \in [Transfers -> {"unused", "reserved", "created", "examine", "probe", "claim",
                               "bind", "tell", "accept", "copy", "free", "close", "done"}]

(* The handler of a get has taken note of its arguments when get returns,  *)
(* however the gets of other sessions raise and lower the counter they all *)
(* share, and however many threads can not be created: until put undoes an *)
(* increment it never made (get, whose last line is "wait until            *)
(* copying_get_args reaches 0").                                           *)
BarrierKept ==
    ~spoiled =>
        \A t \in Transfers : step[t] = "created" =>
            /\ pc[owner[t]] = "get_wait"
            /\ current[owner[t]] = t

(* No session is stuck in get, as long as gets are given finitely often.   *)
GetReturns ==
    \A s \in Sessions : pc[s] = "get_create" ~> (pc[s] = "idle" \/ ~up)

(* A get or put whose thread has started is answered, whichever ports are  *)
(* in use, reserved by a put that is over or taken by other programs, and  *)
(* even when none is left.                                                 *)
TransferAnswered ==
    \A t \in Transfers :
        step[t] \in {"created", "probe"} ~>
            (answers[t] # <<>> \/ pc[owner[t]] = "gone" \/ ~up)

(* Some search has looked at every port: its handler tells one it does not *)
(* listen on.                                                              *)
Exhausted == \E t \in Transfers : port[t] > MaxPort

(* However a transfer ends, what is sent for it where the answers of the   *)
(* commands go is its port or an error, or its port and then one error     *)
(* when accept or a read fails: never a port after an error, nor two of    *)
(* one kind; and a put that has a client sends nothing any more            *)
(* (put_handler, get_handler, which answer from a thread of their own).    *)
AnswersInOrder ==
    \A t \in Transfers :
        /\ answers[t] \in {<<>>, <<"error">>, <<"port">>, <<"port", "error">>}
        /\ kind[t] = "put" /\ peer[t] # 0 => answers[t] \in {<<>>, <<"port">>}

(* docs/documentation.tex:22 "in the get command the server spawns a new   *)
(* socket that will send the file's bytes to the client": the connection a *)
(* handler of a get accepts is that of the client it was started for.      *)
(* Violated: handlers of gets reserve no port, so two of them may listen   *)
(* on the same one.                                                        *)
ServesItsClient ==
    \A t \in Transfers : kind[t] = "get" => peer[t] \in {0, t}

(* A handler that has not come to telling its port.                        *)
Unanswered == {"unused", "reserved", "created", "examine", "probe", "claim", "bind", "tell"}

(* The transfers as Exchange sees them.                                    *)
Heard ==
    [t \in Transfers |->
        IF step[t] \in {"unused", "reserved"} THEN "none"
        ELSE IF answers[t] = <<"port">> THEN "told"
        ELSE IF answers[t] = <<"port", "error">> THEN "failed"
        ELSE IF answers[t] # <<>> THEN "refused"
        ELSE IF step[t] \in Unanswered THEN "begun"
        ELSE "nothing"]

Link == [t \in Transfers |-> IF client[t] = "told" THEN "none" ELSE client[t]]

Ended == {t \in Transfers : pc[owner[t]] = "gone"}

Promise == INSTANCE Exchange WITH heard <- Heard, link <- Link, served <- peer, ended <- Ended

(* As long as no search has run out of ports and no two sockets have had   *)
(* the same one, each transfer goes as Exchange says: the port told is one *)
(* at which the client finds a socket, that socket is the one of the       *)
(* handler started for it, whoever is not told a port is told an error,    *)
(* and a handler whose accept has failed serves nobody (put_handler and    *)
(* get_handler, from the search to the end).                               *)
Mixed == Exhausted \/ shared

ImplementsExchange == Promise!Init /\ [][Promise!Next \/ Mixed']_Promise!exchange
-----------------------------------------------------------------------------
(* The inductive invariant behind BarrierKept.                             *)

(* The sessions that have raised the counter for a get whose lowering is   *)
(* still to come, by the thread of the session or by the handler.          *)
Pending ==
    {s \in Sessions : \/ pc[s] \in {"get_create", "get_undo"}
                      \/ pc[s] = "get_wait" /\ step[current[s]] = "created"}

(* The transfer of a session inside get is its own, in the state the       *)
(* session has brought it to.                                              *)
InsideGet ==
    \A s \in Sessions :
        /\ pc[s] \in {"get_create", "get_undo", "get_wait"} =>
              current[s] \in Transfers /\ owner[current[s]] = s
        /\ pc[s] = "get_create" => step[current[s]] = "reserved"
        /\ pc[s] = "get_undo" => step[current[s]] = "done"

(* A get that is not yet signalled has its session inside the command.     *)
Waited ==
    \A t \in Transfers :
        /\ step[t] = "reserved" => pc[owner[t]] = "get_create" /\ current[owner[t]] = t
        /\ step[t] = "created" => pc[owner[t]] = "get_wait" /\ current[owner[t]] = t

(* Until put spoils it the counter counts the pending sessions.            *)
CountInv ==
    ~spoiled =>
        /\ InsideGet
        /\ Waited
        /\ copying = Cardinality(Pending)
-----------------------------------------------------------------------------
(* The inductive invariant behind AnswersInOrder: a handler has not        *)
(* answered before it tells its port, and only a handler that waits for    *)
(* its client or reads has a second answer to give.                        *)
AnswerState(t) ==
    /\ answers[t] \in {<<>>, <<"error">>, <<"port">>, <<"port", "error">>}
    /\ step[t] \in Unanswered => answers[t] = <<>>
    /\ step[t] \in {"accept", "copy"} =>
          answers[t] = <<"port">> \/ (answers[t] = <<>> /\ pc[owner[t]] = "gone")
    /\ peer[t] # 0 => step[t] \in {"copy", "free", "close", "done"}
    /\ kind[t] = "put" /\ peer[t] # 0 => answers[t] \in {<<>>, <<"port">>}

(* Unless the ports are exhausted the descriptor of a handler is its own   *)
(* socket, which listens until it has accepted.                            *)
SocketState(t) ==
    /\ step[t] \in {"tell", "accept", "copy", "free", "close"} => fd[t] = t
    /\ step[t] \in {"tell", "accept"} => listening[t]

(* A session about to create the thread of a get has a transfer of its own *)
(* that waits for it.                                                      *)
Reserved ==
    \A s \in Sessions : pc[s] = "get_create" =>
        current[s] \in Transfers /\ owner[current[s]] = s /\ step[current[s]] = "reserved"

HandlerTypes ==
    /\ kind \in [Transfers -> {"get", "put"}]
    /\ port \in [Transfers -> Nat]
    /\ fd \in [Transfers -> 0..MaxTransfers]
    /\ peer \in [Transfers -> 0..MaxTransfers]
    /\ listening \in [Transfers -> BOOLEAN]
    /\ shared \in BOOLEAN
    /\ queue \in [Transfers -> Seq(Transfers)]
    /\ answers \in [Transfers -> Seq({"port", "error"})]
    /\ client \in [Transfers -> {"none", "told", "connected", "refused"}]

AnswerInv ==
    /\ HandlerTypes
    /\ Reserved
    /\ \A t \in Transfers : AnswerState(t)
    /\ Exhausted \/ \A t \in Transfers : SocketState(t)
-----------------------------------------------------------------------------
(* The inductive invariant behind ImplementsExchange: unless the ports are *)
(* exhausted or one has been shared, a client finds the socket of its own  *)
(* handler at the port it was told, and no other client has come there.    *)
OwnClient(t) ==
    /\ listening[t] => step[t] \in {"tell", "accept", "copy", "free", "close", "done"}
    /\ step[t] \in Unanswered => client[t] = "none"
    /\ client[t] = "told" => step[t] \in {"accept", "done"} /\ listening[t]
    /\ client[t] # "refused"
    /\ client[t] # "none" => answers[t] \in {<<"port">>, <<"port", "error">>}
    /\ peer[t] \in {0, t}
    /\ queue[t] # <<>> => client[t] = "connected"
    /\ \A i \in 1..Len(queue[t]) : queue[t][i] = t

PortsDiffer ==
    \A t, u \in Transfers : t # u /\ listening[t] /\ listening[u] => port[t] # port[u]

RouteInv == Mixed \/ (PortsDiffer /\ \A t \in Transfers : OwnClient(t))
=============================================================================
