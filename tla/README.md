# GRASS: a verification of the server and its client

GRASS ("GRep AS a Service") is a small file-sharing server and its client, in C++ with POSIX threads. This directory holds TLA+ models of it, the TLC runs that check them and the TLAPS proofs about them. Paths below are relative to the repository (`src/server/commands.cpp` is the file of that name in it).

## 1. Inventory

| Part | Code | State it keeps | Operations |
|---|---|---|---|
| Acceptor, connection loop | `src/server/server.cpp` | one thread and one `conn` per connection; a partial line; `client_handlers` | accept, read a chunk, cut it into lines, run each line, leave |
| Command handlers | `src/server/commands.cpp` | none of their own, except for get and put | login, pass, logout, exit, cd, ls, mkdir, rm, get, put, grep, date, w, whoami, ping |
| Connection object | `src/server/conn.cpp` | `loginStatus` (-1, 0, 1), `user`, `currentDir`, the socket | setters, wrappers of the tables, `send_message` |
| UserReadTable | `src/server/UserReadTable.cpp` | map from path to the users who read it, a mutex | addFile, removeFile, isBeingRead |
| FileDeleteTable | `src/server/FileDeleteTable.cpp` | set of paths being deleted, a mutex | isBeingDeleted, setAsDeleted, removeAsDeleted |
| ActiveUserTable | `src/server/ActiveUsersTable.cpp` | set of users, a mutex | AddUser, removeUser, getAllLoggedInUsers |
| Path arithmetic | `src/parsing.cpp` | none | resolve_path, get_relative_path, exceedsMaxLength, format, split_string, join_vector |
| System commands | `src/server/systemcmd.cpp`, `pathvalidate.cpp` | the directory tree below the base | stat, and the programs mkdir, rm, ls, grep, date, ping |
| ping | `src/server/systemcmd.cpp:18-37` | a condition variable in the caller's frame, a detached worker | start, wait five seconds, notify |
| Transfers | `src/server/commands.cpp:246-506`, `socketsUtils.cpp` | `copying_get_args`, `unavailable_ports`, one handler thread and one listening socket each | count, find a port, bind, tell, accept, copy, free |
| Socket helpers, client | `src/sockets.cpp`, `src/client/client.cpp` | one command under way, the bytes received | send a line, receive up to the end-of-transmission byte, connect for a transfer |
| Command grammar | `src/parsing.cpp:60-127`, `commandParsing.cpp`, `commands.cpp:573-642`, `client.cpp:196-228` | none | split a line, look up its command, call the handlers; the client's own reading of the line |
| Configuration file | `conf.cpp` | none that changes | look up users and passwords, base and port |
| grep over the tree | `filefetching.cpp`, `commands.cpp:523-547` | none of its own | list a directory, test its entries, go down, run grep on each file |

**Interaction.** Each connection has a thread, which runs one command at a time and sends one answer, a text that ends with an end-of-transmission byte. Threads share the three tables (each call locks its own table's mutex; `isBeingRead` and `getAllLoggedInUsers` do not lock), the directory tree (through `stat` and child processes), and, for get and put, a counter and a list of ports, each with a mutex. get, put and grep read and write files of the tree without any lock; only put asks whether its file is being removed, and long before it opens it. get and put answer from a thread of their own, which uses the `conn` of the session by pointer. The client gives a line, waits for the byte, and starts a thread for the connection of a transfer.

**What is hard.** Every handler of cd, mkdir and rm is a sequence of separately locked calls and system calls, so the sessions interleave between a test and what it is a test for; handlers throw in the middle; the tables are written under one form of a path and read under another; a worker of ping and the handlers of transfers outlive the call, or the object, they refer to; a shared counter decides when any get returns; a file is opened, and read or written, long after it was tested for; a walk over the tree meets a tree that changes; a stream cuts lines and answers anywhere, and the client's flags and `errno` outlive the command they were set for. The list with its source lines is `hazards` in `PROJECT.json`.

**What makes each part correct.** Commands: nobody gets past the login check without a password, and without it the tree only gains what put, which has no such check, adds; each command is answered exactly once, however its handler ends. Tables: a directory somebody is in has a reader and is not removed; an entry marked by an rm is neither entered nor made again while the rm runs; the list of users is that of the sessions logged in. Paths: a path is accepted if and only if it stays below the base, and means the place it walks to. ping: each is answered, by its own output. Transfers: get waits for its handler, each transfer is answered, by a port or an error and, when the handler fails later, an error after the port; each client is served by its own handler; a file is sent whole, or up to where it can not be read, and left whole by those who write it. grep: it finds what is there all the time and is not hidden, reports nothing that never was, and ends. Texts: a line is cut at its spaces outside of quotes, the client and the server take the same lines for transfers if they cut them alike, and a user has one password. Wire: the lines run are the lines given, the answers printed are those of the commands, until a handler sends a second answer; and a thread of the client is started for an answer with a port, and while a transfer of its kind has had none.

## 2. Modules

| Module | Models | Uses |
|---|---|---|
| `Paths` | a text as the sequence of its components; `resolve_path` and the keys of the tables | |
| `PathsCheck` | enumerates directories and arguments; an independent definition of what a path means | `Paths` |
| `Grammar` | `split_string`, the table of commands, the conditions of `run_command`, the client's reading of a line, the users of `grass.conf` | |
| `TextCheck` | enumerates lines, split lines and configuration files; definitions of what they mean | `PathsCheck`, `Grammar` |
| `Induction` | proofs: the least element of a set, what is true of each step up to a number, functions defined by recursion | TLAPS |
| `TextProofs` | proofs about the paths, lines and configuration files of `TextCheck`, of any length | `TextCheck`, `Induction` |
| `ReadTable` | the map of `UserReadTable` and what each call does to it | `Paths` |
| `Grass` | the server: sessions, connection objects, the three tables, the tree, every command handler; of put its tests and the file it makes, of get nothing but that it is over | `ReadTable` |
| `LoginGate` | abstract: who may become whom, and who may move or change the tree; anybody may add files | |
| `GrassGate` | the refinement mapping from `Grass` to `LoginGate` | `Grass`, `LoginGate` |
| `GrassPromises` | what documents say of `Grass` and the code does not keep | `Grass` |
| `GrassProofs` | proofs about `Grass` and `GrassGate` | `GrassGate`, TLAPS |
| `MCGrass` | instances of `Grass` for TLC | |
| `Ping`, `PingProofs`, `MCPing` | `SystemCommands::ping`, proofs, instance | |
| `Exchange` | abstract: what whoever asks for a transfer hears, and who is served by whom | |
| `Transfer`, `TransferProofs`, `MCTransfer` | get and put, the refinement mapping to `Exchange`, proofs, instances | `Exchange` |
| `Files`, `FilesProofs`, `MCFiles` | what get and put read and write, beside rm: each step is one of `Transfer` or leaves its state alone; proofs, instance | `Transfer` |
| `Grep`, `GrepProofs`, `MCGrep` | the walk of grep over a tree other sessions change, proofs, instance | |
| `Dialogue` | abstract: a client and a server that take turns | |
| `Wire`, `WireProofs`, `MCWire` | a client and its connection thread over a TCP stream, and the refinement mapping to `Dialogue`; proofs, instance | `Dialogue`, `Induction` |

Names are those of the code where TLA+ allows. Definitions introduced by "Broken variant" are not part of any specification: each is a plausible bug, put in the place of the definition that follows it to see that a property notices.

### Grass

The state of session `s` is that of its `conn` (`status`, `user`, `cwd`) and of its thread: `pc[s]` names the shared access the thread makes next, `target[s]` the place its command is about. `active`, `reads` and `deletes` are the tables, `dirs` and `files` the tree. A history variable says how many answers the last command got (`sent`).

A step ends where the thread touches something shared. So `cd` is `CdStart` (path, `isDir`), `CdCheck` (`isBeingDeleted`), `CdLeave` (`removeFile`), `CdEnter` (`addFile`, the new `currentDir`, the answer); `mkdir` is `MkdirStart`, `MkdirRead`, `MkdirExists`, `MkdirParent`, `MkdirExec`, `MkdirRelease`; `rm` is `RmStart`, `RmMark`, `RmExists`, any number of `RmUnlink` (the program removes one entry at a time, deepest first), `RmExit`, `RmRelease`; `put` is `PutStart` (`exists`), `PutCheck` (`isBeingDeleted`, with the text `PutKey`, and the thread), and `PutOpens`, the `ofstream` of that thread, at any time after. put asks for no login, at any of them, so that `Guarded`, the steps only a session that is logged in takes, leaves them out. What a thread does to its own `conn` between two accesses is in the step of the access.

Details the model keeps because the properties turn on them: `hasKey` answers the opposite of its name; `removeFile` skips a key that is present, and then reaches no shorter prefix; `isBeingRead` looks the file name up among user names; cd records `a/b` where mkdir, rm and the tests use `base/a/b`; mkdir and rm quote the path between entering it in a table and taking it out; `getCurrentDir` doubles the slash below the base; `isDir` on a path that does not exist reads an unset buffer (`UninitStat`); `exceedsMaxLength` reads past the base (`Overread`); the results of the mkdir and rm programs are not looked at, nor whether the stream of a put has opened its file.

Abstracted: names are opaque; length is counted in components; `isBeingRead` and `w` are atomic although they take no lock (as data races on a `std::map` and a `std::set` they have no defined outcome); the configuration file does not change while the server runs; the base directory is one component, as in both `grass.conf` files of the repository.

### Transfer

Per session the place of its thread in get or put, per transfer its handler thread, its `port`, its `server_fd`, its listening socket and the clients connected to it. `bind_to_port` sets the option `SO_REUSEADDR | SO_REUSEPORT`; on Linux this is the number of `SO_REUSEPORT`, so several sockets of the server may listen on a port, and `Connect` lets the kernel choose among them. When no port is left the search ends without a socket and `server_fd` is whatever the stack held (`Probe`). accept may fail on any socket, be it none, be no descriptor left, or be the connection gone again (`AcceptFails`), and a read of the file may fail (`ReadFails`): the handler then sends an error after the port it has told, and after a failed accept leaves its socket listening. The history variable `shared` remembers that two sockets have listened on one port. A handler that uses a deleted `conn` may lose its answer or end the server; `receive_N` throws in a thread where nothing catches (`Die`). Whether the session is logged in and the file exists (`Examine`), and what put finds in the tree, are free choices.

### Files

`Files` EXTENDS `Transfer` and constrains its steps. A name leads to an inode, and `rm` takes the name away while whoever has the file open keeps the inode, as on any POSIX file system; `ofstream` makes the file or empties it (`PutOpen`), and each stream writes at its own offset (`Written`). `put` is split where the code looks at something shared: `PutExists` (stat), `PutRefused` or `PutGoesOn` (`isBeingDeleted`, the thread), `PutOpen` (after the accept), one `PutChunk` for each recv, up to the `size` this put has announced. `get` is `GetOpen` (the file and its length), `FilesTell`, one `GetChunk` for each read, up to the length that was told, unless the file can not be read on (`FilesReadFails`, remembered in `cut`). The history variable `emptied` says which put has made or emptied a file last. The text put asks `isBeingDeleted` with is that of the mark for a bare name given in the base directory; deeper it has a doubled slash, and `./f` or `../f` is not resolved, so that the mark is missed (`MarkFound`, `bareNamed`). A stream that could not be opened goes unnoticed. A handler may have been connected to another transfer's client, whose file it then writes.

### Grep

The recursion of `fetch_all_files_from_dir` is flattened: `todo` holds the entries its open calls have yet to test, the innermost first. One `ls` is one step (`List`), one `isDir` another, one `isFile` another (`IsDir`, `IsFile`), one run of the grep program another (`Match`); between any two of them other sessions make, write and remove entries. Of a path that has gone, `isDir` and `isFile` say anything, so the walk may go down into what is not there and collect what is not a file. `ls` of a file prints its path, which the caller takes for a name below it (`"?"`). The `ls` of the walk is the plain one (`include/server/systemcmd.hpp:9`), which leaves out names that begin with a dot (`Hidden`), though put and mkdir make them; a grep given in a hidden directory looks into that one all the same (`Shown` counts the names below where it starts). The base directory may be removed as well, as nothing keeps an `rm` from it but the comparison of two texts.

### Grammar

A text is a sequence of characters where it is split, a sequence of words afterwards. The arguments of a split line are the numbers `strtol` finds in them, since only the length of put is looked into. With an odd number of quotes `replace_spaces` reads past the vector of their positions; the model takes any number for what it finds (`Splits`). `SplitIsWords` says that this number decides which spaces of the part after the last quote are kept, and nothing else. The client and the server each split the line for themselves, each with what it happens to read: `LinesUnderstood` takes any two of the splits of a line, and says that they agree about transfers if the quotes are paired, and otherwise never see transfers of two kinds. A letter of the model stands for a run of characters that nothing tells apart (`get`, `put`, `1`). The loops of `split_string` are recursive functions over the positions of the line (`OccurrencesUpTo`, `Tokens`), one step for each character the loop reads.

### Ping and Wire

`Ping` is one session's thread with the workers it has started; a worker that has outlived its call may write into the frame of a later one (`Lands`). `Wire` cuts the stream at any place in both directions, with the macro `push_inside_to_process` as it is (it passes an index where `substr` takes a length); a read that fills the buffer ends the thread and leaves the socket open. A get or put may be answered by its own thread, later (`RunTransfer`, `LateAnswer`), and a handler that has told a port may send an error after it (`SecondAnswer`; `serving` counts those that may, `twice` remembers that one did). The client's two flags are the set `watching`: an answer without a port leaves them as they are. The client searches any answer for the text of a port (`Has`, `Found`), and any command may be answered by a text that holds one (`RunCommand`): grep and ls print file names, which may read like a port. The errors of the handlers do not. `errno` is what the last failing call left: the non-blocking `recv` of an answer that comes in pieces fails with `EWOULDBLOCK`, and as nothing sets it back the client takes the length of the next put for invalid (`Watched`).

## 3. Runs

| Run | Instance | Shows |
|---|---|---|
| `grass_places` | 2 sessions, 2 users, one password each; cd to `a`, `..`, `a/a`; mkdir `a`; put `a`, one thread of put at a time; depth 2 | `TypeOK`, `OneAnswer`, `OccupiedHasReader`, `ListedWhileLoggedIn`; implements `LoginGate` |
| `grass_rm` | 2 sessions of one user; cd, mkdir and rm of `a`, `..` (and `.`), put of `a`, in a nested tree; targets to depth 1 | `SealedStays`, `Answered` |
| `grass_occupied`, `grass_marks`, `grass_listed` | 1 or 2 sessions | one violated promise each |
| `texts` | cwd of at most 2 names, 5 components of argument, a directory named like the base; lines of 7 characters, of 4 words; 4 lines of `grass.conf` for 2 users with 2 passwords | `ResolveIsWalk`, `SplitIsWords`, `LinesUnderstood`, `OnePasswordEach` |
| `ping` | 3 calls | `NoReplyTwice`, `EveryPingReturns` |
| `ping_error` | 2 calls | a violated message |
| `transfer` | `Files`: 2 sessions, 2 transfers, 1 port, 1 name that is that of a file of 1 chunk at the start, puts of 1 or 3 chunks | implements `Exchange` until a port is shared or none is left; `BarrierKept`, `AnswersInOrder`, `PutsWhole`, `PutsTheirOwn`, `GetsWhole`, `RemovedStaysAway`, `GetReturns`, `TransferAnswered` |
| `transfer_mix` | `Transfer`: 2 sessions, 2 transfers, 2 ports | a violated promise |
| `wire` | 3 lines of at most 2 letters of which one is a get and one a put, a server buffer of 3, answers of at most 1 letter, of which one reads like a port of a get and one like a port of a put | implements `Dialogue` until a second answer; `PortsGetThreads`, `ClientGoesOn` |
| `grep` | every tree of 6 paths: the base, an entry with another below it, one beside it, and a hidden entry with another below it | `FindsAll`, `FindsOnly`, `GrepAnswers` |

**Why the bounds are enough.** The races of `Grass` are between the steps of one handler and those of another, and concern one entry and one other session; two sessions, a directory, its child and its parent give every pair of handlers and every relation of their targets. Login needs a session with its own account next to another's; whether accounts are shared matters to `ListedWhileLoggedIn`, which says so. `grass_rm` uses one user because nothing it checks depends on names. What the passing runs check of safety is proved below for all instances; only liveness rests on them. In `texts`, five components climb out of the deepest directory and come back; seven characters hold two quoted words, or a quoted space next to a separating one and a third quote; four words are one more than any command takes, and the lengths are those at the bounds of put; three lines of one user and one of another contradict each other in every order. In `ping`, three calls let the worker of the first write into the frames of two others. In `transfer`, one port makes both transfers meet on it, or leaves none for the second (they then keep the promises of `Exchange` only if the second starts to look when the socket of the first is closed or not yet there). That is thin for what concerns several ports, `PutsTheirOwn` and `ImplementsExchange` above all: two ports with the files are out of reach of a run, and the theorems, which hold for any number, carry them. The two transfers are of one name, so that two puts, or a put and a get, or a put after an rm, meet on it; three chunks beside one have a longer put that has written ahead when a shorter one empties the file, and a hole when it goes on. `MCSpec` has the first transfer be the first session's, as the two are alike. In `transfer_mix`, two ports, so that the trace is not that of a search that runs out of them. In `wire`, a line with its newline fills the server's buffer exactly, so that the boundary is met; an answer of one letter and its byte fill the client's buffer, or come in two pieces, and the three answers there are read like nothing, like the port of a get, or like that of a put; three lines let a flag that a failed transfer left set meet the answers of two more commands, one of them a transfer of the other kind. In `grep`, a directory with an entry and a sibling have the walk return from a call with entries left, and any of them removed, or made into something else, meanwhile; the hidden directory is left out from above and walked when the grep starts in it.

**Deadlock** is not checked: a system whose clients give no more commands stops, and the texts of `texts` end at their bounds.

**Fairness.** `Grass`: `WF` on what a thread does by itself until it can read again (`Continue`). Each thread is a POSIX thread that the scheduler runs; the mutexes it waits for are held for a few instructions; and the child processes it waits for, `mkdir` and `rm -rf`, end. Clients are not assumed to send anything. `Ping`: `WF` of entering the wait and of its five seconds; the ping program and its notification are not assumed. `Transfer`: `WF` of the session threads and of the handlers, except that copying a file and connecting, which need the client, are not assumed; an accept is taken once somebody has connected, and need not fail. `GetReturns` is checked for finitely many gets: were gets given for ever, the loop of get could find the counter raised each time it looks, and weak fairness would not help. `Files` has the same fairness, with the opening of its file as a step of the handler of a get. `Wire`: `WF` of the client's own loop; nothing of the server. `Grep`: `WF` of the walk; the other sessions may go on for ever, and `GrepAnswers` holds all the same, because each step of the walk makes what is left of the finitely many paths smaller.

## 4. Where documents and code part

Each is a run that TLC finds violated.

* **An occupied directory is removed** (`NotRemovedWhileOccupied`, against `docs/explanation.txt:19`). Two sessions log in; one does `cd a`; the other does `rm a`, which `isBeingRead` does not refuse. Three causes, each sufficient: the inverted `hasKey`, the lookup of the file name among the users, the different keys of cd and rm. Were they mended, a cd that has passed `isBeingDeleted` and not yet recorded itself would still be overtaken.
* **Marks stay** (`MarksEndWithRm`, against `docs/explanation.txt:17`). After one `rm a`, the FileDeleteTable holds `base/a` for good, since what is erased is `'base/a'`. `mkdir a` is refused from then on. `SealedStays` is the other side of it.
* **Users stay listed** (`ListedOnlyWhileLoggedIn`, against `docs/documentation.tex:41`). `login u`, `pass p`, then `exit`, or the end of the input, or a login with an unknown name.
* **A host that responded "did not respond"** (`ErrorMeansNoReply`, against the message of `src/server/systemcmd.cpp:34`). The worker stores and notifies before its caller waits; the wait has no predicate, so the notification is lost.
* **A get is served by another's handler** (`ServesItsClient`, against `docs/documentation.tex:22`). A get and another transfer look for a port at the same time, both listen on the first one, and the kernel gives the one's client to the other's socket. That this is the only way, but for a search that runs out of ports, is `ImplementsExchange`, below.

Three more have no run of their own, being plain in the models.

* **put asks for no login.** `include/server/commands.hpp:11-13` lists, under "Commands that do not require authentication", `ping` and `exit` only, and the handlers of cd, ls, mkdir, rm, date, grep, w and whoami begin with the check, as does the thread of get; `put` (`src/server/commands.cpp:479-506`), called at line 610, does not, and neither does its thread (lines 257-311). `PutStart` is an action of any session. What is left of the gate is `ImplementsLoginGate`: what a put without login does is add a file where no directory is.
* **A second answer.** A handler that has told its client a port sends an error after it when accept fails (`src/server/commands.cpp:302`, `392`) or the file can not be read (line 410). The client takes it for the answer to its next command, and each later answer for that of the one after. `AnswersInOrder` and `Promise!Fail` say what is sent, `ImplementsDialogue` holds until then.
* **pass after a refused line.** `include/server/conf.hpp:12` says "Pass can only be issued right after a successful login command", but a line that is refused (`Reject`) leaves `loginStatus` at 0, so that `login u`, a misspelt command, `pass p` logs in. `LoginGate` states what remains true: the password asked for is that of the last login.

## 5. Proofs

All are checked by TLAPS for every value of the constants. Assumptions are those named in the modules: in `Grass`, that the empty name is nobody's, that arguments and the first tree consist of names, that no path is both a directory and a file at the start; in `Transfer`, that there are finitely many sessions; in `Files`, that the old file is one of the places and a put announces at least one chunk; in `Grep`, that the paths are finitely many and closed under taking prefixes; in `Wire`, that the newline and the end-of-transmission byte are no letters and a line is not a get and a put at once.

`GrassProofs`. `IInv` is inductive and implies the first four properties:

* `TypeCorrect` (`TypeOK`) needs that `resolve_path` yields names below the base (`Relative` of what passes `InsideBase`), that a key cut to a prefix is a key, and that only known users get into the tables. The last is not visible in the tables: it comes from `SessionInv`, by which a session inside a handler that touches them is logged in, and a session that is logged in is one of its users.
* `AnsweredOnce` (`OneAnswer`) follows from the part of `SessionInv` that says at which steps of a handler the answer has been sent; without the intermediate steps it is not inductive.
* `OccupiedIsRead` (`OccupiedHasReader`): neither `addFile` nor `removeFile` of anybody empties the entry of a key that has readers, and `addFile` leaves one at each prefix of the directory entered. This is where the behaviour of the inverted `hasKey` is used.
* `LoggedInIsListed` (`ListedWhileLoggedIn`): what login and logout remove is the user of a session that knows its password, hence, when no account is shared, nobody else's.

`SealedIsForever` (`SealedStays`) and `GateIsKept` (`ImplementsLoginGate`) are proved step by step from the invariant: for the first, every step that makes a directory, or enters a place, is one of a command already under way towards it (a put may bring back a file, which `Files` is about); for the second, each action maps to a step of `LoginGate` or to a stutter: the steps in `Guarded` are those of sessions that are logged in (`SessionInv`), and `PutOpens`, which is not, is `Store`.

`PingProofs`, `RepliesAreUsedOnce` (`NoReplyTwice`): `ReplyInv` adds that an output is assigned once, by a worker that has ended, and that the frame in use holds only one no call has returned.

`TransferProofs`, `GetsWait` (`BarrierKept`): `copying_get_args` is the number of sessions in `Pending`, those that have raised it for a get whose lowering is to come. A session with an unsignalled handler is one of them; so when the counter is down, there is none. It is stated up to the first thread of a put that can not be created: `put` undoes an increment it never made (`src/server/commands.cpp:502-504`), which the history variable `spoiled` remembers, and with that the count, and the property, are lost.

`AnswersAreInOrder` (`AnswersInOrder`): a handler that is going to tell its port has not answered yet, and one that waits for its client, or reads, has told the port and nothing else, so that what it may still send, when accept or a read fails, is the second (`AnswerState`). This holds whether or not a search runs out of ports. What does not survive that is `SocketState`, that the descriptor is the handler's own socket, which the next theorem needs; `Exhausted` is the condition.

`TransferImplementsExchange` (`ImplementsExchange`) says what `ServesItsClient`, which is violated, leaves: until a search runs out of ports or two sockets listen on one (`Mixed`), whoever is told a port finds a socket there, it is that of the handler started for the transfer, and this handler serves nobody else, and nobody when its accept has failed. (Such a socket goes on listening, so that a client that connects later is not turned away, but not served.) `RouteInv` says why: ports of listening sockets differ; a handler changes its port only while it does not listen, so that the port told is the one listened on; and a client that has been told one has not connected before its handler accepts, so that the socket is still open. Each step is then one of `Exchange` or a stutter (`ExchangeStep`). `GetsServeTheirClients` is the sentence of the documentation under this condition.

`FilesProofs`. `FilesKeepTransfer`: each step of `Files` is a step of `Transfer` or a stutter (`FilesStep`), so that what is proved of `Transfer` holds, the refinement of `Exchange` included. `FilesInv` is inductive and implies the rest:

* `PutsAreWhole` (`PutsWhole`): no invariant of one put alone is inductive, as the other may empty the file at any time. It is that the put that opened the file last, and so emptied it (`emptied`), has filled it as far as it has itself got, and that whatever else is there was written by some put no further than that has got (`Filled`). Once all are over, the one that emptied it has got to its own size; a hole can only lie beyond, where a put that announced more had written ahead and went on after the file was emptied under it. When the puts announce one size, there is no beyond.
* `PutsKeepTheirOwn` (`PutsTheirOwn`) joins both: a put that was alone with its file has filled it (`Filled`), and has had a client (`Progress`), which until ports are mixed up is its own (`RouteInv`).
* `GetsAreWhole` (`GetsWhole`: up to the end, or to a read that failed) needs that no put reaches the inode of a get that found none under way (`Undisturbed`): a put begins on a free name, and its inode is made by a put of its name (`Belongs`), hence not the one the get has open, even if that has no name any more.
* `RemovedIsForever` (`RemovedStaysAway`) follows from `isBeingDeleted` being asked by every put that begins; marks are never erased.

`GrepProofs`. `GrepFinds` (`FindsAll`): `OnItsWay` says that a file that has matched all the time, and is not hidden below the start, is below the directory being listed or an entry in `todo`, with no hidden name in between, or has been collected or reported; a walk step moves it from one to the next. It needs that the directories on its path are directories all the time, which is that the tree keeps its shape (`TreeShape`): rm takes the entries of a directory first. `GrepInventsNothing` (`FindsOnly`): the invariant `Recorded` says that what is collected or reported was matched by the grep program at some moment; what has matched at some time is only added to.

`Induction`. The library's induction theorems take an operator for an argument, which the provers at hand can not instantiate. So induction is stated of sets: `LeastElement`, that a nonempty set of numbers has a least element, and `UpTo`, that a set which holds 0 and the successor of each of its elements below `m` holds all numbers up to `m`. A property is then proved of `{n \in 0..m : ...}`. `Recursion` gives a function that `Computes` a given sequence of steps from a given value; that a recursive function of a module, which is a `CHOOSE`, satisfies its own equation follows from it (`BuiltEquation`, `OccurrencesEquation`, `TokensEquation`).

`TextProofs`, for directories, arguments, lines and files of any length:

* `PathsAreWalks` (`ResolveIsWalk`): the invariant `Means` relates the vector that `resolve_path` builds to the walk taken so far: as long as the walk has not left the base, it is the base followed by the names last entered at each height; once it has, the vector is empty and stays so, which is the early end of the loop. `WalkStep` is the same step for the definition by heights.
* `LinesAreCutAtSpaces` (`SplitIsWords`): the positions of the quotes are in order and as many as there are before each place (`OrderedQuotes`), so that taking them two by two keeps exactly the spaces at places with an odd number of quotes before them (`Replaced`); then the loop over `getline` has, after `n` characters, pushed the words that end before `n` and holds the beginning of the next. That words and tokens correspond one to one rests on counting the places where a word starts (`Rank`).
* `LinesReachOneHandler` (`LinesUnderstood`): a line that is not refused is of one of three shapes (`AcceptedLine`), for each of which exactly one of the four conditions of `run_command` holds (`OneCall`). The client's rules are compared with these for any words; for two splits of one line, what is needed when the quotes are not paired is that the first words name the same command (`SameCommand`: the splits differ only after the last quote, and a first word that reaches it names none), and when they are paired there is only one split (`PairedSplit`).
* `EachHasOnePassword` (`OnePasswordEach`): the first line of a user, which exists as the least of a set, decides (`FirstDecides`), and lines added later leave it the first.

`WireProofs`. `WireInv` is inductive: it is `ClientInv`, and `Orderly` as long as no handler has sent a second answer (`twice`). In `Orderly`, `Histories` says that the lines run are a beginning of the lines given, the answers printed one of the answers sent, and that at most one command is under way; `LineUnderWay` that this command's line is in pieces (what the server holds and what is in the stream, joined, is the line and its newline), waits to be run, or has been run; `AnswerUnderWay` the same of the answer in the other direction. The macro that passes an index for a length is right because of the first: when a newline is found it is the last byte of the stream.

* `WireImplementsDialogue` (`ImplementsDialogue`): a read, a recv or a failing call changes nothing of the dialogue; a run command, an answer and the byte that ends one are its steps.
* `PortsGetTheirThreads` (`PortsGetThreads`) needs none of that and holds however many answers there are: `ClientInv` relates the client's flags, `errno` and the threads it has started to the lines given and the answers printed. A flag is set while some transfer of its kind has had no thread since it was given (`Owed`), and the flag of the command under way is set unless `errno` has kept it from being set. So a flag left by a failed transfer may start a thread for an answer of grep that reads like a port, but only one, in the place of the one that transfer never had.

**Model-checked only**: liveness (`Answered`, `EveryPingReturns`, `GetReturns`, `TransferAnswered`, `ClientGoesOn`, `GrepAnswers`), which needs the fairness of actions and with it `ENABLED`, out of the prover's reach here. Every invariant and action property of the passing runs has a theorem.

## 6. Not modelled

The wording of messages, and the fixed-size buffers they are put together in. In particular `bufferToString` and `getDesc` print what a program or a client sent into a buffer of fixed size, the former as a format: names and lines are taken to be short and without `%`, and names to be without quotes, spaces and newlines, as `cleanDir`, the shell and `split_string` would change them.

The base and the port of the configuration file, and lines of it with too few words (the code reads past the vector); base directories of several components. `client_handlers`, which nothing reads. The unlocked reads of the tables as races.

Of transfers: whether `get_handler` finds its session logged in, when it looks, is a free choice (put does not look at all, and get only in its handler, so that `logout` may come in between); a put announces no more than its client sends, in whole chunks: one that announces more ends the server (`Die`, which may come at any time); the file the client of a get writes; a thread of the client that can not be created, which ends it (`src/client/client.cpp:258-264`, `285-290`). A length out of the range of `long` would leave `errno` set in the client, as a `recv` that finds nothing does. The composition of `Files` with the directories of `Grass`: `rm` of a directory above a file is, to `Files`, an unlink of the file and an `ofstream` that fails.

Of grep: `ls` is taken to be one look at a directory, though a directory that changes while it is read may show an entry late; a `popen` that fails ends the server; the answer is one text with one line for each file, and files whose names the shell would split are left out with the names above.

Errors of `send` and `recv` other than those named. `src/grass.cpp`, a stub, and the programs next to the tests are not part of the system.

## 7. Plan

Done: the commands and the tables they share (`Grass`) with the login gate; the path arithmetic; ping; the handshake, the ports and the answers of transfers (`Transfer`) with the abstract `Exchange`, and their files (`Files`), with what may fail after a port is told; the wire with its abstract dialogue; the command line and the configuration file (`Grammar`); grep over a changing tree; a theorem for every invariant and action property. Next:

1. The chunks of `Files` in the tree of `Grass`, where a put is only the file it makes: the directories of the one under the files of the other, with the paths both compute.
2. What put and get ask of the tables under the paths they compute, as a condition on the texts (`MarkFound` is a free choice below the base).
3. Lemmas that would let a liveness argument be followed by hand: what decreases with each step of the walk of grep, and with each round of a search for a port.
