------------------------------- MODULE Grass -------------------------------
(***************************************************************************)
(* The GRASS server: one thread per connection, each running one command   *)
(* at a time (connection_handler and command::run_command), all sharing    *)
(* the three tables and the directory tree below the base directory.       *)
(*                                                                         *)
(* A step ends where a thread touches something shared: a locked call of a *)
(* table, a stat, a child process.  What a thread does to its own conn     *)
(* between two such points is part of the step.  pc[s] names the shared    *)
(* access session s will make next.  What the threads of get and put do     *)
(* with ports and data is Transfer and Files; here a put is its tests and  *)
(* the file its thread makes in the shared tree.                           *)
(***************************************************************************)
EXTENDS ReadTable, FiniteSets
LOCAL INSTANCE SequencesExt

CONSTANTS Sessions,     \* connections (and the threads that serve them)
          Users,        \* the user names of grass.conf
          NoUser,       \* the empty user name
          Accounts,     \* the users whose password each session's client knows
          CdArgs,       \* arguments tried with cd, mkdir and rm
          MkdirArgs,
          RmArgs,
          PutNames,     \* file names tried with put
          Writers,      \* bound: put_handler threads about to open their file
          UninitStat,   \* what S_ISDIR may answer on a buffer stat left unset
          Overread,     \* components exceedsMaxLength may drop reading past baseVec
          InitDirs,     \* the tree when the server starts
          InitFiles,
          MaxLength,    \* Parsing::maxLength, in components
          MaxDepth      \* bound: places deeper than this are not explored

Arguments == Seq(Names \cup {".", ".."})

ASSUME GrassAssumption ==
    /\ NoUser \notin Users
    /\ Accounts \in [Sessions -> SUBSET Users]
    /\ CdArgs \cup MkdirArgs \cup RmArgs \subseteq Arguments
    /\ PutNames \subseteq Names
    /\ UninitStat \subseteq BOOLEAN
    /\ UninitStat # {}
    /\ Overread \subseteq Nat
    /\ 0 \in Overread
    /\ InitDirs \subseteq TreePaths
    /\ InitFiles \subseteq TreePaths
    /\ InitDirs \cap InitFiles = {}
    /\ MaxLength \in Nat
    /\ MaxDepth \in Nat

VARIABLES
    status,    \* conn::loginStatus: -1 out, 0 being authenticated, 1 logged in
    user,      \* conn::user
    cwd,       \* conn::currentDir
    pc,        \* the shared access the session makes next
    target,    \* the place the command under way is about
    sent,      \* history: answers sent for the last command, or left to put_handler
    active,    \* ActiveUserTable::currentUsers
    reads,     \* UserReadTable::FilesBeingRead
    deletes,   \* FileDeleteTable::filesBeingDeleted
    dirs,      \* the directories that exist
    files,     \* the files that exist
    writing    \* the file each thread of put_handler will open, if any

account == <<status, user>>
control == <<pc, target, sent>>
tables  == <<active, reads, deletes>>
tree    == <<dirs, files, writing>>
vars    == <<account, cwd, control, tables, tree>>

LoginSteps == {"relogin", "logout"}
CdSteps    == {"cd_check", "cd_leave", "cd_enter"}
MkdirSteps == {"mkdir_read", "mkdir_exists", "mkdir_parent", "mkdir_exec",
               "mkdir_release"}
RmSteps    == {"rm_mark", "rm_exists", "rm_exec", "rm_release"}
Guarded    == LoginSteps \cup CdSteps \cup MkdirSteps \cup RmSteps
Busy       == Guarded \cup {"put_check"}

Init ==
    /\ status  = [s \in Sessions |-> -1]
    /\ user    = [s \in Sessions |-> NoUser]
    /\ cwd     = [s \in Sessions |-> <<>>]
    /\ pc      = [s \in Sessions |-> "closed"]
    /\ target  = [s \in Sessions |-> <<>>]
    /\ sent    = [s \in Sessions |-> 1]
    /\ active  = {}
    /\ reads   = [k \in {} |-> {}]
    /\ deletes = {}
    /\ dirs    = InitDirs
    /\ files   = InitFiles
    /\ writing = [w \in Writers |-> {}]

-----------------------------------------------------------------------------
(* How a command starts, goes on and ends.                                 *)

(* A command that one step serves and answers.                             *)
Serve(s) ==
    /\ pc[s] = "idle"
    /\ sent' = [sent EXCEPT ![s] = 1]
    /\ UNCHANGED <<pc, target>>

(* A command about place p whose next shared access is at step.            *)
Begin(s, step, p) ==
    /\ pc[s] = "idle"
    /\ pc' = [pc EXCEPT ![s] = step]
    /\ target' = [target EXCEPT ![s] = p]
    /\ sent' = [sent EXCEPT ![s] = 0]

Proceed(s, from, to) ==
    /\ pc[s] = from
    /\ pc' = [pc EXCEPT ![s] = to]
    /\ UNCHANGED target

(* The handler returns and the thread reads the next command.              *)
Return(s, from) ==
    /\ pc[s] = from
    /\ pc' = [pc EXCEPT ![s] = "idle"]
    /\ target' = [target EXCEPT ![s] = <<>>]

(* conn::send_message or send_error: one end-of-transmission byte.         *)
Send(s) == sent' = [sent EXCEPT ![s] = @ + 1]

(* Broken variant: a session whose password is awaited passes.             *)
LoggedInUnlessOut(s) == status[s] # -1

(* Broken variant: the test is forgotten.                                  *)
LoggedInAlways(s) == s \in Sessions

(* The test that opens the handlers of cd, ls, mkdir, rm, date, grep, w,   *)
(* whoami and logout, and that login branches on.  get asks it from its    *)
(* thread; ping, pass and put do not ask.                                  *)
LoggedIn(s) == status[s] = 1

(* The session is left with no user and not logged in.                     *)
Forget(s) ==
    /\ status' = [status EXCEPT ![s] = -1]
    /\ user'   = [user EXCEPT ![s] = NoUser]

(* The name is known and the password is awaited.                          *)
Await(s, u) ==
    /\ status' = [status EXCEPT ![s] = 0]
    /\ user'   = [user EXCEPT ![s] = u]

(* The calls of ActiveUserTable and FileDeleteTable that write.            *)
AddUser(u)         == active' = active \cup {u}
RemoveUser(u)      == active' = active \ {u}
SetAsDeleted(k)    == deletes' = deletes \cup {k}
RemoveAsDeleted(k) == deletes' = deletes \ {k}

-----------------------------------------------------------------------------
(* Connections.                                                            *)

(* A connection is accepted and its thread makes a new conn.               *)
Connect(s) ==
    /\ pc[s] = "closed"
    /\ pc' = [pc EXCEPT ![s] = "idle"]
    /\ UNCHANGED <<account, cwd, target, sent, tables, tree>>

(* exit, which answers and deletes the conn, or the end of the input,      *)
(* which does neither: the thread ends and the tables keep what they had.  *)
Leave(s) ==
    /\ pc[s] = "idle"
    /\ pc' = [pc EXCEPT ![s] = "closed"]
    /\ Forget(s)
    /\ cwd' = [cwd EXCEPT ![s] = <<>>]
    /\ UNCHANGED <<target, sent, tables, tree>>

-----------------------------------------------------------------------------
(* Commands one step serves.                                               *)

(* An empty, unknown or malformed command, or a put whose name is taken:   *)
(* an error, and the login status stays what it was.  get is the same here,*)
(* whatever its thread answers.                                            *)
Reject(s) ==
    /\ Serve(s)
    /\ UNCHANGED <<account, cwd, tables, tree>>

(* cd, ls, mkdir, rm, date, grep, w, whoami or logout when not logged in.  *)
Deny(s) ==
    /\ ~LoggedIn(s)
    /\ Serve(s)
    /\ Forget(s)
    /\ UNCHANGED <<cwd, tables, tree>>

(* ls, date, grep, w and whoami only read.                                 *)
Query(s) ==
    /\ LoggedIn(s)
    /\ Serve(s)
    /\ UNCHANGED <<account, cwd, tables, tree>>

Ping(s) ==
    /\ Serve(s)
    /\ IF status[s] = 0 THEN Forget(s) ELSE UNCHANGED account
    /\ UNCHANGED <<cwd, tables, tree>>

(* login with a name grass.conf does not have: the user is not cleared,    *)
(* and a session that was logged in stays in the tables.                   *)
LoginUnknown(s) ==
    /\ Serve(s)
    /\ status' = [status EXCEPT ![s] = -1]
    /\ UNCHANGED <<user, cwd, tables, tree>>

Login(s, u) ==
    /\ ~LoggedIn(s)
    /\ Serve(s)
    /\ Await(s, u)
    /\ UNCHANGED <<cwd, tables, tree>>

(* pass when no login is under way, or with the wrong password.            *)
PassRefused(s) ==
    /\ Serve(s)
    /\ Forget(s)
    /\ UNCHANGED <<cwd, tables, tree>>

PassOk(s) ==
    /\ status[s] = 0
    /\ user[s] \in Accounts[s]
    /\ Serve(s)
    /\ status' = [status EXCEPT ![s] = 1]
    /\ AddUser(user[s])
    /\ UNCHANGED <<user, cwd, reads, deletes, tree>>

-----------------------------------------------------------------------------
(* login when logged in, and logout: clearRead, then clearLogin.           *)

ClearRead(s, next) ==
    /\ LoggedIn(s)
    /\ Begin(s, next, <<>>)
    /\ reads' = RemoveFile(reads, RelativeKey(cwd[s]), user[s])
    /\ UNCHANGED <<account, cwd, active, deletes, tree>>

(* Broken variant: setUser is called before clearLogin.                    *)
ReloginSwapped(s, u) ==
    /\ Return(s, "relogin")
    /\ RemoveUser(u)
    /\ Forget(s)
    /\ Send(s)
    /\ UNCHANGED <<cwd, reads, deletes, tree>>

Relogin(s, u) ==
    /\ Return(s, "relogin")
    /\ RemoveUser(user[s])
    /\ Await(s, u)
    /\ Send(s)
    /\ UNCHANGED <<cwd, reads, deletes, tree>>

Logout(s) ==
    /\ Return(s, "logout")
    /\ RemoveUser(user[s])
    /\ Forget(s)
    /\ cwd' = [cwd EXCEPT ![s] = <<>>]
    /\ Send(s)
    /\ UNCHANGED <<reads, deletes, tree>>

-----------------------------------------------------------------------------
(* The tree and the paths of cd, mkdir and rm.                             *)

Exists(p) == p \in dirs \cup files

(* pathvalidate::isDir tests the mode of a buffer that a failed stat has   *)
(* not written.                                                            *)
IsDirAnswers(p) == IF Exists(p) THEN {p \in dirs} ELSE UninitStat

(* The answers for the parent mkdir computes; that of the base is "".      *)
ParentAnswers(p) == IF p = <<>> THEN UninitStat ELSE IsDirAnswers(Front(p))

Resolved(s, arg) == Resolve(cwd[s], arg)

(* The places a command whose argument is in args may be about.            *)
Targets(s, args) ==
    {Relative(Resolved(s, arg)) :
        arg \in {a \in args : /\ InsideBase(Resolved(s, a))
                              /\ Len(Relative(Resolved(s, a))) <= MaxDepth}}

(* resolve_path throws: the path leaves the base directory.                *)
BadPath(s) ==
    /\ LoggedIn(s)
    /\ \E arg \in CdArgs \cup MkdirArgs \cup RmArgs : ~InsideBase(Resolved(s, arg))
    /\ Serve(s)
    /\ UNCHANGED <<account, cwd, tables, tree>>

(* Parsing::exceedsMaxLength: its loop strips the base and then compares   *)
(* what lies past the end of baseVec, which may strip more.                *)
ExceedsMaxLength(p, extra) == Len(p) > MaxLength + extra

IsBeingDeleted(p) == ResolvedKey(p) \in deletes

-----------------------------------------------------------------------------
(* cd: stat, isBeingDeleted, then the move from one place to the other in  *)
(* UserReadTable.                                                          *)

CdRefused(s) ==
    /\ LoggedIn(s)
    /\ \E p \in Targets(s, CdArgs) : FALSE \in IsDirAnswers(p)
    /\ Serve(s)
    /\ UNCHANGED <<account, cwd, tables, tree>>

CdStart(s) ==
    /\ LoggedIn(s)
    /\ \E p \in Targets(s, CdArgs) : TRUE \in IsDirAnswers(p) /\ Begin(s, "cd_check", p)
    /\ UNCHANGED <<account, cwd, tables, tree>>

(* Broken variant: cd does not look into the FileDeleteTable.              *)
CdCheckSkipped(s) ==
    /\ Proceed(s, "cd_check", "cd_leave")
    /\ UNCHANGED <<account, cwd, sent, tables, tree>>

CdCheck(s) ==
    /\ IF IsBeingDeleted(target[s])
       THEN Return(s, "cd_check") /\ Send(s)
       ELSE Proceed(s, "cd_check", "cd_leave") /\ UNCHANGED sent
    /\ UNCHANGED <<account, cwd, tables, tree>>

CdLeave(s) ==
    /\ Proceed(s, "cd_leave", "cd_enter")
    /\ reads' = RemoveFile(reads, RelativeKey(cwd[s]), user[s])
    /\ UNCHANGED <<account, cwd, sent, active, deletes, tree>>

CdEnter(s) ==
    /\ Return(s, "cd_enter")
    /\ reads' = AddFile(reads, RelativeKey(target[s]), user[s])
    /\ cwd' = [cwd EXCEPT ![s] = target[s]]
    /\ Send(s)
    /\ UNCHANGED <<account, active, deletes, tree>>

-----------------------------------------------------------------------------
(* mkdir: isBeingDeleted, addFileAsRead, two stats, the child process, and *)
(* removeFileAsRead on the path the shell was given.                       *)

MkdirRefused(s) ==
    /\ LoggedIn(s)
    /\ \E p \in Targets(s, MkdirArgs), extra \in Overread :
          ExceedsMaxLength(p, extra) \/ IsBeingDeleted(p)
    /\ Serve(s)
    /\ UNCHANGED <<account, cwd, tables, tree>>

MkdirStart(s) ==
    /\ LoggedIn(s)
    /\ \E p \in Targets(s, MkdirArgs), extra \in Overread :
          /\ ~ExceedsMaxLength(p, extra)
          /\ ~IsBeingDeleted(p)
          /\ Begin(s, "mkdir_read", p)
    /\ UNCHANGED <<account, cwd, tables, tree>>

MkdirRead(s) ==
    /\ Proceed(s, "mkdir_read", "mkdir_exists")
    /\ reads' = AddFile(reads, ResolvedKey(target[s]), user[s])
    /\ UNCHANGED <<account, cwd, sent, active, deletes, tree>>

(* Broken variant: the error is sent and the handler goes on.              *)
MkdirExistsGoesOn(s) ==
    /\ Proceed(s, "mkdir_exists", "mkdir_parent")
    /\ IF Exists(target[s]) THEN Send(s) ELSE UNCHANGED sent
    /\ UNCHANGED <<account, cwd, tables, tree>>

MkdirExists(s) ==
    /\ IF Exists(target[s])
       THEN Proceed(s, "mkdir_exists", "mkdir_release") /\ Send(s)
       ELSE Proceed(s, "mkdir_exists", "mkdir_parent") /\ UNCHANGED sent
    /\ UNCHANGED <<account, cwd, tables, tree>>

MkdirParent(s) ==
    /\ \/ /\ FALSE \in ParentAnswers(target[s])
          /\ Proceed(s, "mkdir_parent", "mkdir_release")
          /\ Send(s)
       \/ /\ TRUE \in ParentAnswers(target[s])
          /\ Proceed(s, "mkdir_parent", "mkdir_exec")
          /\ UNCHANGED sent
    /\ UNCHANGED <<account, cwd, tables, tree>>

(* The mkdir program: it needs a parent and a free name.                   *)
Made(p) ==
    IF Exists(p) \/ (p # <<>> /\ Front(p) \notin dirs) THEN {} ELSE {p}

(* system()'s result is not looked at: the answer is a success either way. *)
MkdirExec(s) ==
    /\ Proceed(s, "mkdir_exec", "mkdir_release")
    /\ dirs' = dirs \cup Made(target[s])
    /\ Send(s)
    /\ UNCHANGED <<account, cwd, tables, files, writing>>

MkdirRelease(s) ==
    /\ Return(s, "mkdir_release")
    /\ reads' = RemoveFile(reads, Format(ResolvedKey(target[s])), user[s])
    /\ UNCHANGED <<account, cwd, sent, active, deletes, tree>>

-----------------------------------------------------------------------------
(* rm: isBeingRead, setAsDeleted, a stat, the child process, and           *)
(* removeAsDeleted on the path the shell was given.                        *)

(* The two tests rm makes before it marks the entry.                       *)
RmForbidden(s, p) ==
    \/ ResolvedText(p) = CurrentDirText(cwd[s])
    \/ IsBeingRead(reads, ResolvedKey(p))

RmRefused(s) ==
    /\ LoggedIn(s)
    /\ \E p \in Targets(s, RmArgs) :
          /\ RmForbidden(s, p)
          /\ reads' = AfterIsBeingRead(reads, ResolvedKey(p))
    /\ Serve(s)
    /\ UNCHANGED <<account, cwd, active, deletes, tree>>

RmStart(s) ==
    /\ LoggedIn(s)
    /\ \E p \in Targets(s, RmArgs) :
          /\ ~RmForbidden(s, p)
          /\ Begin(s, "rm_mark", p)
          /\ reads' = AfterIsBeingRead(reads, ResolvedKey(p))
    /\ UNCHANGED <<account, cwd, active, deletes, tree>>

RmMark(s) ==
    /\ Proceed(s, "rm_mark", "rm_exists")
    /\ SetAsDeleted(ResolvedKey(target[s]))
    /\ UNCHANGED <<account, cwd, sent, active, reads, tree>>

(* Broken variant: nothing is answered when there is nothing to remove.    *)
RmExistsSilent(s) ==
    /\ Proceed(s, "rm_exists", IF Exists(target[s]) THEN "rm_exec" ELSE "rm_release")
    /\ UNCHANGED <<account, cwd, sent, tables, tree>>

RmExists(s) ==
    /\ IF Exists(target[s])
       THEN Proceed(s, "rm_exists", "rm_exec") /\ UNCHANGED sent
       ELSE Proceed(s, "rm_exists", "rm_release") /\ Send(s)
    /\ UNCHANGED <<account, cwd, tables, tree>>

(* The rm program removes an entry below the target once nothing is left   *)
(* in it; it refuses an argument that is ".".                              *)
Removable(p) ==
    {q \in dirs \cup files :
        /\ IsPrefix(p, q)
        /\ \A r \in dirs \cup files : IsPrefix(q, r) => r = q
        /\ ~(p = <<>> /\ Base = ".")}

RmUnlink(s) ==
    /\ pc[s] = "rm_exec"
    /\ \E q \in Removable(target[s]) :
          /\ dirs'  = dirs \ {q}
          /\ files' = files \ {q}
    /\ UNCHANGED <<account, cwd, control, tables, writing>>

(* It ends, whatever it could remove, and its result is not looked at.     *)
RmExit(s) ==
    /\ Proceed(s, "rm_exec", "rm_release")
    /\ Send(s)
    /\ UNCHANGED <<account, cwd, tables, tree>>

RmRelease(s) ==
    /\ Return(s, "rm_release")
    /\ RemoveAsDeleted(Format(ResolvedKey(target[s])))
    /\ UNCHANGED <<account, cwd, sent, active, reads, tree>>

-----------------------------------------------------------------------------
(* put: a stat, isBeingDeleted, and a thread that opens the file much      *)
(* later.  No login is asked for.                                          *)

PutStart(s) ==
    /\ \E name \in PutNames :
          LET p == Append(cwd[s], name)
          IN  /\ Len(p) <= MaxDepth
              /\ ~Exists(p)
              /\ Begin(s, "put_check", p)
    /\ UNCHANGED <<account, cwd, tables, tree>>

(* The text put asks isBeingDeleted about: getCurrentDir of the name.      *)
PutKey(s) == Plain(CurrentDirText(cwd[s]) \o <<Last(target[s])>>)

(* The session is free for its next command once the thread is made; the   *)
(* answer is left to that thread, even if it could not be made.            *)
PutCheck(s) ==
    /\ Return(s, "put_check")
    /\ Send(s)
    /\ \/ UNCHANGED writing
       \/ /\ PutKey(s) \notin deletes
          /\ \E w \in Writers : /\ writing[w] = {}
                                /\ writing' = [writing EXCEPT ![w] = {target[s]}]
    /\ UNCHANGED <<account, cwd, tables, dirs, files>>

(* The ofstream of put_handler: it needs the directory and no directory of *)
(* that name.  A thread whose client never connects does not get here.     *)
PutOpens(w) ==
    /\ writing[w] # {}
    /\ writing' = [writing EXCEPT ![w] = {}]
    /\ files' = files \cup {p \in writing[w] \ dirs : Front(p) \in dirs}
    /\ UNCHANGED <<account, cwd, control, tables, dirs>>

-----------------------------------------------------------------------------
(* What the input of the client makes the thread do.                       *)
Command(s) ==
    \/ Connect(s) \/ Leave(s)
    \/ Reject(s) \/ Deny(s) \/ Query(s) \/ Ping(s) \/ BadPath(s)
    \/ LoginUnknown(s) \/ PassRefused(s) \/ PassOk(s)
    \/ \E u \in Users : Login(s, u)
    \/ \E next \in LoginSteps : ClearRead(s, next)
    \/ CdRefused(s) \/ CdStart(s)
    \/ MkdirRefused(s) \/ MkdirStart(s)
    \/ RmRefused(s) \/ RmStart(s)
    \/ PutStart(s)

(* What the thread does by itself until it can read again.                 *)
Continue(s) ==
    \/ \E u \in Users : Relogin(s, u)
    \/ Logout(s)
    \/ CdCheck(s) \/ CdLeave(s) \/ CdEnter(s)
    \/ MkdirRead(s) \/ MkdirExists(s) \/ MkdirParent(s) \/ MkdirExec(s)
    \/ MkdirRelease(s)
    \/ RmMark(s) \/ RmExists(s) \/ RmExit(s) \/ RmRelease(s)
    \/ PutCheck(s)

Next ==
    \/ \E s \in Sessions : Command(s) \/ Continue(s) \/ RmUnlink(s)
    \/ \E w \in Writers : PutOpens(w)

(* Every session's thread gets to run, and a mkdir or rm program ends.     *)
(* Clients need not send anything, nor connect to the port of a put.       *)
Fairness == \A s \in Sessions : WF_vars(Continue(s))

Spec == Init /\ [][Next]_vars /\ Fairness
-----------------------------------------------------------------------------
(* Properties.                                                             *)

(* Every variable has its type: the tables hold keys and known users, the  *)
(* conn of a session holds a known user unless it is nobody's.             *)
TypeOK ==
    /\ status  \in [Sessions -> {-1, 0, 1}]
    /\ user    \in [Sessions -> Users \cup {NoUser}]
    /\ cwd     \in [Sessions -> TreePaths]
    /\ pc      \in [Sessions -> {"closed", "idle"} \cup Busy]
    /\ target  \in [Sessions -> TreePaths]
    /\ sent    \in [Sessions -> Nat]
    /\ active  \subseteq Users
    /\ DOMAIN reads \subseteq Keys
    /\ reads   \in [DOMAIN reads -> SUBSET Users]
    /\ deletes \subseteq Keys
    /\ dirs    \subseteq TreePaths
    /\ files   \subseteq TreePaths
    /\ writing \in [Writers -> SUBSET TreePaths]

(* The client stops reading at the first end-of-transmission byte, so a    *)
(* second answer would be taken for that of its next command and a missing *)
(* one leaves it waiting: when a thread is ready to read, the command it   *)
(* read last has been answered once, whichever way its handler returned    *)
(* (commands.cpp, every send_message and send_error with its return; what  *)
(* the threads of get and put answer is Transfer's).                       *)
OneAnswer ==
    \A s \in Sessions : pc[s] \in {"closed", "idle"} => sent[s] = 1

(* A directory somebody is in, and each of its parents, is recorded in     *)
(* UserReadTable with at least one reader, whatever the other sessions     *)
(* entered or left since (addFile, removeFile and the two calls of cd).    *)
OccupiedHasReader ==
    \A s \in Sessions : \A n \in 1..Len(cwd[s]) :
        LET k == Cut(RelativeKey(cwd[s]), n)
        IN  k \in DOMAIN reads /\ reads[k] # {}

(* Nobody is past the isBeingDeleted test of a cd or mkdir towards p.      *)
NoneUnderWay(p) ==
    \A s \in Sessions :
        pc[s] \in {"cd_leave", "cd_enter"} \cup MkdirSteps => target[s] # p

(* Once an rm has marked an entry below the base and the cd and mkdir that *)
(* had already passed their test are over, no other gets past it: no       *)
(* session moves into the entry and no mkdir brings it back as a           *)
(* directory, while the rm runs or later (isBeingDeleted in cd and mkdir   *)
(* against setAsDeleted in rm).                                            *)
SealedStays ==
    [][\A p \in UNION {dirs, dirs', {cwd'[s] : s \in Sessions}, {target'[s] : s \in Sessions}} :
          (p # <<>> /\ IsBeingDeleted(p) /\ NoneUnderWay(p)) =>
              /\ NoneUnderWay(p)'
              /\ p \in dirs' => p \in dirs
              /\ \A s \in Sessions : cwd'[s] = p => cwd[s] = p]_vars

(* No user's password is known to two clients.                             *)
AccountsApart ==
    \A s, t \in Sessions : s # t => Accounts[s] \cap Accounts[t] = {}

(* As long as no two clients share a user, a session that is logged in is  *)
(* listed by w, whatever other sessions log out, log in again or leave     *)
(* (AddUser in pass against removeUser in login and logout).               *)
ListedWhileLoggedIn ==
    AccountsApart => \A s \in Sessions : LoggedIn(s) => user[s] \in active

(* Every command is answered, provided threads run and the programs they   *)
(* start end.                                                              *)
Answered == \A s \in Sessions : sent[s] = 0 ~> sent[s] = 1
-----------------------------------------------------------------------------
(* The inductive invariant behind the safety properties.                   *)

(* The steps between the answer and the return of the handler.             *)
Answering == {"mkdir_release", "rm_release"}

(* What ties the fields of one session together: only a session that is    *)
(* logged in is inside a handler that takes more than one step, but for    *)
(* put, a session that is logged in gave the password of its user, and a   *)
(* handler answers once on its way.                                        *)
SessionInv ==
    \A s \in Sessions :
        /\ pc[s] \in Guarded => status[s] = 1
        /\ status[s] # -1 => user[s] \in Users
        /\ status[s] = 1 => user[s] \in Accounts[s]
        /\ pc[s] \in {"closed", "idle"} \cup Answering => sent[s] = 1
        /\ pc[s] \in Busy \ Answering => sent[s] = 0

(* The strengthening that is preserved by every step.                      *)
IInv == TypeOK /\ SessionInv /\ OccupiedHasReader /\ ListedWhileLoggedIn
=============================================================================
