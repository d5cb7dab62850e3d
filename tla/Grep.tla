-------------------------------- MODULE Grep --------------------------------
(***************************************************************************)
(* grep: the thread of a session walks the tree below its directory with   *)
(* one ls per directory and one stat per entry, then runs the grep program *)
(* on every file it has collected, while mkdir, rm and put of other        *)
(* sessions change the tree.  The recursion of fetch_all_files_from_dir is *)
(* kept as the sequence of the paths that its calls have yet to test, the  *)
(* innermost call first.                                                   *)
(***************************************************************************)
EXTENDS Integers, Sequences, FiniteSets
LOCAL INSTANCE SequencesExt

CONSTANTS Names,   \* directory and file names
          Hidden,  \* those that begin with a dot: put and mkdir make them too
          Paths    \* bound: the paths there may be, from the base directory

ASSUME GrepAssumption ==
    /\ "?" \notin Names
    /\ IsFiniteSet(Paths)
    /\ Paths \subseteq Seq(Names)
    /\ <<>> \in Paths
    /\ \A p \in Paths : \A n \in 0..Len(p) : SubSeq(p, 1, n) \in Paths

(* What the walk tests: "?" stands for a path printed where a name is      *)
(* expected, which leads nowhere.                                          *)
Texts == Seq(Names \cup {"?"})

VARIABLES
    tree,      \* per path: "none", "dir", or a file that has a line with the
               \* pattern, "match", or not, "plain"
    pc,        \* the next step of the thread
    dir,       \* the argument of the innermost call
    todo,      \* the entries its calls have yet to test
    files,     \* the files collected that grep has not been run on
    result,    \* candidateFiles
    watched,   \* history: some path, whether it has matched ever since the
    steady,    \* start and is not hidden below the directory of the start,
    ever       \* and whether it has matched at some time since

walk    == <<pc, dir, todo, files, result>>
history == <<watched, steady, ever>>
vars    == <<tree, walk, history>>

Kind(p) == IF p \in Paths THEN tree[p] ELSE "none"
Child(p, q) == IsStrictPrefix(p, q) /\ Len(q) = Len(p) + 1

(* On the way down from p to q no name is hidden.                          *)
Shown(p, q) == \A k \in (Len(p) + 1)..Len(q) : q[k] \notin Hidden

(* What is below an entry is below a directory.                            *)
TreeShape ==
    \A p \in Paths, q \in Paths :
        IsStrictPrefix(p, q) /\ tree[q] # "none" => tree[p] = "dir"

Init ==
    /\ tree \in [Paths -> {"none", "dir", "match", "plain"}]
    /\ tree[<<>>] = "dir"
    /\ TreeShape
    /\ pc = "idle"
    /\ dir = <<>>
    /\ todo = <<>> /\ files = <<>> /\ result = <<>>
    /\ watched \in Paths
    /\ steady = FALSE /\ ever = FALSE

-----------------------------------------------------------------------------
(* The other sessions.                                                     *)

Changed(p, kind) ==
    /\ tree' = [tree EXCEPT ![p] = kind]
    /\ steady' = (steady /\ (p = watched => kind = "match"))
    /\ ever' = (ever \/ (p = watched /\ kind = "match"))
    /\ UNCHANGED <<walk, watched>>

(* mkdir, or the ofstream of put.                                          *)
Make(p, kind) ==
    /\ tree[p] = "none"
    /\ \E q \in Paths : Child(q, p) /\ tree[q] = "dir"
    /\ Changed(p, kind)

(* put writes to the file, or another put of its name empties it.          *)
Write(p, kind) ==
    /\ tree[p] \in {"match", "plain"}
    /\ Changed(p, kind)

(* The rm program removes what is below a directory first, and may be      *)
(* aimed at the base directory itself.                                     *)
Unlink(p) ==
    /\ tree[p] # "none"
    /\ \A q \in Paths : Child(p, q) => tree[q] = "none"
    /\ Changed(p, "none")

-----------------------------------------------------------------------------
(* The walk.                                                               *)

(* What isDir and isFile answer: of a path that does not exist they test a *)
(* buffer nobody has written.                                              *)
StatAnswers(p, kinds) == IF Kind(p) = "none" THEN BOOLEAN ELSE {Kind(p) \in kinds}

(* What ls prints: the entries of a directory, but for the hidden ones; a  *)
(* file itself, which the caller then looks for below the file; or nothing.*)
Listing(p) ==
    IF Kind(p) = "none" THEN {}
    ELSE IF Kind(p) = "dir"
         THEN {q \in Paths : Child(p, q) /\ Shown(p, q) /\ tree[q] # "none"}
    ELSE {Append(p, "?")}

(* The orders in which entries may come.                                   *)
Orders(entries) ==
    {order \in [1..Cardinality(entries) -> entries] : ToSet(order) = entries}

(* The command, in a directory that may have been removed since.           *)
Start(p) ==
    /\ pc = "idle"
    /\ pc' = "list"
    /\ dir' = p
    /\ steady' = (/\ tree[watched] = "match"
                  /\ IsStrictPrefix(p, watched) /\ Shown(p, watched))
    /\ ever' = (tree[watched] = "match")
    /\ UNCHANGED <<tree, todo, files, result, watched>>

(* Broken variant: the entries of a directory replace those of the others. *)
ListForgets ==
    /\ pc = "list"
    /\ todo' \in Orders(Listing(dir))
    /\ pc' = IF todo' = <<>> THEN "grep" ELSE "isDir"
    /\ UNCHANGED <<tree, dir, files, result, history>>

(* Broken variant: ls -a, which lists the directory as well.               *)
ListAll ==
    /\ pc = "list"
    /\ \E order \in Orders(Listing(dir)) : todo' = order \o <<dir>> \o todo
    /\ pc' = IF todo' = <<>> THEN "grep" ELSE "isDir"
    /\ UNCHANGED <<tree, dir, files, result, history>>

(* fetch_all_files_from_dir up to its loop.                                *)
List ==
    /\ pc = "list"
    /\ \E order \in Orders(Listing(dir)) : todo' = order \o todo
    /\ pc' = IF todo' = <<>> THEN "grep" ELSE "isDir"
    /\ UNCHANGED <<tree, dir, files, result, history>>

IsDir(p) ==
    /\ pc = "isDir"
    /\ p = Head(todo)
    /\ \E answer \in StatAnswers(p, {"dir"}) :
          IF answer
          THEN pc' = "list" /\ dir' = p /\ todo' = Tail(todo)
          ELSE pc' = "isFile" /\ UNCHANGED <<dir, todo>>
    /\ UNCHANGED <<tree, files, result, history>>

IsFile(p) ==
    /\ pc = "isFile"
    /\ p = Head(todo)
    /\ \E answer \in StatAnswers(p, {"match", "plain"}) :
          files' = IF answer THEN Append(files, p) ELSE files
    /\ todo' = Tail(todo)
    /\ pc' = IF todo' = <<>> THEN "grep" ELSE "isDir"
    /\ UNCHANGED <<tree, dir, result, history>>

(* Broken variant: only the exit status 1, no line, is no match.           *)
MatchUnlessNone(p) ==
    /\ pc = "grep"
    /\ files # <<>> /\ p = Head(files)
    /\ result' = IF Kind(p) = "plain" THEN result ELSE Append(result, p)
    /\ files' = Tail(files)
    /\ UNCHANGED <<tree, pc, dir, todo, history>>

(* The grep program exits with 0 when it finds a line; with 2 for what is  *)
(* not a file any more.                                                    *)
Match(p) ==
    /\ pc = "grep"
    /\ files # <<>> /\ p = Head(files)
    /\ result' = IF Kind(p) = "match" THEN Append(result, p) ELSE result
    /\ files' = Tail(files)
    /\ UNCHANGED <<tree, pc, dir, todo, history>>

Answer ==
    /\ pc = "grep"
    /\ files = <<>>
    /\ pc' = "done"
    /\ UNCHANGED <<tree, dir, todo, files, result, history>>

-----------------------------------------------------------------------------
Walk ==
    \/ List
    \/ todo # <<>> /\ (IsDir(Head(todo)) \/ IsFile(Head(todo)))
    \/ files # <<>> /\ Match(Head(files))
    \/ Answer

(* Nothing after the answer is of interest.                                *)
Others ==
    /\ pc # "done"
    /\ \E p \in Paths :
        \/ \E kind \in {"dir", "plain"} : Make(p, kind)
        \/ \E kind \in {"match", "plain"} : Write(p, kind)
        \/ Unlink(p)

Next ==
    \/ \E p \in Paths : Start(p)
    \/ Walk
    \/ Others

(* The thread of the session gets to run, however much the others do.      *)
Spec == Init /\ [][Next]_vars /\ WF_vars(Walk)
-----------------------------------------------------------------------------
(* Properties.                                                             *)

(* grep misses no file that has matched all the time, whatever else is     *)
(* made and removed around it, and whatever isDir says of what is gone     *)
(* (fetch_all_files_from_dir), unless its name or that of a directory on   *)
(* the way down to it begins with a dot: the plain ls leaves those out.    *)
FindsAll == pc = "done" /\ steady => watched \in ToSet(result)

(* Every file it reports was there and matched at some time since the      *)
(* command was given, even where the walk has taken a path for a file that *)
(* was gone already (isFile, and the exit status in command::grep).        *)
FindsOnly == watched \in ToSet(result) => ever

(* The walk ends, though others may make directories where it still has to *)
(* go, all the time: the names of paths have an end.                       *)
GrepAnswers == pc = "list" ~> pc = "done"
-----------------------------------------------------------------------------
(* The inductive invariant behind FindsAll and FindsOnly.                  *)

GrepTypes ==
    /\ tree \in [Paths -> {"none", "dir", "match", "plain"}]
    /\ dir \in Texts
    /\ todo \in Seq(Texts)
    /\ files \in Seq(Texts)
    /\ result \in Seq(Texts)
    /\ watched \in Paths
    /\ steady \in BOOLEAN
    /\ ever \in BOOLEAN

(* What is left to do, by the step.                                        *)
Left ==
    /\ pc \in {"idle", "list", "isDir", "isFile", "grep", "done"}
    /\ pc \in {"isDir", "isFile"} <=> (pc # "list" /\ todo # <<>>)
    /\ pc \in {"idle", "done"} => files = <<>>
    /\ pc = "idle" => ~steady /\ result = <<>>

(* A file that has matched all the time is below a directory or an entry   *)
(* the walk has still to look at, or is collected, or is reported.         *)
OnItsWay ==
    steady =>
        /\ tree[watched] = "match"
        /\ \/ pc = "list" /\ IsStrictPrefix(dir, watched) /\ Shown(dir, watched)
           \/ \E i \in 1..Len(todo) : IsPrefix(todo[i], watched) /\ Shown(todo[i], watched)
           \/ watched \in ToSet(files)
           \/ watched \in ToSet(result)
        /\ pc = "isFile" => ~IsStrictPrefix(Head(todo), watched)

Recorded ==
    /\ pc # "idle" /\ tree[watched] = "match" => ever
    /\ watched \in ToSet(result) => ever

GrepInv == GrepTypes /\ TreeShape /\ Left /\ OnItsWay /\ Recorded
=============================================================================
