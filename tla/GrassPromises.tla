--------------------------- MODULE GrassPromises ---------------------------
(***************************************************************************)
(* What the documentation, a comment or a message of the server says of    *)
(* the commands of Grass, and the code does not keep.  Each formula here   *)
(* is violated; README.md gives the shortest counterexamples.              *)
(***************************************************************************)
EXTENDS Grass
LOCAL INSTANCE SequencesExt

(* docs/explanation.txt:19 "when a user enters a directory, the directory  *)
(* and all of its parent directories are all marked as being read so that  *)
(* different users can not delete a file/directory while it is being       *)
(* accessed": an rm of one session removes no directory that another       *)
(* session, logged in, is in or below.                                     *)
NotRemovedWhileOccupied ==
    [][\A s, t \in Sessions :
          (s # t /\ LoggedIn(t) /\ RmUnlink(s)) =>
              \A q \in dirs \ dirs' : ~IsPrefix(q, cwd[t])]_vars

(* docs/explanation.txt:17 "when starting to delete a file/directory, it   *)
(* is logged here and the consequently removed the rm command finished":   *)
(* every mark is that of an rm that has not returned.                      *)
MarksEndWithRm ==
    \A k \in deletes : \E s \in Sessions :
        pc[s] \in RmSteps /\ k = ResolvedKey(target[s])

(* docs/documentation.tex:41 "When a user logs out or exits from the       *)
(* system the connection object will make sure that the user activities    *)
(* and locations within the system have been cleaned": a user no session   *)
(* is logged in as, or is becoming, is not listed by w.                    *)
ListedOnlyWhileLoggedIn ==
    \A u \in active : \E s \in Sessions : LoggedIn(s) /\ user[s] = u
=============================================================================
