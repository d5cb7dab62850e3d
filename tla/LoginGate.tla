----------------------------- MODULE LoginGate -----------------------------
(***************************************************************************)
(* What the login commands promise: a session becomes somebody only by     *)
(* naming a user and then giving the password of that user, and only a     *)
(* session that is somebody moves about, makes a directory or takes        *)
(* anything out of the shared tree.  Anybody may add files to it.          *)
(***************************************************************************)
CONSTANTS Sessions, Users, NoUser,
          Accounts,   \* the users whose password each session's client knows
          Home,       \* the place a session starts in
          Tree0       \* the tree at the start: its directories and its files

VARIABLES phase,   \* "out", "auth" or "in"
          who,     \* the user the session is, or asks to be
          place,   \* where each session is
          shared   \* the tree

Init ==
    /\ phase  = [s \in Sessions |-> "out"]
    /\ who    = [s \in Sessions |-> NoUser]
    /\ place  = [s \in Sessions |-> Home]
    /\ shared = Tree0

Is(s, ph, u) ==
    /\ phase' = [phase EXCEPT ![s] = ph]
    /\ who'   = [who EXCEPT ![s] = u]

Ask(s) ==
    /\ \E u \in Users : Is(s, "auth", u)
    /\ UNCHANGED <<place, shared>>

Prove(s) ==
    /\ phase[s] = "auth"
    /\ who[s] \in Accounts[s]
    /\ Is(s, "in", who[s])
    /\ UNCHANGED <<place, shared>>

(* The session is nobody any more; one that was is where it was.           *)
Drop(s) ==
    /\ Is(s, "out", NoUser)
    /\ UNCHANGED <<place, shared>>

Leave(s) ==
    /\ Is(s, "out", NoUser)
    /\ place' = [place EXCEPT ![s] = Home]
    /\ UNCHANGED shared

Move(s) ==
    /\ phase[s] = "in"
    /\ place' = [place EXCEPT ![s] = place'[s]]
    /\ UNCHANGED <<phase, who, shared>>

Change(s) ==
    /\ phase[s] = "in"
    /\ UNCHANGED <<phase, who, place>>

(* put has no login to show: a free name may become a file at any time.    *)
Store ==
    /\ shared'[1] = shared[1]
    /\ shared[2] \subseteq shared'[2]
    /\ (shared'[2] \ shared[2]) \cap shared[1] = {}
    /\ UNCHANGED <<phase, who, place>>

Next ==
    \/ \E s \in Sessions :
          Ask(s) \/ Prove(s) \/ Drop(s) \/ Leave(s) \/ Move(s) \/ Change(s)
    \/ Store

GateSpec == Init /\ [][Next]_<<phase, who, place, shared>>
=============================================================================
