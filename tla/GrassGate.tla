----------------------------- MODULE GrassGate -----------------------------
(***************************************************************************)
(* The server implements LoginGate: the refinement mapping.                *)
(***************************************************************************)
EXTENDS Grass

(* What the gate sees of a loginStatus, and of a user next to it: login    *)
(* with an unknown name leaves conn::user as it was.                       *)
PhaseOf(st)  == IF st = 1 THEN "in" ELSE IF st = 0 THEN "auth" ELSE "out"
WhoOf(st, u) == IF st = -1 THEN NoUser ELSE u

phase == [s \in Sessions |-> PhaseOf(status[s])]
who   == [s \in Sessions |-> WhoOf(status[s], user[s])]

Gate == INSTANCE LoginGate WITH
            phase <- phase, who <- who, place <- cwd, shared <- <<dirs, files>>,
            Home <- <<>>, Tree0 <- <<InitDirs, InitFiles>>

(* No sequence of commands, of however many sessions, gets a session to    *)
(* move, to make a directory or to remove anything without a password of   *)
(* the user it then is; without one, all the tree suffers is that put adds *)
(* a file where no directory is (commands.cpp: login, pass, logout, the    *)
(* checks that open cd, mkdir and rm, and put, which has none).            *)
ImplementsLoginGate == Gate!GateSpec
=============================================================================
