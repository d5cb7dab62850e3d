------------------------------ MODULE Exchange ------------------------------
(***************************************************************************)
(* What get and put promise those who ask for a transfer.  Each is heard   *)
(* of: of a port, of an error, or of nothing, when its session has ended   *)
(* or its thread could not be started; after a port an error may follow.   *)
(* Whoever is told a port is not turned away there, and the handler        *)
(* started for a transfer serves its own client and nobody else's, and     *)
(* nobody once it has failed.                                              *)
(***************************************************************************)
EXTENDS Integers

CONSTANT Transfers

VARIABLES heard,     \* per transfer: "none" while it has not begun, "begun",
                     \* then "told", "refused" or "nothing", and "failed"
                     \* when an error follows the port
          link,      \* per transfer: "none", or its client has "connected"
          served,    \* per transfer: whose client its handler serves, or 0
          ended      \* the transfers whose session has ended

exchange == <<heard, link, served, ended>>

Init ==
    /\ heard = [t \in Transfers |-> "none"]
    /\ link = [t \in Transfers |-> "none"]
    /\ served = [t \in Transfers |-> 0]
    /\ ended = {}

Hears(t, from, to) ==
    /\ heard[t] = from
    /\ heard' = [heard EXCEPT ![t] = to]
    /\ UNCHANGED <<link, served, ended>>

(* A thread is started for it or, if it can not be, nothing comes of it.   *)
Begin(t) == Hears(t, "none", "begun") \/ Hears(t, "none", "nothing")

Reply(t) == Hears(t, "begun", "told") \/ Hears(t, "begun", "refused")

(* Of a session that has ended any answer may be lost.                     *)
Lose(t) == t \in ended /\ (Hears(t, "begun", "nothing") \/ Hears(t, "nothing", "refused"))

Fail(t) == Hears(t, "told", "failed")

Connect(t) ==
    /\ heard[t] \in {"told", "failed"}
    /\ link[t] = "none"
    /\ link' = [link EXCEPT ![t] = "connected"]
    /\ UNCHANGED <<heard, served, ended>>

Serve(t) ==
    /\ heard[t] = "told"
    /\ link[t] = "connected"
    /\ served[t] = 0
    /\ served' = [served EXCEPT ![t] = t]
    /\ UNCHANGED <<heard, link, ended>>

Leave ==
    /\ ended \subseteq ended'
    /\ UNCHANGED <<heard, link, served>>

Next ==
    \/ \E t \in Transfers :
          Begin(t) \/ Reply(t) \/ Fail(t) \/ Lose(t) \/ Connect(t) \/ Serve(t)
    \/ Leave
=============================================================================
