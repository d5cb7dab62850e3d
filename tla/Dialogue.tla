------------------------------ MODULE Dialogue ------------------------------
(***************************************************************************)
(* What a client and its server promise each other: the lines are run in   *)
(* the order in which they are given, each once and as it was given; each  *)
(* has one answer; and the client, which gives a line only after it has    *)
(* the answer to the line before, takes every answer for what it is.       *)
(***************************************************************************)
EXTENDS Integers, Sequences

CONSTANTS Lines, Texts

VARIABLES caller,     \* "ready" to give a line, "waiting" for an answer, "gone"
          given,      \* the lines given,
          ran,        \* the lines run,
          answered,   \* the answers sent,
          printed     \* and the answers received

dialogue == <<caller, given, ran, answered, printed>>

Init ==
    /\ caller = "ready"
    /\ given = <<>> /\ ran = <<>> /\ answered = <<>> /\ printed = <<>>

Ask ==
    /\ caller = "ready"
    /\ caller' = "waiting"
    /\ \E line \in Lines : given' = Append(given, line)
    /\ UNCHANGED <<ran, answered, printed>>

Execute ==
    /\ Len(ran) < Len(given)
    /\ ran' = Append(ran, given[Len(ran) + 1])
    /\ UNCHANGED <<caller, given, printed>>
    /\ \/ UNCHANGED answered
       \/ \E text \in Texts : answered' = Append(answered, text)

(* The answer may come after the line was run.                             *)
Reply ==
    /\ Len(answered) < Len(ran)
    /\ \E text \in Texts : answered' = Append(answered, text)
    /\ UNCHANGED <<caller, given, ran, printed>>

Hear ==
    /\ caller = "waiting"
    /\ Len(answered) = Len(given)
    /\ caller' = "ready"
    /\ printed' = answered
    /\ UNCHANGED <<given, ran, answered>>

HangUp ==
    /\ caller = "waiting"
    /\ caller' = "gone"
    /\ UNCHANGED <<given, ran, answered, printed>>

Next == Ask \/ Execute \/ Reply \/ Hear \/ HangUp

DialogueSpec == Init /\ [][Next]_dialogue
=============================================================================
