----------------------------- MODULE PingProofs -----------------------------
(***************************************************************************)
(* However many pings a session gives, no output answers two of them.      *)
(***************************************************************************)
EXTENDS Ping, TLAPS

LEMMA ReplyInit == Init => TypeOK /\ ReplyInv
<1> SUFFICES ASSUME Init PROVE TypeOK /\ ReplyInv
  OBVIOUS
<1> USE PingAssumption DEF Init, Calls, None, Garbage
<1>1. TypeOK
  <2>1. call \in 0..MaxCalls /\ value \in 0..MaxCalls
    OBVIOUS
  <2>2. worker \in [Calls -> {"none", "running", "storing", "stored", "done"}]
    OBVIOUS
  <2>3. answer \in [Calls -> Garbage..MaxCalls]
    OBVIOUS
  <2> QED BY <2>1, <2>2, <2>3 DEF TypeOK
<1>2. \A k \in Calls : answer[k] = -1
  OBVIOUS
<1>3. ReplyInv
  BY <1>2 DEF ReplyInv, NoReplyTwice
<1> QED BY <1>1, <1>3

LEMMA ReplyNext == TypeOK /\ ReplyInv /\ [Next]_vars => TypeOK' /\ ReplyInv'
<1> SUFFICES ASSUME TypeOK, ReplyInv, [Next]_vars
             PROVE  TypeOK' /\ ReplyInv'
  OBVIOUS
<1> USE PingAssumption DEF TypeOK, ReplyInv, NoReplyTwice, Ended, Calls, None, Garbage, TimedOut
<1>1. CASE UNCHANGED vars
  BY <1>1 DEF vars
<1>2. CASE Start
  <2>1. call + 1 \in Calls /\ answer[call + 1] = -1
    BY <1>2 DEF Start
  <2>2. /\ pc' = "spawned" /\ call' = call + 1 /\ value' = 0
        /\ torn' = FALSE /\ signal' = FALSE /\ answer' = answer
    BY <1>2 DEF Start
  <2>3. worker' = [worker EXCEPT ![call + 1] = "running"]
    BY <1>2 DEF Start
  <2>4. /\ worker'[call + 1] = "running"
        /\ \A k \in Calls : k # call + 1 => worker'[k] = worker[k]
        /\ worker' \in [Calls -> {"none", "running", "storing", "stored", "done"}]
    BY <2>1, <2>3
  <2>5. TypeOK'
    <3>1. pc' \in {"ready", "spawned", "waiting"} /\ call' \in 0..MaxCalls
      BY <2>1, <2>2
    <3>2. value' \in 0..MaxCalls
      BY <2>2
    <3>3. torn' \in BOOLEAN /\ signal' \in BOOLEAN
      BY <2>2, Zenon
    <3>4. answer' \in [Calls -> Garbage..MaxCalls]
      BY <2>2
    <3> QED BY <2>4, <3>1, <3>2, <3>3, <3>4
  <2>6. worker[call + 1] = "none"
    BY <2>1
  <2>7. ReplyInv'
    BY <2>1, <2>2, <2>4, <2>6
  <2> QED BY <2>5, <2>7
<1>3. CASE Wait
  BY <1>3 DEF Wait
<1>4. ASSUME NEW a \in Garbage..MaxCalls, Return(a),
             a \in Calls => a = value
      PROVE  TypeOK' /\ ReplyInv'
  BY <1>4 DEF Return
<1>5. CASE Notified \/ Spurious
  BY <1>4, <1>5 DEF Notified, Spurious, Reply
<1>6. CASE Timeout
  BY <1>4, <1>6 DEF Timeout
<1>7. ASSUME NEW k \in Calls, StoreBegin(k)
      PROVE  TypeOK' /\ ReplyInv'
  BY <1>7 DEF StoreBegin, Lands
<1>8. ASSUME NEW k \in Calls, StoreEnd(k)
      PROVE  TypeOK' /\ ReplyInv'
  <2>1. /\ k <= call
        /\ \A j \in Calls : answer[j] # k
        /\ ~(pc # "ready" /\ value = k)
    BY <1>8 DEF StoreEnd
  <2> QED BY <1>8, <2>1 DEF StoreEnd, Lands
<1>9. ASSUME NEW k \in Calls, Notify(k)
      PROVE  TypeOK' /\ ReplyInv'
  BY <1>9 DEF Notify, Lands
<1> QED BY <1>1, <1>2, <1>3, <1>5, <1>6, <1>7, <1>8, <1>9 DEF Next, Work

(* The output of one ping answers one command at most.                     *)
THEOREM RepliesAreUsedOnce == Spec => []NoReplyTwice
<1>1. ReplyInv => NoReplyTwice
  BY DEF ReplyInv
<1> QED BY ReplyInit, ReplyNext, <1>1, PTL DEF Spec
=============================================================================
