-------------------------------- MODULE Ping --------------------------------
(***************************************************************************)
(* SystemCommands::ping: the thread of a connection starts a detached      *)
(* worker that runs the ping program, and waits for it on a condition      *)
(* variable for five seconds.  The worker writes to pingRetValue and       *)
(* notifies cv, both variables of the caller's frame, holding no lock; the *)
(* wait has no predicate.  Frames are per thread, so one session's thread  *)
(* is modelled, making one call after the other.                           *)
(*                                                                         *)
(* A worker may outlive the frame it refers to.  What it then touches is   *)
(* undefined: either memory nobody looks at, or, because calls of the same *)
(* thread put their frames at the same address, the frame of a later call. *)
(***************************************************************************)
EXTENDS Integers

CONSTANTS MaxCalls   \* bound: ping commands the session gives

ASSUME PingAssumption == MaxCalls \in Nat

Calls == 1..MaxCalls

(* Answers that are not an output; 0 is the empty one, "Name or service    *)
(* not known".                                                             *)
None     == -1
TimedOut == -2   \* "Host did not respond"
Garbage  == -3   \* pingRetValue read while it was assigned

VARIABLES
    pc,       \* "ready" between calls, "spawned", or "waiting" on cv
    call,     \* the number of the last call
    value,    \* pingRetValue of the frame: 0 empty, k the output of call k's program
    torn,     \* pingRetValue is being assigned
    signal,   \* cv was notified while the thread waited
    worker,   \* per call: "none", "running", "storing", "stored" or "done"
    answer    \* history: per call None, TimedOut, Garbage or the value returned

vars == <<pc, call, value, torn, signal, worker, answer>>

Init ==
    /\ pc = "ready"
    /\ call = 0
    /\ value = 0
    /\ torn = FALSE
    /\ signal = FALSE
    /\ worker = [k \in Calls |-> "none"]
    /\ answer = [k \in Calls |-> None]

(* Broken variant: the buffer of the reply is kept from call to call.      *)
StartKeepingValue ==
    /\ pc = "ready"
    /\ call < MaxCalls
    /\ call' = call + 1
    /\ pc' = "spawned"
    /\ worker' = [worker EXCEPT ![call'] = "running"]
    /\ UNCHANGED <<value, torn, signal, answer>>

(* A new frame with an empty pingRetValue; the worker is detached.         *)
Start ==
    /\ pc = "ready"
    /\ call < MaxCalls
    /\ call' = call + 1
    /\ pc' = "spawned"
    /\ worker' = [worker EXCEPT ![call'] = "running"]
    /\ value' = 0
    /\ torn' = FALSE
    /\ signal' = FALSE
    /\ UNCHANGED answer

(* The thread locks m and enters wait_for.                                 *)
Wait ==
    /\ pc = "spawned"
    /\ pc' = "waiting"
    /\ UNCHANGED <<call, value, torn, signal, worker, answer>>

(* What worker k does to its frame reaches the frame in use: always when   *)
(* it is its own, and perhaps when its own is gone.                        *)
Lands(k) ==
    IF pc = "ready" THEN {FALSE} ELSE IF k = call THEN {TRUE} ELSE BOOLEAN

(* The program of call k has ended and its output is assigned.             *)
StoreBegin(k) ==
    /\ worker[k] = "running"
    /\ worker' = [worker EXCEPT ![k] = "storing"]
    /\ \E lands \in Lands(k) : torn' = (torn \/ lands)
    /\ UNCHANGED <<pc, call, value, signal, answer>>

StoreEnd(k) ==
    /\ worker[k] = "storing"
    /\ worker' = [worker EXCEPT ![k] = "stored"]
    /\ \E lands \in Lands(k) :
          /\ torn' = (torn /\ ~lands)
          /\ value' = IF lands THEN k ELSE value
    /\ UNCHANGED <<pc, call, signal, answer>>

(* cv.notify_one(): nothing is remembered when nobody waits.               *)
Notify(k) ==
    /\ worker[k] = "stored"
    /\ worker' = [worker EXCEPT ![k] = "done"]
    /\ \E lands \in Lands(k) : signal' = (signal \/ (lands /\ pc = "waiting"))
    /\ UNCHANGED <<pc, call, value, torn, answer>>

(* The call returns pingRetValue or throws, and its answer is sent.        *)
Return(a) ==
    /\ pc = "waiting"
    /\ pc' = "ready"
    /\ answer' = [answer EXCEPT ![call] = a]
    /\ UNCHANGED <<call, value, torn, signal, worker>>

Reply == IF torn THEN Garbage ELSE value

(* wait_for returns because it was notified, or spuriously.                *)
Notified == signal /\ Return(Reply)
Spurious == ~signal /\ Return(Reply)

(* Broken variant: wait where wait_for is meant.                           *)
TimeoutNever == pc = "never" /\ Return(TimedOut)

(* Five seconds have passed.                                               *)
Timeout == Return(TimedOut)

Work == \E k \in Calls : StoreBegin(k) \/ StoreEnd(k) \/ Notify(k)

Next == Start \/ Wait \/ Notified \/ Spurious \/ Timeout \/ Work

(* The thread runs and time passes.  Nothing is assumed of the program,    *)
(* which may never end, nor of spurious wake-ups.                          *)
Spec == Init /\ [][Next]_vars /\ WF_vars(Wait) /\ WF_vars(Timeout)

-----------------------------------------------------------------------------
(* Every variable has its type.                                            *)
TypeOK ==
    /\ pc \in {"ready", "spawned", "waiting"}
    /\ call \in 0..MaxCalls
    /\ value \in 0..MaxCalls
    /\ torn \in BOOLEAN
    /\ signal \in BOOLEAN
    /\ worker \in [Calls -> {"none", "running", "storing", "stored", "done"}]
    /\ answer \in [Calls -> Garbage..MaxCalls]

(* Every ping is answered, even when its program never ends and its        *)
(* notification is lost (the five seconds of wait_for).                    *)
EveryPingReturns == pc = "spawned" ~> pc = "ready"

(* The output of one ping answers one command at most, although workers    *)
(* that outlive their call write into the frames of later ones.            *)
NoReplyTwice ==
    \A j, k \in Calls : answer[j] \in Calls /\ answer[j] = answer[k] => j = k

(* The strengthening behind it: an output is assigned once, by a worker    *)
(* that has ended, and the frame in use holds only one not yet returned.   *)
Ended(k) == worker[k] \in {"stored", "done"}

ReplyInv ==
    /\ pc # "ready" => call \in Calls /\ answer[call] = None
    /\ \A k \in Calls : k > call => worker[k] = "none" /\ answer[k] = None
    /\ pc # "ready" /\ value \in Calls =>
          Ended(value) /\ \A k \in Calls : answer[k] # value
    /\ \A k \in Calls : answer[k] \in Calls => Ended(answer[k])
    /\ NoReplyTwice

(* systemcmd.cpp:34 "Host did not respond": the error is not given when    *)
(* the program has ended and said so, but for a notification of the last   *)
(* instant.  Violated: a notification that comes before the wait begins is *)
(* lost, and the wait runs into its five seconds.                          *)
ErrorMeansNoReply ==
    [][\A k \in Calls : (answer[k] = None /\ answer'[k] = TimedOut) =>
                           (worker[k] # "done" \/ signal)]_vars
=============================================================================
