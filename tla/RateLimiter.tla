----------------------------- MODULE RateLimiter ------------------------------
(***************************************************************************)
(* The limiter that the extractor's calls wait for.  It is shared by all   *)
(* ingest requests of the process: wait() holds the limiter's lock while   *)
(* it sleeps until the interval since the last admission has passed, and   *)
(* then stamps the time.                                                   *)
(*                                                                         *)
(* Time is counted in ticks.  A sleep may last longer than it was asked    *)
(* to, never shorter.  Only differences of times matter, so `since` is the *)
(* time since the last stamp, as far as it can make a difference.          *)
(*                                                                         *)
(* An operator whose comment begins with "Fault:" is no part of the model. *)
(* It is a faulty version of an operator after it, which shows that a      *)
(* property would notice the fault.                                        *)
(***************************************************************************)
EXTENDS Integers, FiniteSets

CONSTANTS
    Caller,    \* server threads that call the model
    Interval,  \* 60 / requests_per_minute, in ticks
    Rpm,       \* requests_per_minute
    MaxCalls,  \* bound: the calls that each of them makes
    None

ASSUME TimeAssumption == Interval \in Nat \ {0} /\ Rpm \in Nat \ {0}
ASSUME CallsAssumption == MaxCalls \in Nat
ASSUME NoneAssumption == None \notin Caller

\* A minute.
Window == Rpm * Interval

\* The admission of a caller's call; nth is what it had left to call.
Admission == [by : Caller, nth : 0 .. MaxCalls, age : 0 .. Window - 1]

VARIABLES
    pc,      \* idle, waiting for the lock, or sleeping
    toCall,  \* calls that each caller is still to make
    holder,  \* of the limiter's lock
    since,   \* time since _last_request, up to Interval
    left,    \* of each caller's sleep
    recent   \* history: the admissions of the last minute, with their ages

vars == <<pc, toCall, holder, since, left, recent>>

-------------------------------------------------------------------------------
\* _last_request = 0 lies any time before the first call.
Init ==
    /\ pc = [c \in Caller |-> "idle"]
    /\ toCall \in [Caller -> 0 .. MaxCalls]
    /\ holder = None
    /\ since \in 0 .. Interval
    /\ left = [c \in Caller |-> 0]
    /\ recent = {}

Arrive(c) ==
    /\ pc[c] = "idle" /\ toCall[c] > 0
    /\ pc' = [pc EXCEPT ![c] = "waiting"]
    /\ toCall' = [toCall EXCEPT ![c] = @ - 1]
    /\ UNCHANGED <<holder, since, left, recent>>

\* Fault: no lock.
AcquireUnlocked(c) ==
    /\ pc[c] = "waiting"
    /\ pc' = [pc EXCEPT ![c] = "sleeping"]
    /\ left' = [left EXCEPT ![c] = Interval - since]
    /\ UNCHANGED <<toCall, holder, since, recent>>

\* Fault: the delay is the time that has passed, less the interval.
AcquireWithNegativeDelay(c) ==
    /\ pc[c] = "waiting" /\ holder = None
    /\ holder' = c
    /\ pc' = [pc EXCEPT ![c] = "sleeping"]
    /\ left' = [left EXCEPT ![c] = since - Interval]
    /\ UNCHANGED <<toCall, since, recent>>

\* The lock is taken and the delay computed.
Acquire(c) ==
    /\ pc[c] = "waiting" /\ holder = None
    /\ holder' = c
    /\ pc' = [pc EXCEPT ![c] = "sleeping"]
    /\ left' = [left EXCEPT ![c] = Interval - since]
    /\ UNCHANGED <<toCall, since, recent>>

\* Fault: the lock is not released.
AdmitKeepingLock(c) ==
    /\ pc[c] = "sleeping" /\ left[c] = 0
    /\ since' = 0
    /\ pc' = [pc EXCEPT ![c] = "idle"]
    /\ recent' = recent \cup {[by |-> c, nth |-> toCall[c], age |-> 0]}
    /\ UNCHANGED <<toCall, left, holder>>

\* The sleep is over: stamp, release, return.
Admit(c) ==
    /\ pc[c] = "sleeping" /\ left[c] = 0
    /\ since' = 0
    /\ holder' = None
    /\ pc' = [pc EXCEPT ![c] = "idle"]
    /\ recent' = recent \cup {[by |-> c, nth |-> toCall[c], age |-> 0]}
    /\ UNCHANGED <<toCall, left>>

Tick ==
    /\ since' = IF since < Interval THEN since + 1 ELSE since
    /\ left' = [c \in Caller |-> IF left[c] > 0 THEN left[c] - 1 ELSE 0]
    /\ recent' = {[a EXCEPT !.age = @ + 1] : a \in {b \in recent : b.age + 1 < Window}}
    /\ UNCHANGED <<pc, toCall, holder>>

Next == Tick \/ \E c \in Caller : Arrive(c) \/ Acquire(c) \/ Admit(c)

Spec == Init /\ [][Next]_vars

\* Time passes and the callers' threads run.  The lock is not fair, but callers
\* make finitely many calls.
FairSpec ==
    /\ Spec /\ WF_vars(Tick)
    /\ \A c \in Caller : WF_vars(Acquire(c)) /\ WF_vars(Admit(c))

-------------------------------------------------------------------------------
(* Properties *)

\* The types of the limiter's state and of its callers'.
TypeOK ==
    /\ pc \in [Caller -> {"idle", "waiting", "sleeping"}]
    /\ toCall \in [Caller -> 0 .. MaxCalls]
    /\ holder \in Caller \cup {None}
    /\ since \in 0 .. Interval
    /\ left \in [Caller -> 0 .. Interval]
    /\ recent \subseteq Admission

\* In no minute, wherever it begins, are more than requests_per_minute calls
\* admitted, however many requests compete and however long they oversleep
\* (wait, whose interval only separates one admission from the next).
AdmittedPerMinute == Cardinality(recent) <= Rpm

\* Whoever waits for the limiter is admitted.
EachIsAdmitted == \A c \in Caller : pc[c] = "waiting" ~> pc[c] = "idle"
===============================================================================
