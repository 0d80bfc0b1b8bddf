-------------------------- MODULE RateLimiterProofs ---------------------------
(***************************************************************************)
(* However many callers compete, no minute sees more admissions than       *)
(* requests_per_minute: admissions are an interval apart, so dividing      *)
(* their ages by the interval tells them apart, and there are only Rpm     *)
(* quotients.                                                              *)
(***************************************************************************)
EXTENDS RateLimiter, FiniteSetTheorems, TLAPS

\* Who sleeps holds the lock.
LockInv == \A c \in Caller : pc[c] = "sleeping" => holder = c

\* What is left of its sleep lasts until the interval is over.
SleepInv == \A c \in Caller : pc[c] = "sleeping" => left[c] + since >= Interval

\* The last admission is no younger than `since`.
AgeInv == \A a \in recent : since <= a.age

Apart(a, b) == a.age - b.age >= Interval \/ b.age - a.age >= Interval

Spaced == \A a, b \in recent : a # b => Apart(a, b)

LInv == TypeOK /\ LockInv /\ SleepInv /\ AgeInv /\ Spaced

LEMMA InitLInv == Init => LInv
<1> SUFFICES ASSUME Init PROVE LInv
  OBVIOUS
<1>1. TypeOK
  BY TimeAssumption, CallsAssumption DEF Init, TypeOK
<1> QED
  BY <1>1 DEF LInv, Init, LockInv, SleepInv, AgeInv, Spaced

LEMMA WindowNat == Window \in Nat \ {0} /\ Interval \in Nat /\ 0 \in 0 .. Window - 1
  BY TimeAssumption DEF Window

LEMMA TickLInv == LInv /\ Tick => LInv'
<1> SUFFICES ASSUME LInv, Tick PROVE LInv'
  OBVIOUS
<1>1. /\ since \in 0 .. Interval /\ left \in [Caller -> 0 .. Interval]
      /\ recent \subseteq Admission /\ Interval \in Nat /\ Window \in Nat
  BY WindowNat DEF LInv, TypeOK
<1>2. \A a \in recent' : \E b \in recent :
        /\ b.age + 1 < Window /\ a = [b EXCEPT !.age = b.age + 1]
  BY DEF Tick
<1>3. \A a \in recent' : \E b \in recent :
        /\ a \in Admission /\ a.age = b.age + 1
        /\ a.by = b.by /\ a.nth = b.nth /\ a = [b EXCEPT !.age = b.age + 1]
  <2> TAKE a \in recent'
  <2>1. PICK b \in recent : b.age + 1 < Window /\ a = [b EXCEPT !.age = b.age + 1]
    BY <1>2
  <2>2. b \in Admission
    BY <1>1
  <2>3. b.age + 1 \in 0 .. Window - 1
    BY <1>1, <2>1, <2>2 DEF Admission
  <2>4. a \in Admission /\ a.age = b.age + 1 /\ a.by = b.by /\ a.nth = b.nth
    BY <2>1, <2>2, <2>3 DEF Admission
  <2> WITNESS b \in recent
  <2> QED
    BY <2>1, <2>4
<1>4. TypeOK'
  <2>1. since' \in 0 .. Interval /\ left' \in [Caller -> 0 .. Interval]
    BY <1>1 DEF Tick
  <2>2. recent' \subseteq Admission
    BY <1>3
  <2> QED
    BY <2>1, <2>2 DEF LInv, TypeOK, Tick
<1>5. LockInv'
  BY DEF LInv, LockInv, Tick
<1>6. SleepInv'
  <2> SUFFICES ASSUME NEW c \in Caller, pc[c] = "sleeping"
               PROVE  left'[c] + since' >= Interval
    BY DEF Tick, SleepInv
  <2>1. left[c] + since >= Interval /\ left[c] \in 0 .. Interval
    BY <1>1 DEF LInv, SleepInv
  <2>2. left'[c] = IF left[c] > 0 THEN left[c] - 1 ELSE 0
    BY DEF Tick
  <2>3. since' = IF since < Interval THEN since + 1 ELSE since
    BY DEF Tick
  <2> QED
    BY <1>1, <2>1, <2>2, <2>3
<1>7. AgeInv'
  <2> SUFFICES ASSUME NEW a \in recent' PROVE since' <= a.age
    BY DEF AgeInv
  <2>1. PICK b \in recent : a.age = b.age + 1
    BY <1>3
  <2>2. since <= b.age /\ b.age \in Int
    BY <1>1 DEF LInv, AgeInv, Admission
  <2>3. since' <= since + 1
    BY <1>1 DEF Tick
  <2>4. since' \in Int
    BY <1>1 DEF Tick
  <2> QED
    BY <1>1, <2>1, <2>2, <2>3, <2>4
<1>8. Spaced'
  <2> SUFFICES ASSUME NEW a \in recent', NEW b \in recent', a # b PROVE Apart(a, b)
    BY DEF Spaced, Apart
  <2>1. PICK x \in recent : a.age = x.age + 1 /\ a = [x EXCEPT !.age = x.age + 1]
    BY <1>3
  <2>2. PICK y \in recent : b.age = y.age + 1 /\ b = [y EXCEPT !.age = y.age + 1]
    BY <1>3
  <2>3. x # y
    BY <2>1, <2>2
  <2>4. x.age \in Int /\ y.age \in Int
    BY <1>1 DEF Admission
  <2>5. Apart(x, y)
    BY <2>3 DEF LInv, Spaced
  <2> QED
    BY <1>1, <2>1, <2>2, <2>4, <2>5 DEF Apart
<1> QED
  BY <1>4, <1>5, <1>6, <1>7, <1>8 DEF LInv

LEMMA AdmitLInv ==
    ASSUME LInv, NEW c \in Caller, Admit(c)
    PROVE  LInv'
<1> DEFINE new == [by |-> c, nth |-> toCall[c], age |-> 0]
<1>1. /\ since \in 0 .. Interval /\ left \in [Caller -> 0 .. Interval]
      /\ recent \subseteq Admission /\ Interval \in Nat
      /\ pc \in [Caller -> {"idle", "waiting", "sleeping"}]
      /\ toCall \in [Caller -> 0 .. MaxCalls]
  BY WindowNat DEF LInv, TypeOK
<1>2. new \in Admission
  BY <1>1, WindowNat DEF Admission
<1>3. recent' = recent \cup {new} /\ since' = 0 /\ new.age = 0
  BY DEF Admit
<1>4. since = Interval
  BY <1>1 DEF Admit, LInv, SleepInv
<1>5. \A a \in recent : a.age \in Nat /\ a.age >= Interval
  BY <1>1, <1>4 DEF LInv, AgeInv, Admission
<1>6. TypeOK'
  BY <1>1, <1>2, <1>3, NoneAssumption DEF TypeOK, Admit
<1>7. LockInv' /\ SleepInv'
  <2>1. \A d \in Caller : pc'[d] = "sleeping" => d # c /\ pc[d] = "sleeping"
    BY <1>1 DEF Admit
  <2>2. \A d \in Caller : pc[d] = "sleeping" => d = c
    BY DEF LInv, LockInv, Admit
  <2> QED
    BY <2>1, <2>2 DEF LockInv, SleepInv
<1>8. AgeInv'
  BY <1>3, <1>5 DEF AgeInv
<1>9. Spaced'
  <2> SUFFICES ASSUME NEW a \in recent', NEW b \in recent', a # b PROVE Apart(a, b)
    BY DEF Spaced, Apart
  <2> HIDE DEF new
  <2>1. CASE a \in recent /\ b \in recent
    BY <2>1 DEF LInv, Spaced
  <2>2. CASE a \in recent /\ b = new
    BY <1>1, <1>3, <1>5, <2>2 DEF Apart
  <2>3. CASE a = new /\ b \in recent
    BY <1>1, <1>3, <1>5, <2>3 DEF Apart
  <2> QED
    BY <1>3, <2>1, <2>2, <2>3
<1> QED
  BY <1>6, <1>7, <1>8, <1>9 DEF LInv

LEMMA NextLInv == LInv /\ [Next]_vars => LInv'
<1> SUFFICES ASSUME LInv, [Next]_vars PROVE LInv'
  OBVIOUS
<1>1. CASE Tick
  BY <1>1, TickLInv
<1>2. ASSUME NEW c \in Caller, Arrive(c) PROVE LInv'
  <2>1. TypeOK'
    BY <1>2, CallsAssumption DEF LInv, TypeOK, Arrive
  <2>2. \A d \in Caller : pc'[d] = "sleeping" => pc[d] = "sleeping"
    BY <1>2 DEF LInv, TypeOK, Arrive
  <2> QED
    BY <1>2, <2>1, <2>2 DEF LInv, LockInv, SleepInv, AgeInv, Spaced, Apart, Arrive
<1>3. ASSUME NEW c \in Caller, Acquire(c) PROVE LInv'
  <2>1. /\ since \in 0 .. Interval /\ Interval \in Nat /\ Interval - since \in 0 .. Interval
    BY WindowNat DEF LInv, TypeOK
  <2>2. TypeOK'
    BY <1>3, <2>1 DEF LInv, TypeOK, Acquire
  <2>3. \A d \in Caller : pc'[d] = "sleeping" => d = c
    BY <1>3, NoneAssumption DEF LInv, TypeOK, LockInv, Acquire
  <2>4. left'[c] = Interval - since /\ since' = since
    BY <1>3 DEF LInv, TypeOK, Acquire
  <2>5. LockInv' /\ SleepInv'
    BY <1>3, <2>1, <2>3, <2>4 DEF LockInv, SleepInv, Acquire
  <2> QED
    BY <1>3, <2>2, <2>5 DEF LInv, AgeInv, Spaced, Apart, Acquire
<1>4. CASE UNCHANGED vars
  BY <1>4 DEF vars, LInv, TypeOK, LockInv, SleepInv, AgeInv, Spaced, Apart
<1> QED
  BY <1>1, <1>2, <1>3, <1>4, AdmitLInv DEF Next

-------------------------------------------------------------------------------
\* Arithmetic of the quotient.
LEMMA Quotient ==
    ASSUME NEW a \in Nat, NEW i \in Nat \ {0}
    PROVE  a \div i \in Nat /\ i * (a \div i) <= a /\ a < i * (a \div i) + i
  OBVIOUS

LEMMA QuotientBound ==
    ASSUME NEW i \in Nat \ {0}, NEW r \in Nat \ {0}, NEW q \in Nat, NEW a \in Nat,
           i * q <= a, a < r * i
    PROVE  q < r
  OBVIOUS

\* Ages with one quotient are less than an interval apart.
LEMMA QuotientApart ==
    ASSUME NEW i \in Nat \ {0}, NEW q \in Nat, NEW a \in Nat, NEW b \in Nat,
           i * q <= a, a < i * q + i, i * q <= b, b < i * q + i
    PROVE  ~(a - b >= i \/ b - a >= i)
  OBVIOUS

LEMMA SpacedIsFew == LInv => AdmittedPerMinute
<1> SUFFICES ASSUME LInv PROVE AdmittedPerMinute
  OBVIOUS
<1> DEFINE slot == [a \in recent |-> a.age \div Interval]
<1>1. \A a \in recent : a.age \in Nat /\ a.age < Window
  BY WindowNat DEF LInv, TypeOK, Admission
<1>2. \A a \in recent : /\ slot[a] \in Nat
                        /\ Interval * slot[a] <= a.age
                        /\ a.age < Interval * slot[a] + Interval
  BY <1>1, Quotient, TimeAssumption
<1>3. \A a \in recent : slot[a] \in 0 .. Rpm - 1
  <2> TAKE a \in recent
  <2> HIDE DEF slot
  <2>1. slot[a] < Rpm
    BY <1>1, <1>2, QuotientBound, TimeAssumption DEF Window
  <2> QED
    BY <1>2, <2>1, TimeAssumption
<1>4. \A a, b \in recent : slot[a] = slot[b] => a = b
  <2> SUFFICES ASSUME NEW a \in recent, NEW b \in recent, slot[a] = slot[b], a # b
               PROVE  FALSE
    OBVIOUS
  <2> HIDE DEF slot
  <2>1. Apart(a, b)
    BY DEF LInv, Spaced
  <2> QED
    BY <1>1, <1>2, <2>1, QuotientApart, TimeAssumption DEF Apart
<1>5. slot \in Injection(recent, 0 .. Rpm - 1)
  BY <1>3, <1>4 DEF Injection, IsInjective
<1>6. IsFiniteSet(0 .. Rpm - 1) /\ Cardinality(0 .. Rpm - 1) = Rpm
  BY FS_Interval, TimeAssumption
<1>7. Cardinality(recent) <= Rpm
  BY <1>5, <1>6, FS_Injection
<1> QED
  BY <1>7 DEF AdmittedPerMinute

LEMMA AlwaysLInv == Spec => []LInv
  BY InitLInv, NextLInv, PTL DEF Spec

\* The limiter's state keeps its types: above all, no delay is negative and none is
\* longer than the interval (wait).
THEOREM TypeCorrect == Spec => []TypeOK
<1>1. LInv => TypeOK
  BY DEF LInv
<1> QED
  BY <1>1, AlwaysLInv, PTL

\* In no minute are more than requests_per_minute calls admitted, whatever the
\* number of callers, of their calls and of ticks in an interval (wait).
THEOREM PerMinute == Spec => []AdmittedPerMinute
  BY AlwaysLInv, SpacedIsFew, PTL

===============================================================================
