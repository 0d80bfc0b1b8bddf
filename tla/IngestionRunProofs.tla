-------------------------- MODULE IngestionRunProofs --------------------------
(***************************************************************************)
(* What a run of IngestionService.ingest leaves behind, for any number of  *)
(* runs, e-mails and threads, any size of waves, and whatever fails.       *)
(*                                                                         *)
(* None of the four properties is inductive.  RunInv says of each run what *)
(* the loop keeps: an e-mail of the request is at one place of the run's   *)
(* work, or it is settled (stored, and delivered by the run); what is      *)
(* before an e-mail of the wave in its thread is settled; the counters     *)
(* count the deliveries, up to one whose commit was not acknowledged.      *)
(***************************************************************************)
EXTENDS IngestionRun, FiniteSetTheorems, TLAPS

Before(m, n) == m.thread = n.thread /\ m.index < n.index
Settled(r, m) == Stored(m) /\ DeliveredBy(r, m)

\* The e-mails of the wave, and all those that the run has yet to decide.
Reading(r) == {reading[r]} \ {None}
Prepared_(r) == {p.msg : p \in prepared[r]}
InWave(r) == wave[r] \cup Reading(r) \cup Prepared_(r)
Active(r) == queue[r] \cup InWave(r)

\* Each is at one place.
AtOnePlace(r) ==
    /\ \A m \in queue[r] : m \notin InWave(r)
    /\ \A m \in wave[r] : m \notin Reading(r) /\ m \notin Prepared_(r)
    /\ \A m \in Reading(r) : m \notin Prepared_(r)
    /\ \A p, q \in prepared[r] : p.msg = q.msg => p = q

\* Counters c say what run r has delivered.
Fits(c, r) ==
    /\ c.processed = DeliveredAs(r, Outcome)
    /\ c.unchanged = DeliveredAs(r, {"unchanged"})
    /\ c.skipped = DeliveredAs(r, {"skip"})
    /\ c.created + c.updated = DeliveredAs(r, {"create", "update"})

\* They do, or a commit whose acknowledgement was lost is missing.
CountsFit(r) ==
    \/ Fits(counters[r], r)
    \/ failed[r] /\ counters[r].processed + 1 = DeliveredAs(r, Outcome)

WorkInv(r) ==
    /\ Active(r) \subseteq request[r]
    /\ phase[r] # "working" \/ failed[r] => Active(r) = {}
    /\ phase[r] = "start" => ~failed[r]
    /\ AtOnePlace(r)

SettledInv(r) ==
    /\ \A m \in Active(r) : ~DeliveredBy(r, m)
    /\ phase[r] = "start" => \A m \in request[r] : ~DeliveredBy(r, m)
    /\ phase[r] \in {"working", "done"} /\ ~failed[r] =>
         \A m \in request[r] \ Active(r) : Settled(r, m)

OrderInv(r) ==
    /\ \A n \in InWave(r), m \in request[r] : Before(m, n) => Settled(r, m)
    /\ \A p \in prepared[r], m \in request[r] : Before(m, p.msg) => m \in p.stored
    /\ \A m, n \in request[r] : Before(m, n) /\ DeliveredBy(r, n) => DeliveredBy(r, m)

RowInv(r) ==
    rows[r].status \in {"completed", "failed"} =>
        /\ phase[r] = "done"
        /\ rows[r].counts = counters[r]
        /\ rows[r].status = "completed" => ~failed[r]

RunInv(r) == WorkInv(r) /\ SettledInv(r) /\ OrderInv(r) /\ CountsFit(r) /\ RowInv(r)

TInv ==
    /\ TypeOK
    /\ request \in [Run -> Request]
    /\ IsFiniteSet(deliveries)

IInv == TInv /\ \A r \in Run : RunInv(r)

-------------------------------------------------------------------------------
(* Waves and requests *)

\* Every set of naturals that is not empty has a least element.
LEMMA SmallestOf ==
    ASSUME NEW T \in SUBSET Nat, T # {}
    PROVE  \E x \in T : \A y \in T : x <= y
<1> DEFINE R == {ss \in Nat \X Nat : ss[1] < ss[2]}
<1>1. IsWellFoundedOn(R, Nat)
  BY NatLessThanWellFounded DEF OpToRel
<1>2. PICK x \in T : \A y \in T : ~(<<y, x>> \in R)
  BY <1>1, WFMin
<1>3. ASSUME NEW y \in T PROVE x <= y
  <2>1. ~(<<y, x>> \in R) /\ x \in Nat /\ y \in Nat
    BY <1>2
  <2>2. ~(y < x)
    BY <2>1
  <2> QED
    BY <2>1, <2>2
<1> QED
  BY <1>3

\* A wave takes e-mails of the queues, and no other of their threads is before them.
LEMMA WaveHeads ==
    ASSUME NEW S \in SUBSET Message
    PROVE  /\ Wave(S) \subseteq S
           /\ \A n \in Wave(S), m \in S : ~Before(m, n)
<1> SUFFICES ASSUME NEW n \in Wave(S)
             PROVE  n \in S /\ \A m \in S : ~Before(m, n)
  OBVIOUS
<1>1. PICK th \in ThreadsOf(S) : n = Head(OfThread(S, th))
  BY DEF Wave, WaveThreads
<1> DEFINE T == OfThread(S, th)
           I == {m.index : m \in T}
<1>2. T \in SUBSET S /\ \A m \in S : m \in T <=> m.thread = th
  BY DEF OfThread
<1>3. \A m \in S : m.index \in Nat
  BY MessageAssumption
<1>4. I \in SUBSET Nat /\ I # {}
  BY <1>1, <1>2, <1>3 DEF ThreadsOf
<1>5. PICK i \in I : \A j \in I : i <= j
  BY <1>4, SmallestOf
<1>6. \E m \in T : \A k \in T : m.index <= k.index
  BY <1>5
<1>7. n \in T /\ \A k \in T : n.index <= k.index
  BY <1>1, <1>6 DEF Head
<1> QED
  BY <1>2, <1>3, <1>7 DEF Before

\* The e-mails of a request are messages with e-mail ids of their own.
LEMMA RequestKeys ==
    ASSUME TInv, NEW r \in Run
    PROVE  /\ request[r] \subseteq Message
           /\ \A m, n \in request[r] : m.email = n.email => m = n
<1>1. request[r] \in Request
  BY DEF TInv
<1> QED
  BY <1>1, RequestAssumption DEF ValidRequest, SameKey

-------------------------------------------------------------------------------
(* Deliveries and counters *)

LEMMA DeliveredAsNat ==
    ASSUME IsFiniteSet(deliveries)
    PROVE  \A r, outcomes : DeliveredAs(r, outcomes) \in Nat
<1> SUFFICES ASSUME NEW r, NEW outcomes PROVE DeliveredAs(r, outcomes) \in Nat
  OBVIOUS
<1>1. {d \in DeliveriesOf(r) : d.outcome \in outcomes} \in SUBSET deliveries
  BY DEF DeliveriesOf
<1> QED
  BY <1>1, FS_Subset, FS_CardinalityType DEF DeliveredAs

\* What a delivery of an e-mail that the run has not delivered changes.
LEMMA DeliverNew ==
    ASSUME TInv, NEW r \in Run, NEW m \in Message, ~DeliveredBy(r, m),
           NEW outcome \in Outcome, Deliver(r, m, outcome)
    PROVE  /\ IsFiniteSet(deliveries)' /\ deliveries' \subseteq Delivery
           /\ \A s \in Run : s # r => DeliveriesOf(s)' = DeliveriesOf(s)
           /\ \A n : DeliveredBy(r, n)' <=> DeliveredBy(r, n) \/ n.email = m.email
           /\ \A outcomes : DeliveredAs(r, outcomes)' =
                DeliveredAs(r, outcomes) + IF outcome \in outcomes THEN 1 ELSE 0
<1> DEFINE d == [run |-> r, email |-> m.email, outcome |-> outcome]
<1>1. deliveries' = deliveries \cup {d}
  BY DEF Deliver, DeliveredBy, DeliveriesOf
<1>2. d \in Delivery /\ d.run = r /\ d.email = m.email /\ d.outcome = outcome
  BY MessageAssumption DEF Delivery
<1>3. d \notin deliveries
  BY DEF DeliveredBy, DeliveriesOf
<1> HIDE DEF d
<1>4. /\ DeliveriesOf(r)' = DeliveriesOf(r) \cup {d}
      /\ \A s \in Run : s # r => DeliveriesOf(s)' = DeliveriesOf(s)
  BY <1>1, <1>2 DEF DeliveriesOf
<1>5. IsFiniteSet(deliveries)' /\ deliveries' \subseteq Delivery
  BY <1>1, <1>2, FS_AddElement DEF TInv, TypeOK
<1>6. \A n : DeliveredBy(r, n)' <=> DeliveredBy(r, n) \/ n.email = m.email
  BY <1>2, <1>4 DEF DeliveredBy
<1>7. ASSUME NEW outcomes
      PROVE  DeliveredAs(r, outcomes)' =
               DeliveredAs(r, outcomes) + IF outcome \in outcomes THEN 1 ELSE 0
  <2> DEFINE D == {e \in DeliveriesOf(r) : e.outcome \in outcomes}
  <2>1. D' = IF outcome \in outcomes THEN D \cup {d} ELSE D
    BY <1>2, <1>4
  <2>2. D \in SUBSET deliveries /\ d \notin D
    BY <1>3 DEF DeliveriesOf
  <2>3. IsFiniteSet(D) /\ Cardinality(D) \in Nat
    BY <2>2, FS_Subset, FS_CardinalityType DEF TInv
  <2>4. Cardinality(D \cup {d}) = Cardinality(D) + 1
    BY <2>2, <2>3, FS_AddElement
  <2> HIDE DEF D
  <2>5. Cardinality(D)' = Cardinality(D) + IF outcome \in outcomes THEN 1 ELSE 0
    BY <2>1, <2>3, <2>4
  <2> QED
    BY <2>5 DEF D, DeliveredAs
<1> QED
  BY <1>4, <1>5, <1>6, <1>7

\* Count adds one to processed and to each counter in kinds.
LEMMA CountEffect ==
    ASSUME TInv, NEW r \in Run, NEW kinds, Count(r, kinds)
    PROVE  LET c == counters[r]  d == counters'[r] IN
           /\ counters' \in [Run -> Counters]
           /\ \A s \in Run : s # r => counters'[s] = counters[s]
           /\ d.processed = c.processed + 1
           /\ d.created = c.created + IF "created" \in kinds THEN 1 ELSE 0
           /\ d.updated = c.updated + IF "updated" \in kinds THEN 1 ELSE 0
           /\ d.skipped = c.skipped + IF "skipped" \in kinds THEN 1 ELSE 0
           /\ d.unchanged = c.unchanged + IF "unchanged" \in kinds THEN 1 ELSE 0
<1> DEFINE c == counters[r]
           d == [k \in DOMAIN c |-> IF k \in kinds \cup {"processed"} THEN c[k] + 1 ELSE c[k]]
<1>1. counters \in [Run -> Counters] /\ c \in Counters
  BY DEF TInv, TypeOK
<1>2. counters' = [counters EXCEPT ![r] = d]
  BY DEF Count
<1>3. /\ d.processed = c.processed + 1
      /\ d.created = c.created + IF "created" \in kinds THEN 1 ELSE 0
      /\ d.updated = c.updated + IF "updated" \in kinds THEN 1 ELSE 0
      /\ d.skipped = c.skipped + IF "skipped" \in kinds THEN 1 ELSE 0
      /\ d.unchanged = c.unchanged + IF "unchanged" \in kinds THEN 1 ELSE 0
  BY <1>1 DEF Counters
<1>4. d \in Counters
  BY <1>1, <1>3 DEF Counters
<1> HIDE DEF d
<1> QED
  BY <1>1, <1>2, <1>3, <1>4

-------------------------------------------------------------------------------
(* Steps *)

\* A step leaves what is run s's alone, and removes no stored e-mail.
Same(s) ==
    /\ request'[s] = request[s] /\ phase'[s] = phase[s] /\ queue'[s] = queue[s]
    /\ wave'[s] = wave[s] /\ reading'[s] = reading[s] /\ prepared'[s] = prepared[s]
    /\ counters'[s] = counters[s] /\ failed'[s] = failed[s] /\ rows'[s] = rows[s]
    /\ DeliveriesOf(s)' = DeliveriesOf(s)
    /\ emails \subseteq emails'

Others(r) == \A s \in Run : s # r => Same(s)

LEMMA SameRun ==
    ASSUME NEW s \in Run, RunInv(s), Same(s)
    PROVE  RunInv(s)'
<1>1. /\ InWave(s)' = InWave(s) /\ Active(s)' = Active(s)
      /\ Reading(s)' = Reading(s) /\ Prepared_(s)' = Prepared_(s)
  BY DEF Same, Active, InWave, Reading, Prepared_
<1>2. \A m : /\ DeliveredBy(s, m)' <=> DeliveredBy(s, m)
             /\ Settled(s, m) => Settled(s, m)'
  BY DEF Same, DeliveredBy, Settled, Stored
<1>3. \A outcomes : DeliveredAs(s, outcomes)' = DeliveredAs(s, outcomes)
  BY DEF Same, DeliveredAs
<1>4. WorkInv(s)'
  BY <1>1 DEF RunInv, Same, WorkInv, AtOnePlace
<1>5. SettledInv(s)'
  BY <1>1, <1>2 DEF RunInv, Same, SettledInv
<1>6. OrderInv(s)'
  BY <1>1, <1>2 DEF RunInv, Same, OrderInv
<1>7. CountsFit(s)'
  BY <1>3 DEF RunInv, Same, CountsFit, Fits
<1>8. RowInv(s)'
  BY DEF RunInv, Same, RowInv
<1> QED
  BY <1>4, <1>5, <1>6, <1>7, <1>8 DEF RunInv

\* What run r has delivered, and stored, is as before.
LEMMA SameDeliveries ==
    ASSUME UNCHANGED <<emails, deliveries>>, NEW r \in Run
    PROVE  /\ DeliveriesOf(r)' = DeliveriesOf(r)
           /\ \A m : /\ DeliveredBy(r, m)' <=> DeliveredBy(r, m)
                     /\ Settled(r, m)' <=> Settled(r, m)
           /\ \A outcomes : DeliveredAs(r, outcomes)' = DeliveredAs(r, outcomes)
BY DEF DeliveriesOf, DeliveredBy, Settled, Stored, DeliveredAs

LEMMA StartRunInv ==
    ASSUME IInv, NEW r \in Run, StartRun(r)
    PROVE  TInv' /\ RunInv(r)' /\ Others(r)
<1>1. /\ phase[r] = "start" /\ phase' = [phase EXCEPT ![r] = "working"]
      /\ queue' = [queue EXCEPT ![r] = request[r]]
      /\ rows' = [rows EXCEPT ![r].status = "processing"]
      /\ UNCHANGED <<request, emails, deliveries, wave, reading, prepared, counters, failed>>
  BY DEF StartRun
<1>2. TInv /\ RunInv(r)
  BY DEF IInv
<1>3. TInv'
  <2>1. [rows[r] EXCEPT !.status = "processing"] \in Row
    BY <1>2 DEF TInv, TypeOK, Row
  <2> QED
    BY <1>1, <1>2, <2>1 DEF TInv, TypeOK
<1>4. Others(r)
  BY <1>1, <1>2, SameDeliveries DEF Others, Same, TInv, TypeOK
<1>5. /\ queue'[r] = request[r] /\ phase'[r] = "working" /\ rows'[r].status = "processing"
      /\ Active(r) = {} /\ InWave(r) = {}
  BY <1>1, <1>2 DEF TInv, TypeOK, RunInv, WorkInv, Active, Row
<1>6. InWave(r)' = {} /\ Active(r)' = request[r] /\ prepared[r] = {}
  BY <1>1, <1>5 DEF InWave, Active, Reading, Prepared_
<1>7. WorkInv(r)'
  BY <1>1, <1>2, <1>5, <1>6 DEF RunInv, WorkInv, AtOnePlace, InWave
<1>8. SettledInv(r)'
  BY <1>1, <1>2, <1>5, <1>6, SameDeliveries DEF RunInv, SettledInv
<1>9. OrderInv(r)'
  BY <1>1, <1>2, <1>6, SameDeliveries DEF RunInv, OrderInv
<1>10. CountsFit(r)' /\ RowInv(r)'
  BY <1>1, <1>2, <1>5, SameDeliveries DEF RunInv, CountsFit, Fits, RowInv
<1> QED
  BY <1>3, <1>4, <1>7, <1>8, <1>9, <1>10 DEF RunInv

LEMMA TakeWaveInv ==
    ASSUME IInv, NEW r \in Run, TakeWave(r)
    PROVE  TInv' /\ RunInv(r)' /\ Others(r)
<1> DEFINE W == Wave(queue[r])
<1>1. /\ phase[r] = "working" /\ InWave(r) = {} /\ queue[r] # {}
      /\ wave' = [wave EXCEPT ![r] = W] /\ queue' = [queue EXCEPT ![r] = queue[r] \ W]
      /\ UNCHANGED <<request, emails, deliveries, rows, phase, reading, prepared, counters, failed>>
  BY DEF TakeWave, WaveDone, InWave, Reading, Prepared_
<1>2. TInv /\ RunInv(r) /\ queue[r] \in SUBSET Message
  BY DEF IInv, TInv, TypeOK
<1>3. W \subseteq queue[r] /\ \A n \in W, m \in queue[r] : ~Before(m, n)
  BY <1>2, WaveHeads
<1> HIDE DEF W
<1>4. TInv'
  BY <1>1, <1>2, <1>3 DEF TInv, TypeOK
<1>5. Others(r)
  BY <1>1, <1>2, SameDeliveries DEF Others, Same, TInv, TypeOK
<1>6. wave'[r] = W /\ queue'[r] = queue[r] \ W
  BY <1>1, <1>2 DEF TInv, TypeOK
<1>7. /\ Reading(r)' = {} /\ Prepared_(r)' = {} /\ prepared'[r] = {}
      /\ InWave(r)' = W /\ Active(r)' = Active(r) /\ Active(r) = queue[r]
  BY <1>1, <1>3, <1>6 DEF InWave, Active, Reading, Prepared_
<1>8. WorkInv(r)'
  BY <1>1, <1>2, <1>6, <1>7 DEF RunInv, WorkInv, AtOnePlace
<1>9. SettledInv(r)'
  BY <1>1, <1>2, <1>7, SameDeliveries DEF RunInv, SettledInv
<1>10. OrderInv(r)'
  <2>1. \A m \in request[r] \ queue[r] : Settled(r, m)
    BY <1>1, <1>2, <1>7 DEF RunInv, SettledInv, WorkInv
  <2>2. \A n \in W, m \in request[r] : Before(m, n) => Settled(r, m)
    BY <1>3, <2>1
  <2> QED
    BY <1>1, <1>2, <1>7, <2>2, SameDeliveries DEF RunInv, OrderInv
<1>11. CountsFit(r)' /\ RowInv(r)'
  BY <1>1, <1>2, SameDeliveries DEF RunInv, CountsFit, Fits, RowInv
<1> QED
  BY <1>4, <1>5, <1>8, <1>9, <1>10, <1>11 DEF RunInv

\* Run r delivers an e-mail of its wave.
LEMMA DeliverInWave ==
    ASSUME TInv, NEW r \in Run, RunInv(r), NEW m \in InWave(r), NEW outcome \in Outcome,
           Deliver(r, m, outcome), emails \subseteq emails', m \in emails', request' = request
    PROVE  /\ m \in Message /\ m \in request[r] /\ ~failed[r] /\ phase[r] = "working"
           /\ IsFiniteSet(deliveries)' /\ deliveries' \subseteq Delivery
           /\ \A s \in Run : s # r => DeliveriesOf(s)' = DeliveriesOf(s)
           /\ \A n \in request[r] : DeliveredBy(r, n)' <=> DeliveredBy(r, n) \/ n = m
           /\ \A n \in request[r] : Settled(r, n) => Settled(r, n)'
           /\ Settled(r, m)'
           /\ \A k, n \in request[r] :
                Before(k, n) /\ DeliveredBy(r, n)' => DeliveredBy(r, k)'
           /\ Fits(counters[r], r)
           /\ \A outcomes : DeliveredAs(r, outcomes)' =
                DeliveredAs(r, outcomes) + IF outcome \in outcomes THEN 1 ELSE 0
<1>1. /\ m \in Active(r) /\ m \in request[r] /\ ~failed[r] /\ phase[r] = "working"
      /\ ~DeliveredBy(r, m)
  BY DEF RunInv, WorkInv, SettledInv, Active
<1>2. m \in Message /\ \A n \in request[r] : n.email = m.email <=> n = m
  BY <1>1, RequestKeys
<1>3. /\ IsFiniteSet(deliveries)' /\ deliveries' \subseteq Delivery
      /\ \A s \in Run : s # r => DeliveriesOf(s)' = DeliveriesOf(s)
      /\ \A n : DeliveredBy(r, n)' <=> DeliveredBy(r, n) \/ n.email = m.email
      /\ \A outcomes : DeliveredAs(r, outcomes)' =
           DeliveredAs(r, outcomes) + IF outcome \in outcomes THEN 1 ELSE 0
  BY <1>1, <1>2, DeliverNew
<1>4. \A n \in request[r] : DeliveredBy(r, n)' <=> DeliveredBy(r, n) \/ n = m
  BY <1>2, <1>3
<1>5. \A n \in request[r] : Settled(r, n) => Settled(r, n)'
  BY <1>4 DEF Settled, Stored
<1>6. Settled(r, m)'
  BY <1>1, <1>4 DEF Settled, Stored
<1>7. ASSUME NEW k \in request[r], NEW n \in request[r], Before(k, n), DeliveredBy(r, n)'
      PROVE  DeliveredBy(r, k)'
  <2>1. CASE n = m
    BY <1>4, <1>7, <2>1 DEF RunInv, OrderInv, Settled
  <2>2. CASE n # m
    BY <1>4, <1>7, <2>2 DEF RunInv, OrderInv
  <2> QED
    BY <2>1, <2>2
<1>8. Fits(counters[r], r)
  BY <1>1 DEF RunInv, CountsFit
<1> QED
  BY <1>1, <1>2, <1>3, <1>4, <1>5, <1>6, <1>7, <1>8

\* A run that drops its work keeps its invariant when it failed or is lost.
LEMMA DropWorkInv ==
    ASSUME TInv, NEW r \in Run, RunInv(r), phase[r] = "working", DropWork(r), request' = request,
           failed'[r] \/ phase'[r] = "lost", phase'[r] \in {"working", "lost"},
           \A m, n \in request[r] : Before(m, n) /\ DeliveredBy(r, n)' => DeliveredBy(r, m)',
           CountsFit(r)', rows' = rows
    PROVE  RunInv(r)'
<1>1. queue'[r] = {} /\ wave'[r] = {} /\ reading'[r] = None /\ prepared'[r] = {}
  BY DEF DropWork, TInv, TypeOK
<1>2. Active(r)' = {} /\ InWave(r)' = {} /\ Reading(r)' = {} /\ Prepared_(r)' = {}
  BY <1>1 DEF Active, InWave, Reading, Prepared_
<1>3. WorkInv(r)'
  BY <1>1, <1>2 DEF WorkInv, AtOnePlace
<1>4. SettledInv(r)'
  BY <1>2 DEF SettledInv
<1>5. OrderInv(r)'
  BY <1>1, <1>2 DEF OrderInv
<1>6. RowInv(r)'
  BY DEF RunInv, RowInv
<1> QED
  BY <1>3, <1>4, <1>5, <1>6 DEF RunInv

LEMMA DropWorkType ==
    ASSUME TypeOK, NEW r \in Run, DropWork(r)
    PROVE  /\ queue' \in [Run -> SUBSET Message] /\ wave' \in [Run -> SUBSET Message]
           /\ reading' \in [Run -> Message \cup {None}]
           /\ prepared' \in [Run -> SUBSET Prepared]
           /\ \A s \in Run : s # r => /\ queue'[s] = queue[s] /\ wave'[s] = wave[s]
                                      /\ reading'[s] = reading[s] /\ prepared'[s] = prepared[s]
BY DEF TypeOK, DropWork

LEMMA EscapeInv ==
    ASSUME IInv, NEW r \in Run, Escape(r)
    PROVE  TInv' /\ RunInv(r)' /\ Others(r)
<1>1. /\ phase[r] = "working" /\ phase' = [phase EXCEPT ![r] = "lost"] /\ DropWork(r)
      /\ UNCHANGED <<request, emails, deliveries, rows, counters, failed>>
  BY DEF Escape
<1>2. TInv /\ TypeOK /\ RunInv(r) /\ phase'[r] = "lost"
  BY <1>1 DEF IInv, TInv, TypeOK
<1>3. TInv'
  BY <1>1, <1>2, DropWorkType DEF TInv, TypeOK
<1>4. Others(r)
  BY <1>1, <1>2, DropWorkType, SameDeliveries DEF Others, Same, TypeOK
<1>5. \A m, n \in request[r] : Before(m, n) /\ DeliveredBy(r, n)' => DeliveredBy(r, m)'
  BY <1>1, <1>2, SameDeliveries DEF RunInv, OrderInv
<1>6. CountsFit(r)'
  BY <1>1, <1>2, SameDeliveries DEF RunInv, CountsFit, Fits
<1> QED
  BY <1>1, <1>2, <1>3, <1>4, <1>5, <1>6, DropWorkInv

\* What a run counts for each outcome of an e-mail.
LEMMA CountsDelivery ==
    ASSUME TInv, NEW r \in Run, NEW outcome \in Outcome, NEW kinds, Fits(counters[r], r),
           [kind |-> kinds, op |-> outcome] \in
             Result \cup {[kind |-> {"unchanged"}, op |-> "unchanged"]},
           Count(r, kinds),
           \A outcomes : DeliveredAs(r, outcomes)' =
             DeliveredAs(r, outcomes) + IF outcome \in outcomes THEN 1 ELSE 0
    PROVE  Fits(counters[r], r)'
<1> DEFINE c == counters[r]
<1>1. /\ c.created \in Nat /\ c.updated \in Nat
      /\ counters'[r].processed = c.processed + 1
      /\ counters'[r].created = c.created + IF "created" \in kinds THEN 1 ELSE 0
      /\ counters'[r].updated = c.updated + IF "updated" \in kinds THEN 1 ELSE 0
      /\ counters'[r].skipped = c.skipped + IF "skipped" \in kinds THEN 1 ELSE 0
      /\ counters'[r].unchanged = c.unchanged + IF "unchanged" \in kinds THEN 1 ELSE 0
  BY CountEffect DEF TInv, TypeOK, Counters
<1>2. /\ c.processed = DeliveredAs(r, Outcome) /\ c.unchanged = DeliveredAs(r, {"unchanged"})
      /\ c.skipped = DeliveredAs(r, {"skip"})
      /\ c.created + c.updated = DeliveredAs(r, {"create", "update"})
  BY DEF Fits
<1>3. /\ DeliveredAs(r, Outcome)' = c.processed + 1
      /\ DeliveredAs(r, {"unchanged"})' = c.unchanged + IF outcome = "unchanged" THEN 1 ELSE 0
      /\ DeliveredAs(r, {"skip"})' = c.skipped + IF outcome = "skip" THEN 1 ELSE 0
      /\ DeliveredAs(r, {"create", "update"})' =
           c.created + c.updated + IF outcome \in {"create", "update"} THEN 1 ELSE 0
  BY <1>2
<1>4. /\ "unchanged" \in kinds <=> outcome = "unchanged"
      /\ "skipped" \in kinds <=> outcome = "skip"
      /\ "created" \in kinds \/ "updated" \in kinds <=> outcome \in {"create", "update"}
      /\ ~("created" \in kinds /\ "updated" \in kinds)
  BY DEF Result
<1>5. counters'[r].processed = DeliveredAs(r, Outcome)'
  BY <1>1, <1>3
<1>6. counters'[r].unchanged = DeliveredAs(r, {"unchanged"})'
  BY <1>1, <1>3, <1>4
<1>7. counters'[r].skipped = DeliveredAs(r, {"skip"})'
  BY <1>1, <1>3, <1>4
<1>8. counters'[r].created + counters'[r].updated = DeliveredAs(r, {"create", "update"})'
  BY <1>1, <1>3, <1>4
<1> QED
  BY <1>5, <1>6, <1>7, <1>8 DEF Fits

\* An e-mail leaves the wave stored, delivered and counted.
LEMMA DecideInv ==
    ASSUME TInv, NEW r \in Run, RunInv(r), NEW m \in InWave(r), NEW outcome \in Outcome,
           NEW kinds, Deliver(r, m, outcome), Count(r, kinds),
           [kind |-> kinds, op |-> outcome] \in
             Result \cup {[kind |-> {"unchanged"}, op |-> "unchanged"]},
           emails \subseteq emails', m \in emails',
           UNCHANGED <<request, rows, phase, queue, failed>>,
           InWave(r)' = InWave(r) \ {m}, prepared'[r] \subseteq prepared[r], AtOnePlace(r)'
    PROVE  RunInv(r)'
<1>1. /\ m \in request[r] /\ ~failed[r] /\ phase[r] = "working"
      /\ \A n \in request[r] : DeliveredBy(r, n)' <=> DeliveredBy(r, n) \/ n = m
      /\ \A n \in request[r] : Settled(r, n) => Settled(r, n)'
      /\ Settled(r, m)'
      /\ \A k, n \in request[r] : Before(k, n) /\ DeliveredBy(r, n)' => DeliveredBy(r, k)'
      /\ Fits(counters[r], r)
      /\ \A outcomes : DeliveredAs(r, outcomes)' =
           DeliveredAs(r, outcomes) + IF outcome \in outcomes THEN 1 ELSE 0
  BY DeliverInWave
<1>2. Active(r)' = Active(r) \ {m} /\ Active(r) \subseteq request[r]
  BY DEF RunInv, WorkInv, AtOnePlace, Active
<1>3. WorkInv(r)'
  BY <1>1, <1>2 DEF WorkInv
<1>4. SettledInv(r)'
  BY <1>1, <1>2 DEF RunInv, SettledInv
<1>5. OrderInv(r)'
  BY <1>1 DEF RunInv, OrderInv
<1>6. CountsFit(r)'
  BY <1>1, CountsDelivery DEF CountsFit
<1>7. RowInv(r)'
  BY <1>1 DEF RunInv, RowInv
<1> QED
  BY <1>3, <1>4, <1>5, <1>6, <1>7 DEF RunInv

\* The inspection of an e-mail that is stored already.
LEMMA InspectStored ==
    ASSUME IInv, NEW r \in Run, NEW m \in wave[r], Stored(m), Deliver(r, m, "unchanged"),
           Count(r, {"unchanged"}), wave' = [wave EXCEPT ![r] = @ \ {m}],
           UNCHANGED <<request, emails, rows, phase, queue, reading, prepared, failed>>
    PROVE  TInv' /\ RunInv(r)' /\ Others(r)
<1>1. TInv /\ TypeOK /\ RunInv(r) /\ m \in InWave(r) /\ "unchanged" \in Outcome
  BY DEF IInv, TInv, InWave, Outcome
<1>2. wave'[r] = wave[r] \ {m} /\ AtOnePlace(r)
  BY <1>1 DEF TypeOK, RunInv, WorkInv
<1>3. InWave(r)' = InWave(r) \ {m} /\ Reading(r)' = Reading(r) /\ Prepared_(r)' = Prepared_(r)
  BY <1>2 DEF InWave, AtOnePlace, Reading, Prepared_
<1>4. AtOnePlace(r)'
  BY <1>2, <1>3 DEF AtOnePlace
<1>5. /\ IsFiniteSet(deliveries)' /\ deliveries' \subseteq Delivery
      /\ \A s \in Run : s # r => DeliveriesOf(s)' = DeliveriesOf(s)
  BY <1>1, DeliverInWave DEF Stored
<1>6. counters' \in [Run -> Counters] /\ \A s \in Run : s # r => counters'[s] = counters[s]
  BY <1>1, CountEffect
<1>7. TInv'
  BY <1>1, <1>5, <1>6 DEF TInv, TypeOK
<1>8. Others(r)
  BY <1>1, <1>5, <1>6 DEF Others, Same, TypeOK
<1>9. RunInv(r)'
  BY <1>1, <1>3, <1>4, DecideInv DEF Stored
<1> QED
  BY <1>7, <1>8, <1>9

\* The inspection of a new e-mail.
LEMMA InspectNew ==
    ASSUME IInv, NEW r \in Run, phase[r] = "working", reading[r] = None, NEW m \in wave[r],
           wave' = [wave EXCEPT ![r] = @ \ {m}], reading' = [reading EXCEPT ![r] = m],
           UNCHANGED <<request, emails, deliveries, rows, phase, counters, queue, prepared, failed>>
    PROVE  TInv' /\ RunInv(r)' /\ Others(r)
<1>1. TInv /\ TypeOK /\ RunInv(r) /\ AtOnePlace(r) /\ m \in Message /\ m # None
  BY NoneAssumption DEF IInv, TInv, TypeOK, RunInv, WorkInv
<1>2. wave'[r] = wave[r] \ {m} /\ reading'[r] = m
  BY <1>1 DEF TypeOK
<1>3. Reading(r)' = {m} /\ Reading(r) = {} /\ Prepared_(r)' = Prepared_(r)
  BY <1>1, <1>2 DEF Reading, Prepared_
<1>4. InWave(r)' = InWave(r) /\ Active(r)' = Active(r)
  BY <1>2, <1>3 DEF InWave, Active
<1>5. AtOnePlace(r)'
  BY <1>1, <1>2, <1>3, <1>4 DEF AtOnePlace
<1>6. TInv'
  BY <1>1 DEF TInv, TypeOK
<1>7. Others(r)
  BY <1>1, SameDeliveries DEF Others, Same, TypeOK
<1>8. WorkInv(r)' /\ SettledInv(r)' /\ OrderInv(r)'
  BY <1>1, <1>4, <1>5, SameDeliveries DEF RunInv, WorkInv, SettledInv, OrderInv
<1>9. CountsFit(r)' /\ RowInv(r)'
  BY <1>1, SameDeliveries DEF RunInv, CountsFit, Fits, RowInv
<1> QED
  BY <1>6, <1>7, <1>8, <1>9 DEF RunInv

\* An error ends the run's work, whether or not an e-mail of the wave was delivered.
LEMMA RaiseInv ==
    ASSUME IInv, NEW r \in Run, InWave(r) # {}, Raise(r), UNCHANGED <<request, rows, counters>>,
           \/ UNCHANGED <<emails, deliveries>>
           \/ \E m \in InWave(r), outcome \in Outcome :
                emails' = emails \cup {m} /\ Deliver(r, m, outcome)
    PROVE  TInv' /\ RunInv(r)' /\ Others(r)
<1>1. /\ failed' = [failed EXCEPT ![r] = TRUE] /\ DropWork(r) /\ phase' = phase
  BY DEF Raise
<1>2. TInv /\ TypeOK /\ RunInv(r) /\ phase[r] = "working" /\ failed'[r]
  BY <1>1 DEF IInv, TInv, TypeOK, RunInv, WorkInv, Active
<1>3. /\ IsFiniteSet(deliveries)' /\ deliveries' \subseteq Delivery /\ emails' \subseteq Message
      /\ emails \subseteq emails'
      /\ \A s \in Run : s # r => DeliveriesOf(s)' = DeliveriesOf(s)
      /\ \A k, n \in request[r] : Before(k, n) /\ DeliveredBy(r, n)' => DeliveredBy(r, k)'
      /\ CountsFit(r)'
  <2>1. ASSUME UNCHANGED <<emails, deliveries>> PROVE <1>3!:
    <3>1. /\ \A s \in Run : DeliveriesOf(s)' = DeliveriesOf(s)
          /\ \A m : DeliveredBy(r, m)' <=> DeliveredBy(r, m)
          /\ \A outcomes : DeliveredAs(r, outcomes)' = DeliveredAs(r, outcomes)
      BY <2>1, SameDeliveries
    <3> QED
      BY <1>2, <2>1, <3>1 DEF TInv, TypeOK, RunInv, OrderInv, CountsFit, Fits
  <2>2. ASSUME NEW m \in InWave(r), NEW outcome \in Outcome, emails' = emails \cup {m},
               Deliver(r, m, outcome)
        PROVE  <1>3!:
    <3>1. /\ m \in Message
          /\ IsFiniteSet(deliveries)' /\ deliveries' \subseteq Delivery
          /\ \A s \in Run : s # r => DeliveriesOf(s)' = DeliveriesOf(s)
          /\ \A k, n \in request[r] : Before(k, n) /\ DeliveredBy(r, n)' => DeliveredBy(r, k)'
          /\ Fits(counters[r], r)
          /\ DeliveredAs(r, Outcome)' = DeliveredAs(r, Outcome) + 1
      BY <1>2, <2>2, DeliverInWave
    <3>2. CountsFit(r)'
      BY <1>2, <3>1 DEF CountsFit, Fits
    <3> QED
      BY <1>2, <2>2, <3>1, <3>2 DEF TypeOK
  <2> QED
    BY <2>1, <2>2
<1>4. TInv'
  BY <1>1, <1>2, <1>3, DropWorkType DEF TInv, TypeOK
<1>5. Others(r)
  BY <1>1, <1>2, <1>3, DropWorkType DEF Others, Same, TypeOK
<1>6. RunInv(r)'
  BY <1>1, <1>2, <1>3, DropWorkInv
<1> QED
  BY <1>4, <1>5, <1>6

LEMMA InspectInv ==
    ASSUME IInv, NEW r \in Run, Inspect(r)
    PROVE  TInv' /\ RunInv(r)' /\ Others(r)
<1>1. PICK m \in wave[r] :
        \/ /\ Conflicts(m)
           /\ Raise(r)
           /\ UNCHANGED <<deliveries, counters>>
        \/ /\ Stored(m)
           /\ Deliver(r, m, "unchanged")
           /\ Count(r, {"unchanged"})
           /\ wave' = [wave EXCEPT ![r] = @ \ {m}]
           /\ UNCHANGED <<phase, queue, reading, prepared, failed>>
        \/ /\ ~Stored(m) /\ ~Conflicts(m)
           /\ wave' = [wave EXCEPT ![r] = @ \ {m}]
           /\ reading' = [reading EXCEPT ![r] = m]
           /\ UNCHANGED <<phase, deliveries, counters, queue, prepared, failed>>
  BY DEF Inspect
<1>2. /\ phase[r] = "working" /\ reading[r] = None
      /\ UNCHANGED <<request, emails, rows>> /\ InWave(r) # {}
  BY <1>1 DEF Inspect, InWave
<1>3. CASE Raise(r) /\ UNCHANGED <<deliveries, counters>>
  BY <1>2, <1>3, RaiseInv
<1>4. CASE /\ Stored(m)
           /\ Deliver(r, m, "unchanged")
           /\ Count(r, {"unchanged"})
           /\ wave' = [wave EXCEPT ![r] = @ \ {m}]
           /\ UNCHANGED <<phase, queue, reading, prepared, failed>>
  BY <1>2, <1>4, InspectStored
<1>5. CASE /\ wave' = [wave EXCEPT ![r] = @ \ {m}]
           /\ reading' = [reading EXCEPT ![r] = m]
           /\ UNCHANGED <<phase, deliveries, counters, queue, prepared, failed>>
  BY <1>2, <1>5, InspectNew
<1> QED
  BY <1>1, <1>3, <1>4, <1>5

\* All that the request has before the e-mail in its thread is stored when that
\* thread is read.
LEMMA ReadPriorInv ==
    ASSUME IInv, NEW r \in Run, ReadPrior(r)
    PROVE  TInv' /\ RunInv(r)' /\ Others(r)
<1> DEFINE m == reading[r]
           q == [msg |-> m, stored |-> OfThread(emails, m.thread)]
<1>1. /\ m # None
      /\ prepared' = [prepared EXCEPT ![r] = prepared[r] \cup {q}]
      /\ reading' = [reading EXCEPT ![r] = None]
      /\ UNCHANGED <<request, emails, deliveries, rows, phase, queue, wave, counters, failed>>
  BY DEF ReadPrior
<1>2. TInv /\ TypeOK /\ RunInv(r) /\ AtOnePlace(r) /\ m \in Message
  BY <1>1 DEF IInv, TInv, TypeOK, RunInv, WorkInv
<1>3. q \in Prepared /\ q.msg = m /\ q.stored = OfThread(emails, m.thread)
  BY <1>2 DEF Prepared, OfThread, TypeOK
<1> HIDE DEF q
<1>4. reading'[r] = None /\ prepared'[r] = prepared[r] \cup {q}
  BY <1>1, <1>2 DEF TypeOK
<1>5. /\ Reading(r) = {m} /\ Reading(r)' = {}
      /\ Prepared_(r)' = Prepared_(r) \cup {m}
  BY <1>1, <1>3, <1>4 DEF Reading, Prepared_
<1>6. InWave(r)' = InWave(r) /\ Active(r)' = Active(r)
  BY <1>1, <1>5 DEF InWave, Active
<1>7. m \notin Prepared_(r) /\ m \notin wave[r]
  BY <1>2, <1>5 DEF AtOnePlace
<1>8. AtOnePlace(r)'
  <2>1. \A p, p2 \in prepared'[r] : p.msg = p2.msg => p = p2
    BY <1>2, <1>3, <1>4, <1>7 DEF AtOnePlace, Prepared_
  <2> QED
    BY <1>1, <1>2, <1>5, <1>6, <1>7, <2>1 DEF AtOnePlace
<1>9. TInv'
  BY <1>1, <1>2, <1>3 DEF TInv, TypeOK
<1>10. Others(r)
  BY <1>1, <1>2, SameDeliveries DEF Others, Same, TypeOK
<1>11. WorkInv(r)' /\ SettledInv(r)'
  BY <1>1, <1>2, <1>6, <1>8, SameDeliveries DEF RunInv, WorkInv, SettledInv
<1>12. OrderInv(r)'
  <2>1. \A k \in request[r] : Before(k, m) => k \in q.stored
    BY <1>2, <1>3, <1>5 DEF RunInv, OrderInv, InWave, Before, Settled, Stored, OfThread
  <2> QED
    BY <1>1, <1>2, <1>3, <1>4, <1>6, <2>1, SameDeliveries DEF RunInv, OrderInv
<1>13. CountsFit(r)' /\ RowInv(r)'
  BY <1>1, <1>2, SameDeliveries DEF RunInv, CountsFit, Fits, RowInv
<1> QED
  BY <1>9, <1>10, <1>11, <1>12, <1>13 DEF RunInv

LEMMA ReconcileInv ==
    ASSUME IInv, NEW r \in Run, Reconcile(r)
    PROVE  TInv' /\ RunInv(r)' /\ Others(r)
<1>1. PICK p \in prepared[r] :
        /\ \/ /\ Stored(p.msg)
              /\ Deliver(r, p.msg, "unchanged")
              /\ Count(r, {"unchanged"})
              /\ UNCHANGED emails
           \/ /\ ~Stored(p.msg) /\ ~Conflicts(p.msg)
              /\ emails' = emails \cup {p.msg}
              /\ \E result \in Result : Deliver(r, p.msg, result.op) /\ Count(r, result.kind)
        /\ prepared' = [prepared EXCEPT ![r] = @ \ {p}]
  BY DEF Reconcile
<1> DEFINE m == p.msg
<1>2. UNCHANGED <<request, rows, phase, queue, wave, reading, failed>>
  BY DEF Reconcile
<1>3. TInv /\ TypeOK /\ RunInv(r) /\ AtOnePlace(r)
  BY DEF IInv, TInv, RunInv, WorkInv
<1>4. m \in InWave(r) /\ m \in Prepared_(r)
  BY DEF InWave, Prepared_
<1>5. PICK result \in Result \cup {[kind |-> {"unchanged"}, op |-> "unchanged"]} :
        Deliver(r, m, result.op) /\ Count(r, result.kind)
  <2> DEFINE replay == [kind |-> {"unchanged"}, op |-> "unchanged"]
  <2>1. CASE Deliver(r, m, "unchanged") /\ Count(r, {"unchanged"})
    <3>1. replay.op = "unchanged" /\ replay.kind = {"unchanged"}
      OBVIOUS
    <3>2. replay \in Result \cup {replay}
      OBVIOUS
    <3> QED
      BY <2>1, <3>1, <3>2, Zenon
  <2>2. CASE \E result \in Result : Deliver(r, m, result.op) /\ Count(r, result.kind)
    BY <2>2
  <2> QED
    BY <1>1, <2>1, <2>2
<1>6. /\ result.op \in Outcome
      /\ [kind |-> result.kind, op |-> result.op] \in
           Result \cup {[kind |-> {"unchanged"}, op |-> "unchanged"]}
  BY DEF Result, Outcome
<1>7. emails \subseteq emails' /\ m \in emails' /\ emails' \subseteq emails \cup {m}
  BY <1>1 DEF Stored
<1>8. prepared'[r] = prepared[r] \ {p}
  BY <1>1, <1>3 DEF TypeOK
<1>9. Prepared_(r)' = Prepared_(r) \ {m} /\ Reading(r)' = Reading(r)
  BY <1>2, <1>3, <1>8 DEF AtOnePlace, Prepared_, Reading
<1>10. InWave(r)' = InWave(r) \ {m}
  BY <1>2, <1>3, <1>4, <1>9 DEF AtOnePlace, InWave
<1>11. AtOnePlace(r)'
  BY <1>2, <1>3, <1>8, <1>9, <1>10 DEF AtOnePlace
<1>12. /\ m \in Message /\ IsFiniteSet(deliveries)' /\ deliveries' \subseteq Delivery
       /\ \A s \in Run : s # r => DeliveriesOf(s)' = DeliveriesOf(s)
  BY <1>2, <1>3, <1>4, <1>5, <1>6, <1>7, DeliverInWave
<1>13. counters' \in [Run -> Counters] /\ \A s \in Run : s # r => counters'[s] = counters[s]
  BY <1>3, <1>5, CountEffect
<1>14. TInv'
  BY <1>1, <1>2, <1>3, <1>7, <1>12, <1>13 DEF TInv, TypeOK
<1>15. Others(r)
  BY <1>1, <1>2, <1>3, <1>7, <1>12, <1>13 DEF Others, Same, TypeOK
<1>16. RunInv(r)'
  BY <1>2, <1>3, <1>4, <1>5, <1>6, <1>7, <1>8, <1>10, <1>11, DecideInv
<1> QED
  BY <1>14, <1>15, <1>16

LEMMA ReconcileFailsInv ==
    ASSUME IInv, NEW r \in Run, ReconcileFails(r)
    PROVE  TInv' /\ RunInv(r)' /\ Others(r)
<1>1. PICK p \in prepared[r] :
        \/ UNCHANGED <<emails, deliveries>>
        \/ /\ emails' = emails \cup {p.msg}
           /\ \E result \in Result : Deliver(r, p.msg, result.op)
  BY DEF ReconcileFails
<1>2. p.msg \in InWave(r)
  BY DEF InWave, Prepared_
<1>3. \A result \in Result : result.op \in Outcome
  BY DEF Result, Outcome
<1>4. \/ UNCHANGED <<emails, deliveries>>
      \/ \E m \in InWave(r), outcome \in Outcome :
           emails' = emails \cup {m} /\ Deliver(r, m, outcome)
  BY <1>1, <1>2, <1>3
<1>5. Raise(r) /\ UNCHANGED <<request, rows, counters>>
  BY DEF ReconcileFails
<1> QED
  BY <1>2, <1>4, <1>5, RaiseInv

LEMMA FinishRunInv ==
    ASSUME IInv, NEW r \in Run, FinishRun(r)
    PROVE  TInv' /\ RunInv(r)' /\ Others(r)
<1> DEFINE row == [status |-> IF failed[r] THEN "failed" ELSE "completed",
                   counts |-> counters[r]]
<1>1. /\ phase[r] = "working" /\ Active(r) = {} /\ InWave(r) = {} /\ prepared[r] = {}
      /\ rows' = [rows EXCEPT ![r] = row] /\ phase' = [phase EXCEPT ![r] = "done"]
      /\ UNCHANGED <<request, emails, deliveries, queue, wave, reading, prepared, counters, failed>>
  BY DEF FinishRun, WaveDone, Active, InWave, Reading, Prepared_, work
<1>2. TInv /\ TypeOK /\ RunInv(r)
  BY DEF IInv, TInv
<1>3. row \in Row
  BY <1>2 DEF Row, TypeOK
<1>4. rows'[r] = row /\ phase'[r] = "done" /\ (row.status = "completed" => ~failed[r])
      /\ row.counts = counters[r]
  BY <1>1, <1>2 DEF TypeOK
<1> HIDE DEF row
<1>5. TInv'
  BY <1>1, <1>2, <1>3 DEF TInv, TypeOK
<1>6. Others(r)
  BY <1>1, <1>2, SameDeliveries DEF Others, Same, TypeOK
<1>7. InWave(r)' = InWave(r) /\ Active(r)' = Active(r) /\ Reading(r)' = Reading(r)
      /\ Prepared_(r)' = Prepared_(r)
  BY <1>1 DEF InWave, Active, Reading, Prepared_
<1>8. WorkInv(r)' /\ SettledInv(r)' /\ OrderInv(r)'
  BY <1>1, <1>2, <1>4, <1>7, SameDeliveries
     DEF RunInv, WorkInv, AtOnePlace, SettledInv, OrderInv
<1>9. CountsFit(r)' /\ RowInv(r)'
  BY <1>1, <1>2, <1>4, SameDeliveries DEF RunInv, CountsFit, Fits, RowInv
<1> QED
  BY <1>5, <1>6, <1>8, <1>9 DEF RunInv

-------------------------------------------------------------------------------
(* The invariant and the properties *)

LEMMA InitIInv == Init => IInv
<1> SUFFICES ASSUME Init PROVE IInv
  OBVIOUS
<1>1. /\ request \in [Run -> Request] /\ emails = {} /\ deliveries = {}
      /\ rows = [r \in Run |-> [status |-> "absent", counts |-> NoCounts]]
      /\ phase = [r \in Run |-> "start"]
      /\ queue = [r \in Run |-> {}] /\ wave = [r \in Run |-> {}]
      /\ reading = [r \in Run |-> None] /\ prepared = [r \in Run |-> {}]
      /\ counters = [r \in Run |-> NoCounts] /\ failed = [r \in Run |-> FALSE]
  BY DEF Init
<1>2. NoCounts \in Counters
  BY DEF NoCounts, Counters
<1>3. TInv
  <2>1. request \in [Run -> SUBSET Message]
    BY <1>1, RequestAssumption
  <2> QED
    BY <1>1, <1>2, <2>1, FS_EmptySet DEF TInv, TypeOK, Row
<1>4. ASSUME NEW r \in Run PROVE RunInv(r)
  <2>1. Active(r) = {} /\ InWave(r) = {} /\ prepared[r] = {}
    BY <1>1 DEF Active, InWave, Reading, Prepared_
  <2>2. \A m : ~DeliveredBy(r, m)
    BY <1>1 DEF DeliveredBy, DeliveriesOf
  <2>3. WorkInv(r)
    BY <1>1, <2>1 DEF WorkInv, AtOnePlace, InWave, Active
  <2>4. SettledInv(r) /\ OrderInv(r)
    BY <1>1, <2>1, <2>2 DEF SettledInv, OrderInv
  <2>5. ASSUME NEW outcomes PROVE DeliveredAs(r, outcomes) = 0
    <3>1. {d \in DeliveriesOf(r) : d.outcome \in outcomes} = {}
      BY <1>1 DEF DeliveriesOf
    <3> QED
      BY <3>1, FS_EmptySet DEF DeliveredAs
  <2>6. CountsFit(r)
    BY <1>1, <2>5 DEF CountsFit, Fits, NoCounts
  <2>7. RowInv(r)
    BY <1>1 DEF RowInv
  <2> QED
    BY <2>3, <2>4, <2>6, <2>7 DEF RunInv
<1> QED
  BY <1>3, <1>4 DEF IInv

LEMMA NextIInv == IInv /\ [Next]_vars => IInv'
<1> SUFFICES ASSUME IInv, [Next]_vars PROVE IInv'
  OBVIOUS
<1>1. ASSUME NEW r \in Run, Step(r) \/ Escape(r) PROVE IInv'
  <2>1. TInv' /\ RunInv(r)' /\ Others(r)
    BY <1>1, StartRunInv, TakeWaveInv, InspectInv, ReadPriorInv, ReconcileInv,
       ReconcileFailsInv, FinishRunInv, EscapeInv DEF Step
  <2>2. ASSUME NEW s \in Run PROVE RunInv(s)'
    <3>1. CASE s = r
      BY <2>1, <3>1
    <3>2. CASE s # r
      BY <2>1, <3>2, SameRun DEF IInv, Others
    <3> QED
      BY <3>1, <3>2
  <2> QED
    BY <2>1, <2>2 DEF IInv
<1>2. ASSUME UNCHANGED vars PROVE IInv'
  <2>1. TInv'
    BY <1>2 DEF vars, work, IInv, TInv, TypeOK
  <2>2. ASSUME NEW s \in Run PROVE RunInv(s)'
    <3>1. Same(s)
      BY <1>2 DEF vars, work, Same, DeliveriesOf
    <3> QED
      BY <3>1, SameRun DEF IInv
  <2> QED
    BY <2>1, <2>2 DEF IInv
<1> QED
  BY <1>1, <1>2 DEF Next

LEMMA AlwaysIInv == Spec => []IInv
<1> QED
  BY InitIInv, NextIInv, PTL DEF Spec

\* A row that says completed stands for a request of which no e-mail was dropped,
\* whatever other runs do at the same time (ingest, finish_run).
THEOREM Completed == Spec => []CompletedMeansDecided
<1>1. ASSUME IInv PROVE CompletedMeansDecided
  <2> SUFFICES ASSUME NEW r \in Run, rows[r].status = "completed", NEW m \in request[r]
               PROVE  Settled(r, m)
    BY DEF CompletedMeansDecided, Settled
  <2>1. phase[r] = "done" /\ ~failed[r] /\ RunInv(r)
    BY <1>1 DEF IInv, RunInv, RowInv
  <2>2. Active(r) = {}
    BY <2>1 DEF RunInv, WorkInv
  <2> QED
    BY <2>1, <2>2 DEF RunInv, SettledInv
<1> QED
  BY <1>1, AlwaysIInv, PTL

\* The counters of a finished run agree with the deliveries that it recorded, but
\* for one commit whose acknowledgement was lost.
THEOREM CountsAgree == Spec => []CountersAddUp
<1>1. ASSUME IInv PROVE CountersAddUp
  <2> SUFFICES ASSUME NEW r \in Run, rows[r].status \in {"completed", "failed"}
               PROVE  LET c == rows[r].counts
                          missed == DeliveredAs(r, Outcome) - c.processed
                      IN /\ missed \in {0, 1}
                         /\ rows[r].status = "completed" => missed = 0
                         /\ missed = 0 =>
                              /\ c.unchanged = DeliveredAs(r, {"unchanged"})
                              /\ c.skipped = DeliveredAs(r, {"skip"})
                              /\ c.created + c.updated = DeliveredAs(r, {"create", "update"})
    BY DEF CountersAddUp
  <2>1. /\ rows[r].counts = counters[r] /\ CountsFit(r)
        /\ rows[r].status = "completed" => ~failed[r]
    BY <1>1 DEF IInv, RunInv, RowInv
  <2>2. counters[r].processed \in Nat /\ DeliveredAs(r, Outcome) \in Nat
    BY <1>1, DeliveredAsNat DEF IInv, TInv, TypeOK, Counters
  <2>3. CASE Fits(counters[r], r)
    BY <2>1, <2>2, <2>3 DEF Fits
  <2>4. CASE failed[r] /\ counters[r].processed + 1 = DeliveredAs(r, Outcome)
    BY <2>1, <2>2, <2>4
  <2> QED
    BY <2>1, <2>3, <2>4 DEF CountsFit
<1> QED
  BY <1>1, AlwaysIInv, PTL

\* The thread of a reply is read when all that its request has before it is stored,
\* whatever the size of a wave (take_wave, get_thread).
THEOREM RepliesWait == Spec => []RepliesSeePredecessors
<1>1. ASSUME IInv PROVE RepliesSeePredecessors
  BY <1>1 DEF IInv, RunInv, OrderInv, RepliesSeePredecessors, Before, OfThread
<1> QED
  BY <1>1, AlwaysIInv, PTL

\* What a run has delivered of a thread is a beginning of it, wherever it fails.
THEOREM InOrder == Spec => []DeliveredInOrder
<1>1. ASSUME IInv PROVE DeliveredInOrder
  BY <1>1 DEF IInv, RunInv, OrderInv, DeliveredInOrder, Before
<1> QED
  BY <1>1, AlwaysIInv, PTL

===============================================================================
