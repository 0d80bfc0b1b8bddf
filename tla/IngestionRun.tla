----------------------------- MODULE IngestionRun -----------------------------
(***************************************************************************)
(* The loop of IngestionService.ingest: a request's e-mails are taken in   *)
(* waves of at most BatchSize, one e-mail of a thread in each; a wave is   *)
(* inspected, extracted and then reconciled, e-mail by e-mail; the run's   *)
(* row in app_private.ingest_runs says what became of it.                  *)
(*                                                                         *)
(* Reconciler models what reconcile does.  Here it is one step, with the   *)
(* outcomes that it may have.  record_delivery only adds a row of its own  *)
(* run, and stored e-mails stay stored, so it belongs to the step of the   *)
(* inspection that calls for it.                                           *)
(*                                                                         *)
(* An operator whose comment begins with "Fault:" is no part of the model. *)
(* It is a faulty version of an operator after it, which shows that a      *)
(* property would notice the fault.                                        *)
(***************************************************************************)
EXTENDS Integers, FiniteSets

CONSTANTS
    Run,        \* POST /ingest requests
    Email,
    Thread,     \* numbered in the order of their ids
    Message,    \* the e-mails that requests may carry
    Request,    \* the bodies that POST /ingest may have
    BatchSize,  \* settings.gemini_batch_size
    None

ASSUME ThreadAssumption == Thread \subseteq Nat
ASSUME MessageAssumption ==
    Message \subseteq [email : Email, thread : Thread, index : Nat] /\ IsFiniteSet(Message)
ASSUME BatchAssumption == BatchSize \in Nat \ {0}
ASSUME NoneAssumption == None \notin Message

VARIABLES
    request,     \* what each request carries
    emails,      \* app_private.emails
    deliveries,  \* app_private.ingest_deliveries
    rows,        \* app_private.ingest_runs
    phase,       \* where each run is
    queue,       \* e-mails not yet in a wave
    wave,        \* e-mails of the wave still to be inspected
    reading,     \* the e-mail whose thread is to be read
    prepared,    \* e-mails of the wave to be reconciled, with what was stored
                 \* of their thread when it was read
    counters,
    failed       \* an error was recorded

work == <<queue, wave, reading, prepared>>
vars == <<request, emails, deliveries, rows, phase, work, counters, failed>>

-------------------------------------------------------------------------------
Counters == [processed : Nat, created : Nat, updated : Nat, skipped : Nat, unchanged : Nat]
Row == [status : {"absent", "processing", "completed", "failed"}, counts : Counters]
Outcome == {"create", "update", "skip", "noop", "unchanged"}
Delivery == [run : Run, email : Email, outcome : Outcome]
Prepared == [msg : Message, stored : SUBSET Message]

NoCounts == [processed |-> 0, created |-> 0, updated |-> 0, skipped |-> 0, unchanged |-> 0]

SameKey(m, n) == m.email = n.email \/ (m.thread = n.thread /\ m.index = n.index)

\* inspect_email.
Stored(m) == m \in emails
Conflicts(m) == ~Stored(m) /\ \E n \in emails : SameKey(m, n)

\* IngestRequest.unique_keys.
ValidRequest(R) == R # {} /\ \A m, n \in R : m # n => ~SameKey(m, n)

ASSUME RequestAssumption ==
    Request \subseteq SUBSET Message /\ \A R \in Request : ValidRequest(R)

OfThread(S, th) == {m \in S : m.thread = th}
ThreadsOf(S) == {m.thread : m \in S}

\* The head of a thread's queue.
Head(S) == CHOOSE m \in S : \A n \in S : m.index <= n.index

\* The first BatchSize of the threads with e-mails left.
WaveThreads(S) ==
    {th \in ThreadsOf(S) : Cardinality({u \in ThreadsOf(S) : u < th}) < BatchSize}

\* Fault: a wave takes all that its threads have.
WaveOfWholeThreads(S) == {m \in S : m.thread \in WaveThreads(S)}

\* At most one e-mail of each.
Wave(S) == {Head(OfThread(S, th)) : th \in WaveThreads(S)}

\* Waves are worked through in the order of the threads.
IsFirst(m, S) == m \in S /\ \A n \in S : m.thread <= n.thread

Init ==
    /\ request \in [Run -> Request]
    /\ emails = {} /\ deliveries = {}
    /\ rows = [r \in Run |-> [status |-> "absent", counts |-> NoCounts]]
    /\ phase = [r \in Run |-> "start"]
    /\ queue = [r \in Run |-> {}]
    /\ wave = [r \in Run |-> {}]
    /\ reading = [r \in Run |-> None]
    /\ prepared = [r \in Run |-> {}]
    /\ counters = [r \in Run |-> NoCounts]
    /\ failed = [r \in Run |-> FALSE]

\* start_run; the e-mails are grouped by thread.
StartRun(r) ==
    /\ phase[r] = "start"
    /\ phase' = [phase EXCEPT ![r] = "working"]
    /\ rows' = [rows EXCEPT ![r].status = "processing"]
    /\ queue' = [queue EXCEPT ![r] = request[r]]
    /\ UNCHANGED <<request, emails, deliveries, wave, reading, prepared, counters, failed>>

\* The wave of run r is done with.
WaveDone(r) ==
    phase[r] = "working" /\ wave[r] = {} /\ reading[r] = None /\ prepared[r] = {}

\* Fault: what does not fit into the first wave is forgotten.
TakeWaveOnce(r) ==
    /\ WaveDone(r)
    /\ queue[r] # {}
    /\ wave' = [wave EXCEPT ![r] = Wave(queue[r])]
    /\ queue' = [queue EXCEPT ![r] = {}]
    /\ UNCHANGED <<request, emails, deliveries, rows, phase, reading, prepared, counters, failed>>

\* The next wave leaves the queues.
TakeWave(r) ==
    /\ WaveDone(r)
    /\ queue[r] # {}
    /\ wave' = [wave EXCEPT ![r] = Wave(queue[r])]
    /\ queue' = [queue EXCEPT ![r] = @ \ Wave(queue[r])]
    /\ UNCHANGED <<request, emails, deliveries, rows, phase, reading, prepared, counters, failed>>

\* What is left of the request is abandoned.
DropWork(r) ==
    /\ queue' = [queue EXCEPT ![r] = {}]
    /\ wave' = [wave EXCEPT ![r] = {}]
    /\ reading' = [reading EXCEPT ![r] = None]
    /\ prepared' = [prepared EXCEPT ![r] = {}]

\* Fault: the error is recorded and the loop goes on.
RaiseAndContinue(r) ==
    /\ failed' = [failed EXCEPT ![r] = TRUE]
    /\ wave' = [wave EXCEPT ![r] = {}]
    /\ prepared' = [prepared EXCEPT ![r] = {}]
    /\ UNCHANGED <<phase, queue, reading>>

\* Fault: the error is raised and the row is not finished.
RaiseWithoutFinish(r) ==
    /\ failed' = [failed EXCEPT ![r] = TRUE]
    /\ phase' = [phase EXCEPT ![r] = "done"]
    /\ DropWork(r)

\* _handle_error, and the handler of other exceptions.
Raise(r) ==
    /\ failed' = [failed EXCEPT ![r] = TRUE]
    /\ DropWork(r)
    /\ UNCHANGED phase

\* A delivery of run r, unless it has one of this e-mail (ON CONFLICT DO NOTHING).
Deliver(r, m, outcome) ==
    deliveries' = IF \E d \in deliveries : d.run = r /\ d.email = m.email THEN deliveries
                  ELSE deliveries \cup {[run |-> r, email |-> m.email, outcome |-> outcome]}

\* Fault: an unchanged e-mail is not counted as processed.
CountWithoutReplays(r, kinds) ==
    counters' = [counters EXCEPT ![r] =
        [k \in DOMAIN @ |-> IF k \in kinds \/ (k = "processed" /\ "unchanged" \notin kinds)
                            THEN @[k] + 1 ELSE @[k]]]

\* One more processed, and one more of each counter in kinds.
Count(r, kinds) ==
    counters' = [counters EXCEPT ![r] =
        [k \in DOMAIN @ |-> IF k \in kinds \cup {"processed"} THEN @[k] + 1 ELSE @[k]]]

\* inspect_email on the next e-mail of the wave.
Inspect(r) ==
    /\ phase[r] = "working" /\ reading[r] = None
    /\ \E m \in wave[r] :
        /\ IsFirst(m, wave[r])
        /\ \/ /\ Conflicts(m)
              /\ Raise(r)
              /\ UNCHANGED <<deliveries, counters>>
           \/ /\ Stored(m)
              /\ Deliver(r, m, "unchanged")
              /\ Count(r, {"unchanged"})
              /\ wave' = [wave EXCEPT ![r] = @ \ {m}]
              /\ UNCHANGED <<phase, queue, reading, prepared, failed>>
           \/ /\ ~Stored(m) /\ ~Conflicts(m)
              /\ wave' = [wave EXCEPT ![r] = @ \ {m}]
              /\ reading' = [reading EXCEPT ![r] = m]
              /\ UNCHANGED <<phase, deliveries, counters, queue, prepared, failed>>
    /\ UNCHANGED <<request, emails, rows>>

\* get_thread, outside any lock.
ReadPrior(r) ==
    LET m == reading[r] IN
    /\ m # None
    /\ prepared' = [prepared EXCEPT ![r] =
                      @ \cup {[msg |-> m, stored |-> OfThread(emails, m.thread)]}]
    /\ reading' = [reading EXCEPT ![r] = None]
    /\ UNCHANGED <<request, emails, deliveries, rows, phase, queue, wave, counters, failed>>

\* What reconcile returns, and the operations it may leave in the decision: a
\* create keeps the operation that routing chose from an older snapshot.
Result == {[kind |-> {"created"}, op |-> "create"], [kind |-> {"created"}, op |-> "update"],
           [kind |-> {"updated"}, op |-> "update"], [kind |-> {"skipped"}, op |-> "skip"],
           [kind |-> {}, op |-> "noop"]}

\* When the whole wave is inspected and extracted, p is the next to reconcile.
IsNextToReconcile(r, p) ==
    /\ wave[r] = {} /\ reading[r] = None
    /\ IsFirst(p.msg, {q.msg : q \in prepared[r]})

Reconcile(r) ==
    /\ \E p \in prepared[r] :
        /\ IsNextToReconcile(r, p)
        /\ \/ /\ Stored(p.msg)
              /\ Deliver(r, p.msg, "unchanged")
              /\ Count(r, {"unchanged"})
              /\ UNCHANGED emails
           \/ /\ ~Stored(p.msg) /\ ~Conflicts(p.msg)
              /\ emails' = emails \cup {p.msg}
              /\ \E result \in Result : Deliver(r, p.msg, result.op) /\ Count(r, result.kind)
        /\ prepared' = [prepared EXCEPT ![r] = @ \ {p}]
    /\ UNCHANGED <<request, rows, phase, queue, wave, reading, failed>>

\* reconcile raises: a conflict, a refusal, an error of the database.  When only
\* the acknowledgement of its commit is lost, the outcome is stored.
ReconcileFails(r) ==
    /\ \E p \in prepared[r] :
        /\ IsNextToReconcile(r, p)
        /\ \/ UNCHANGED <<emails, deliveries>>
           \/ /\ ~Stored(p.msg) /\ ~Conflicts(p.msg)
              /\ emails' = emails \cup {p.msg}
              /\ \E result \in Result : Deliver(r, p.msg, result.op)
    /\ Raise(r)
    /\ UNCHANGED <<request, rows, counters>>

\* Fault: a status that the table's CHECK does not know.
FinishRunWithError(r) ==
    /\ WaveDone(r) /\ queue[r] = {}
    /\ rows' = [rows EXCEPT ![r] = [status |-> IF failed[r] THEN "error" ELSE "completed",
                                    counts |-> counters[r]]]
    /\ phase' = [phase EXCEPT ![r] = "done"]
    /\ UNCHANGED <<request, emails, deliveries, work, counters, failed>>

\* finish_run, after the last wave or after an error, and the response.
FinishRun(r) ==
    /\ WaveDone(r) /\ queue[r] = {}
    /\ rows' = [rows EXCEPT ![r] = [status |-> IF failed[r] THEN "failed" ELSE "completed",
                                    counts |-> counters[r]]]
    /\ phase' = [phase EXCEPT ![r] = "done"]
    /\ UNCHANGED <<request, emails, deliveries, work, counters, failed>>

\* The process dies, or an exception that nothing handles (from the inspection,
\* the extraction or finish_run) ends the request: the row stays as it is.
Escape(r) ==
    /\ phase[r] = "working"
    /\ phase' = [phase EXCEPT ![r] = "lost"]
    /\ DropWork(r)
    /\ UNCHANGED <<request, emails, deliveries, rows, counters, failed>>

Step(r) ==
    \/ StartRun(r) \/ TakeWave(r) \/ Inspect(r) \/ ReadPrior(r)
    \/ Reconcile(r) \/ ReconcileFails(r) \/ FinishRun(r)

Ended == \A r \in Run : phase[r] \in {"done", "lost"}

Next ==
    \/ \E r \in Run : Step(r) \/ Escape(r)
    \/ Ended /\ UNCHANGED vars

Spec == Init /\ [][Next]_vars

\* The server's threads run.
FairSpec == Spec /\ \A r \in Run : WF_vars(Step(r))

-------------------------------------------------------------------------------
(* Properties *)

\* The types of the tables and of what each run carries.
TypeOK ==
    /\ request \in [Run -> SUBSET Message]
    /\ emails \subseteq Message
    /\ deliveries \subseteq Delivery
    /\ rows \in [Run -> Row]
    /\ phase \in [Run -> {"start", "working", "done", "lost"}]
    /\ queue \in [Run -> SUBSET Message]
    /\ wave \in [Run -> SUBSET Message]
    /\ reading \in [Run -> Message \cup {None}]
    /\ prepared \in [Run -> SUBSET Prepared]
    /\ counters \in [Run -> Counters]
    /\ failed \in [Run -> BOOLEAN]

DeliveriesOf(r) == {d \in deliveries : d.run = r}
DeliveredAs(r, outcomes) == Cardinality({d \in DeliveriesOf(r) : d.outcome \in outcomes})
DeliveredBy(r, m) == \E d \in DeliveriesOf(r) : d.email = m.email

\* A run that says completed has dropped nothing: every e-mail of its request is
\* stored and delivered by it (DECISIONS.md 4: no silent drop of an e-mail).
CompletedMeansDecided ==
    \A r \in Run : rows[r].status = "completed" =>
        \A m \in request[r] : Stored(m) /\ DeliveredBy(r, m)

\* The counters of a finished run agree with its deliveries, which it does not
\* read: all of them when it completed; when it failed, all but the one of a
\* commit that was not acknowledged.
CountersAddUp ==
    \A r \in Run : rows[r].status \in {"completed", "failed"} =>
        LET c == rows[r].counts
            missed == DeliveredAs(r, Outcome) - c.processed
        IN /\ missed \in {0, 1}
           /\ rows[r].status = "completed" => missed = 0
           /\ missed = 0 =>
                /\ c.unchanged = DeliveredAs(r, {"unchanged"})
                /\ c.skipped = DeliveredAs(r, {"skip"})
                /\ c.created + c.updated = DeliveredAs(r, {"create", "update"})

\* "replies never overtake predecessors" (ingest): when the thread of a reply is
\* read for routing, all that the request has before it in that thread is stored.
RepliesSeePredecessors ==
    \A r \in Run : \A p \in prepared[r] :
        \A m \in OfThread(request[r], p.msg.thread) :
            m.index < p.msg.index => m \in p.stored

\* Whatever fails, and whichever thread fails first, what a run has delivered of a
\* thread is a beginning of what the request has of it.
DeliveredInOrder ==
    \A r \in Run : \A m, n \in request[r] :
        m.thread = n.thread /\ m.index < n.index /\ DeliveredBy(r, n) => DeliveredBy(r, m)

\* A run does not stay "processing" unless its process or request is lost.
RunSettles ==
    \A r \in Run : rows[r].status = "processing" ~>
        rows[r].status \in {"completed", "failed"} \/ phase[r] = "lost"
===============================================================================
