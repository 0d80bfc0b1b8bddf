------------------------------ MODULE Reconciler ------------------------------
(***************************************************************************)
(* Concurrent ingestion of e-mails into one task per thread, over the      *)
(* PostgreSQL store, together with the public Task API that writes the     *)
(* same tables.                                                            *)
(*                                                                         *)
(* A Worker is one POST /ingest request: a run.  It takes its messages one *)
(* at a time, in thread order, through the pre-check, the read of the      *)
(* thread's snapshot, the model call, and Reconciler.reconcile.  A Deleter *)
(* is a thread of the server that executes DELETE /tasks/{id}.             *)
(*                                                                         *)
(* The database is read committed.  What a transaction wrote is seen by    *)
(* others when it commits, so a reconcile buffers its writes in staged[w]  *)
(* and SaveOutcome applies all of them.  Row locks are not variables: the  *)
(* rows that a transaction holds follow from where its owner is            *)
(* (HoldsThread, RowLocked).                                               *)
(*                                                                         *)
(* A row of app_private.threads that is absent and the row that            *)
(* thread_lock inserts (index -1, nothing mapped) read the same everywhere *)
(* in reconcile, so every thread has a row here from the start.            *)
(*                                                                         *)
(* An operator whose comment begins with "Fault:" is no part of the model. *)
(* It is a faulty version of the operator after it, which shows that a     *)
(* property would notice the fault.                                        *)
(***************************************************************************)
EXTENDS Integers, FiniteSets

CONSTANTS
    Worker,      \* ingest requests in flight or to come
    Deleter,     \* server threads that execute DELETE /tasks/{id}
    Email, Thread,
    Message,     \* the e-mails that requests may carry
    IngestTask,  \* the ids create_task draws for ingestion (uuid4)
    ApiTask,     \* the ids create_task draws for POST /tasks
    Field,       \* the material fields of a task
    Value,       \* the values that they may take
    Default,     \* what routing gives a first message without evidence
    None

Task == IngestTask \cup ApiTask

\* The material fields of a task, and the material evidence of a message: values
\* for some of them.
Content == [Field -> Value]
Evidence == UNION {[S -> Value] : S \in SUBSET Field}

(***************************************************************************)
(* The content hash covers the whole e-mail, so two messages are equal     *)
(* exactly when their hashes are.  An edited resend is another Message     *)
(* with the same email.                                                    *)
(***************************************************************************)
ASSUME MessageAssumption ==
    Message \subseteq [email : Email, thread : Thread, index : Nat]

ASSUME NoneAssumption ==
    /\ None \notin Task
    /\ None \notin Content
    /\ None \notin [task : Task, content : Content]
    /\ None \notin [thread : Thread, content : Content]
    /\ None \notin Message

ASSUME IdAssumption == IngestTask \cap ApiTask = {}
ASSUME DefaultAssumption == Default \in Content
ASSUME FiniteAssumption == IsFiniteSet(Message)

VARIABLES
    emails,      \* app_private.emails: the messages stored
    decisions,   \* app_private.decisions
    deliveries,  \* app_private.ingest_deliveries
    events,      \* app_private.task_events
    threads,     \* app_private.threads
    tasks,       \* app_private.tasks: the row of each id, None when absent
    drawn,       \* task ids used so far
    pending,     \* messages of each run still to be taken
    pc,          \* where each run is
    msg,         \* the message a run is processing
    plan,        \* the RoutingDecision of that message
    staged,      \* what its transaction will write
    deleting     \* the task whose row a Deleter has deleted but not committed

rows == <<emails, decisions, deliveries, events, threads, tasks, drawn>>
locals == <<pending, pc, msg, plan, staged>>
vars == <<rows, locals, deleting>>

-------------------------------------------------------------------------------
(* Rows and records *)

Snapshot == [task : Task, content : Content]
TaskRow == [thread : Thread, content : Content]
ThreadRow == [task : Task \cup {None}, snapshot : Snapshot \cup {None},
              last : Nat \cup {-1}, count : Nat, updates : Nat]
Operation == {"create", "update", "noop", "skip"}
Decision == [msg : Message, op : Operation, task : Task \cup {None}, run : Worker]
Delivery == [run : Worker, email : Email, outcome : Operation \cup {"unchanged"}]
Event == [msg : Message, kind : {"create", "update", "noop"}, task : Task \cup {None}]
Plan == [op : Operation, evidence : Evidence, want : Content]
Stage == [kind : Operation, task : Task \cup {None}, content : Content \cup {None}]

EmptyThread == [task |-> None, snapshot |-> None, last |-> -1, count |-> 0, updates |-> 0]
NoEvidence == [f \in {} |-> None]
NoPlan == [op |-> "skip", evidence |-> NoEvidence, want |-> Default]
NoStage == [kind |-> "skip", task |-> None, content |-> None]

InTransaction == {"locked", "patch", "save"}

-------------------------------------------------------------------------------
(* The store's queries and locks *)

\* w holds the row lock that thread_lock takes with SELECT ... FOR UPDATE.
HoldsThread(w, th) == pc[w] \in InTransaction /\ msg[w].thread = th

\* Some open transaction has written the row of task x.
RowLocked(x) ==
    \/ \E w \in Worker : pc[w] = "save" /\ staged[w].kind = "update" /\ staged[w].task = x
    \/ \E d \in Deleter : deleting[d] = x

Live(x) == x \in Task /\ tasks[x] # None

\* Fault: the query forgets its WHERE thread_id.
ListedOfAnyThread(th) == {x \in Task : Live(x)}

\* list_tasks(thread).
Listed(th) == {x \in Task : Live(x) /\ tasks[x].thread = th}

SameKey(m, n) == m.email = n.email \/ (m.thread = n.thread /\ m.index = n.index)

\* inspect_email: "unchanged", a 409, or "new".
Stored(m) == m \in emails
Conflicts(m) == ~Stored(m) /\ \E n \in emails : SameKey(m, n)

\* Fault: no UNIQUE constraint on email_id.
ClashInThreadOnly(m) == \E n \in emails : m.thread = n.thread /\ m.index = n.index

\* The UNIQUE constraints of app_private.emails.
UniqueClash(m) == \E n \in emails : SameKey(m, n)

\* A request never carries two messages with the same key (IngestRequest).
ValidRequest(R) == \A m, n \in R : m # n => ~SameKey(m, n)

\* A run takes the messages of a thread by message_index.
NextInThread(R, m) == m \in R /\ \A n \in R : n.thread = m.thread => m.index <= n.index

\* route_email, given the snapshot read before the model call.
PlannedOp(prior, act) ==
    CASE act = "skip" -> "skip"
      [] act = "quiet" -> IF prior = None THEN "skip" ELSE "noop"
      [] act = "work" -> IF prior = None THEN "create" ELSE "update"

\* What the evidence says, and base for the fields that it does not speak of.
Merged(evidence, base) ==
    [f \in Field |-> IF f \in DOMAIN evidence THEN evidence[f] ELSE base[f]]

\* Fault: no default for a first message without evidence.
PlannedContentWithoutDefault(prior, evidence) ==
    IF prior = None THEN evidence ELSE Merged(evidence, prior.content)

PlannedContent(prior, evidence) ==
    Merged(evidence, IF prior = None THEN Default ELSE prior.content)

\* The row after an UPDATE of the fields that differed from the row read.
Patched(read, want, row) ==
    [f \in Field |-> IF read[f] # want[f] THEN want[f] ELSE row[f]]

-------------------------------------------------------------------------------
Init ==
    /\ emails = {} /\ decisions = {} /\ deliveries = {} /\ events = {}
    /\ threads = [th \in Thread |-> EmptyThread]
    /\ tasks = [x \in Task |-> None]
    /\ drawn = {}
    /\ pending \in [Worker -> {R \in SUBSET Message : R # {} /\ ValidRequest(R)}]
    /\ pc = [w \in Worker |-> "idle"]
    /\ msg = [w \in Worker |-> None]
    /\ plan = [w \in Worker |-> NoPlan]
    /\ staged = [w \in Worker |-> NoStage]
    /\ deleting = [d \in Deleter |-> None]

\* The run ends in error and the messages it has not taken are abandoned.
Abandon(w) ==
    /\ pc' = [pc EXCEPT ![w] = "failed"]
    /\ pending' = [pending EXCEPT ![w] = {}]
    /\ msg' = [msg EXCEPT ![w] = None]
    /\ plan' = [plan EXCEPT ![w] = NoPlan]
    /\ staged' = [staged EXCEPT ![w] = NoStage]

\* An AppError, or any other exception: the transaction rolls back.
Fail(w) == Abandon(w) /\ UNCHANGED rows

Goto(w, label) == pc' = [pc EXCEPT ![w] = label]

\* Fault: the loop does not consume the message.
AdvanceKeepingMessage(w) ==
    /\ UNCHANGED <<pending, plan>>
    /\ Goto(w, "idle")
    /\ msg' = [msg EXCEPT ![w] = None]
    /\ staged' = [staged EXCEPT ![w] = NoStage]

\* The current message is done with; the run ends after its last one.
Advance(w) ==
    /\ pending' = [pending EXCEPT ![w] = @ \ {msg[w]}]
    /\ Goto(w, IF pending[w] = {msg[w]} THEN "done" ELSE "idle")
    /\ msg' = [msg EXCEPT ![w] = None]
    /\ plan' = [plan EXCEPT ![w] = NoPlan]
    /\ staged' = [staged EXCEPT ![w] = NoStage]

-------------------------------------------------------------------------------
(* IngestionService.ingest, one message *)

\* Take the next message; inspect_email outside any lock.
Inspect(w) ==
    /\ pc[w] = "idle"
    /\ \E m \in pending[w] :
        /\ NextInThread(pending[w], m)
        /\ \/ /\ Conflicts(m)
              /\ Fail(w)
           \/ /\ ~Conflicts(m)
              /\ msg' = [msg EXCEPT ![w] = m]
              /\ Goto(w, IF Stored(m) THEN "replay" ELSE "prior")
              /\ UNCHANGED <<rows, pending, plan, staged>>
    /\ UNCHANGED deleting

\* INSERT INTO ingest_deliveries ... ON CONFLICT (run, email) DO NOTHING.
Delivered(w, outcome) ==
    IF \E r \in deliveries : r.run = w /\ r.email = msg[w].email
    THEN deliveries
    ELSE deliveries \cup {[run |-> w, email |-> msg[w].email, outcome |-> outcome]}

\* Fault: a replay is recorded with the operation that routing chose.
RecordReplayAsPlanned(w) ==
    /\ pc[w] = "replay"
    /\ deliveries' = Delivered(w, plan[w].op)
    /\ Advance(w)
    /\ UNCHANGED <<emails, decisions, events, threads, tasks, drawn, deleting>>

\* record_delivery(run, message, "unchanged").
RecordReplay(w) ==
    /\ pc[w] = "replay"
    /\ deliveries' = Delivered(w, "unchanged")
    /\ Advance(w)
    /\ UNCHANGED <<emails, decisions, events, threads, tasks, drawn, deleting>>

\* get_thread outside the lock, then the model call and route_email: what the
\* model makes of the message is any verdict.
ReadPriorAndRoute(w) ==
    /\ pc[w] = "prior"
    /\ LET prior == threads[msg[w].thread].snapshot IN
       \E act \in {"skip", "quiet", "work"}, evidence \in Evidence :
         /\ act # "work" => evidence = NoEvidence
         /\ plan' = [plan EXCEPT ![w] = [op |-> PlannedOp(prior, act), evidence |-> evidence,
                                         want |-> PlannedContent(prior, evidence)]]
    /\ Goto(w, "lock")
    /\ UNCHANGED <<rows, pending, msg, staged, deleting>>

\* thread_lock: wait for the thread row.
LockThread(w) ==
    /\ pc[w] = "lock"
    /\ \A v \in Worker : ~HoldsThread(v, msg[w].thread)
    /\ Goto(w, "locked")
    /\ UNCHANGED <<rows, pending, msg, plan, staged, deleting>>

StageFor(w, label, kind, x, content) ==
    /\ staged' = [staged EXCEPT ![w] = [kind |-> kind, task |-> x, content |-> content]]
    /\ Goto(w, label)
    /\ UNCHANGED <<rows, pending, msg, plan>>

\* Fault: the early return leaves the transaction open.
FoundUnchangedInOpenTransaction(w) ==
    /\ pc[w] = "locked"
    /\ Stored(msg[w])
    /\ UNCHANGED vars

\* Another request stored the message after the pre-check: commit nothing.
FoundUnchanged(w) ==
    /\ pc[w] = "locked"
    /\ Stored(msg[w])
    /\ Goto(w, "replay")
    /\ UNCHANGED <<rows, pending, msg, plan, staged, deleting>>

FoundConflict(w) ==
    /\ pc[w] = "locked"
    /\ Conflicts(msg[w])
    /\ Fail(w)
    /\ UNCHANGED deleting

\* Fault: the message is not inspected again under the lock.
IsNewAtPreCheck(w) == pc[w] = "locked"

\* The inspection under the lock finds it new.
IsNew(w) == pc[w] = "locked" /\ ~Stored(msg[w]) /\ ~Conflicts(msg[w])

\* SKIP and NOOP write the snapshot that the thread already has.
KeepTask(w) ==
    /\ IsNew(w)
    /\ plan[w].op \in {"skip", "noop"}
    /\ LET snapshot == threads[msg[w].thread].snapshot IN
         IF snapshot = None THEN StageFor(w, "save", plan[w].op, None, None)
         ELSE StageFor(w, "save", plan[w].op, snapshot.task, snapshot.content)
    /\ UNCHANGED deleting

\* list_tasks(thread), else get_task of the mapped id.
Remote(th) ==
    IF Listed(th) # {} THEN CHOOSE x \in Listed(th) : TRUE ELSE threads[th].task

Actionable(w) == IsNew(w) /\ plan[w].op \in {"create", "update"}

\* The errors of reconcile, in the order the code tests for them.
RefusalOf(w) ==
    LET th == msg[w].thread IN
    CASE \E x, y \in Listed(th) : x # y -> "task_thread_conflict"
      [] Listed(th) = {} /\ threads[th].task # None /\ ~Live(threads[th].task)
           -> "mapped_task_missing"
      [] Remote(th) = None /\ msg[w].index > 0 /\ threads[th].last < 0 -> "orphan_reply"
      [] OTHER -> "none"

Refuse(w) ==
    /\ Actionable(w)
    /\ RefusalOf(w) # "none"
    /\ Fail(w)
    /\ UNCHANGED deleting

\* Fault: create because routing said so, whatever list_tasks found.
StageCreateAsPlanned(w) ==
    /\ Actionable(w)
    /\ RefusalOf(w) = "none"
    /\ plan[w].op = "create"
    /\ StageFor(w, "save", "create", None, plan[w].want)
    /\ UNCHANGED deleting

\* No task yet: create_task, whose row appears at commit.
StageCreate(w) ==
    /\ Actionable(w)
    /\ RefusalOf(w) = "none"
    /\ Remote(msg[w].thread) = None
    /\ StageFor(w, "save", "create", None, plan[w].want)
    /\ UNCHANGED deleting

\* A task exists: patch what differs from the row that list_tasks read, which
\* staged[w] holds until the UPDATE.  The description may differ though no
\* material field does; when nothing differs the outcome is a noop.
StagePatch(w) ==
    LET x == Remote(msg[w].thread) IN
    /\ Actionable(w)
    /\ RefusalOf(w) = "none"
    /\ x # None
    /\ \/ StageFor(w, "patch", "update", x, tasks[x].content)
       \/ /\ tasks[x].content = plan[w].want
          /\ StageFor(w, "save", "noop", x, plan[w].want)
    /\ UNCHANGED deleting

\* UPDATE app_private.tasks SET <the fields that differed> RETURNING *: wait for
\* the row; a deleted row is a 404.  Nobody else writes the row before the commit.
PatchTask(w) ==
    LET x == staged[w].task IN
    /\ pc[w] = "patch"
    /\ ~RowLocked(x)
    /\ \/ /\ Live(x)
          /\ staged' = [staged EXCEPT ![w].content =
                          Patched(@, plan[w].want, tasks[x].content)]
          /\ Goto(w, "save")
          /\ UNCHANGED <<rows, pending, msg, plan>>
       \/ /\ ~Live(x)
          /\ Fail(w)
    /\ UNCHANGED deleting

\* decision.operation when it is saved: reconcile sets it to NOOP or UPDATE,
\* and leaves what routing chose when it creates a task.
SavedOp(w) == IF staged[w].kind = "create" THEN plan[w].op ELSE staged[w].kind

\* Fault: the last index is that of the message, not the greatest.
SavedThreadLatestIndex(row, w, x) ==
    [task |-> IF x = None THEN row.task ELSE x,
     snapshot |-> IF x = None THEN row.snapshot
                  ELSE [task |-> x, content |-> staged[w].content],
     last |-> msg[w].index,
     count |-> row.count + 1,
     updates |-> row.updates
                   + IF SavedOp(w) = "update" /\ staged[w].kind # "skip" THEN 1 ELSE 0]

\* The upsert of app_private.threads.
SavedThread(row, w, x) ==
    [task |-> IF x = None THEN row.task ELSE x,
     snapshot |-> IF x = None THEN row.snapshot
                  ELSE [task |-> x, content |-> staged[w].content],
     last |-> IF row.last < msg[w].index THEN msg[w].index ELSE row.last,
     count |-> row.count + 1,
     updates |-> row.updates
                   + IF SavedOp(w) = "update" /\ staged[w].kind # "skip" THEN 1 ELSE 0]

\* Fault: the event takes the operation of the decision.
EventsAfterByOperation(w, x) ==
    IF staged[w].kind = "skip" THEN events
    ELSE events \cup {[msg |-> msg[w], kind |-> SavedOp(w), task |-> x]}

\* The event's kind is the reconciler's, not the operation of the decision.
EventsAfter(w, x) ==
    IF staged[w].kind = "skip" THEN events
    ELSE events \cup {[msg |-> msg[w], kind |-> staged[w].kind, task |-> x]}

TasksAfter(w, x) ==
    CASE staged[w].kind = "create" ->
            [tasks EXCEPT ![x] = [thread |-> msg[w].thread, content |-> staged[w].content]]
      [] staged[w].kind = "update" -> [tasks EXCEPT ![x].content = staged[w].content]
      [] OTHER -> tasks

\* The tables after save_outcome with task x as remote (None: no task).
Commit(w, x) ==
    /\ emails' = emails \cup {msg[w]}
    /\ decisions' = decisions \cup
         {[msg |-> msg[w], op |-> SavedOp(w), task |-> x, run |-> w]}
    /\ deliveries' = Delivered(w, SavedOp(w))
    /\ threads' = [threads EXCEPT ![msg[w].thread] = SavedThread(@, w, x)]
    /\ events' = EventsAfter(w, x)
    /\ tasks' = TasksAfter(w, x)
    /\ drawn' = IF staged[w].kind = "create" THEN drawn \cup {x} ELSE drawn

RemoteAtSave(w) ==
    IF staged[w].kind = "create" THEN IngestTask \ drawn ELSE {staged[w].task}

\* save_outcome and COMMIT.
SaveOutcome(w) ==
    /\ pc[w] = "save"
    /\ ~UniqueClash(msg[w])
    /\ \E x \in RemoteAtSave(w) : Commit(w, x)
    /\ Advance(w)
    /\ UNCHANGED deleting

\* The connection is lost after the server committed: the caller sees an error.
SaveUnacknowledged(w) ==
    /\ pc[w] = "save"
    /\ ~UniqueClash(msg[w])
    /\ \E x \in RemoteAtSave(w) : Commit(w, x)
    /\ Abandon(w)
    /\ UNCHANGED deleting

\* Another thread's transaction stored the same e-mail id meanwhile.
SaveClash(w) ==
    /\ pc[w] = "save"
    /\ UniqueClash(msg[w])
    /\ Fail(w)
    /\ UNCHANGED deleting

\* The process or its connection dies: PostgreSQL rolls the transaction back.
LoseConnection(w) ==
    /\ pc[w] \notin {"done", "failed"}
    /\ Fail(w)
    /\ UNCHANGED deleting

-------------------------------------------------------------------------------
(* The Task API *)

PostTask(th, c) ==
    /\ \E x \in ApiTask \ drawn :
        /\ tasks' = [tasks EXCEPT ![x] = [thread |-> th, content |-> c]]
        /\ drawn' = drawn \cup {x}
    /\ UNCHANGED <<emails, decisions, deliveries, events, threads, locals, deleting>>

\* The thread's snapshot is not touched.
PatchTaskDirectly(x, c) ==
    /\ Live(x)
    /\ ~RowLocked(x)
    /\ tasks[x].content # c
    /\ tasks' = [tasks EXCEPT ![x].content = c]
    /\ UNCHANGED <<emails, decisions, deliveries, events, threads, drawn, locals, deleting>>

\* DELETE FROM tasks: the transaction now holds the row.
DeleteTask(d, x) ==
    /\ deleting[d] = None
    /\ Live(x)
    /\ ~RowLocked(x)
    /\ deleting' = [deleting EXCEPT ![d] = x]
    /\ UNCHANGED <<rows, locals>>

MappedTo(x) == {th \in Thread : threads[th].task = x}

\* Fault: the mapping outlives the task.
FinishDeleteKeepingMapping(d) ==
    LET x == deleting[d] IN
    /\ x # None
    /\ \A th \in MappedTo(x), w \in Worker : ~HoldsThread(w, th)
    /\ threads' = [th \in Thread |->
                     IF th \in MappedTo(x) THEN [threads[th] EXCEPT !.snapshot = None]
                     ELSE threads[th]]
    /\ tasks' = [tasks EXCEPT ![x] = None]
    /\ deleting' = [deleting EXCEPT ![d] = None]
    /\ UNCHANGED <<emails, decisions, deliveries, events, drawn, locals>>

\* UPDATE threads ... WHERE remote_task_id = x, which waits for the rows that
\* match, then COMMIT.
FinishDelete(d) ==
    LET x == deleting[d] IN
    /\ x # None
    /\ \A th \in MappedTo(x), w \in Worker : ~HoldsThread(w, th)
    /\ threads' = [th \in Thread |->
                     IF th \in MappedTo(x)
                     THEN [threads[th] EXCEPT !.task = None, !.snapshot = None]
                     ELSE threads[th]]
    /\ tasks' = [tasks EXCEPT ![x] = None]
    /\ deleting' = [deleting EXCEPT ![d] = None]
    /\ UNCHANGED <<emails, decisions, deliveries, events, drawn, locals>>

\* reconcile locks the thread row and then the task row; delete_task locks the
\* task row and then the thread row.  Each waits for the other.
Deadlocked(w, d) ==
    /\ pc[w] = "patch"
    /\ deleting[d] = staged[w].task
    /\ msg[w].thread \in MappedTo(deleting[d])

\* PostgreSQL's deadlock detector rolls one of the two back.
DeadlockVictimIsIngest(w) ==
    /\ \E d \in Deleter : Deadlocked(w, d)
    /\ Fail(w)
    /\ UNCHANGED deleting

DeadlockVictimIsDelete(d) ==
    /\ \E w \in Worker : Deadlocked(w, d)
    /\ deleting' = [deleting EXCEPT ![d] = None]
    /\ UNCHANGED <<rows, locals>>

-------------------------------------------------------------------------------
\* One step of a run that the code takes by itself.
Step(w) ==
    \/ Inspect(w) \/ RecordReplay(w) \/ ReadPriorAndRoute(w) \/ LockThread(w)
    \/ FoundUnchanged(w) \/ FoundConflict(w) \/ KeepTask(w) \/ Refuse(w)
    \/ StageCreate(w) \/ StagePatch(w) \/ PatchTask(w)
    \/ SaveOutcome(w) \/ SaveClash(w)

Fault(w) == SaveUnacknowledged(w) \/ LoseConnection(w)

TaskApi ==
    \/ \E th \in Thread, c \in Content : PostTask(th, c)
    \/ \E x \in Task, c \in Content : PatchTaskDirectly(x, c)
    \/ \E d \in Deleter, x \in Task : DeleteTask(d, x)
    \/ \E d \in Deleter : FinishDelete(d)

DeadlockDetector ==
    \/ \E w \in Worker : DeadlockVictimIsIngest(w)
    \/ \E d \in Deleter : DeadlockVictimIsDelete(d)

Finished == \A w \in Worker : pc[w] \in {"done", "failed"}

Next ==
    \/ \E w \in Worker : Step(w) \/ Fault(w)
    \/ TaskApi
    \/ DeadlockDetector
    \/ Finished /\ UNCHANGED vars

Spec == Init /\ [][Next]_vars

(***************************************************************************)
(* The server's threads run, PostgreSQL grants a row lock to its waiters   *)
(* in the order they came (so a waiter is not overtaken for ever), and the *)
(* deadlock detector runs.  Clients and faults owe nothing.                *)
(***************************************************************************)
Fairness ==
    /\ \A w \in Worker : WF_vars(Step(w)) /\ SF_vars(PatchTask(w))
    /\ \A d \in Deleter : WF_vars(FinishDelete(d))
    /\ WF_vars(DeadlockDetector)

FairSpec == Spec /\ Fairness

-------------------------------------------------------------------------------
(* Properties *)

\* The types of the tables and of what each run carries.
TypeOK ==
    /\ emails \subseteq Message
    /\ decisions \subseteq Decision
    /\ deliveries \subseteq Delivery
    /\ events \subseteq Event
    /\ threads \in [Thread -> ThreadRow]
    /\ tasks \in [Task -> TaskRow \cup {None}]
    /\ drawn \subseteq Task
    /\ pending \in [Worker -> SUBSET Message]
    /\ pc \in [Worker -> {"idle", "replay", "prior", "lock", "locked", "patch", "save",
                          "done", "failed"}]
    /\ msg \in [Worker -> Message \cup {None}]
    /\ plan \in [Worker -> Plan]
    /\ staged \in [Worker -> Stage]
    /\ deleting \in [Deleter -> Task \cup {None}]

\* Ingestion never has two tasks for one thread, whatever requests, replies,
\* deletions and faults interleave (reconcile under thread_lock).
OneIngestedTask ==
    \A x, y \in IngestTask :
        Live(x) /\ Live(y) /\ tasks[x].thread = tasks[y].thread => x = y

\* A thread is mapped to a task that ingestion created exactly while that task
\* exists and is the thread's: no reply patches a task that is gone, and
\* deleting a task always finds the mapping to clear (save_outcome against
\* delete_task, which lock the two rows in opposite orders).
IngestedTaskMapped ==
    \A th \in Thread, x \in IngestTask :
        threads[th].task = x <=> Live(x) /\ tasks[x].thread = th

\* The counters of a thread agree with the rows they summarise: one decision
\* for each stored message, the highest index, the number of update decisions
\* (save_outcome's upsert, whose increments race with other requests).
LedgerAgrees ==
    /\ emails = {d.msg : d \in decisions}
    /\ \A th \in Thread :
        LET stored == {m \in emails : m.thread = th}
            decided == {d \in decisions : d.msg.thread = th}
        IN /\ threads[th].count = Cardinality(stored)
           /\ threads[th].count = Cardinality(decided)
           /\ threads[th].updates = Cardinality({d \in decided : d.op = "update"})
           /\ \A m \in stored : m.index <= threads[th].last
           /\ threads[th].last >= 0 => \E m \in stored : m.index = threads[th].last

\* Exactly one run is credited with the outcome of an e-mail, the one whose
\* decision is stored; every other delivery of it says "unchanged", and no
\* delivery speaks of an e-mail without a decision (the winner's save_outcome
\* against the losers' record_delivery, an unacknowledged commit included).
CreditedOnce ==
    /\ \A d \in decisions :
        {r \in deliveries : r.email = d.msg.email /\ r.outcome # "unchanged"}
            = {[run |-> d.run, email |-> d.msg.email, outcome |-> d.op]}
    /\ \A r \in deliveries : \E d \in decisions : d.msg.email = r.email

\* The audit trail explains every task of ingestion: one create event, of a
\* message of its thread, names it.
TaskHasItsCreateEvent ==
    \A x \in IngestTask : Live(x) =>
        \E e \in events :
            /\ e.kind = "create" /\ e.msg.thread = tasks[x].thread
            /\ {f \in events : f.kind = "create" /\ f.task = x} = {e}

\* Replaying an e-mail, however the deliveries race, never runs into a UNIQUE
\* constraint: a message on its way to save_outcome shares a key with a stored
\* one only if that has the same e-mail id on another thread (the second
\* inspect_email, under thread_lock).
ReplayNeverClashes ==
    \A w \in Worker : pc[w] \in {"patch", "save"} =>
        \A n \in emails : SameKey(msg[w], n) => n.thread # msg[w].thread

\* A commit of ingestion changes no task but the one that its decision names,
\* and that task is one of its message's thread (list_tasks and patch_task by
\* task id, under the lock of the thread's row).
ThreadIsolation ==
    [][\A d \in decisions' \ decisions :
        /\ \A x \in Task : tasks'[x] # tasks[x] => x = d.task
        /\ d.task \in Task /\ tasks'[d.task] # None
             => tasks'[d.task].thread = d.msg.thread]_vars

\* What the detailed system shows of the ledger it keeps.
LedgerOf == {[msg |-> d.msg, run |-> d.run] : d \in decisions}
OwnedTasks == {[task |-> x, thread |-> tasks[x].thread] : x \in {y \in IngestTask : Live(y)}}

Ledger == INSTANCE ThreadLedger WITH
    Run <- Worker, TaskId <- IngestTask,
    ledger <- LedgerOf, owned <- OwnedTasks

\* Ingestion implements the ledger: each e-mail is decided once and for one
\* run, atomically with the creation of a task, and a thread that has a task is
\* not given another (the promise of DECISIONS.md 3 and README "creates or
\* updates one persistent task per email thread").
LedgerSpec == Ledger!Spec

\* Every run ends, deadlocks between ingestion and deletion included.
RunsEnd == \A w \in Worker : <>(pc[w] \in {"done", "failed"})

\* Every deletion ends.
DeletesEnd == \A d \in Deleter : deleting[d] # None ~> deleting[d] = None

\* w commits the update by a reply that had a prior task.
UpdatesPrior(w) ==
    /\ msg[w] # None /\ msg[w] \in emails' \ emails
    /\ plan[w].op = "update" /\ staged[w].kind = "update"

\* The fields of its task for which the message brought no evidence.
KeepsOtherFields(w) ==
    LET x == staged[w].task IN
    \A f \in Field \ DOMAIN plan[w].evidence : tasks'[x].content[f] = tasks[x].content[f]

\* Routing preserves prior fields unless the current message supplies material
\* evidence (the comment in route_email): where the thread's snapshot is what
\* the task says, so that no PATCH of the Task API is unknown to it, the update
\* by a reply leaves the fields alone for which it brought no evidence.
PriorPreserved ==
    [][\A w \in Worker :
        /\ UpdatesPrior(w)
        /\ threads[msg[w].thread].snapshot =
             [task |-> staged[w].task, content |-> tasks[staged[w].task].content]
        => KeepsOtherFields(w)]_vars
===============================================================================
