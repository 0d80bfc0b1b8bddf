----------------------------- MODULE MemoryStore ------------------------------
(***************************************************************************)
(* Ingestion over the in-memory store, which serves when no database is    *)
(* configured.  The reconciler is the one that Reconciler models; here it  *)
(* has no transaction: each call of the store takes effect by itself, and  *)
(* nothing rolls back.  Calls that hold the store's global lock are one    *)
(* action each.  The lock of a thread comes out of a defaultdict, which    *)
(* looks a key up and inserts what its factory made in two steps: the      *)
(* factory, threading.RLock, is a function in Python, where threads switch.*)
(*                                                                         *)
(* A thread's snapshot and its mapping are set together and cleared        *)
(* together, and only the mapping is kept here.  The content of tasks is   *)
(* left out, so PATCH /tasks changes nothing, and a reconcile that finds a *)
(* task patches it or finds it equal.  The loss of the process loses the   *)
(* store and is not modelled.                                              *)
(*                                                                         *)
(* An operator whose comment begins with "Fault:" is no part of the model. *)
(***************************************************************************)
EXTENDS Integers, FiniteSets

CONSTANTS
    Worker,      \* POST /ingest requests
    Email, Thread,
    Message,     \* the e-mails that requests may carry
    IngestTask,  \* the ids create_task draws for ingestion
    ApiTask,     \* the ids create_task draws for POST /tasks
    Lock,        \* the locks the factory makes
    None

Task == IngestTask \cup ApiTask

ASSUME MessageAssumption ==
    /\ Message \subseteq [email : Email, thread : Thread, index : Nat]
    /\ IsFiniteSet(Message)
ASSUME NoneAssumption ==
    None \notin Task \cup Lock \cup Message \cup Email
ASSUME IdAssumption == IngestTask \cap ApiTask = {}

VARIABLES
    emails,      \* self.emails: the message stored under each e-mail id
    indexes,     \* self.thread_indexes: the e-mail id at each place of a thread
    decisions,   \* self.decisions, by e-mail id
    deliveries,  \* self.deliveries
    threads,     \* self.threads
    tasks,       \* self.tasks: the thread of each task, None when absent
    runs,        \* self.runs: the status of each run
    drawn,       \* task ids used so far
    locks,       \* self._locks
    made,        \* every lock that thread_lock has returned for a thread
    pc,          \* where each request is
    pending,     \* its messages still to be taken
    msg,         \* the message it is processing
    op,          \* decision.operation of that message
    seen,        \* the thread's row as reconcile read it
    remote,      \* the task reconcile found or created
    lock         \* the lock that thread_lock returned

tables == <<emails, indexes, decisions, deliveries, threads, tasks, runs, drawn>>
lockTable == <<locks, made>>
vars == <<tables, lockTable, pc, pending, msg, op, seen, remote, lock>>

-------------------------------------------------------------------------------
Place == {<<m.thread, m.index>> : m \in Message}

EmptyRow == [task |-> None, last |-> -1, count |-> 0, updates |-> 0]

SameKey(m, n) == m.email = n.email \/ (m.thread = n.thread /\ m.index = n.index)
ValidRequest(R) == R # {} /\ \A m, n \in R : m # n => ~SameKey(m, n)

Live(x) == x \in Task /\ tasks[x] # None
Listed(th) == {x \in Task : Live(x) /\ tasks[x] = th}

\* inspect_email: the e-mail id first, then the place in the thread.
Stored(m) == emails[m.email] = m
Conflicts(m) ==
    \/ emails[m.email] \notin {None, m}
    \/ emails[m.email] = None /\ indexes[<<m.thread, m.index>>] \notin {None, m.email}
IsNew(m) == ~Stored(m) /\ ~Conflicts(m)

Init ==
    /\ emails = [e \in Email |-> None]
    /\ indexes = [p \in Place |-> None]
    /\ decisions = [e \in Email |-> None]
    /\ deliveries = {}
    /\ threads = [th \in Thread |-> EmptyRow]
    /\ tasks = [x \in Task |-> None]
    /\ runs = [w \in Worker |-> "absent"]
    /\ drawn = {}
    /\ locks = [th \in Thread |-> None]
    /\ made = [th \in Thread |-> {}]
    /\ pc = [w \in Worker |-> "start"]
    /\ pending \in [Worker -> {R \in SUBSET Message : ValidRequest(R)}]
    /\ msg = [w \in Worker |-> None]
    /\ op = [w \in Worker |-> "skip"]
    /\ seen = [w \in Worker |-> EmptyRow]
    /\ remote = [w \in Worker |-> None]
    /\ lock = [w \in Worker |-> None]

Goto(w, label) == pc' = [pc EXCEPT ![w] = label]

\* The locals of the message that is done with; its lock is released.
Forget(w) ==
    /\ msg' = [msg EXCEPT ![w] = None]
    /\ op' = [op EXCEPT ![w] = "skip"]
    /\ seen' = [seen EXCEPT ![w] = EmptyRow]
    /\ remote' = [remote EXCEPT ![w] = None]
    /\ lock' = [lock EXCEPT ![w] = None]

\* finish_run after the last message.
Advance(w) ==
    /\ pending' = [pending EXCEPT ![w] = @ \ {msg[w]}]
    /\ IF pending[w] = {msg[w]}
       THEN Goto(w, "done") /\ runs' = [runs EXCEPT ![w] = "completed"]
       ELSE Goto(w, "idle") /\ UNCHANGED runs
    /\ Forget(w)

\* An AppError: finish_run with the error, and the rest is abandoned.  What the
\* store's earlier calls did stays.
Fail(w) ==
    /\ Goto(w, "failed")
    /\ runs' = [runs EXCEPT ![w] = "failed"]
    /\ pending' = [pending EXCEPT ![w] = {}]
    /\ Forget(w)

-------------------------------------------------------------------------------
(* A request, up to the lock *)

\* start_run.  The batch and its group only label rows.
StartRun(w) ==
    /\ pc[w] = "start"
    /\ Goto(w, "idle")
    /\ runs' = [runs EXCEPT ![w] = "processing"]
    /\ UNCHANGED <<emails, indexes, decisions, deliveries, threads, tasks, drawn, lockTable,
                   pending, msg, op, seen, remote, lock>>

\* record_delivery: the first of a run for an e-mail stays.
Delivered(w, m, outcome) ==
    IF \E d \in deliveries : d.run = w /\ d.email = m.email THEN deliveries
    ELSE deliveries \cup {[run |-> w, email |-> m.email, outcome |-> outcome]}

\* inspect_email before the lock.
Inspect(w) ==
    /\ pc[w] = "idle"
    /\ \E m \in pending[w] :
        /\ \A n \in pending[w] : n.thread = m.thread => m.index <= n.index
        /\ msg' = [msg EXCEPT ![w] = m]
        /\ \/ Stored(m) /\ Goto(w, "replay")
           \/ IsNew(m) /\ Goto(w, "prior")
    /\ UNCHANGED <<tables, lockTable, pending, op, seen, remote, lock>>

InspectConflict(w) ==
    /\ pc[w] = "idle"
    /\ \E m \in pending[w] :
        /\ \A n \in pending[w] : n.thread = m.thread => m.index <= n.index
        /\ Conflicts(m)
    /\ Fail(w)
    /\ UNCHANGED <<emails, indexes, decisions, deliveries, threads, tasks, drawn,
                   lockTable>>

\* get_thread, the model call and route_email.
Route(w) ==
    /\ pc[w] = "prior"
    /\ \E o \in IF threads[msg[w].thread].task = None THEN {"create", "skip"}
                ELSE {"update", "noop", "skip"} : op' = [op EXCEPT ![w] = o]
    /\ Goto(w, "lookup")
    /\ UNCHANGED <<tables, lockTable, pending, msg, seen, remote, lock>>

RecordReplay(w) ==
    /\ pc[w] = "replay"
    /\ deliveries' = Delivered(w, msg[w], "unchanged")
    /\ Advance(w)
    /\ UNCHANGED <<emails, indexes, decisions, threads, tasks, drawn, lockTable>>

-------------------------------------------------------------------------------
(* thread_lock *)

\* self._locks[thread_id] finds a lock.
LookUp(w) ==
    /\ pc[w] = "lookup"
    /\ locks[msg[w].thread] # None
    /\ lock' = [lock EXCEPT ![w] = locks[msg[w].thread]]
    /\ Goto(w, "acquire")
    /\ UNCHANGED <<tables, lockTable, pending, msg, op, seen, remote>>

\* It finds none and calls the factory, during which other threads run.
MakeLock(w) ==
    /\ pc[w] = "lookup"
    /\ locks[msg[w].thread] = None
    /\ \E k \in Lock \ UNION {made[th] : th \in Thread} :
        /\ lock' = [lock EXCEPT ![w] = k]
        /\ made' = [made EXCEPT ![msg[w].thread] = @ \cup {k}]
    /\ Goto(w, "insert")
    /\ UNCHANGED <<tables, locks, pending, msg, op, seen, remote>>

\* The new lock is inserted, over one that another thread has inserted.
InsertLock(w) ==
    /\ pc[w] = "insert"
    /\ locks' = [locks EXCEPT ![msg[w].thread] = lock[w]]
    /\ Goto(w, "acquire")
    /\ UNCHANGED <<tables, made, pending, msg, op, seen, remote, lock>>

InReconcile == {"locked", "read", "matched", "save"}

\* Fault: nobody waits.
AcquireAtOnce(w) ==
    /\ pc[w] = "acquire"
    /\ Goto(w, "locked")
    /\ UNCHANGED <<tables, lockTable, pending, msg, op, seen, remote, lock>>

Acquire(w) ==
    /\ pc[w] = "acquire"
    /\ \A v \in Worker : pc[v] \in InReconcile => lock[v] # lock[w]
    /\ Goto(w, "locked")
    /\ UNCHANGED <<tables, lockTable, pending, msg, op, seen, remote, lock>>

-------------------------------------------------------------------------------
(* Reconciler.reconcile, call by call *)

\* Fault: the message is not inspected again.
ReadThreadUninspected(w) ==
    /\ pc[w] = "locked"
    /\ seen' = [seen EXCEPT ![w] = threads[msg[w].thread]]
    /\ Goto(w, "read")
    /\ UNCHANGED <<tables, lockTable, pending, msg, op, remote, lock>>

\* inspect_email, then get_thread.
ReadThread(w) ==
    /\ pc[w] = "locked"
    /\ IsNew(msg[w])
    /\ seen' = [seen EXCEPT ![w] = threads[msg[w].thread]]
    /\ Goto(w, "read")
    /\ UNCHANGED <<tables, lockTable, pending, msg, op, remote, lock>>

FoundUnchanged(w) ==
    /\ pc[w] = "locked"
    /\ Stored(msg[w])
    /\ lock' = [lock EXCEPT ![w] = None]
    /\ Goto(w, "replay")
    /\ UNCHANGED <<tables, lockTable, pending, msg, op, seen, remote>>

FoundConflict(w) ==
    /\ pc[w] = "locked"
    /\ Conflicts(msg[w])
    /\ Fail(w)
    /\ UNCHANGED <<emails, indexes, decisions, deliveries, threads, tasks, drawn,
                   lockTable>>

\* SKIP and NOOP go on with the task of the thread as it was read.
KeepTask(w) ==
    /\ pc[w] = "read"
    /\ op[w] \in {"skip", "noop"}
    /\ remote' = [remote EXCEPT ![w] = seen[w].task]
    /\ Goto(w, "save")
    /\ UNCHANGED <<tables, lockTable, pending, msg, op, seen, lock>>

\* list_tasks, else get_task of the id mapped when the thread was read.
Matched(w) ==
    LET listed == Listed(msg[w].thread) IN
    IF listed # {} THEN CHOOSE x \in listed : TRUE ELSE seen[w].task

\* The errors of reconcile.
Refused(w) ==
    LET listed == Listed(msg[w].thread) IN
    \/ Cardinality(listed) > 1
    \/ listed = {} /\ seen[w].task # None /\ ~Live(seen[w].task)
    \/ Matched(w) = None /\ msg[w].index > 0 /\ seen[w].last < 0

MatchTask(w) ==
    /\ pc[w] = "read"
    /\ op[w] \in {"create", "update"}
    /\ ~Refused(w)
    /\ remote' = [remote EXCEPT ![w] = Matched(w)]
    /\ Goto(w, "matched")
    /\ UNCHANGED <<tables, lockTable, pending, msg, op, seen, lock>>

Refuse(w) ==
    /\ pc[w] = "read"
    /\ op[w] \in {"create", "update"}
    /\ Refused(w)
    /\ Fail(w)
    /\ UNCHANGED <<emails, indexes, decisions, deliveries, threads, tasks, drawn,
                   lockTable>>

\* create_task, whose row everybody sees at once.
CreateTask(w) ==
    /\ pc[w] = "matched"
    /\ remote[w] = None
    /\ \E x \in IngestTask \ drawn :
        /\ tasks' = [tasks EXCEPT ![x] = msg[w].thread]
        /\ drawn' = drawn \cup {x}
        /\ remote' = [remote EXCEPT ![w] = x]
    /\ Goto(w, "save")
    /\ UNCHANGED <<emails, indexes, decisions, deliveries, threads, runs, lockTable,
                   pending, msg, op, seen, lock>>

\* Nothing differs, or patch_task: the task is as it was read, or was found.
PatchTask(w) ==
    /\ pc[w] = "matched"
    /\ remote[w] # None
    /\ \/ op' = [op EXCEPT ![w] = "noop"]
       \/ Live(remote[w]) /\ op' = [op EXCEPT ![w] = "update"]
    /\ Goto(w, "save")
    /\ UNCHANGED <<tables, lockTable, pending, msg, seen, remote, lock>>

\* patch_task of a task deleted since: 404.
PatchMissing(w) ==
    /\ pc[w] = "matched"
    /\ remote[w] # None /\ ~Live(remote[w])
    /\ Fail(w)
    /\ UNCHANGED <<emails, indexes, decisions, deliveries, threads, tasks, drawn,
                   lockTable>>

\* Fault: the last index is that of the message, not the greatest.
SavedRowLatestIndex(w) ==
    LET prior == threads[msg[w].thread] IN
    [task |-> IF remote[w] # None THEN remote[w] ELSE prior.task,
     last |-> msg[w].index,
     count |-> prior.count + 1,
     updates |-> prior.updates + IF op[w] = "update" THEN 1 ELSE 0]

\* The row that save_outcome puts in place of the thread's.
SavedRow(w) ==
    LET prior == threads[msg[w].thread] IN
    [task |-> IF remote[w] # None THEN remote[w] ELSE prior.task,
     last |-> IF msg[w].index > prior.last THEN msg[w].index ELSE prior.last,
     count |-> prior.count + 1,
     updates |-> prior.updates + IF op[w] = "update" THEN 1 ELSE 0]

\* save_outcome, under the global lock, over whatever is stored by now.
SaveOutcome(w) ==
    LET m == msg[w] IN
    /\ pc[w] = "save"
    /\ emails' = [emails EXCEPT ![m.email] = m]
    /\ indexes' = [indexes EXCEPT ![<<m.thread, m.index>>] = m.email]
    /\ decisions' = [decisions EXCEPT ![m.email] =
                       [msg |-> m, op |-> op[w], task |-> remote[w], run |-> w]]
    /\ deliveries' = Delivered(w, m, op[w])
    /\ threads' = [threads EXCEPT ![m.thread] = SavedRow(w)]
    /\ Advance(w)
    /\ UNCHANGED <<tasks, drawn, lockTable>>

-------------------------------------------------------------------------------
(* The Task API *)

PostTask(th) ==
    /\ \E x \in ApiTask \ drawn :
        /\ tasks' = [tasks EXCEPT ![x] = th]
        /\ drawn' = drawn \cup {x}
    /\ UNCHANGED <<emails, indexes, decisions, deliveries, threads, runs, lockTable,
                   pc, pending, msg, op, seen, remote, lock>>

\* delete_task, and the mappings that it finds at that moment.
DeleteTask(x) ==
    /\ Live(x)
    /\ tasks' = [tasks EXCEPT ![x] = None]
    /\ threads' = [th \in Thread |->
                     IF threads[th].task = x THEN [threads[th] EXCEPT !.task = None]
                     ELSE threads[th]]
    /\ UNCHANGED <<emails, indexes, decisions, deliveries, runs, drawn, lockTable,
                   pc, pending, msg, op, seen, remote, lock>>

-------------------------------------------------------------------------------
Step(w) ==
    \/ StartRun(w) \/ Inspect(w) \/ InspectConflict(w) \/ Route(w) \/ RecordReplay(w)
    \/ LookUp(w) \/ MakeLock(w) \/ InsertLock(w) \/ Acquire(w)
    \/ ReadThread(w) \/ FoundUnchanged(w) \/ FoundConflict(w)
    \/ KeepTask(w) \/ MatchTask(w) \/ Refuse(w)
    \/ CreateTask(w) \/ PatchTask(w) \/ PatchMissing(w) \/ SaveOutcome(w)

Finished == \A w \in Worker : pc[w] \in {"done", "failed"}

Next ==
    \/ \E w \in Worker : Step(w)
    \/ \E th \in Thread : PostTask(th)
    \/ \E x \in Task : DeleteTask(x)
    \/ Finished /\ UNCHANGED vars

Spec == Init /\ [][Next]_vars

-------------------------------------------------------------------------------
(* Properties *)

\* The factory ran once at most for this thread.
OneLock(th) == Cardinality(made[th]) <= 1

\* While one lock was ever made for a thread, ingestion gives it one task at most,
\* whatever requests, replies, posts and deletions interleave, and that task is
\* mapped or will be by the request that created it, so that a deletion finds the
\* mapping.  Two locks are the only way to two tasks ("Thread-safe baseline store").
OneTaskWhileOneLock ==
    \A th \in Thread : OneLock(th) =>
        \A x \in IngestTask \cap Listed(th) :
            /\ \A y \in IngestTask \cap Listed(th) : x = y
            /\ \/ threads[th].task = x
               \/ \E w \in Worker : pc[w] = "save" /\ remote[w] = x

\* While one lock was ever made for a thread, its counters agree with its places:
\* each place was counted once and the highest is the last index, although the
\* e-mail stored for a place may have been replaced from another thread.
RowAgreesWhileOneLock ==
    \A th \in Thread : OneLock(th) =>
        LET taken == {p \in Place : p[1] = th /\ indexes[p] # None} IN
        /\ threads[th].count = Cardinality(taken)
        /\ \A p \in taken : p[2] <= threads[th].last
        /\ taken # {} => <<th, threads[th].last>> \in taken

\* "its immutable email decision" (record_delivery): with one lock a thread, a
\* decision is replaced only by one about another thread, whose message claims
\* the same e-mail id and was inspected before the first was saved.
DecisionKeptWithinThread ==
    [][\A e \in Email :
        decisions[e] # None /\ decisions'[e] # decisions[e] =>
            \/ ~OneLock(decisions[e].msg.thread)
            \/ decisions'[e].msg.thread # decisions[e].msg.thread]_vars
===============================================================================
