--------------------------- MODULE ReconcilerProofs ---------------------------
(***************************************************************************)
(* Theorems about Reconciler for every set of workers, threads, messages   *)
(* and tasks, in three parts.                                              *)
(*                                                                         *)
(* Safety.  OneIngestedTask is not inductive: a reconcile that has staged  *)
(* a create would break it.  What makes it true is that the thread row,    *)
(* which the reconcile has locked, says so: no mapping, no task of         *)
(* ingestion.  SInv therefore ties each staged outcome to the row of its   *)
(* thread, and the row to the tasks.                                       *)
(*                                                                         *)
(* Refinement.  A commit maps to Keep or Give of ThreadLedger, a finished  *)
(* deletion of a task of ingestion to Remove, and every other step to a    *)
(* stutter.  What the ledger promises therefore holds of the tables.       *)
(*                                                                         *)
(* Agreement of the tables.  A commit inserts one e-mail that is not       *)
(* stored, one decision of it, and one delivery, so each of these sets     *)
(* grows by one element when the row of its thread counts one more.  That  *)
(* the delivery is inserted, although the table keeps an older one of the  *)
(* same run and e-mail, follows from the UNIQUE constraint: a delivery is  *)
(* only ever of a decided e-mail.                                          *)
(***************************************************************************)
EXTENDS Reconciler, FiniteSetTheorems, TLAPS

-------------------------------------------------------------------------------
(* Facts about the operators *)

\* Evidence over a content is a content.
LEMMA MergedType ==
    ASSUME NEW evidence \in Evidence, NEW base \in Content
    PROVE  Merged(evidence, base) \in Content
<1>1. PICK S \in SUBSET Field : evidence \in [S -> Value]
  BY DEF Evidence
<1>2. \A f \in Field : (IF f \in DOMAIN evidence THEN evidence[f] ELSE base[f]) \in Value
  BY <1>1 DEF Content
<1> QED
  BY <1>2 DEF Merged, Content

\* A patched row keeps the type of its content.
LEMMA PatchedType ==
    ASSUME NEW read \in Content, NEW want \in Content, NEW row \in Content
    PROVE  Patched(read, want, row) \in Content
BY DEF Patched, Content

\* The plan and the stage of a run that has none.
LEMMA EmptyTypes == NoPlan \in Plan /\ NoStage \in Stage
<1>1. NoEvidence \in [{} -> Value]
  BY DEF NoEvidence
<1>2. NoEvidence \in Evidence
  BY <1>1 DEF Evidence
<1>3. NoPlan \in Plan
  BY <1>2, DefaultAssumption DEF NoPlan, Plan, Operation
<1>4. NoStage \in Stage
  BY DEF NoStage, Stage, Operation
<1> QED
  BY <1>3, <1>4

\* What routing plans is a Plan.
LEMMA PlanType ==
    ASSUME NEW prior \in Snapshot \cup {None}, NEW act \in {"skip", "quiet", "work"},
           NEW evidence \in Evidence
    PROVE  [op |-> PlannedOp(prior, act), evidence |-> evidence,
            want |-> PlannedContent(prior, evidence)] \in Plan
<1>1. PlannedOp(prior, act) \in Operation
  BY DEF PlannedOp, Operation
<1>2. (IF prior = None THEN Default ELSE prior.content) \in Content
  BY DefaultAssumption DEF Snapshot
<1>3. PlannedContent(prior, evidence) \in Content
  BY <1>2, MergedType DEF PlannedContent
<1> QED
  BY <1>1, <1>3 DEF Plan

\* The remote task of a thread is a task or none.
LEMMA RemoteType ==
    ASSUME TypeOK, NEW th \in Thread
    PROVE  /\ Remote(th) \in Task \cup {None}
           /\ Listed(th) # {} => Remote(th) \in Listed(th)
           /\ Listed(th) = {} => Remote(th) = threads[th].task
<1>1. threads[th].task \in Task \cup {None}
  BY DEF TypeOK, ThreadRow
<1>2. Listed(th) \subseteq Task
  BY DEF Listed
<1> QED
  BY <1>1, <1>2 DEF Remote

\* A message being processed is a message.
LEMMA MessageType ==
    ASSUME NEW m \in Message
    PROVE  m # None /\ m.email \in Email /\ m.thread \in Thread /\ m.index \in Nat
BY MessageAssumption, NoneAssumption

\* The invariant that says which runs have a message.
MessageInv ==
    \A w \in Worker : pc[w] \notin {"idle", "done", "failed"} => msg[w] # None

\* What a reconcile has staged is well formed.
StageShape ==
    \A w \in Worker :
        /\ pc[w] \in {"patch", "save"} /\ staged[w].task # None => staged[w].content \in Content
        /\ pc[w] \in {"patch", "save"} /\ staged[w].kind \in {"create", "update"}
             => staged[w].content \in Content
        /\ pc[w] \in {"patch", "save"} /\ staged[w].kind = "update" => staged[w].task \in Task
        /\ pc[w] = "patch" => staged[w].kind = "update"
        /\ pc[w] = "save" /\ staged[w].kind = "update" => Live(staged[w].task)
        /\ pc[w] = "save" /\ staged[w].kind = "update"
             => \A d \in Deleter : deleting[d] # staged[w].task

TInv == TypeOK /\ MessageInv /\ StageShape

LEMMA InitTInv == Init => TInv
<1> SUFFICES ASSUME Init PROVE TInv
  OBVIOUS
<1>1. EmptyThread \in ThreadRow
  BY DEF EmptyThread, ThreadRow
<1>2. TypeOK
  BY <1>1, EmptyTypes DEF Init, TypeOK
<1> QED
  BY <1>2 DEF Init, TInv, MessageInv, StageShape

\* Ending in error keeps the invariant.
LEMMA AbandonTInv ==
    ASSUME TInv, NEW w \in Worker, Fail(w), UNCHANGED deleting
    PROVE  TInv'
<1>1. NoPlan \in Plan /\ NoStage \in Stage
  BY EmptyTypes
<1>2. TypeOK'
  BY <1>1 DEF TInv, TypeOK, Fail, Abandon, rows
<1>3. \A v \in Worker : v # w => /\ pc'[v] = pc[v] /\ msg'[v] = msg[v] /\ staged'[v] = staged[v]
  BY DEF TInv, TypeOK, Fail, Abandon
<1>4. pc'[w] = "failed"
  BY DEF TInv, TypeOK, Fail, Abandon
<1>5. MessageInv'
  BY <1>3, <1>4 DEF TInv, MessageInv
<1>6. StageShape'
  BY <1>3, <1>4 DEF TInv, StageShape, Live, Fail, Abandon, rows
<1> QED
  BY <1>2, <1>5, <1>6 DEF TInv

\* A step of one run that writes no table and stages nothing that is not a task.
LEMMA LocalTInv ==
    ASSUME TInv, NEW w \in Worker, UNCHANGED <<rows, deleting>>,
           TypeOK',
           \A v \in Worker : v # w => /\ pc'[v] = pc[v] /\ msg'[v] = msg[v]
                                      /\ staged'[v] = staged[v],
           pc'[w] \notin {"idle", "done", "failed"} => msg'[w] # None,
           pc'[w] \in {"patch", "save"} =>
               /\ staged'[w].task # None => staged'[w].content \in Content
               /\ staged'[w].kind \in {"create", "update"} => staged'[w].content \in Content
               /\ staged'[w].kind = "update" => staged'[w].task \in Task,
           pc'[w] = "patch" => staged'[w].kind = "update",
           pc'[w] = "save" /\ staged'[w].kind = "update" =>
               /\ Live(staged'[w].task)
               /\ \A d \in Deleter : deleting[d] # staged'[w].task
    PROVE  TInv'
<1>1. MessageInv'
  BY DEF TInv, MessageInv
<1>2. \A x : Live(x)' <=> Live(x)
  BY DEF Live, rows
<1>3. StageShape'
  <2> SUFFICES ASSUME NEW v \in Worker
               PROVE  /\ pc'[v] \in {"patch", "save"} /\ staged'[v].task # None
                           => staged'[v].content \in Content
                      /\ pc'[v] \in {"patch", "save"} /\ staged'[v].kind \in {"create", "update"}
                           => staged'[v].content \in Content
                      /\ pc'[v] \in {"patch", "save"} /\ staged'[v].kind = "update"
                           => staged'[v].task \in Task
                      /\ pc'[v] = "patch" => staged'[v].kind = "update"
                      /\ pc'[v] = "save" /\ staged'[v].kind = "update"
                           => Live(staged'[v].task)
                      /\ pc'[v] = "save" /\ staged'[v].kind = "update"
                           => \A d \in Deleter : deleting[d] # staged'[v].task
    BY <1>2 DEF StageShape, Live, rows
  <2>1. CASE v = w
    BY <2>1
  <2>2. CASE v # w
    BY <2>2 DEF TInv, StageShape
  <2> QED
    BY <2>1, <2>2
<1> QED
  BY <1>1, <1>3 DEF TInv

\* The values that EXCEPT leaves alone.
LEMMA InspectTInv ==
    ASSUME TInv, NEW w \in Worker, Inspect(w)
    PROVE  TInv'
<1>1. PICK m \in pending[w] :
        /\ NextInThread(pending[w], m)
        /\ \/ Conflicts(m) /\ Fail(w)
           \/ /\ ~Conflicts(m)
              /\ msg' = [msg EXCEPT ![w] = m]
              /\ Goto(w, IF Stored(m) THEN "replay" ELSE "prior")
              /\ UNCHANGED <<rows, pending, plan, staged>>
  BY DEF Inspect
<1>2. UNCHANGED deleting
  BY DEF Inspect
<1>3. CASE Conflicts(m) /\ Fail(w)
  BY <1>2, <1>3, AbandonTInv
<1>4. CASE ~(Conflicts(m) /\ Fail(w))
  <2>1. m \in Message /\ m # None
    BY MessageType DEF TInv, TypeOK
  <2>2. /\ msg' = [msg EXCEPT ![w] = m]
        /\ pc' \in {[pc EXCEPT ![w] = "replay"], [pc EXCEPT ![w] = "prior"]}
        /\ UNCHANGED <<rows, pending, plan, staged>>
    BY <1>1, <1>4 DEF Goto
  <2>3. TypeOK'
    BY <1>2, <2>1, <2>2 DEF TInv, TypeOK, rows
  <2> QED
    BY <1>2, <2>1, <2>2, <2>3, LocalTInv DEF TInv, TypeOK
<1> QED
  BY <1>3, <1>4

\* Finishing a message.
LEMMA AdvanceTInv ==
    ASSUME TypeOK, MessageInv, NEW w \in Worker, Advance(w)
    PROVE  /\ pending' \in [Worker -> SUBSET Message]
           /\ pc' \in [Worker -> {"idle", "replay", "prior", "lock", "locked", "patch",
                                  "save", "done", "failed"}]
           /\ msg' \in [Worker -> Message \cup {None}]
           /\ plan' \in [Worker -> Plan]
           /\ staged' \in [Worker -> Stage]
           /\ MessageInv'
           /\ pc'[w] \in {"idle", "done"}
           /\ \A v \in Worker : v # w => pc'[v] = pc[v] /\ msg'[v] = msg[v]
                                         /\ staged'[v] = staged[v] /\ plan'[v] = plan[v]
<1>1. NoPlan \in Plan /\ NoStage \in Stage
  BY EmptyTypes
<1>2. pc' \in {[pc EXCEPT ![w] = "done"], [pc EXCEPT ![w] = "idle"]}
  BY DEF Advance, Goto
<1> QED
  BY <1>1, <1>2 DEF TypeOK, MessageInv, Advance

LEMMA RecordReplayTInv ==
    ASSUME TInv, NEW w \in Worker, RecordReplay(w)
    PROVE  TInv'
<1>1. Advance(w) /\ UNCHANGED <<emails, decisions, events, threads, tasks, drawn, deleting>>
  BY DEF RecordReplay
<1>2. msg[w] \in Message
  BY DEF TInv, TypeOK, MessageInv, RecordReplay
<1>3. deliveries' \subseteq Delivery
  BY <1>2, MessageType DEF TInv, TypeOK, RecordReplay, Delivered, Delivery
<1>4. TypeOK'
  BY <1>1, <1>3, AdvanceTInv DEF TInv, TypeOK
<1>5. StageShape'
  BY <1>1, AdvanceTInv DEF TInv, StageShape, Live
<1> QED
  BY <1>1, <1>4, <1>5, AdvanceTInv DEF TInv

LEMMA ReadPriorTInv ==
    ASSUME TInv, NEW w \in Worker, ReadPriorAndRoute(w)
    PROVE  TInv'
<1>1. msg[w] \in Message /\ threads[msg[w].thread].snapshot \in Snapshot \cup {None}
  BY MessageType DEF TInv, TypeOK, MessageInv, ReadPriorAndRoute, ThreadRow
<1>2. plan' \in [Worker -> Plan]
  BY <1>1, PlanType DEF ReadPriorAndRoute, TInv, TypeOK
<1>3. /\ pc' = [pc EXCEPT ![w] = "lock"]
      /\ UNCHANGED <<rows, pending, msg, staged, deleting>>
  BY DEF ReadPriorAndRoute, Goto
<1>4. TypeOK'
  BY <1>2, <1>3 DEF TInv, TypeOK, rows
<1> QED
  BY <1>1, <1>3, <1>4, MessageType, LocalTInv DEF TInv, TypeOK

LEMMA LockThreadTInv ==
    ASSUME TInv, NEW w \in Worker, LockThread(w)
    PROVE  TInv'
<1>1. /\ pc' = [pc EXCEPT ![w] = "locked"] /\ pc[w] = "lock"
      /\ UNCHANGED <<rows, pending, msg, plan, staged, deleting>>
  BY DEF LockThread, Goto
<1>2. TypeOK'
  BY <1>1 DEF TInv, TypeOK, rows
<1> QED
  BY <1>1, <1>2, LocalTInv DEF TInv, TypeOK, MessageInv

LEMMA FoundUnchangedTInv ==
    ASSUME TInv, NEW w \in Worker, FoundUnchanged(w)
    PROVE  TInv'
<1>1. /\ pc' = [pc EXCEPT ![w] = "replay"] /\ pc[w] = "locked"
      /\ UNCHANGED <<rows, pending, msg, plan, staged, deleting>>
  BY DEF FoundUnchanged, Goto
<1>2. TypeOK'
  BY <1>1 DEF TInv, TypeOK, rows
<1> QED
  BY <1>1, <1>2, LocalTInv DEF TInv, TypeOK, MessageInv

\* Staging a well-formed outcome.
LEMMA StageTInv ==
    ASSUME TInv, NEW w \in Worker, pc[w] = "locked", UNCHANGED deleting,
           NEW label \in {"patch", "save"}, NEW kind \in Operation,
           NEW x \in Task \cup {None}, NEW content \in Content \cup {None},
           StageFor(w, label, kind, x, content),
           x # None => content \in Content,
           kind \in {"create", "update"} => content \in Content,
           kind = "update" <=> label = "patch",
           kind = "update" => x \in Task
    PROVE  TInv'
<1>1. /\ pc' = [pc EXCEPT ![w] = label]
      /\ staged' = [staged EXCEPT ![w] = [kind |-> kind, task |-> x, content |-> content]]
      /\ UNCHANGED <<rows, pending, msg, plan>>
  BY DEF StageFor, Goto
<1>2. TypeOK'
  BY <1>1 DEF TInv, TypeOK, rows, Stage
<1> QED
  BY <1>1, <1>2, LocalTInv DEF TInv, TypeOK, MessageInv

LEMMA KeepTaskTInv ==
    ASSUME TInv, NEW w \in Worker, KeepTask(w)
    PROVE  TInv'
<1> DEFINE snapshot == threads[msg[w].thread].snapshot
<1>1. pc[w] = "locked" /\ plan[w].op \in {"skip", "noop"} /\ UNCHANGED deleting
  BY DEF KeepTask, IsNew
<1>2. msg[w] \in Message /\ snapshot \in Snapshot \cup {None}
  BY <1>1, MessageType DEF TInv, TypeOK, MessageInv, ThreadRow
<1>3. CASE snapshot = None
  <2>1. StageFor(w, "save", plan[w].op, None, None)
    BY <1>3 DEF KeepTask
  <2> QED
    BY <1>1, <2>1, StageTInv DEF Operation
<1>4. CASE snapshot # None
  <2>1. StageFor(w, "save", plan[w].op, snapshot.task, snapshot.content)
    BY <1>4 DEF KeepTask
  <2>2. snapshot.task \in Task /\ snapshot.content \in Content
    BY <1>2, <1>4 DEF Snapshot
  <2> QED
    BY <1>1, <2>1, <2>2, StageTInv DEF Operation
<1> QED
  BY <1>3, <1>4

LEMMA StageCreateTInv ==
    ASSUME TInv, NEW w \in Worker, StageCreate(w)
    PROVE  TInv'
<1>1. plan[w].want \in Content
  BY DEF TInv, TypeOK, Plan
<1> QED
  BY <1>1, StageTInv DEF StageCreate, Actionable, IsNew, Operation

\* The task that a reconcile patches has a row when it is staged.
LEMMA RemoteIsLive ==
    ASSUME TInv, NEW w \in Worker, StagePatch(w)
    PROVE  LET x == Remote(msg[w].thread) IN
           x \in Task /\ Live(x) /\ tasks[x].content \in Content
<1> DEFINE th == msg[w].thread
           x == Remote(th)
<1>1. pc[w] = "locked" /\ x # None /\ RefusalOf(w) = "none"
  BY DEF StagePatch, Actionable, IsNew
<1>2. th \in Thread /\ TypeOK
  BY <1>1, MessageType DEF TInv, TypeOK, MessageInv
<1>3. x \in Task
  BY <1>1, <1>2, RemoteType
<1>4. ASSUME Listed(th) = {} PROVE Live(x)
  <2>1. threads[th].task = x
    BY <1>2, <1>4, RemoteType
  <2>2. ~(Listed(th) = {} /\ threads[th].task # None /\ ~Live(threads[th].task))
    BY <1>1, <1>4 DEF RefusalOf
  <2> QED
    BY <1>1, <1>4, <2>1, <2>2
<1>5. ASSUME Listed(th) # {} PROVE Live(x)
  <2>1. x \in Listed(th)
    BY <1>2, <1>5, RemoteType
  <2> QED
    BY <2>1 DEF Listed
<1>6. Live(x)
  BY <1>4, <1>5
<1> QED
  BY <1>2, <1>3, <1>6 DEF Live, TypeOK, TaskRow

LEMMA StagePatchTInv ==
    ASSUME TInv, NEW w \in Worker, StagePatch(w)
    PROVE  TInv'
<1> DEFINE x == Remote(msg[w].thread)
<1>1. plan[w].want \in Content
  BY DEF TInv, TypeOK, Plan
<1>2. pc[w] = "locked" /\ UNCHANGED deleting
  BY DEF StagePatch, Actionable, IsNew
<1>3. x \in Task /\ tasks[x].content \in Content
  BY RemoteIsLive
<1>4. CASE StageFor(w, "patch", "update", x, tasks[x].content)
  BY <1>2, <1>3, <1>4, StageTInv DEF Operation
<1>5. CASE StageFor(w, "save", "noop", x, plan[w].want)
  BY <1>1, <1>2, <1>3, <1>5, StageTInv DEF Operation
<1> QED
  BY <1>4, <1>5 DEF StagePatch

\* What the UPDATE does: only the content that is staged changes.
LEMMA PatchTaskEffect ==
    ASSUME TInv, NEW w \in Worker, PatchTask(w), ~Fail(w)
    PROVE  /\ Live(staged[w].task)
           /\ pc' = [pc EXCEPT ![w] = "save"]
           /\ UNCHANGED <<rows, pending, msg, plan>>
           /\ staged' \in [Worker -> Stage] /\ staged'[w].content \in Content
           /\ staged'[w].kind = staged[w].kind /\ staged'[w].task = staged[w].task
           /\ \A v \in Worker : v # w => staged'[v] = staged[v]
<1> DEFINE x == staged[w].task
           after == Patched(staged[w].content, plan[w].want, tasks[x].content)
<1>1. /\ pc[w] = "patch" /\ Live(x)
      /\ pc' = [pc EXCEPT ![w] = "save"]
      /\ UNCHANGED <<rows, pending, msg, plan>>
      /\ staged' = [staged EXCEPT ![w] = [staged[w] EXCEPT !.content = after]]
  BY DEF PatchTask, Goto
<1>2. staged \in [Worker -> Stage] /\ plan[w].want \in Content
  BY DEF TInv, TypeOK, Plan
<1>3. tasks[x].content \in Content
  BY <1>1 DEF TInv, TypeOK, Live, TaskRow
<1>4. staged[w].content \in Content
  BY <1>1 DEF TInv, StageShape
<1>5. after \in Content
  BY <1>2, <1>3, <1>4, PatchedType
<1>6. staged[w] \in Stage
  BY <1>2
<1> HIDE DEF after
<1>7. /\ [staged[w] EXCEPT !.content = after] \in Stage
      /\ [staged[w] EXCEPT !.content = after].content = after
      /\ [staged[w] EXCEPT !.content = after].kind = staged[w].kind
      /\ [staged[w] EXCEPT !.content = after].task = staged[w].task
  BY <1>5, <1>6 DEF Stage
<1> QED
  BY <1>1, <1>2, <1>5, <1>7

LEMMA PatchTaskTInv ==
    ASSUME TInv, NEW w \in Worker, PatchTask(w)
    PROVE  TInv'
<1>1. pc[w] = "patch" /\ ~RowLocked(staged[w].task) /\ UNCHANGED deleting
  BY DEF PatchTask
<1>2. CASE Fail(w)
  BY <1>1, <1>2, AbandonTInv
<1>3. CASE ~Fail(w)
  <2>1. /\ Live(staged[w].task)
        /\ pc' = [pc EXCEPT ![w] = "save"]
        /\ UNCHANGED <<rows, pending, msg, plan>>
        /\ staged' \in [Worker -> Stage] /\ staged'[w].content \in Content
        /\ staged'[w].kind = staged[w].kind /\ staged'[w].task = staged[w].task
        /\ \A v \in Worker : v # w => staged'[v] = staged[v]
    BY <1>3, PatchTaskEffect
  <2>2. TypeOK'
    BY <1>1, <2>1 DEF TInv, TypeOK, rows
  <2>3. \A d \in Deleter : deleting[d] # staged[w].task
    BY <1>1 DEF RowLocked
  <2>4. staged[w].kind = "update" /\ staged[w].task \in Task
    BY <1>1 DEF TInv, StageShape
  <2>5. \A v \in Worker : v # w => pc'[v] = pc[v] /\ msg'[v] = msg[v] /\ staged'[v] = staged[v]
    BY <2>1
  <2>6. msg[w] # None
    BY <1>1 DEF TInv, MessageInv
  <2>7. pc'[w] = "save" /\ msg'[w] = msg[w]
    BY <2>1 DEF TInv, TypeOK
  <2> QED
    BY <1>1, <2>1, <2>2, <2>3, <2>4, <2>5, <2>6, <2>7, LocalTInv
<1> QED
  BY <1>2, <1>3

\* The tables after a commit have their types, and no row that another
\* reconcile has patched disappears.
LEMMA CommitTypes ==
    ASSUME TInv, NEW w \in Worker, pc[w] = "save", NEW x \in RemoteAtSave(w), Commit(w, x)
    PROVE  /\ emails' \subseteq Message /\ decisions' \subseteq Decision
           /\ deliveries' \subseteq Delivery /\ events' \subseteq Event
           /\ threads' \in [Thread -> ThreadRow]
           /\ tasks' \in [Task -> TaskRow \cup {None}] /\ drawn' \subseteq Task
           /\ x \in Task \cup {None}
           /\ \A y : Live(y) => Live(y)'
<1> DEFINE m == msg[w]
<1>1. m \in Message /\ m.email \in Email /\ m.thread \in Thread /\ m.index \in Nat
  BY MessageType DEF TInv, TypeOK, MessageInv
<1>2. staged[w] \in Stage /\ plan[w] \in Plan
  BY DEF TInv, TypeOK
<1>3. x \in Task \cup {None}
  BY <1>2 DEF RemoteAtSave, Stage, Task
<1>4. SavedOp(w) \in Operation
  BY <1>2 DEF SavedOp, Stage, Plan
<1>5. /\ staged[w].kind = "create" => x \in IngestTask \ drawn
      /\ staged[w].kind # "create" => x = staged[w].task
  BY DEF RemoteAtSave
<1>6. x # None => staged[w].content \in Content
  BY <1>5 DEF TInv, StageShape
<1>7. emails' \subseteq Message /\ decisions' \subseteq Decision
  BY <1>1, <1>3, <1>4 DEF Commit, TInv, TypeOK, Decision
<1>8. deliveries' \subseteq Delivery
  BY <1>1, <1>4 DEF Commit, Delivered, TInv, TypeOK, Delivery
<1>9. events' \subseteq Event
  BY <1>1, <1>2, <1>3 DEF Commit, EventsAfter, TInv, TypeOK, Event, Stage, Operation
<1>10. threads' \in [Thread -> ThreadRow]
  <2>1. threads[m.thread] \in ThreadRow
    BY <1>1 DEF TInv, TypeOK
  <2>2. SavedThread(threads[m.thread], w, x) \in ThreadRow
    BY <2>1, <1>1, <1>3, <1>6 DEF SavedThread, ThreadRow, Snapshot
  <2> QED
    BY <1>1, <2>2 DEF Commit, TInv, TypeOK
<1>11. tasks' \in [Task -> TaskRow \cup {None}] /\ \A y : Live(y) => Live(y)'
  <2>1. tasks \in [Task -> TaskRow \cup {None}] /\ tasks' = TasksAfter(w, x)
    BY DEF Commit, TInv, TypeOK
  <2>2. CASE staged[w].kind = "create"
    <3>1. x \in Task /\ staged[w].content \in Content
      BY <1>5, <2>2 DEF Task, TInv, StageShape
    <3>2. [thread |-> m.thread, content |-> staged[w].content] \in TaskRow
      BY <1>1, <3>1 DEF TaskRow
    <3>3. tasks' = [tasks EXCEPT ![x] = [thread |-> m.thread, content |-> staged[w].content]]
      BY <2>1, <2>2 DEF TasksAfter
    <3> QED
      BY <2>1, <3>1, <3>2, <3>3, NoneAssumption DEF Live, TaskRow
  <2>3. CASE staged[w].kind = "update"
    <3>1. x \in Task /\ Live(x) /\ staged[w].content \in Content
      BY <1>5, <2>3 DEF TInv, StageShape
    <3>2. tasks[x] \in TaskRow
      BY <2>1, <3>1 DEF Live
    <3>3. tasks' = [tasks EXCEPT ![x] = [tasks[x] EXCEPT !.content = staged[w].content]]
      BY <2>1, <2>3 DEF TasksAfter
    <3>4. [tasks[x] EXCEPT !.content = staged[w].content] \in TaskRow
      BY <3>1, <3>2 DEF TaskRow
    <3> QED
      BY <2>1, <3>1, <3>3, <3>4, NoneAssumption DEF Live, TaskRow
  <2>4. CASE staged[w].kind \notin {"create", "update"}
    BY <2>1, <2>4 DEF TasksAfter, Live
  <2> QED
    BY <2>2, <2>3, <2>4
<1>12. drawn' \subseteq Task
  BY <1>5 DEF Commit, TInv, TypeOK, Task
<1> QED
  BY <1>3, <1>7, <1>8, <1>9, <1>10, <1>11, <1>12

\* A commit, whatever becomes of the run.
LEMMA CommitTInv ==
    ASSUME TInv, NEW w \in Worker, pc[w] = "save", NEW x \in RemoteAtSave(w), Commit(w, x),
           UNCHANGED deleting, Advance(w) \/ Abandon(w)
    PROVE  TInv'
<1>1. /\ emails' \subseteq Message /\ decisions' \subseteq Decision
      /\ deliveries' \subseteq Delivery /\ events' \subseteq Event
      /\ threads' \in [Thread -> ThreadRow]
      /\ tasks' \in [Task -> TaskRow \cup {None}] /\ drawn' \subseteq Task
      /\ \A y : Live(y) => Live(y)'
  BY CommitTypes
<1>2. /\ pending' \in [Worker -> SUBSET Message]
      /\ pc' \in [Worker -> {"idle", "replay", "prior", "lock", "locked", "patch",
                             "save", "done", "failed"}]
      /\ msg' \in [Worker -> Message \cup {None}]
      /\ plan' \in [Worker -> Plan]
      /\ staged' \in [Worker -> Stage]
      /\ pc'[w] \in {"idle", "done", "failed"}
      /\ \A v \in Worker : v # w => pc'[v] = pc[v] /\ msg'[v] = msg[v]
                                    /\ staged'[v] = staged[v]
  <2>1. CASE Advance(w)
    BY <2>1, AdvanceTInv DEF TInv
  <2>2. CASE Abandon(w)
    <3>1. NoPlan \in Plan /\ NoStage \in Stage
      BY EmptyTypes
    <3> QED
      BY <2>2, <3>1 DEF Abandon, TInv, TypeOK
  <2> QED
    BY <2>1, <2>2
<1>3. TypeOK'
  BY <1>1, <1>2 DEF TInv, TypeOK
<1>4. MessageInv'
  BY <1>2 DEF TInv, MessageInv
<1>5. StageShape'
  BY <1>1, <1>2 DEF TInv, StageShape
<1> QED
  BY <1>3, <1>4, <1>5 DEF TInv

\* The Task API.
LEMMA PostTaskTInv ==
    ASSUME TInv, NEW th \in Thread, NEW c \in Content, PostTask(th, c)
    PROVE  TInv'
<1>1. PICK x \in ApiTask \ drawn :
        /\ tasks' = [tasks EXCEPT ![x] = [thread |-> th, content |-> c]]
        /\ drawn' = drawn \cup {x}
  BY DEF PostTask
<1>2. x \in Task /\ [thread |-> th, content |-> c] \in TaskRow
  BY DEF Task, TaskRow
<1>3. UNCHANGED <<emails, decisions, deliveries, events, threads, locals, deleting>>
  BY DEF PostTask
<1>4. \A y : Live(y) => Live(y)'
  BY <1>1, <1>2, NoneAssumption DEF TInv, TypeOK, Live, TaskRow
<1>5. TypeOK'
  BY <1>1, <1>2, <1>3 DEF TInv, TypeOK, locals
<1> QED
  BY <1>3, <1>4, <1>5 DEF TInv, MessageInv, StageShape, locals

LEMMA PatchDirectlyTInv ==
    ASSUME TInv, NEW x \in Task, NEW c \in Content, PatchTaskDirectly(x, c)
    PROVE  TInv'
<1>1. /\ Live(x) /\ tasks' = [tasks EXCEPT ![x] = [tasks[x] EXCEPT !.content = c]]
      /\ UNCHANGED <<emails, decisions, deliveries, events, threads, drawn, locals, deleting>>
  BY DEF PatchTaskDirectly
<1>2. [tasks[x] EXCEPT !.content = c] \in TaskRow
  BY <1>1 DEF TInv, TypeOK, Live, TaskRow
<1>3. \A y : Live(y) => Live(y)'
  BY <1>1, <1>2, NoneAssumption DEF TInv, TypeOK, Live, TaskRow
<1>4. TypeOK'
  BY <1>1, <1>2 DEF TInv, TypeOK, locals
<1> QED
  BY <1>1, <1>3, <1>4 DEF TInv, MessageInv, StageShape, locals

LEMMA DeleteTaskTInv ==
    ASSUME TInv, NEW d \in Deleter, NEW x \in Task, DeleteTask(d, x)
    PROVE  TInv'
<1>1. /\ ~RowLocked(x) /\ deleting' = [deleting EXCEPT ![d] = x]
      /\ UNCHANGED <<rows, locals>>
  BY DEF DeleteTask
<1>2. TypeOK'
  BY <1>1 DEF TInv, TypeOK, rows, locals
<1>3. \A w \in Worker : pc[w] = "save" /\ staged[w].kind = "update" => staged[w].task # x
  BY <1>1 DEF RowLocked
<1>4. StageShape'
  BY <1>1, <1>3 DEF TInv, TypeOK, StageShape, Live, rows, locals
<1> QED
  BY <1>1, <1>2, <1>4 DEF TInv, MessageInv, locals

LEMMA FinishDeleteTInv ==
    ASSUME TInv, NEW d \in Deleter, FinishDelete(d)
    PROVE  TInv'
<1> DEFINE x == deleting[d]
<1>1. /\ x \in Task
      /\ threads' = [th \in Thread |->
                       IF th \in MappedTo(x)
                       THEN [threads[th] EXCEPT !.task = None, !.snapshot = None]
                       ELSE threads[th]]
      /\ tasks' = [tasks EXCEPT ![x] = None]
      /\ deleting' = [deleting EXCEPT ![d] = None]
      /\ UNCHANGED <<emails, decisions, deliveries, events, drawn, locals>>
  BY DEF FinishDelete, TInv, TypeOK
<1>2. threads' \in [Thread -> ThreadRow]
  <2>1. \A th \in Thread : [threads[th] EXCEPT !.task = None, !.snapshot = None] \in ThreadRow
    BY DEF TInv, TypeOK, ThreadRow
  <2> QED
    BY <1>1, <2>1 DEF TInv, TypeOK
<1>3. TypeOK'
  BY <1>1, <1>2 DEF TInv, TypeOK, locals
<1>4. \A w \in Worker : pc[w] = "save" /\ staged[w].kind = "update" => staged[w].task # x
  BY DEF TInv, StageShape
<1>5. \A w \in Worker : pc[w] = "save" /\ staged[w].kind = "update" => staged[w].task # None
  BY NoneAssumption DEF TInv, StageShape, Live
<1>6. \A y : Live(y) /\ y # x => Live(y)'
  BY <1>1 DEF TInv, TypeOK, Live
<1>7. \A w \in Worker : pc[w] = "save" /\ staged[w].kind = "update"
                          => Live(staged[w].task)' /\ \A e \in Deleter : deleting'[e] # staged[w].task
  BY <1>1, <1>4, <1>5, <1>6 DEF TInv, TypeOK, StageShape, Live, locals
<1>8. StageShape'
  BY <1>1, <1>7 DEF TInv, StageShape, locals
<1> QED
  BY <1>1, <1>3, <1>8 DEF TInv, MessageInv, locals

LEMMA VictimDeleteTInv ==
    ASSUME TInv, NEW d \in Deleter, DeadlockVictimIsDelete(d)
    PROVE  TInv'
<1>1. deleting' = [deleting EXCEPT ![d] = None] /\ UNCHANGED <<rows, locals>>
  BY DEF DeadlockVictimIsDelete
<1>2. TypeOK'
  BY <1>1 DEF TInv, TypeOK, rows, locals
<1>3. \A w \in Worker : pc[w] = "save" /\ staged[w].kind = "update" => staged[w].task # None
  BY NoneAssumption DEF TInv, StageShape, Live
<1>4. StageShape'
  BY <1>1, <1>3 DEF TInv, TypeOK, StageShape, Live, rows, locals
<1> QED
  BY <1>1, <1>2, <1>4 DEF TInv, MessageInv, locals

-------------------------------------------------------------------------------
(* Type correctness *)

LEMMA NextTInv == TInv /\ [Next]_vars => TInv'
<1> SUFFICES ASSUME TInv, [Next]_vars PROVE TInv'
  OBVIOUS
<1>1. ASSUME NEW w \in Worker, Step(w) PROVE TInv'
  <2>1. CASE Inspect(w)
    BY <2>1, InspectTInv
  <2>2. CASE RecordReplay(w)
    BY <2>2, RecordReplayTInv
  <2>3. CASE ReadPriorAndRoute(w)
    BY <2>3, ReadPriorTInv
  <2>4. CASE LockThread(w)
    BY <2>4, LockThreadTInv
  <2>5. CASE FoundUnchanged(w)
    BY <2>5, FoundUnchangedTInv
  <2>6. CASE FoundConflict(w) \/ Refuse(w) \/ SaveClash(w)
    BY <2>6, AbandonTInv DEF FoundConflict, Refuse, SaveClash
  <2>7. CASE KeepTask(w)
    BY <2>7, KeepTaskTInv
  <2>8. CASE StageCreate(w)
    BY <2>8, StageCreateTInv
  <2>9. CASE StagePatch(w)
    BY <2>9, StagePatchTInv
  <2>10. CASE PatchTask(w)
    BY <2>10, PatchTaskTInv
  <2>11. CASE SaveOutcome(w)
    BY <2>11, CommitTInv DEF SaveOutcome
  <2> QED
    BY <1>1, <2>1, <2>2, <2>3, <2>4, <2>5, <2>6, <2>7, <2>8, <2>9, <2>10, <2>11 DEF Step
<1>2. ASSUME NEW w \in Worker, Fault(w) PROVE TInv'
  <2>1. CASE SaveUnacknowledged(w)
    BY <2>1, CommitTInv DEF SaveUnacknowledged
  <2>2. CASE LoseConnection(w)
    BY <2>2, AbandonTInv DEF LoseConnection
  <2> QED
    BY <1>2, <2>1, <2>2 DEF Fault
<1>3. ASSUME TaskApi PROVE TInv'
  BY <1>3, PostTaskTInv, PatchDirectlyTInv, DeleteTaskTInv, FinishDeleteTInv DEF TaskApi
<1>4. ASSUME DeadlockDetector PROVE TInv'
  <2>1. ASSUME NEW w \in Worker, DeadlockVictimIsIngest(w) PROVE TInv'
    BY <2>1, AbandonTInv DEF DeadlockVictimIsIngest
  <2> QED
    BY <1>4, <2>1, VictimDeleteTInv DEF DeadlockDetector
<1>5. CASE UNCHANGED vars
  BY <1>5 DEF vars, rows, locals, TInv, TypeOK, MessageInv, StageShape, Live
<1> QED
  BY <1>1, <1>2, <1>3, <1>4, <1>5 DEF Next

LEMMA AlwaysTInv == Spec => []TInv
BY InitTInv, NextTInv, PTL DEF Spec

\* The tables and the runs keep their types.
THEOREM TypeCorrect == Spec => []TypeOK
<1>1. TInv => TypeOK
  BY DEF TInv
<1> QED
  BY <1>1, AlwaysTInv, PTL

-------------------------------------------------------------------------------
(* One task per thread *)

\* One transaction at a time holds a thread row.
LockInv ==
    \A v, w \in Worker :
        pc[v] \in InTransaction /\ pc[w] \in InTransaction
          /\ msg[v].thread = msg[w].thread => v = w

\* The id of a task that exists is not drawn again.
DrawnInv == \A x \in Task : Live(x) => x \in drawn

\* A thread's snapshot is one of the task it is mapped to.
SnapshotInv ==
    \A th \in Thread :
        /\ threads[th].snapshot = None <=> threads[th].task = None
        /\ threads[th].snapshot # None => threads[th].snapshot.task = threads[th].task

\* Task x was drawn, and while it exists it is a task of thread th.
BelongsTo(x, th) == x \in drawn /\ (Live(x) => tasks[x].thread = th)

\* A thread is mapped to a task of its own, or to one that has gone.
MappedInv == \A th \in Thread : threads[th].task # None => BelongsTo(threads[th].task, th)

\* What run w has staged fits the row of the thread that it has locked: a new
\* task where none is mapped; else the mapped task, or one of the Task API
\* that takes the place of a mapping which is not to a task of ingestion.
StagedFits(w) ==
    LET row == threads[msg[w].thread]  x == staged[w].task IN
    /\ staged[w].kind = "create" => row.task = None
    /\ staged[w].kind # "create" =>
         x = row.task \/ (x \in ApiTask /\ row.task \notin IngestTask)
    /\ x # None => BelongsTo(x, msg[w].thread)

StagedInv == \A w \in Worker : pc[w] \in {"patch", "save"} => StagedFits(w)

SInv ==
    /\ LockInv /\ DrawnInv /\ SnapshotInv /\ MappedInv /\ StagedInv
    /\ IngestedTaskMapped /\ ReplayNeverClashes

\* The two formulas that the runs check follow from each other's parts.
LEMMA MappedIsOne == TypeOK /\ IngestedTaskMapped => OneIngestedTask
<1> SUFFICES ASSUME TypeOK, IngestedTaskMapped,
                    NEW x \in IngestTask, NEW y \in IngestTask,
                    Live(x), Live(y), tasks[x].thread = tasks[y].thread
             PROVE  x = y
  BY DEF OneIngestedTask
<1>1. tasks[x] \in TaskRow
  BY DEF TypeOK, Live
<1>2. tasks[x].thread \in Thread
  BY <1>1 DEF TaskRow
<1> QED
  BY <1>2 DEF IngestedTaskMapped

LEMMA InitSInv == Init => SInv
<1> SUFFICES ASSUME Init PROVE SInv
  OBVIOUS
<1>1. /\ \A th \in Thread : threads[th].task = None /\ threads[th].snapshot = None
      /\ \A x \in Task : ~Live(x)
      /\ \A w \in Worker : pc[w] = "idle"
  BY DEF Init, EmptyThread, Live
<1>2. \A x \in IngestTask : x \in Task /\ x # None
  BY NoneAssumption DEF Task
<1>3. IngestedTaskMapped
  BY <1>1, <1>2 DEF IngestedTaskMapped
<1> QED
  BY <1>1, <1>3 DEF SInv, LockInv, DrawnInv, SnapshotInv, MappedInv, StagedInv,
                    ReplayNeverClashes, InTransaction

-------------------------------------------------------------------------------
(* Steps of a run that change no task, thread or e-mail *)

\* Run w takes no lock and stages nothing.
LEMMA QuietSInv ==
    ASSUME TInv, SInv, NEW w \in Worker, UNCHANGED <<emails, threads, tasks, drawn>>,
           \A v \in Worker : v # w => /\ pc'[v] = pc[v] /\ msg'[v] = msg[v]
                                      /\ staged'[v] = staged[v],
           pc'[w] \in InTransaction => pc[w] \in InTransaction /\ msg'[w] = msg[w],
           pc'[w] \in {"patch", "save"} =>
               /\ pc[w] \in {"patch", "save"}
               /\ staged'[w].kind = staged[w].kind /\ staged'[w].task = staged[w].task
    PROVE  SInv'
<1>1. LockInv'
  BY DEF SInv, LockInv
<1>2. DrawnInv' /\ SnapshotInv' /\ MappedInv' /\ IngestedTaskMapped'
  BY DEF SInv, DrawnInv, SnapshotInv, MappedInv, BelongsTo, IngestedTaskMapped, Live
<1>3. \A v \in Worker : pc'[v] \in {"patch", "save"} =>
          /\ pc[v] \in {"patch", "save"} /\ msg'[v] = msg[v]
          /\ staged'[v].kind = staged[v].kind /\ staged'[v].task = staged[v].task
  BY DEF InTransaction
<1>4. StagedInv'
  BY <1>3 DEF SInv, StagedInv, StagedFits, BelongsTo, Live
<1>5. ReplayNeverClashes'
  BY <1>3 DEF SInv, ReplayNeverClashes
<1> QED
  BY <1>1, <1>2, <1>4, <1>5 DEF SInv

LEMMA AbandonSInv ==
    ASSUME TInv, SInv, NEW w \in Worker, Abandon(w), UNCHANGED <<emails, threads, tasks, drawn>>
    PROVE  SInv'
<1>1. \A v \in Worker : v # w => pc'[v] = pc[v] /\ msg'[v] = msg[v] /\ staged'[v] = staged[v]
  BY DEF Abandon, TInv, TypeOK
<1>2. pc'[w] = "failed"
  BY DEF Abandon, TInv, TypeOK
<1> QED
  BY <1>1, <1>2, QuietSInv DEF InTransaction

\* A step that only moves run w from one label to another.
LEMMA GotoSInv ==
    ASSUME TInv, SInv, NEW w \in Worker, NEW label, Goto(w, label),
           UNCHANGED <<emails, threads, tasks, drawn>>, UNCHANGED <<msg, staged>>,
           label \in InTransaction => pc[w] \in InTransaction,
           label \in {"patch", "save"} => pc[w] \in {"patch", "save"}
    PROVE  SInv'
<1>1. /\ pc'[w] = label
      /\ \A v \in Worker : v # w => pc'[v] = pc[v]
  BY DEF Goto, TInv, TypeOK
<1> QED
  BY <1>1, QuietSInv

LEMMA InspectSInv ==
    ASSUME TInv, SInv, NEW w \in Worker, Inspect(w)
    PROVE  SInv'
<1>1. PICK m \in pending[w] :
        \/ Conflicts(m) /\ Fail(w)
        \/ /\ msg' = [msg EXCEPT ![w] = m]
           /\ Goto(w, IF Stored(m) THEN "replay" ELSE "prior")
           /\ UNCHANGED <<rows, pending, plan, staged>>
  BY DEF Inspect
<1>2. CASE Fail(w)
  BY <1>2, AbandonSInv DEF Fail, rows
<1>3. CASE ~Fail(w)
  <2>1. /\ UNCHANGED <<rows, staged>>
        /\ pc'[w] \in {"replay", "prior"}
        /\ \A v \in Worker : v # w => pc'[v] = pc[v] /\ msg'[v] = msg[v]
    BY <1>1, <1>3 DEF Goto, TInv, TypeOK
  <2> QED
    BY <2>1, QuietSInv DEF InTransaction, rows
<1> QED
  BY <1>2, <1>3

LEMMA RecordReplaySInv ==
    ASSUME TInv, SInv, NEW w \in Worker, RecordReplay(w)
    PROVE  SInv'
<1>1. Advance(w) /\ UNCHANGED <<emails, threads, tasks, drawn>>
  BY DEF RecordReplay
<1> QED
  BY <1>1, AdvanceTInv, QuietSInv DEF TInv, InTransaction

LEMMA LockThreadSInv ==
    ASSUME TInv, SInv, NEW w \in Worker, LockThread(w)
    PROVE  SInv'
<1>1. /\ pc' = [pc EXCEPT ![w] = "locked"] /\ UNCHANGED <<rows, msg, staged>>
      /\ \A v \in Worker : pc[v] \in InTransaction => msg[v].thread # msg[w].thread
  BY DEF LockThread, Goto, HoldsThread
<1>2. LockInv'
  BY <1>1 DEF SInv, LockInv, InTransaction, TInv, TypeOK
<1>3. \A v \in Worker : pc'[v] \in {"patch", "save"} => pc[v] \in {"patch", "save"}
  BY <1>1 DEF TInv, TypeOK
<1>4. StagedInv' /\ ReplayNeverClashes'
  BY <1>1, <1>3 DEF SInv, StagedInv, StagedFits, BelongsTo, Live, ReplayNeverClashes, rows
<1>5. DrawnInv' /\ SnapshotInv' /\ MappedInv' /\ IngestedTaskMapped'
  BY <1>1 DEF SInv, DrawnInv, SnapshotInv, MappedInv, BelongsTo, IngestedTaskMapped, Live, rows
<1> QED
  BY <1>2, <1>4, <1>5 DEF SInv

\* Staging an outcome that fits the thread's row.
LEMMA StageSInv ==
    ASSUME TInv, SInv, NEW w \in Worker, IsNew(w),
           NEW label \in {"patch", "save"}, NEW kind, NEW x, NEW content,
           StageFor(w, label, kind, x, content),
           kind = "create" => threads[msg[w].thread].task = None,
           kind # "create" => \/ x = threads[msg[w].thread].task
                              \/ /\ x \in ApiTask
                                 /\ threads[msg[w].thread].task \notin IngestTask,
           x # None => BelongsTo(x, msg[w].thread)
    PROVE  SInv'
<1>1. /\ UNCHANGED <<rows, msg>> /\ pc[w] = "locked" /\ pc'[w] = label
      /\ staged'[w] = [kind |-> kind, task |-> x, content |-> content]
      /\ \A v \in Worker : v # w => pc'[v] = pc[v] /\ staged'[v] = staged[v]
  BY DEF IsNew, StageFor, Goto, TInv, TypeOK
<1>2. \A n \in emails : ~SameKey(msg[w], n)
  BY DEF IsNew, Conflicts
<1>3. LockInv'
  BY <1>1 DEF SInv, LockInv, InTransaction
<1>4. DrawnInv' /\ SnapshotInv' /\ MappedInv' /\ IngestedTaskMapped'
  BY <1>1 DEF SInv, DrawnInv, SnapshotInv, MappedInv, BelongsTo, IngestedTaskMapped, Live, rows
<1>5. StagedInv'
  <2> SUFFICES ASSUME NEW v \in Worker, pc'[v] \in {"patch", "save"} PROVE StagedFits(v)'
    BY DEF StagedInv
  <2>1. CASE v = w
    BY <1>1, <2>1 DEF StagedFits, BelongsTo, Live, rows
  <2>2. CASE v # w
    BY <1>1, <2>2 DEF SInv, StagedInv, StagedFits, BelongsTo, Live, rows
  <2> QED
    BY <2>1, <2>2
<1>6. ReplayNeverClashes'
  BY <1>1, <1>2 DEF SInv, ReplayNeverClashes, rows
<1> QED
  BY <1>3, <1>4, <1>5, <1>6 DEF SInv

LEMMA KeepTaskSInv ==
    ASSUME TInv, SInv, NEW w \in Worker, KeepTask(w)
    PROVE  SInv'
<1> DEFINE row == threads[msg[w].thread]
<1>1. IsNew(w) /\ plan[w].op # "create"
  BY DEF KeepTask
<1>2. msg[w].thread \in Thread
  BY <1>1, MessageType DEF IsNew, TInv, TypeOK, MessageInv
<1>3. /\ row.snapshot = None <=> row.task = None
      /\ row.snapshot # None => row.snapshot.task = row.task
      /\ row.task # None => BelongsTo(row.task, msg[w].thread)
  BY <1>2 DEF SInv, SnapshotInv, MappedInv
<1>4. CASE row.snapshot = None
  <2>1. StageFor(w, "save", plan[w].op, None, None)
    BY <1>4 DEF KeepTask
  <2> QED
    BY <1>1, <1>3, <1>4, <2>1, StageSInv
<1>5. CASE row.snapshot # None
  <2>1. StageFor(w, "save", plan[w].op, row.snapshot.task, row.snapshot.content)
    BY <1>5 DEF KeepTask
  <2> QED
    BY <1>1, <1>3, <1>5, <2>1, StageSInv
<1> QED
  BY <1>4, <1>5

LEMMA StageCreateSInv ==
    ASSUME TInv, SInv, NEW w \in Worker, StageCreate(w)
    PROVE  SInv'
<1>1. IsNew(w) /\ Remote(msg[w].thread) = None
  BY DEF StageCreate, Actionable
<1>2. msg[w].thread \in Thread
  BY <1>1, MessageType DEF IsNew, TInv, TypeOK, MessageInv
<1>3. threads[msg[w].thread].task = None
  BY <1>1, <1>2, RemoteType, NoneAssumption DEF Listed, TInv
<1>4. StageFor(w, "save", "create", None, plan[w].want)
  BY DEF StageCreate
<1> QED
  BY <1>1, <1>3, <1>4, StageSInv

\* The task that reconcile finds is the mapped one, or one of the Task API.
LEMMA RemoteFits ==
    ASSUME TInv, SInv, NEW w \in Worker, msg[w].thread \in Thread,
           RefusalOf(w) = "none", Remote(msg[w].thread) # None
    PROVE  LET row == threads[msg[w].thread]  x == Remote(msg[w].thread) IN
           /\ x = row.task \/ (x \in ApiTask /\ row.task \notin IngestTask)
           /\ BelongsTo(x, msg[w].thread)
<1> DEFINE th == msg[w].thread
           x == Remote(th)
<1>1. CASE Listed(th) = {}
  <2>1. x = threads[th].task
    BY <1>1, RemoteType DEF TInv
  <2> QED
    BY <2>1 DEF SInv, MappedInv
<1>2. CASE Listed(th) # {}
  <2>1. x \in Task /\ Live(x) /\ tasks[x].thread = th
    BY <1>2, RemoteType DEF TInv, Listed
  <2>2. BelongsTo(x, th)
    BY <2>1 DEF SInv, DrawnInv, BelongsTo
  <2>3. \A y \in Listed(th) : y = x
    BY <1>2, RemoteType DEF RefusalOf, TInv
  <2>4. threads[th].task \in IngestTask => threads[th].task = x
    BY <2>3 DEF SInv, IngestedTaskMapped, Listed, Task
  <2>5. x \in IngestTask => threads[th].task = x
    BY <2>1 DEF SInv, IngestedTaskMapped
  <2> QED
    BY <2>1, <2>2, <2>4, <2>5 DEF Task
<1> QED
  BY <1>1, <1>2

LEMMA StagePatchSInv ==
    ASSUME TInv, SInv, NEW w \in Worker, StagePatch(w)
    PROVE  SInv'
<1> DEFINE x == Remote(msg[w].thread)
<1>1. IsNew(w) /\ x # None /\ RefusalOf(w) = "none"
  BY DEF StagePatch, Actionable
<1>2. msg[w].thread \in Thread
  BY <1>1, MessageType DEF IsNew, TInv, TypeOK, MessageInv
<1>3. /\ \/ x = threads[msg[w].thread].task
         \/ x \in ApiTask /\ threads[msg[w].thread].task \notin IngestTask
      /\ BelongsTo(x, msg[w].thread)
  BY <1>1, <1>2, RemoteFits
<1>4. CASE StageFor(w, "patch", "update", x, tasks[x].content)
  BY <1>1, <1>3, <1>4, StageSInv
<1>5. CASE StageFor(w, "save", "noop", x, plan[w].want)
  BY <1>1, <1>3, <1>5, StageSInv
<1> QED
  BY <1>4, <1>5 DEF StagePatch

LEMMA PatchTaskSInv ==
    ASSUME TInv, SInv, NEW w \in Worker, PatchTask(w)
    PROVE  SInv'
<1>1. pc[w] = "patch"
  BY DEF PatchTask
<1>2. CASE Fail(w)
  BY <1>2, AbandonSInv DEF Fail, rows
<1>3. CASE ~Fail(w)
  <2>1. /\ pc' = [pc EXCEPT ![w] = "save"] /\ UNCHANGED <<rows, pending, msg, plan>>
        /\ staged'[w].kind = staged[w].kind /\ staged'[w].task = staged[w].task
        /\ \A v \in Worker : v # w => staged'[v] = staged[v]
    BY <1>3, PatchTaskEffect
  <2>2. \A v \in Worker : v # w => pc'[v] = pc[v] /\ msg'[v] = msg[v]
    BY <2>1 DEF TInv, TypeOK
  <2> QED
    BY <1>1, <2>1, <2>2, QuietSInv DEF rows, InTransaction
<1> QED
  BY <1>2, <1>3

-------------------------------------------------------------------------------
(* A commit *)

\* What a commit does to the tasks and to its thread's row.
LEMMA CommitEffect ==
    ASSUME TInv, SInv, NEW w \in Worker, pc[w] = "save",
           NEW x \in RemoteAtSave(w), Commit(w, x)
    PROVE  LET th == msg[w].thread IN
           /\ th \in Thread
           /\ \A y \in Task : y # x => tasks'[y] = tasks[y]
           /\ staged[w].kind = "create" =>
                /\ x \in IngestTask \ drawn /\ threads[th].task = None
                /\ Live(x)' /\ tasks'[x].thread = th /\ drawn' = drawn \cup {x}
           /\ staged[w].kind # "create" =>
                /\ x = threads[th].task \/ (x \in ApiTask /\ threads[th].task \notin IngestTask)
                /\ x # None => BelongsTo(x, th)
                /\ drawn' = drawn
                /\ \A y \in Task : /\ Live(y)' <=> Live(y)
                                   /\ Live(y) => tasks'[y].thread = tasks[y].thread
           /\ \A u \in Thread : u # th => threads'[u] = threads[u]
           /\ x # None => threads'[th].task = x /\ threads'[th].snapshot # None
                          /\ threads'[th].snapshot.task = x
           /\ x = None => threads'[th].task = threads[th].task
                          /\ threads'[th].snapshot = threads[th].snapshot
<1> DEFINE th == msg[w].thread
<1>1. th \in Thread
  BY MessageType DEF TInv, TypeOK, MessageInv
<1>2. StagedFits(w)
  BY DEF SInv, StagedInv
<1>3. /\ staged[w].kind = "create" => x \in IngestTask \ drawn
      /\ staged[w].kind # "create" => x = staged[w].task
  BY DEF RemoteAtSave
<1>4. x # None => x \in Task /\ staged[w].content \in Content
  BY <1>3, CommitTypes DEF TInv, StageShape
<1>5. threads' = [threads EXCEPT ![th] = SavedThread(threads[th], w, x)]
  BY DEF Commit
<1>6. /\ threads'[th] = SavedThread(threads[th], w, x)
      /\ \A u \in Thread : u # th => threads'[u] = threads[u]
  BY <1>1, <1>5 DEF TInv, TypeOK
<1>7. /\ x # None => threads'[th].task = x /\ threads'[th].snapshot # None
                     /\ threads'[th].snapshot.task = x
      /\ x = None => threads'[th].task = threads[th].task
                     /\ threads'[th].snapshot = threads[th].snapshot
  BY <1>4, <1>6, NoneAssumption DEF SavedThread
<1>8. CASE staged[w].kind = "create"
  <2>1. tasks' = [tasks EXCEPT ![x] = [thread |-> th, content |-> staged[w].content]]
    BY <1>8 DEF Commit, TasksAfter
  <2>2. x \in Task /\ x # None
    BY <1>3, <1>8, NoneAssumption DEF Task
  <2>3. [thread |-> th, content |-> staged[w].content] # None
    BY <1>1, <1>4, <2>2, NoneAssumption
  <2>4. drawn' = drawn \cup {x}
    BY <1>8 DEF Commit
  <2>5. Live(x)' /\ tasks'[x].thread = th /\ \A y \in Task : y # x => tasks'[y] = tasks[y]
    BY <2>1, <2>2, <2>3 DEF Live, TInv, TypeOK
  <2> QED
    BY <1>1, <1>2, <1>3, <1>6, <1>7, <1>8, <2>4, <2>5 DEF StagedFits
<1>9. CASE staged[w].kind = "update"
  <2>1. tasks' = [tasks EXCEPT ![x] = [tasks[x] EXCEPT !.content = staged[w].content]]
    BY <1>9 DEF Commit, TasksAfter
  <2>2. x \in Task /\ Live(x)
    BY <1>3, <1>9 DEF TInv, StageShape
  <2>3. tasks[x] \in TaskRow
    BY <2>2 DEF Live, TInv, TypeOK
  <2>4. tasks'[x] \in TaskRow /\ tasks'[x].thread = tasks[x].thread
    BY <1>4, <2>1, <2>2, <2>3, NoneAssumption DEF TaskRow, TInv, TypeOK
  <2>5. \A y \in Task : y # x => tasks'[y] = tasks[y]
    BY <2>1 DEF TInv, TypeOK
  <2>6. \A y \in Task : /\ Live(y)' <=> Live(y)
                        /\ Live(y) => tasks'[y].thread = tasks[y].thread
    BY <2>2, <2>4, <2>5, NoneAssumption DEF Live, TaskRow
  <2>7. drawn' = drawn
    BY <1>9 DEF Commit
  <2> QED
    BY <1>1, <1>2, <1>3, <1>6, <1>7, <1>9, <2>5, <2>6, <2>7 DEF StagedFits
<1>10. CASE staged[w].kind \notin {"create", "update"}
  <2>1. tasks' = tasks /\ drawn' = drawn
    BY <1>10 DEF Commit, TasksAfter
  <2> QED
    BY <1>1, <1>2, <1>3, <1>6, <1>7, <1>10, <2>1 DEF StagedFits, Live
<1> QED
  BY <1>8, <1>9, <1>10

LEMMA CommitSInv ==
    ASSUME TInv, SInv, NEW w \in Worker, pc[w] = "save",
           NEW x \in RemoteAtSave(w), Commit(w, x), Advance(w) \/ Abandon(w)
    PROVE  SInv'
<1> DEFINE th == msg[w].thread
           creates == staged[w].kind = "create"
<1>1. /\ pc'[w] \notin InTransaction
      /\ \A v \in Worker : v # w => pc'[v] = pc[v] /\ msg'[v] = msg[v] /\ staged'[v] = staged[v]
  <2>1. CASE Advance(w)
    BY <2>1, AdvanceTInv DEF TInv, InTransaction
  <2>2. CASE Abandon(w)
    BY <2>2 DEF Abandon, InTransaction, TInv, TypeOK
  <2> QED
    BY <2>1, <2>2
<1>2. /\ th \in Thread
      /\ \A y \in Task : y # x => tasks'[y] = tasks[y]
      /\ creates =>
           /\ x \in IngestTask \ drawn /\ threads[th].task = None
           /\ Live(x)' /\ tasks'[x].thread = th /\ drawn' = drawn \cup {x}
      /\ ~creates =>
           /\ x = threads[th].task \/ (x \in ApiTask /\ threads[th].task \notin IngestTask)
           /\ x # None => BelongsTo(x, th)
           /\ drawn' = drawn
           /\ \A y \in Task : /\ Live(y)' <=> Live(y)
                              /\ Live(y) => tasks'[y].thread = tasks[y].thread
  BY CommitEffect
<1>3. /\ \A u \in Thread : u # th => threads'[u] = threads[u]
      /\ x # None => threads'[th].task = x /\ threads'[th].snapshot # None
                     /\ threads'[th].snapshot.task = x
      /\ x = None => threads'[th].task = threads[th].task
                     /\ threads'[th].snapshot = threads[th].snapshot
  BY CommitEffect
<1>4. \A v \in Worker : pc'[v] \in InTransaction =>
         v # w /\ pc[v] = pc'[v] /\ msg[v].thread # th /\ msg'[v] = msg[v]
         /\ staged'[v] = staged[v]
  BY <1>1 DEF SInv, LockInv, InTransaction
<1>5. \A y \in Task : Live(y)' <=> (Live(y) \/ (creates /\ y = x))
  BY <1>2 DEF Live
<1>6. \A y \in Task : Live(y) => y \in drawn /\ tasks'[y].thread = tasks[y].thread
  BY <1>2 DEF SInv, DrawnInv
<1>7. x # None => x \in Task
  BY CommitTypes
<1>8. x # None => x \in drawn' /\ (Live(x)' => tasks'[x].thread = th)
  BY <1>2, <1>5, <1>6, <1>7 DEF BelongsTo
<1>9. \A y \in Task : y \in drawn =>
         y \in drawn' /\ (Live(y)' => Live(y) /\ tasks'[y].thread = tasks[y].thread)
  BY <1>2, <1>5, <1>6
<1>10. LockInv'
  BY <1>1, <1>4 DEF SInv, LockInv
<1>11. DrawnInv'
  BY <1>2, <1>5, <1>6 DEF DrawnInv
<1>12. SnapshotInv'
  BY <1>3 DEF SInv, SnapshotInv
<1>13. MappedInv'
  <2> SUFFICES ASSUME NEW u \in Thread, threads'[u].task # None
               PROVE  /\ threads'[u].task \in drawn'
                      /\ Live(threads[u].task)' => tasks'[threads'[u].task].thread = u
    BY DEF MappedInv, BelongsTo
  <2>1. CASE u = th /\ x # None
    <3>1. threads'[u].task = x
      BY <1>3, <2>1
    <3> QED
      BY <1>8, <2>1, <3>1 DEF Live
  <2>2. CASE ~(u = th /\ x # None)
    <3>1. threads'[u].task = threads[u].task
      BY <1>3, <2>2
    <3>2. threads[u].task \in Task /\ BelongsTo(threads[u].task, u)
      BY <3>1 DEF SInv, MappedInv, TInv, TypeOK, ThreadRow
    <3> QED
      BY <1>9, <3>1, <3>2 DEF BelongsTo, Live
  <2> QED
    BY <2>1, <2>2
<1>14. StagedInv'
  <2> SUFFICES ASSUME NEW v \in Worker, pc'[v] \in {"patch", "save"} PROVE StagedFits(v)'
    BY DEF StagedInv
  <2>1. v # w /\ pc[v] = pc'[v] /\ msg[v].thread # th /\ msg'[v] = msg[v] /\ staged'[v] = staged[v]
    BY <1>4 DEF InTransaction
  <2>2. StagedFits(v) /\ msg[v].thread \in Thread /\ staged[v].task \in Task \cup {None}
    BY <2>1, MessageType DEF SInv, StagedInv, TInv, TypeOK, MessageInv, Stage
  <2>3. threads'[msg[v].thread] = threads[msg[v].thread]
    BY <1>3, <2>1, <2>2
  <2>4. staged[v].task # None => BelongsTo(staged[v].task, msg[v].thread)'
    BY <1>9, <2>1, <2>2 DEF StagedFits, BelongsTo, Live
  <2> QED
    BY <2>1, <2>2, <2>3, <2>4 DEF StagedFits, BelongsTo
<1>15. IngestedTaskMapped'
  <2> SUFFICES ASSUME NEW u \in Thread, NEW y \in IngestTask
               PROVE  threads'[u].task = y <=> Live(y)' /\ tasks'[y].thread = u
    BY DEF IngestedTaskMapped
  <2>1. threads[u].task = y <=> Live(y) /\ tasks[y].thread = u
    BY DEF SInv, IngestedTaskMapped
  <2>2. y \in Task /\ y # None
    BY NoneAssumption DEF Task
  <2>3. CASE creates
    <3>1. x # None /\ ~Live(x)
      BY <1>2, <2>3, NoneAssumption DEF SInv, DrawnInv, Task
    <3> QED
      BY <1>2, <1>3, <1>5, <1>6, <2>1, <2>2, <2>3, <3>1
  <2>4. CASE ~creates
    BY <1>2, <1>3, <2>1, <2>2, <2>4, IdAssumption
  <2> QED
    BY <2>3, <2>4
<1>16. ReplayNeverClashes'
  <2>1. emails' = emails \cup {msg[w]}
    BY DEF Commit
  <2> QED
    BY <1>4, <2>1 DEF SInv, ReplayNeverClashes, InTransaction
<1> QED
  BY <1>10, <1>11, <1>12, <1>13, <1>14, <1>15, <1>16 DEF SInv

-------------------------------------------------------------------------------
(* The Task API *)

LEMMA PostTaskSInv ==
    ASSUME TInv, SInv, NEW th \in Thread, NEW c \in Content, PostTask(th, c)
    PROVE  SInv'
<1>1. PICK x \in ApiTask \ drawn :
        /\ tasks' = [tasks EXCEPT ![x] = [thread |-> th, content |-> c]]
        /\ drawn' = drawn \cup {x}
  BY DEF PostTask
<1>2. UNCHANGED <<emails, threads, pc, msg, staged>>
  BY DEF PostTask, locals
<1>3. /\ x \in Task /\ x \notin IngestTask
      /\ \A y \in Task : y # x => tasks'[y] = tasks[y]
  BY <1>1, IdAssumption DEF Task, TInv, TypeOK
<1>4. \A y \in drawn : y # x
  BY <1>1
<1>5. LockInv' /\ SnapshotInv' /\ ReplayNeverClashes'
  BY <1>2 DEF SInv, LockInv, SnapshotInv, ReplayNeverClashes
<1>6. DrawnInv'
  BY <1>1, <1>3 DEF SInv, DrawnInv, Live
<1>7. IngestedTaskMapped'
  BY <1>2, <1>3 DEF SInv, IngestedTaskMapped, Live, Task
<1>8. MappedInv'
  BY <1>1, <1>2, <1>3, <1>4 DEF SInv, MappedInv, BelongsTo, Live
<1>9. StagedInv'
  BY <1>1, <1>2, <1>3, <1>4 DEF SInv, StagedInv, StagedFits, BelongsTo, Live
<1> QED
  BY <1>5, <1>6, <1>7, <1>8, <1>9 DEF SInv

LEMMA PatchDirectlySInv ==
    ASSUME TInv, SInv, NEW x \in Task, NEW c \in Content, PatchTaskDirectly(x, c)
    PROVE  SInv'
<1>1. /\ Live(x) /\ tasks' = [tasks EXCEPT ![x] = [tasks[x] EXCEPT !.content = c]]
      /\ UNCHANGED <<emails, threads, drawn, pc, msg, staged>>
  BY DEF PatchTaskDirectly, locals
<1>2. tasks[x] \in TaskRow
  BY <1>1 DEF Live, TInv, TypeOK
<1>3. tasks'[x] \in TaskRow /\ tasks'[x].thread = tasks[x].thread
  BY <1>1, <1>2 DEF TaskRow, TInv, TypeOK
<1>4. \A y \in Task : /\ Live(y)' <=> Live(y)
                      /\ Live(y) => tasks'[y].thread = tasks[y].thread
  BY <1>1, <1>3, NoneAssumption DEF Live, TaskRow, TInv, TypeOK
<1>5. \A y : Live(y)' <=> Live(y)
  BY <1>4 DEF Live
<1>6. LockInv' /\ SnapshotInv' /\ ReplayNeverClashes'
  BY <1>1 DEF SInv, LockInv, SnapshotInv, ReplayNeverClashes
<1>7. DrawnInv' /\ MappedInv'
  BY <1>1, <1>4, <1>5 DEF SInv, DrawnInv, MappedInv, BelongsTo, Live
<1>8. StagedInv'
  BY <1>1, <1>4, <1>5 DEF SInv, StagedInv, StagedFits, BelongsTo, Live
<1>9. IngestedTaskMapped'
  BY <1>1, <1>4 DEF SInv, IngestedTaskMapped, Task
<1> QED
  BY <1>6, <1>7, <1>8, <1>9 DEF SInv

LEMMA FinishDeleteSInv ==
    ASSUME TInv, SInv, NEW d \in Deleter, FinishDelete(d)
    PROVE  SInv'
<1> DEFINE x == deleting[d]
<1>1. /\ x \in Task
      /\ \A th \in Thread : th \in MappedTo(x) => \A w \in Worker : ~HoldsThread(w, th)
      /\ tasks' = [tasks EXCEPT ![x] = None]
      /\ UNCHANGED <<emails, drawn, pc, msg, staged>>
  BY DEF FinishDelete, TInv, TypeOK, locals, MappedTo
<1>2. \A th \in Thread :
        /\ threads[th].task = x => threads'[th].task = None /\ threads'[th].snapshot = None
        /\ threads[th].task # x => threads'[th] = threads[th]
  BY DEF FinishDelete, MappedTo, TInv, TypeOK, ThreadRow
<1>3. tasks'[x] = None /\ \A y \in Task : y # x => tasks'[y] = tasks[y]
  BY <1>1 DEF Live, TInv, TypeOK
<1>4. LockInv' /\ SnapshotInv' /\ ReplayNeverClashes'
  BY <1>1, <1>2 DEF SInv, LockInv, SnapshotInv, ReplayNeverClashes
<1>5. DrawnInv'
  BY <1>1, <1>3 DEF SInv, DrawnInv, Live
<1>6. MappedInv'
  BY <1>1, <1>2, <1>3 DEF SInv, MappedInv, BelongsTo, Live
<1>7. IngestedTaskMapped'
  <2> SUFFICES ASSUME NEW th \in Thread, NEW y \in IngestTask
               PROVE  threads'[th].task = y <=> Live(y)' /\ tasks'[y].thread = th
    BY DEF IngestedTaskMapped
  <2>1. y \in Task /\ y # None
    BY NoneAssumption DEF Task
  <2>2. threads[th].task = y <=> Live(y) /\ tasks[y].thread = th
    BY DEF SInv, IngestedTaskMapped
  <2> QED
    BY <1>2, <1>3, <2>1, <2>2 DEF Live
<1>8. StagedInv'
  <2> SUFFICES ASSUME NEW w \in Worker, pc[w] \in {"patch", "save"} PROVE StagedFits(w)'
    BY <1>1 DEF StagedInv
  <2>1. StagedFits(w) /\ msg[w].thread \in Thread
    BY MessageType DEF SInv, StagedInv, TInv, TypeOK, MessageInv
  <2>2. threads[msg[w].thread].task # x
    BY <1>1, <2>1 DEF MappedTo, HoldsThread, InTransaction
  <2>3. threads'[msg[w].thread] = threads[msg[w].thread]
    BY <1>2, <2>1, <2>2
  <2> QED
    BY <1>1, <1>3, <2>1, <2>3 DEF StagedFits, BelongsTo, Live
<1> QED
  BY <1>4, <1>5, <1>6, <1>7, <1>8 DEF SInv

\* A step that changes nothing that SInv speaks of.
LEMMA SameSInv ==
    ASSUME SInv, UNCHANGED <<emails, threads, tasks, drawn, pc, msg, staged>>
    PROVE  SInv'
BY DEF SInv, LockInv, DrawnInv, SnapshotInv, MappedInv, StagedInv, StagedFits, BelongsTo,
       IngestedTaskMapped, ReplayNeverClashes, Live

-------------------------------------------------------------------------------
(* Safety *)

LEMMA NextSInv == TInv /\ SInv /\ [Next]_vars => SInv'
<1> SUFFICES ASSUME TInv, SInv, [Next]_vars PROVE SInv'
  OBVIOUS
<1>1. ASSUME NEW w \in Worker, Fail(w) PROVE SInv'
  BY <1>1, AbandonSInv DEF Fail, rows
<1>2. ASSUME NEW w \in Worker, Step(w) PROVE SInv'
  <2>1. CASE Inspect(w)
    BY <2>1, InspectSInv
  <2>2. CASE RecordReplay(w)
    BY <2>2, RecordReplaySInv
  <2>3. CASE ReadPriorAndRoute(w)
    BY <2>3, GotoSInv DEF ReadPriorAndRoute, InTransaction, rows
  <2>4. CASE LockThread(w)
    BY <2>4, LockThreadSInv
  <2>5. CASE FoundUnchanged(w)
    BY <2>5, GotoSInv DEF FoundUnchanged, InTransaction, rows
  <2>6. CASE FoundConflict(w) \/ Refuse(w) \/ SaveClash(w)
    BY <1>1, <2>6 DEF FoundConflict, Refuse, SaveClash
  <2>7. CASE KeepTask(w)
    BY <2>7, KeepTaskSInv
  <2>8. CASE StageCreate(w)
    BY <2>8, StageCreateSInv
  <2>9. CASE StagePatch(w)
    BY <2>9, StagePatchSInv
  <2>10. CASE PatchTask(w)
    BY <2>10, PatchTaskSInv
  <2>11. CASE SaveOutcome(w)
    BY <2>11, CommitSInv DEF SaveOutcome
  <2> QED
    BY <1>2, <2>1, <2>2, <2>3, <2>4, <2>5, <2>6, <2>7, <2>8, <2>9, <2>10, <2>11 DEF Step
<1>3. ASSUME NEW w \in Worker, Fault(w) PROVE SInv'
  BY <1>1, <1>3, CommitSInv DEF Fault, SaveUnacknowledged, LoseConnection
<1>4. ASSUME TaskApi PROVE SInv'
  <2>1. ASSUME NEW d \in Deleter, NEW x \in Task, DeleteTask(d, x) PROVE SInv'
    BY <2>1, SameSInv DEF DeleteTask, rows, locals
  <2> QED
    BY <1>4, <2>1, PostTaskSInv, PatchDirectlySInv, FinishDeleteSInv DEF TaskApi
<1>5. ASSUME DeadlockDetector PROVE SInv'
  <2>1. ASSUME NEW d \in Deleter, DeadlockVictimIsDelete(d) PROVE SInv'
    BY <2>1, SameSInv DEF DeadlockVictimIsDelete, rows, locals
  <2> QED
    BY <1>1, <1>5, <2>1 DEF DeadlockDetector, DeadlockVictimIsIngest
<1>6. CASE UNCHANGED vars
  BY <1>6, SameSInv DEF vars, rows, locals
<1> QED
  BY <1>2, <1>3, <1>4, <1>5, <1>6 DEF Next

LEMMA AlwaysSInv == Spec => [](TInv /\ SInv)
<1>1. Init => TInv /\ SInv
  BY InitTInv, InitSInv
<1>2. TInv /\ SInv /\ [Next]_vars => (TInv /\ SInv)'
  BY NextTInv, NextSInv
<1> QED
  BY <1>1, <1>2, PTL DEF Spec

\* Ingestion never has two tasks for one thread (reconcile).
THEOREM OneTask == Spec => []OneIngestedTask
<1>1. TInv /\ SInv => OneIngestedTask
  BY MappedIsOne DEF TInv, SInv
<1> QED
  BY <1>1, AlwaysSInv, PTL

\* A thread is mapped to a task of ingestion exactly while the task exists and
\* is the thread's (save_outcome against delete_task).
THEOREM Mapped == Spec => []IngestedTaskMapped
<1>1. TInv /\ SInv => IngestedTaskMapped
  BY DEF SInv
<1> QED
  BY <1>1, AlwaysSInv, PTL

\* A replay never runs into a UNIQUE constraint (the inspection under
\* thread_lock).
THEOREM ReplaySafe == Spec => []ReplayNeverClashes
<1>1. TInv /\ SInv => ReplayNeverClashes
  BY DEF SInv
<1> QED
  BY <1>1, AlwaysSInv, PTL

-------------------------------------------------------------------------------
(* Isolation and the ledger *)

\* A decision is of a stored message (both are written by save_outcome).
DecidedInv == \A d \in decisions : d.msg \in emails

RInv == TInv /\ SInv /\ DecidedInv

\* The steps of a run that leave the tables to others write none of them.
LEMMA StepKinds ==
    ASSUME TInv, [Next]_vars
    PROVE  \/ \E w \in Worker : /\ pc[w] = "save" /\ ~UniqueClash(msg[w])
                                /\ \E x \in RemoteAtSave(w) : Commit(w, x)
           \/ \E th \in Thread, c \in Content : PostTask(th, c)
           \/ \E x \in Task, c \in Content : PatchTaskDirectly(x, c)
           \/ \E d \in Deleter : FinishDelete(d)
           \/ UNCHANGED <<emails, decisions, tasks>>
<1>1. ASSUME NEW w \in Worker, Step(w) \/ Fault(w)
      PROVE  \/ /\ pc[w] = "save" /\ ~UniqueClash(msg[w])
                /\ \E x \in RemoteAtSave(w) : Commit(w, x)
             \/ UNCHANGED <<emails, decisions, tasks>>
  <2>1. CASE Inspect(w) \/ RecordReplay(w) \/ ReadPriorAndRoute(w) \/ LockThread(w)
             \/ FoundUnchanged(w) \/ FoundConflict(w)
    BY <2>1 DEF Inspect, RecordReplay, ReadPriorAndRoute, LockThread, FoundUnchanged,
                FoundConflict, Fail, rows
  <2>2. CASE KeepTask(w)
    BY <2>2 DEF KeepTask, StageFor, rows
  <2>3. CASE Refuse(w) \/ StageCreate(w) \/ SaveClash(w) \/ LoseConnection(w)
    BY <2>3 DEF Refuse, StageCreate, SaveClash, LoseConnection, StageFor, Fail, rows
  <2>4. CASE StagePatch(w) \/ PatchTask(w)
    BY <2>4 DEF StagePatch, PatchTask, StageFor, Fail, rows
  <2>5. CASE SaveOutcome(w) \/ SaveUnacknowledged(w)
    BY <2>5 DEF SaveOutcome, SaveUnacknowledged
  <2> QED
    BY <1>1, <2>1, <2>2, <2>3, <2>4, <2>5 DEF Step, Fault
<1>2. ASSUME NEW d \in Deleter, NEW x \in Task, DeleteTask(d, x)
      PROVE  UNCHANGED <<emails, decisions, tasks>>
  BY <1>2 DEF DeleteTask, rows
<1>3. ASSUME DeadlockDetector PROVE UNCHANGED <<emails, decisions, tasks>>
  BY <1>3 DEF DeadlockDetector, DeadlockVictimIsIngest, DeadlockVictimIsDelete, Fail, rows
<1>4. CASE UNCHANGED vars
  BY <1>4 DEF vars, rows
<1> QED
  BY <1>1, <1>2, <1>3, <1>4 DEF Next, TaskApi

LEMMA NextDecided == TInv /\ DecidedInv /\ [Next]_vars => DecidedInv'
<1> SUFFICES ASSUME TInv, DecidedInv, [Next]_vars PROVE DecidedInv'
  OBVIOUS
<1>1. \/ \E w \in Worker : \E x \in RemoteAtSave(w) : Commit(w, x)
      \/ UNCHANGED <<emails, decisions>>
  BY StepKinds DEF PostTask, PatchTaskDirectly, FinishDelete
<1> QED
  BY <1>1 DEF DecidedInv, Commit

LEMMA AlwaysRInv == Spec => []RInv
<1>1. Init => RInv
  BY InitTInv, InitSInv DEF Init, RInv, DecidedInv
<1>2. RInv /\ [Next]_vars => RInv'
  BY NextTInv, NextSInv, NextDecided DEF RInv
<1> QED
  BY <1>1, <1>2, PTL DEF Spec

-------------------------------------------------------------------------------
\* A commit of ingestion changes no task but the one that its decision names,
\* which is one of its message's thread (reconcile lists, patches and creates
\* under the thread's row lock).
THEOREM Isolated == Spec => ThreadIsolation
<1> DEFINE Isolation ==
      \A d \in decisions' \ decisions :
        /\ \A x \in Task : tasks'[x] # tasks[x] => x = d.task
        /\ d.task \in Task /\ tasks'[d.task] # None
             => tasks'[d.task].thread = d.msg.thread
<1>1. ASSUME RInv, [Next]_vars PROVE Isolation
  <2>1. CASE UNCHANGED decisions
    BY <2>1
  <2>2. ASSUME NEW w \in Worker, pc[w] = "save", NEW x \in RemoteAtSave(w), Commit(w, x)
        PROVE  Isolation
    <3>1. \A d \in decisions' \ decisions : d.msg = msg[w] /\ d.task = x
      BY <2>2 DEF Commit
    <3>2. \A y \in Task : tasks'[y] # tasks[y] => y = x
      BY <1>1, <2>2, CommitEffect DEF RInv
    <3>3. x \in Task /\ tasks'[x] # None => tasks'[x].thread = msg[w].thread
      <4>1. CASE staged[w].kind = "create"
        BY <1>1, <2>2, <4>1, CommitEffect DEF RInv
      <4>2. CASE staged[w].kind # "create"
        BY <1>1, <2>2, <4>2, CommitEffect, NoneAssumption DEF RInv, BelongsTo, Live
      <4> QED
        BY <4>1, <4>2
    <3> QED
      BY <3>1, <3>2, <3>3
  <2> QED
    BY <1>1, <2>1, <2>2, StepKinds DEF RInv, PostTask, PatchTaskDirectly, FinishDelete
<1> QED
  BY <1>1, AlwaysRInv, PTL DEF Spec, ThreadIsolation

-------------------------------------------------------------------------------
(* Implementation of ThreadLedger *)

\* A commit that creates a task gives it to a thread that owns none.
LEMMA CommitGives ==
    ASSUME RInv, NEW w \in Worker, pc[w] = "save", staged[w].kind = "create",
           NEW x \in RemoteAtSave(w), Commit(w, x)
    PROVE  /\ x \in IngestTask
           /\ \A o \in OwnedTasks : o.thread # msg[w].thread /\ o.task # x
           /\ OwnedTasks' = OwnedTasks \cup {[task |-> x, thread |-> msg[w].thread]}
<1> DEFINE th == msg[w].thread
<1>1. /\ th \in Thread /\ x \in IngestTask \ drawn /\ threads[th].task = None
      /\ Live(x)' /\ tasks'[x].thread = th
      /\ \A y \in Task : y # x => tasks'[y] = tasks[y]
  BY CommitEffect DEF RInv
<1>2. \A y \in IngestTask : y \in Task /\ y # None
  BY NoneAssumption DEF Task
<1>3. \A y \in IngestTask : Live(y) => tasks[y].thread # th /\ y # x
  BY <1>1, <1>2 DEF RInv, SInv, IngestedTaskMapped, DrawnInv
<1>4. \A y \in IngestTask : Live(y)' <=> (Live(y) \/ y = x)
  BY <1>1, <1>2 DEF Live
<1>5. \A y \in IngestTask : Live(y) => tasks'[y].thread = tasks[y].thread
  BY <1>1, <1>2, <1>3
<1>6. OwnedTasks' = OwnedTasks \cup {[task |-> x, thread |-> th]}
  BY <1>1, <1>3, <1>4, <1>5 DEF OwnedTasks
<1> QED
  BY <1>1, <1>3, <1>6 DEF OwnedTasks

LEMMA CommitKeeps ==
    ASSUME RInv, NEW w \in Worker, pc[w] = "save", staged[w].kind # "create",
           NEW x \in RemoteAtSave(w), Commit(w, x)
    PROVE  OwnedTasks' = OwnedTasks
<1>1. \A y \in Task : /\ Live(y)' <=> Live(y)
                      /\ Live(y) => tasks'[y].thread = tasks[y].thread
  BY CommitEffect DEF RInv
<1> QED
  BY <1>1 DEF OwnedTasks, Task

LEMMA CommitDecides ==
    ASSUME RInv, NEW w \in Worker, pc[w] = "save", ~UniqueClash(msg[w]),
           NEW x \in RemoteAtSave(w), Commit(w, x)
    PROVE  /\ msg[w] \in Message
           /\ \A entry \in LedgerOf :
                /\ entry.msg.email # msg[w].email
                /\ entry.msg.thread = msg[w].thread => entry.msg.index # msg[w].index
           /\ LedgerOf' = LedgerOf \cup {[msg |-> msg[w], run |-> w]}
<1>1. PICK new : decisions' = decisions \cup {new} /\ new.msg = msg[w] /\ new.run = w
  <2> DEFINE n == [msg |-> msg[w], op |-> SavedOp(w), task |-> x, run |-> w]
  <2>1. decisions' = decisions \cup {n} /\ n.msg = msg[w] /\ n.run = w
    BY DEF Commit
  <2> HIDE DEF n
  <2> QED
    BY <2>1
<1>2. LedgerOf' = LedgerOf \cup {[msg |-> msg[w], run |-> w]}
  BY <1>1 DEF LedgerOf
<1>3. \A d \in decisions : ~SameKey(msg[w], d.msg)
  BY DEF RInv, DecidedInv, UniqueClash
<1> QED
  BY <1>2, <1>3 DEF LedgerOf, SameKey, RInv, TInv, TypeOK, MessageInv

\* A deletion takes one task from its thread, or a task of the Task API.
LEMMA DeleteRemoves ==
    ASSUME RInv, NEW d \in Deleter, FinishDelete(d)
    PROVE  \/ OwnedTasks' = OwnedTasks
           \/ \E o \in OwnedTasks : OwnedTasks' = OwnedTasks \ {o}
<1>1. PICK x \in Task : x = deleting[d]
  BY DEF FinishDelete, RInv, TInv, TypeOK
<1>2. tasks' = [tasks EXCEPT ![x] = None]
  BY <1>1 DEF FinishDelete
<1>3. \A y \in Task : /\ Live(y)' <=> Live(y) /\ y # x
                      /\ y # x => tasks'[y] = tasks[y]
  BY <1>1, <1>2 DEF Live, RInv, TInv, TypeOK
<1>4. CASE x \in IngestTask /\ Live(x)
  <2> DEFINE o == [task |-> x, thread |-> tasks[x].thread]
  <2>1. o \in OwnedTasks
    BY <1>4 DEF OwnedTasks
  <2>2. OwnedTasks' = OwnedTasks \ {o}
    BY <1>3, <1>4 DEF OwnedTasks, Task
  <2> QED
    BY <2>1, <2>2
<1>5. CASE ~(x \in IngestTask /\ Live(x))
  BY <1>3, <1>5 DEF OwnedTasks, Task
<1> QED
  BY <1>4, <1>5

\* The Task API's other writes do not change who owns what.
LEMMA ApiKeeps ==
    ASSUME RInv,
           \/ \E th \in Thread, c \in Content : PostTask(th, c)
           \/ \E x \in Task, c \in Content : PatchTaskDirectly(x, c)
    PROVE  OwnedTasks' = OwnedTasks
<1>1. CASE \E th \in Thread, c \in Content : PostTask(th, c)
  <2>1. PICK x \in ApiTask : \A y \in Task : y # x => tasks'[y] = tasks[y]
    BY <1>1 DEF PostTask, RInv, TInv, TypeOK
  <2>2. \A y \in IngestTask : y \in Task /\ tasks'[y] = tasks[y]
    BY <2>1, IdAssumption DEF Task
  <2> QED
    BY <2>2 DEF OwnedTasks, Live
<1>2. ASSUME NEW x \in Task, NEW c \in Content, PatchTaskDirectly(x, c)
      PROVE  OwnedTasks' = OwnedTasks
  <2>1. Live(x) /\ tasks' = [tasks EXCEPT ![x] = [tasks[x] EXCEPT !.content = c]]
    BY <1>2 DEF PatchTaskDirectly
  <2>2. tasks[x] \in TaskRow
    BY <2>1 DEF Live, RInv, TInv, TypeOK
  <2>3. tasks'[x] \in TaskRow /\ tasks'[x].thread = tasks[x].thread
    BY <2>1, <2>2 DEF TaskRow, RInv, TInv, TypeOK
  <2>4. \A y \in Task : /\ Live(y)' <=> Live(y)
                        /\ Live(y) => tasks'[y].thread = tasks[y].thread
    BY <2>1, <2>3, NoneAssumption DEF Live, TaskRow, RInv, TInv, TypeOK
  <2> QED
    BY <2>4 DEF OwnedTasks, Task
<1> QED
  BY <1>1, <1>2

\* Ingestion implements the ledger.
THEOREM Implements == Spec => LedgerSpec
<1>1. Init => Ledger!Init
  BY DEF Init, Ledger!Init, LedgerOf, OwnedTasks, Live
<1>2. RInv /\ [Next]_vars => [Ledger!Next]_(Ledger!vars)
  <2> SUFFICES ASSUME RInv, [Next]_vars PROVE [Ledger!Next]_(Ledger!vars)
    OBVIOUS
  <2>1. ASSUME NEW w \in Worker, pc[w] = "save", ~UniqueClash(msg[w]),
               NEW x \in RemoteAtSave(w), Commit(w, x)
        PROVE  Ledger!Next
    <3>1. msg[w] \in Message /\ Ledger!Decide(msg[w], w)
      BY <2>1, CommitDecides DEF Ledger!Decide
    <3>2. CASE staged[w].kind = "create"
      BY <2>1, <3>1, <3>2, CommitGives DEF Ledger!Next, Ledger!Give
    <3>3. CASE staged[w].kind # "create"
      BY <2>1, <3>1, <3>3, CommitKeeps DEF Ledger!Next, Ledger!Keep
    <3> QED
      BY <3>2, <3>3
  <2>2. ASSUME NEW d \in Deleter, FinishDelete(d)
        PROVE  Ledger!Next \/ UNCHANGED Ledger!vars
    <3>1. LedgerOf' = LedgerOf
      BY <2>2 DEF FinishDelete, LedgerOf
    <3> QED
      BY <2>2, <3>1, DeleteRemoves DEF Ledger!Next, Ledger!Remove, Ledger!vars
  <2>3. CASE \/ \E th \in Thread, c \in Content : PostTask(th, c)
             \/ \E x \in Task, c \in Content : PatchTaskDirectly(x, c)
    <3>1. LedgerOf' = LedgerOf
      BY <2>3 DEF PostTask, PatchTaskDirectly, LedgerOf
    <3> QED
      BY <2>3, <3>1, ApiKeeps DEF Ledger!vars
  <2>4. CASE UNCHANGED <<decisions, tasks>>
    BY <2>4 DEF Ledger!vars, LedgerOf, OwnedTasks, Live
  <2> QED
    BY <2>1, <2>2, <2>3, <2>4, StepKinds DEF RInv
<1> QED
  BY <1>1, <1>2, AlwaysRInv, PTL DEF Spec, LedgerSpec, Ledger!Spec

-------------------------------------------------------------------------------
(* What the ledger promises *)

LEMMA LedgerNextOwned ==
    Ledger!OneTaskPerThread /\ [Ledger!Next]_(Ledger!vars) => Ledger!OneTaskPerThread'
<1> SUFFICES ASSUME Ledger!OneTaskPerThread, [Ledger!Next]_(Ledger!vars)
             PROVE  Ledger!OneTaskPerThread'
  OBVIOUS
<1>1. ASSUME NEW m \in Message, NEW r \in Worker, NEW x \in IngestTask, Ledger!Give(m, r, x)
      PROVE  Ledger!OneTaskPerThread'
  BY <1>1 DEF Ledger!OneTaskPerThread, Ledger!Give
<1>2. CASE UNCHANGED OwnedTasks
  BY <1>2 DEF Ledger!OneTaskPerThread
<1>3. ASSUME NEW o \in OwnedTasks, Ledger!Remove(o) PROVE Ledger!OneTaskPerThread'
  BY <1>3 DEF Ledger!OneTaskPerThread, Ledger!Remove
<1> QED
  BY <1>1, <1>2, <1>3 DEF Ledger!Next, Ledger!Keep, Ledger!vars

LEMMA LedgerNextDecided ==
    Ledger!DecidedOnce /\ [Ledger!Next]_(Ledger!vars) => Ledger!DecidedOnce'
<1> SUFFICES ASSUME Ledger!DecidedOnce, [Ledger!Next]_(Ledger!vars)
             PROVE  Ledger!DecidedOnce'
  OBVIOUS
<1>1. ASSUME NEW m \in Message, NEW r \in Worker, Ledger!Decide(m, r)
      PROVE  Ledger!DecidedOnce'
  BY <1>1 DEF Ledger!DecidedOnce, Ledger!Decide
<1>2. CASE UNCHANGED LedgerOf
  BY <1>2 DEF Ledger!DecidedOnce
<1> QED
  BY <1>1, <1>2 DEF Ledger!Next, Ledger!Keep, Ledger!Give, Ledger!Remove, Ledger!vars

\* The ledger's promise: a thread has one task of ingestion at most and a task
\* one thread.
THEOREM LedgerOneTask == LedgerSpec => []Ledger!OneTaskPerThread
<1>1. Ledger!Init => Ledger!OneTaskPerThread
  BY DEF Ledger!Init, Ledger!OneTaskPerThread
<1> QED
  BY <1>1, LedgerNextOwned, PTL DEF LedgerSpec, Ledger!Spec

\* The ledger's promise: an e-mail id, and a place in a thread, is decided once.
THEOREM LedgerDecidedOnce == LedgerSpec => []Ledger!DecidedOnce
<1>1. Ledger!Init => Ledger!DecidedOnce
  BY DEF Ledger!Init, Ledger!DecidedOnce
<1> QED
  BY <1>1, LedgerNextDecided, PTL DEF LedgerSpec, Ledger!Spec

\* The tables keep what the ledger promises (the UNIQUE constraints and
\* thread_lock).
THEOREM Promised == Spec => []Ledger!OneTaskPerThread /\ []Ledger!DecidedOnce
BY Implements, LedgerOneTask, LedgerDecidedOnce, PTL

-------------------------------------------------------------------------------
(* Counters, deliveries and the audit trail *)

EmailsDecided == emails = {d.msg : d \in decisions}

StoredOf(th) == {m \in emails : m.thread = th}
DecidedOf(th) == {d \in decisions : d.msg.thread = th}
UpdatesOf(th) == {d \in DecidedOf(th) : d.op = "update"}

\* The counters of a thread's row.
CountersAgree(th) ==
    /\ threads[th].count = Cardinality(StoredOf(th))
    /\ threads[th].count = Cardinality(DecidedOf(th))
    /\ threads[th].updates = Cardinality(UpdatesOf(th))

\* Its last index is the highest stored.
LastAgrees(th) ==
    /\ \A m \in StoredOf(th) : m.index <= threads[th].last
    /\ threads[th].last >= 0 => \E m \in StoredOf(th) : m.index = threads[th].last

\* A run replays what is stored.
ReplayInv == \A w \in Worker : pc[w] = "replay" => msg[w] \in emails

\* Create events are of tasks that were drawn.
CreateInv == \A e \in events : e.kind = "create" => e.task \in drawn

LInv ==
    /\ RInv /\ IsFiniteSet(decisions)
    /\ EmailsDecided /\ ReplayInv /\ CreateInv
    /\ \A th \in Thread : CountersAgree(th) /\ LastAgrees(th)
    /\ CreditedOnce /\ TaskHasItsCreateEvent

-------------------------------------------------------------------------------
(* What steps do to the tables *)

Saves(w) ==
    /\ pc[w] = "save" /\ ~UniqueClash(msg[w])
    /\ \E x \in RemoteAtSave(w) : Commit(w, x)

LEMMA TableSteps ==
    ASSUME TInv, [Next]_vars
    PROVE  \/ \E w \in Worker : Saves(w)
           \/ \E w \in Worker : RecordReplay(w)
           \/ \E th \in Thread, c \in Content : PostTask(th, c)
           \/ \E x \in Task, c \in Content : PatchTaskDirectly(x, c)
           \/ \E d \in Deleter : FinishDelete(d)
           \/ UNCHANGED rows
<1>1. ASSUME NEW w \in Worker, Step(w) \/ Fault(w)
      PROVE  Saves(w) \/ RecordReplay(w) \/ UNCHANGED rows
  <2>1. CASE Inspect(w) \/ ReadPriorAndRoute(w) \/ LockThread(w)
             \/ FoundUnchanged(w) \/ FoundConflict(w)
    BY <2>1 DEF Inspect, ReadPriorAndRoute, LockThread, FoundUnchanged, FoundConflict, Fail
  <2>2. CASE KeepTask(w)
    BY <2>2 DEF KeepTask, StageFor
  <2>3. CASE Refuse(w) \/ StageCreate(w) \/ SaveClash(w) \/ LoseConnection(w)
    BY <2>3 DEF Refuse, StageCreate, SaveClash, LoseConnection, StageFor, Fail
  <2>4. CASE StagePatch(w) \/ PatchTask(w)
    BY <2>4 DEF StagePatch, PatchTask, StageFor, Fail
  <2>5. CASE SaveOutcome(w) \/ SaveUnacknowledged(w)
    BY <2>5 DEF SaveOutcome, SaveUnacknowledged, Saves
  <2> QED
    BY <1>1, <2>1, <2>2, <2>3, <2>4, <2>5 DEF Step, Fault
<1>2. ASSUME NEW d \in Deleter, NEW x \in Task, DeleteTask(d, x) PROVE UNCHANGED rows
  BY <1>2 DEF DeleteTask
<1>3. ASSUME DeadlockDetector PROVE UNCHANGED rows
  BY <1>3 DEF DeadlockDetector, DeadlockVictimIsIngest, DeadlockVictimIsDelete, Fail
<1>4. CASE UNCHANGED vars
  BY <1>4 DEF vars
<1> QED
  BY <1>1, <1>2, <1>3, <1>4 DEF Next, TaskApi

\* Who replays has found its message stored.
LEMMA ReplaySteps ==
    ASSUME TInv, [Next]_vars, NEW w \in Worker, pc'[w] = "replay"
    PROVE  msg'[w] \in Message /\ \/ pc[w] = "replay" /\ msg'[w] = msg[w]
                                  \/ Stored(msg'[w])
<1> USE DEF TInv, TypeOK
<1>1. ASSUME NEW v \in Worker, Fail(v) \/ Abandon(v) \/ Advance(v)
      PROVE  v # w /\ pc[w] = "replay" /\ msg'[w] = msg[w]
  BY <1>1 DEF Fail, Abandon, Advance, Goto
<1>2. ASSUME NEW v \in Worker, Step(v) \/ Fault(v)
      PROVE  (pc[w] = "replay" /\ msg'[w] = msg[w]) \/ Stored(msg'[w])
  <2>1. CASE Inspect(v)
    <3>1. PICK m \in pending[v] :
            \/ Fail(v)
            \/ /\ msg' = [msg EXCEPT ![v] = m]
               /\ Goto(v, IF Stored(m) THEN "replay" ELSE "prior")
      BY <2>1 DEF Inspect
    <3> QED
      BY <1>1, <3>1 DEF Goto
  <2>2. CASE RecordReplay(v) \/ SaveOutcome(v)
    BY <1>1, <2>2 DEF RecordReplay, SaveOutcome
  <2>3. CASE FoundUnchanged(v)
    BY <2>3 DEF FoundUnchanged, Goto
  <2>4. CASE ReadPriorAndRoute(v) \/ LockThread(v)
    BY <2>4 DEF ReadPriorAndRoute, LockThread, Goto
  <2>5. CASE FoundConflict(v) \/ Refuse(v) \/ SaveClash(v) \/ Fault(v)
    BY <1>1, <2>5 DEF FoundConflict, Refuse, SaveClash, Fault, SaveUnacknowledged,
                      LoseConnection
  <2>6. CASE KeepTask(v) \/ StageCreate(v) \/ StagePatch(v)
    BY <2>6 DEF KeepTask, StageCreate, StagePatch, StageFor, Goto
  <2>7. CASE PatchTask(v)
    BY <1>1, <2>7 DEF PatchTask, Goto
  <2> QED
    BY <1>2, <2>1, <2>2, <2>3, <2>4, <2>5, <2>6, <2>7 DEF Step
<1>3. ASSUME TaskApi PROVE UNCHANGED <<pc, msg>>
  BY <1>3 DEF TaskApi, PostTask, PatchTaskDirectly, DeleteTask, FinishDelete, locals
<1>4. ASSUME DeadlockDetector PROVE pc[w] = "replay" /\ msg'[w] = msg[w]
  BY <1>1, <1>4 DEF DeadlockDetector, DeadlockVictimIsIngest, DeadlockVictimIsDelete, locals
<1>5. ASSUME UNCHANGED vars PROVE pc[w] = "replay" /\ msg'[w] = msg[w]
  BY <1>5 DEF vars, locals
<1>6. (pc[w] = "replay" /\ msg'[w] = msg[w]) \/ Stored(msg'[w])
  BY <1>2, <1>3, <1>4, <1>5 DEF Next
<1> QED
  BY <1>6 DEF MessageInv, Stored

-------------------------------------------------------------------------------
(* A commit *)

\* The decision and the delivery that a commit inserts.
NewDecision(w, x) == [msg |-> msg[w], op |-> SavedOp(w), task |-> x, run |-> w]
NewDelivery(w) == [run |-> w, email |-> msg[w].email, outcome |-> SavedOp(w)]

\* Neither the e-mail nor its id was decided, so the rows are new.
LEMMA CommitIsNew ==
    ASSUME LInv, NEW w \in Worker, pc[w] = "save", ~UniqueClash(msg[w]),
           NEW x \in RemoteAtSave(w), Commit(w, x)
    PROVE  /\ msg[w] \in Message /\ msg[w] \notin emails
           /\ SavedOp(w) \in Operation
           /\ \A d \in decisions : d.msg.email # msg[w].email
           /\ \A r \in deliveries : r.email # msg[w].email
           /\ emails' = emails \cup {msg[w]}
           /\ decisions' = decisions \cup {NewDecision(w, x)}
           /\ deliveries' = deliveries \cup {NewDelivery(w)}
<1>1. msg[w] \in Message
  BY DEF LInv, RInv, TInv, TypeOK, MessageInv
<1>2. \A n \in emails : n.email # msg[w].email
  BY DEF UniqueClash, SameKey
<1>3. \A d \in decisions : d.msg.email # msg[w].email
  BY <1>2 DEF LInv, EmailsDecided
<1>4. \A r \in deliveries : r.email # msg[w].email
  BY <1>3 DEF LInv, CreditedOnce
<1>5. SavedOp(w) \in Operation
  BY DEF LInv, RInv, TInv, TypeOK, SavedOp, Stage, Plan
<1>6. deliveries' = deliveries \cup {NewDelivery(w)}
  BY <1>4 DEF Commit, Delivered, NewDelivery
<1> QED
  BY <1>1, <1>2, <1>3, <1>4, <1>5, <1>6 DEF Commit, NewDecision

LEMMA CommitCounters ==
    ASSUME LInv, NEW w \in Worker, pc[w] = "save", ~UniqueClash(msg[w]),
           NEW x \in RemoteAtSave(w), Commit(w, x), NEW th \in Thread
    PROVE  CountersAgree(th)' /\ LastAgrees(th)'
<1> DEFINE m == msg[w]
           d == NewDecision(w, x)
<1>1. /\ m \in Message /\ m \notin emails
      /\ d \notin decisions /\ d.msg = m /\ d.op = SavedOp(w)
      /\ emails' = emails \cup {m} /\ decisions' = decisions \cup {d}
  BY CommitIsNew DEF NewDecision
<1>2. m.thread \in Thread /\ m.index \in Nat
  BY <1>1, MessageType
<1>3. threads \in [Thread -> ThreadRow]
  BY DEF LInv, RInv, TInv, TypeOK
<1>4. /\ threads'[m.thread] = SavedThread(threads[m.thread], w, x)
      /\ th # m.thread => threads'[th] = threads[th]
  BY <1>2, <1>3 DEF Commit
<1>5. CountersAgree(th) /\ LastAgrees(th)
  BY DEF LInv
<1> HIDE DEF d
<1>6. CASE th # m.thread
  <2>1. StoredOf(th)' = StoredOf(th) /\ DecidedOf(th)' = DecidedOf(th)
    BY <1>1, <1>6 DEF StoredOf, DecidedOf
  <2>2. UpdatesOf(th)' = UpdatesOf(th)
    BY <2>1 DEF UpdatesOf
  <2> QED
    BY <1>4, <1>5, <1>6, <2>1, <2>2 DEF CountersAgree, LastAgrees
<1>7. CASE th = m.thread
  <2>1. threads[th] \in ThreadRow
    BY <1>3
  <2>2. /\ threads'[th].count = threads[th].count + 1
        /\ threads'[th].last = IF threads[th].last < m.index THEN m.index ELSE threads[th].last
        /\ threads'[th].updates
             = threads[th].updates + IF SavedOp(w) = "update" THEN 1 ELSE 0
    BY <1>4, <1>7 DEF SavedThread, SavedOp
  <2>3. /\ StoredOf(th)' = StoredOf(th) \cup {m} /\ m \notin StoredOf(th)
        /\ DecidedOf(th)' = DecidedOf(th) \cup {d} /\ d \notin DecidedOf(th)
    BY <1>1, <1>7 DEF StoredOf, DecidedOf
  <2>4. UpdatesOf(th)' = IF SavedOp(w) = "update" THEN UpdatesOf(th) \cup {d} ELSE UpdatesOf(th)
    BY <1>1, <2>3 DEF UpdatesOf
  <2>5. d \notin UpdatesOf(th)
    BY <2>3 DEF UpdatesOf
  <2>6. IsFiniteSet(StoredOf(th)) /\ IsFiniteSet(DecidedOf(th)) /\ IsFiniteSet(UpdatesOf(th))
    <3>1. StoredOf(th) \in SUBSET Message
      BY DEF LInv, RInv, TInv, TypeOK, StoredOf
    <3>2. DecidedOf(th) \in SUBSET decisions /\ UpdatesOf(th) \in SUBSET decisions
      BY DEF DecidedOf, UpdatesOf
    <3> QED
      BY <3>1, <3>2, FiniteAssumption, FS_Subset DEF LInv
  <2>7. CountersAgree(th)'
    <3>1. Cardinality(StoredOf(th)') = Cardinality(StoredOf(th)) + 1
      BY <2>3, <2>6, FS_AddElement
    <3>2. Cardinality(DecidedOf(th)') = Cardinality(DecidedOf(th)) + 1
      BY <2>3, <2>6, FS_AddElement
    <3>3. Cardinality(UpdatesOf(th)')
            = Cardinality(UpdatesOf(th)) + IF SavedOp(w) = "update" THEN 1 ELSE 0
      BY <2>4, <2>5, <2>6, FS_AddElement, FS_CardinalityType
    <3> QED
      BY <1>5, <2>2, <3>1, <3>2, <3>3 DEF CountersAgree
  <2>8. LastAgrees(th)'
    <3>1. threads[th].last \in Nat \cup {-1}
      BY <2>1 DEF ThreadRow
    <3>2. \A n \in StoredOf(th) : n.index \in Nat
      BY MessageType DEF LInv, RInv, TInv, TypeOK, StoredOf
    <3> QED
      BY <1>2, <1>5, <2>2, <2>3, <3>1, <3>2 DEF LastAgrees
  <2> QED
    BY <2>7, <2>8
<1> QED
  BY <1>6, <1>7

LEMMA CommitCredits ==
    ASSUME LInv, NEW w \in Worker, pc[w] = "save", ~UniqueClash(msg[w]),
           NEW x \in RemoteAtSave(w), Commit(w, x)
    PROVE  CreditedOnce'
<1> DEFINE m == msg[w]
           d == NewDecision(w, x)
           r == NewDelivery(w)
           Credits(D, e) == {q \in D : q.email = e.msg.email /\ q.outcome # "unchanged"}
           Credit(e) == [run |-> e.run, email |-> e.msg.email, outcome |-> e.op]
<1>1. /\ \A e \in decisions : e.msg.email # m.email
      /\ \A q \in deliveries : q.email # m.email
      /\ decisions' = decisions \cup {d} /\ deliveries' = deliveries \cup {r}
      /\ SavedOp(w) # "unchanged"
  BY CommitIsNew DEF Operation
<1>2. d.msg = m /\ r.email = m.email /\ r.outcome # "unchanged" /\ r = Credit(d)
  BY <1>1 DEF NewDecision, NewDelivery
<1>3. \A e \in decisions : Credits(deliveries, e) = {Credit(e)}
  BY DEF LInv, CreditedOnce
<1>4. \A q \in deliveries : \E e \in decisions : e.msg.email = q.email
  BY DEF LInv, CreditedOnce
<1> HIDE DEF d, r, Credit
<1>5. Credits(deliveries', d) = {Credit(d)}
  BY <1>1, <1>2
<1>6. ASSUME NEW e \in decisions PROVE Credits(deliveries', e) = {Credit(e)}
  <2>1. Credits(deliveries', e) = Credits(deliveries, e)
    BY <1>1, <1>2
  <2> QED
    BY <1>3, <2>1
<1>7. \A e \in decisions' : Credits(deliveries', e) = {Credit(e)}
  BY <1>1, <1>5, <1>6
<1>8. \A q \in deliveries' : \E e \in decisions' : e.msg.email = q.email
  BY <1>1, <1>2, <1>4
<1> QED
  BY <1>7, <1>8 DEF CreditedOnce, Credit

LEMMA CommitExplains ==
    ASSUME LInv, NEW w \in Worker, pc[w] = "save", NEW x \in RemoteAtSave(w), Commit(w, x)
    PROVE  CreateInv' /\ TaskHasItsCreateEvent'
<1> DEFINE n == [msg |-> msg[w], kind |-> staged[w].kind, task |-> x]
           th == msg[w].thread
<1>1. /\ TInv /\ SInv /\ CreateInv /\ TaskHasItsCreateEvent
      /\ events \subseteq Event /\ events' \in {events, events \cup {n}}
      /\ staged[w].kind = "create" => events' = events \cup {n}
  BY DEF LInv, RInv, TInv, TypeOK, Commit, EventsAfter
<1>2. n.kind = staged[w].kind /\ n.task = x /\ n.msg = msg[w]
  OBVIOUS
<1>3. \A y \in IngestTask : y \in Task
  BY DEF Task
<1> HIDE DEF n
<1>4. CASE staged[w].kind = "create"
  <2>1. /\ x \in IngestTask \ drawn /\ Live(x)' /\ tasks'[x].thread = th
        /\ drawn' = drawn \cup {x} /\ \A y \in Task : y # x => tasks'[y] = tasks[y]
    BY <1>1, <1>4, CommitEffect
  <2>2. CreateInv'
    BY <1>1, <1>2, <2>1 DEF CreateInv
  <2>3. {f \in events' : f.kind = "create" /\ f.task = x} = {n}
    BY <1>1, <1>2, <1>4, <2>1 DEF CreateInv
  <2>4. ASSUME NEW y \in IngestTask, y # x, Live(y)'
        PROVE  \E e \in events' :
                 /\ e.kind = "create" /\ e.msg.thread = tasks'[y].thread
                 /\ {f \in events' : f.kind = "create" /\ f.task = y} = {e}
    <3>1. Live(y) /\ tasks'[y] = tasks[y]
      BY <1>3, <2>1, <2>4 DEF Live
    <3>2. {f \in events' : f.kind = "create" /\ f.task = y}
            = {f \in events : f.kind = "create" /\ f.task = y}
      BY <1>1, <1>2, <2>4
    <3> QED
      BY <1>1, <3>1, <3>2 DEF TaskHasItsCreateEvent
  <2>5. n \in events' /\ n.kind = "create" /\ n.msg.thread = tasks'[x].thread
    BY <1>1, <1>2, <1>4, <2>1
  <2> QED
    BY <2>2, <2>3, <2>4, <2>5 DEF TaskHasItsCreateEvent
<1>5. CASE staged[w].kind # "create"
  <2>1. /\ drawn' = drawn
        /\ \A y \in Task : /\ Live(y)' <=> Live(y)
                           /\ Live(y) => tasks'[y].thread = tasks[y].thread
    BY <1>1, <1>5, CommitEffect
  <2>2. \A y : {f \in events' : f.kind = "create" /\ f.task = y}
                 = {f \in events : f.kind = "create" /\ f.task = y}
    BY <1>1, <1>2, <1>5
  <2> QED
    BY <1>1, <1>2, <1>3, <1>5, <2>1, <2>2 DEF CreateInv, TaskHasItsCreateEvent
<1> QED
  BY <1>4, <1>5

-------------------------------------------------------------------------------
(* The other steps *)

\* A step that leaves decisions, deliveries and events alone, creates no task of
\* ingestion and moves none to another thread, and keeps the counters.
LEMMA OtherLInv ==
    ASSUME LInv, UNCHANGED <<emails, decisions, deliveries, events>>,
           drawn \subseteq drawn',
           \A th \in Thread : /\ threads'[th].count = threads[th].count
                              /\ threads'[th].updates = threads[th].updates
                              /\ threads'[th].last = threads[th].last,
           \A x \in IngestTask : Live(x)' => Live(x) /\ tasks'[x].thread = tasks[x].thread
    PROVE  /\ EmailsDecided' /\ CreateInv' /\ CreditedOnce' /\ TaskHasItsCreateEvent'
           /\ \A th \in Thread : CountersAgree(th)' /\ LastAgrees(th)'
<1>1. EmailsDecided' /\ CreditedOnce'
  BY DEF LInv, EmailsDecided, CreditedOnce
<1>2. CreateInv' /\ TaskHasItsCreateEvent'
  BY DEF LInv, CreateInv, TaskHasItsCreateEvent
<1>3. ASSUME NEW th \in Thread PROVE CountersAgree(th)' /\ LastAgrees(th)'
  <2>1. /\ StoredOf(th)' = StoredOf(th) /\ DecidedOf(th)' = DecidedOf(th)
        /\ UpdatesOf(th)' = UpdatesOf(th)
    BY DEF StoredOf, DecidedOf, UpdatesOf
  <2> QED
    BY <2>1 DEF LInv, CountersAgree, LastAgrees
<1> QED
  BY <1>1, <1>2, <1>3

LEMMA ReplayCredits ==
    ASSUME LInv, NEW w \in Worker, RecordReplay(w)
    PROVE  CreditedOnce'
<1> DEFINE r == [run |-> w, email |-> msg[w].email, outcome |-> "unchanged"]
<1>1. decisions' = decisions /\ deliveries' \in {deliveries, deliveries \cup {r}}
  BY DEF RecordReplay, Delivered
<1>2. PICK d \in decisions : d.msg = msg[w]
  BY DEF RecordReplay, LInv, ReplayInv, EmailsDecided
<1>3. r.email = d.msg.email /\ r.outcome = "unchanged"
  BY <1>2
<1> HIDE DEF r
<1>4. \A e \in decisions :
        {q \in deliveries' : q.email = e.msg.email /\ q.outcome # "unchanged"}
          = {q \in deliveries : q.email = e.msg.email /\ q.outcome # "unchanged"}
  BY <1>1, <1>3
<1> QED
  BY <1>1, <1>2, <1>3, <1>4 DEF LInv, CreditedOnce

LEMMA PostLInv ==
    ASSUME LInv, NEW th \in Thread, NEW c \in Content, PostTask(th, c)
    PROVE  \A x \in IngestTask : Live(x)' => Live(x) /\ tasks'[x].thread = tasks[x].thread
<1>1. PICK x \in ApiTask : \A y \in Task : y # x => tasks'[y] = tasks[y]
  BY DEF PostTask, LInv, RInv, TInv, TypeOK
<1>2. \A y \in IngestTask : y \in Task /\ tasks'[y] = tasks[y]
  BY <1>1, IdAssumption DEF Task
<1> QED
  BY <1>2 DEF Live

LEMMA PatchLInv ==
    ASSUME LInv, NEW x \in Task, NEW c \in Content, PatchTaskDirectly(x, c)
    PROVE  \A y \in Task : Live(y)' => Live(y) /\ tasks'[y].thread = tasks[y].thread
<1>1. Live(x) /\ tasks' = [tasks EXCEPT ![x] = [tasks[x] EXCEPT !.content = c]]
  BY DEF PatchTaskDirectly
<1>2. tasks[x] \in TaskRow
  BY <1>1 DEF Live, LInv, RInv, TInv, TypeOK
<1>3. tasks'[x].thread = tasks[x].thread /\ \A y \in Task : y # x => tasks'[y] = tasks[y]
  BY <1>1, <1>2 DEF TaskRow, LInv, RInv, TInv, TypeOK
<1> QED
  BY <1>1, <1>3 DEF Live

LEMMA DeleteLInv ==
    ASSUME LInv, NEW d \in Deleter, FinishDelete(d)
    PROVE  /\ \A x \in Task : Live(x)' => Live(x) /\ tasks'[x].thread = tasks[x].thread
           /\ \A th \in Thread : /\ threads'[th].count = threads[th].count
                                 /\ threads'[th].updates = threads[th].updates
                                 /\ threads'[th].last = threads[th].last
<1>1. /\ tasks' = [tasks EXCEPT ![deleting[d]] = None] /\ tasks \in [Task -> TaskRow \cup {None}]
      /\ threads \in [Thread -> ThreadRow]
  BY DEF FinishDelete, LInv, RInv, TInv, TypeOK
<1>2. \A th \in Thread :
        threads'[th] = IF th \in MappedTo(deleting[d])
                       THEN [threads[th] EXCEPT !.task = None, !.snapshot = None]
                       ELSE threads[th]
  BY DEF FinishDelete
<1>3. \A th \in Thread : /\ threads'[th].count = threads[th].count
                         /\ threads'[th].updates = threads[th].updates
                         /\ threads'[th].last = threads[th].last
  BY <1>1, <1>2 DEF ThreadRow
<1> QED
  BY <1>1, <1>3 DEF Live

LEMMA InitLInv == Init => LInv
<1> SUFFICES ASSUME Init PROVE LInv
  OBVIOUS
<1>1. RInv
  BY InitTInv, InitSInv DEF Init, RInv, DecidedInv
<1>2. ASSUME NEW th \in Thread PROVE CountersAgree(th) /\ LastAgrees(th)
  <2>1. StoredOf(th) = {} /\ DecidedOf(th) = {} /\ UpdatesOf(th) = {}
    BY DEF Init, StoredOf, DecidedOf, UpdatesOf
  <2>2. threads[th].count = 0 /\ threads[th].updates = 0 /\ threads[th].last = -1
    BY DEF Init, EmptyThread
  <2> QED
    BY <2>1, <2>2, FS_EmptySet DEF CountersAgree, LastAgrees
<1>3. EmailsDecided /\ ReplayInv /\ CreateInv /\ CreditedOnce
  BY DEF Init, EmailsDecided, ReplayInv, CreateInv, CreditedOnce
<1>4. TaskHasItsCreateEvent
  BY DEF Init, TaskHasItsCreateEvent, Live
<1> QED
  BY <1>1, <1>2, <1>3, <1>4, FS_EmptySet DEF LInv, Init

LEMMA NextLInv == LInv /\ [Next]_vars => LInv'
<1> SUFFICES ASSUME LInv, [Next]_vars PROVE LInv'
  OBVIOUS
<1>1. RInv'
  BY NextTInv, NextSInv, NextDecided DEF LInv, RInv
<1>2. ReplayInv' /\ IsFiniteSet(decisions')
  <2>1. emails \subseteq emails'
    BY TableSteps DEF LInv, RInv, Saves, Commit, RecordReplay, PostTask, PatchTaskDirectly,
                      FinishDelete, rows
  <2>2. decisions' = decisions \/ \E d : decisions' = decisions \cup {d}
    BY TableSteps DEF LInv, RInv, Saves, Commit, RecordReplay, PostTask, PatchTaskDirectly,
                      FinishDelete, rows
  <2>3. IsFiniteSet(decisions')
    BY <2>2, FS_AddElement DEF LInv
  <2>4. ReplayInv'
    BY <2>1, ReplaySteps DEF LInv, RInv, ReplayInv, Stored
  <2> QED
    BY <2>3, <2>4
<1> DEFINE Agree == /\ EmailsDecided' /\ CreateInv' /\ CreditedOnce' /\ TaskHasItsCreateEvent'
                    /\ \A th \in Thread : CountersAgree(th)' /\ LastAgrees(th)'
<1>3. ASSUME NEW w \in Worker, Saves(w) PROVE Agree
  <2>1. PICK x \in RemoteAtSave(w) : pc[w] = "save" /\ ~UniqueClash(msg[w]) /\ Commit(w, x)
    BY <1>3 DEF Saves
  <2>2. EmailsDecided'
    <3>1. emails' = emails \cup {msg[w]} /\ decisions' = decisions \cup {NewDecision(w, x)}
      BY <2>1, CommitIsNew
    <3>2. NewDecision(w, x).msg = msg[w]
      BY DEF NewDecision
    <3> QED
      BY <3>1, <3>2 DEF LInv, EmailsDecided
  <2> QED
    BY <2>1, <2>2, CommitCounters, CommitCredits, CommitExplains
<1>4. ASSUME NEW w \in Worker, RecordReplay(w) PROVE Agree
  <2>1. UNCHANGED <<emails, decisions, events, threads, tasks, drawn>>
    BY <1>4 DEF RecordReplay
  <2>2. EmailsDecided' /\ CreateInv' /\ TaskHasItsCreateEvent'
    BY <2>1 DEF LInv, EmailsDecided, CreateInv, TaskHasItsCreateEvent, Live
  <2>3. ASSUME NEW th \in Thread PROVE CountersAgree(th)' /\ LastAgrees(th)'
    BY <2>1 DEF LInv, CountersAgree, LastAgrees, StoredOf, DecidedOf, UpdatesOf
  <2> QED
    BY <1>4, <2>2, <2>3, ReplayCredits
<1>5. ASSUME NEW th \in Thread, NEW c \in Content, PostTask(th, c) PROVE Agree
  BY <1>5, PostLInv, OtherLInv DEF PostTask
<1>6. ASSUME NEW x \in Task, NEW c \in Content, PatchTaskDirectly(x, c) PROVE Agree
  BY <1>6, PatchLInv, OtherLInv DEF PatchTaskDirectly, Task
<1>7. ASSUME NEW d \in Deleter, FinishDelete(d) PROVE Agree
  BY <1>7, DeleteLInv, OtherLInv DEF FinishDelete, Task
<1>8. ASSUME UNCHANGED rows PROVE Agree
  BY <1>8, OtherLInv DEF rows, Live
<1>9. Agree
  BY <1>3, <1>4, <1>5, <1>6, <1>7, <1>8, TableSteps DEF LInv, RInv
<1> QED
  BY <1>1, <1>2, <1>9 DEF LInv

LEMMA AlwaysLInv == Spec => []LInv
BY InitLInv, NextLInv, PTL DEF Spec

-------------------------------------------------------------------------------
\* The counters of a thread agree with the e-mails and decisions of the thread
\* (save_outcome's upsert against other requests and lost acknowledgements).
THEOREM Agrees == Spec => []LedgerAgrees
<1>1. LInv => LedgerAgrees
  BY DEF LInv, EmailsDecided, CountersAgree, LastAgrees, LedgerAgrees, StoredOf, DecidedOf,
         UpdatesOf
<1> QED
  BY <1>1, AlwaysLInv, PTL

\* One run is credited with an e-mail, whichever requests carry it (save_outcome
\* against record_delivery).
THEOREM Credited == Spec => []CreditedOnce
<1>1. LInv => CreditedOnce
  BY DEF LInv
<1> QED
  BY <1>1, AlwaysLInv, PTL

\* Each task of ingestion has one create event, of its thread (_event).
THEOREM Explained == Spec => []TaskHasItsCreateEvent
<1>1. LInv => TaskHasItsCreateEvent
  BY DEF LInv
<1> QED
  BY <1>1, AlwaysLInv, PTL

===============================================================================
