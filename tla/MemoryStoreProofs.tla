-------------------------- MODULE MemoryStoreProofs ---------------------------
(***************************************************************************)
(* What ingestion over the in-memory store keeps for every set of          *)
(* requests, messages, tasks and locks, as long as the factory of          *)
(* self._locks ran once at most for a thread.                              *)
(*                                                                         *)
(* With one lock made for a thread, one request at a time is between its   *)
(* inspection and its save_outcome in that thread (Alone).  The place and  *)
(* the decision it inspected are therefore still free when it saves, and   *)
(* the only task of ingestion that the thread may have is the one that the *)
(* request knows.  Between two such requests that task is the mapped one.  *)
(***************************************************************************)
EXTENDS MemoryStore, FiniteSetTheorems, TLAPS

InMessage == {"replay", "prior", "lookup", "insert", "acquire"} \cup InReconcile
HasLock == {"insert", "acquire"} \cup InReconcile
Inside == {"read", "matched", "save"}

Row == [task : Task \cup {None}, last : Int, count : Nat, updates : Nat]
Operation == {"create", "update", "noop", "skip"}
Decision == [msg : Message, op : Operation, task : Task \cup {None}, run : Worker]

TypeStore ==
    /\ emails \in [Email -> Message \cup {None}]
    /\ indexes \in [Place -> Email \cup {None}]
    /\ decisions \in [Email -> Decision \cup {None}]
    /\ threads \in [Thread -> Row]
    /\ tasks \in [Task -> Thread \cup {None}]
    /\ drawn \in SUBSET Task

TypeLocks ==
    /\ locks \in [Thread -> Lock \cup {None}]
    /\ made \in [Thread -> SUBSET Lock]
    /\ lock \in [Worker -> Lock \cup {None}]

TypeRequests ==
    /\ pc \in [Worker -> {"start", "idle", "done", "failed"} \cup InMessage]
    /\ pending \in [Worker -> SUBSET Message]
    /\ msg \in [Worker -> Message \cup {None}]
    /\ op \in [Worker -> Operation]
    /\ seen \in [Worker -> Row]
    /\ remote \in [Worker -> Task \cup {None}]
    /\ \A w \in Worker : pc[w] \in InMessage => msg[w] \in Message

TypeOK == TypeStore /\ TypeLocks /\ TypeRequests

\* What every step of the tables keeps.
TableInv ==
    /\ IsFiniteSet(drawn)
    /\ \A th \in Thread : IsFiniteSet(made[th])
    /\ \A x \in Task : Live(x) => x \in drawn
    /\ \A p \in Place : indexes[p] # None => emails[indexes[p]] # None
    /\ \A e \in Email : decisions[e] # None => emails[e] # None

\* One request at a time holds a lock.
Mutex ==
    \A v, w \in Worker :
        v # w /\ pc[v] \in InReconcile /\ pc[w] \in InReconcile => lock[v] # lock[w]

\* Every lock that thread_lock returned for the thread is the same.
Sole(th) == \A j, k \in made[th] : j = k

\* x was drawn, and is a task of the thread until it is deleted.
Belongs(x, th) == x # None => x \in drawn /\ (Live(x) => tasks[x] = th)

\* The tasks that ingestion gave the thread.
Ours(th) == IngestTask \cap Listed(th)

\* The task that a request will save as the thread's.
Known(w) == IF pc[w] = "read" THEN seen[w].task ELSE remote[w]

\* What a request that inspected its message under the only lock of the thread
\* may still rely on.
Fresh(w) ==
    LET m == msg[w] IN
    /\ indexes[<<m.thread, m.index>>] = None
    /\ decisions[m.email] # None => decisions[m.email].msg.thread # m.thread
    /\ \A x \in Ours(m.thread) : x = Known(w)

WorkerInv(w) ==
    /\ pc[w] \in HasLock => lock[w] \in made[msg[w].thread]
    /\ pc[w] \in Inside => Belongs(seen[w].task, msg[w].thread)
    /\ pc[w] \in {"matched", "save"} => Belongs(remote[w], msg[w].thread)
    /\ pc[w] \in Inside /\ Sole(msg[w].thread) => Fresh(w)

\* A task of ingestion is mapped, or will be by the request that knows it.
Mapped(th) ==
    \A x \in Ours(th) :
        \/ threads[th].task = x
        \/ \E w \in Worker : pc[w] = "save" /\ remote[w] = x

Taken(th) == {p \in Place : p[1] = th /\ indexes[p] # None}

RowAgrees(th) ==
    /\ threads[th].count = Cardinality(Taken(th))
    /\ \A p \in Taken(th) : p[2] <= threads[th].last
    /\ threads[th].last >= 0 => <<th, threads[th].last>> \in Taken(th)

ThreadInv(th) ==
    /\ locks[th] # None => locks[th] \in made[th]
    /\ Belongs(threads[th].task, th)
    /\ Sole(th) => Mapped(th) /\ RowAgrees(th)

IInv ==
    /\ TypeOK
    /\ TableInv
    /\ Mutex
    /\ \A w \in Worker : WorkerInv(w)
    /\ \A th \in Thread : ThreadInv(th)

-------------------------------------------------------------------------------
(* Types *)

LEMMA MessageType ==
    ASSUME NEW m \in Message
    PROVE  /\ m.email \in Email /\ m.thread \in Thread /\ m.index \in Nat
           /\ <<m.thread, m.index>> \in Place
           /\ m # None /\ m.email # None
BY MessageAssumption, NoneAssumption DEF Place

LEMMA EmptyRowType == EmptyRow \in Row
BY DEF EmptyRow, Row

LEMMA ForgetType ==
    ASSUME TypeOK, NEW w \in Worker, NEW label \in {"idle", "done", "failed"},
           Goto(w, label), Forget(w), pending' \in [Worker -> SUBSET Message]
    PROVE  /\ TypeRequests'
           /\ lock' \in [Worker -> Lock \cup {None}]
BY EmptyRowType DEF TypeOK, TypeRequests, TypeLocks, Goto, Forget, Operation, InMessage, InReconcile

LEMMA FailType ==
    ASSUME TypeOK, NEW w \in Worker, Fail(w)
    PROVE  /\ TypeRequests'
           /\ lock' \in [Worker -> Lock \cup {None}]
<1>1. pending' \in [Worker -> SUBSET Message]
  BY DEF Fail, TypeOK, TypeRequests
<1> QED
  BY <1>1, ForgetType DEF Fail

LEMMA AdvanceType ==
    ASSUME TypeOK, NEW w \in Worker, Advance(w)
    PROVE  /\ TypeRequests'
           /\ lock' \in [Worker -> Lock \cup {None}]
<1>1. pending' \in [Worker -> SUBSET Message]
  BY DEF Advance, TypeOK, TypeRequests
<1>2. Goto(w, "done") \/ Goto(w, "idle")
  BY DEF Advance
<1> QED
  BY <1>1, <1>2, ForgetType DEF Advance

\* The row that save_outcome writes is a row.
LEMMA SavedRowType ==
    ASSUME TypeOK, NEW w \in Worker, msg[w] \in Message
    PROVE  SavedRow(w) \in Row
<1> DEFINE prior == threads[msg[w].thread]
<1>1. prior \in Row /\ remote[w] \in Task \cup {None}
  BY MessageType DEF TypeOK, TypeStore, TypeRequests
<1>2. msg[w].index \in Int
  <2>1. msg[w].index \in Nat
    BY MessageType
  <2> QED
    BY <2>1
<1> HIDE DEF prior
<1>3. /\ prior.task \in Task \cup {None} /\ prior.last \in Int
      /\ prior.count \in Nat /\ prior.updates \in Nat
  BY <1>1 DEF Row
<1>4. /\ (IF remote[w] # None THEN remote[w] ELSE prior.task) \in Task \cup {None}
      /\ (IF msg[w].index > prior.last THEN msg[w].index ELSE prior.last) \in Int
      /\ prior.count + 1 \in Nat
      /\ prior.updates + (IF op[w] = "update" THEN 1 ELSE 0) \in Nat
  BY <1>1, <1>2, <1>3
<1>5. SavedRow(w) = [task |-> IF remote[w] # None THEN remote[w] ELSE prior.task,
                     last |-> IF msg[w].index > prior.last THEN msg[w].index ELSE prior.last,
                     count |-> prior.count + 1,
                     updates |-> prior.updates + IF op[w] = "update" THEN 1 ELSE 0]
  BY DEF SavedRow, prior
<1> QED
  BY <1>4, <1>5 DEF Row

\* list_tasks, or the task of the thread's row, is a task or nothing.
LEMMA MatchedType ==
    ASSUME TypeOK, NEW w \in Worker
    PROVE  /\ Matched(w) \in Task \cup {None}
           /\ Listed(msg[w].thread) # {} => Matched(w) \in Listed(msg[w].thread)
           /\ Listed(msg[w].thread) = {} => Matched(w) = seen[w].task
BY DEF TypeOK, TypeRequests, Row, Matched, Listed

\* The steps that write no table of the store.
SameStore == UNCHANGED <<emails, indexes, decisions, threads, tasks, drawn>>

LEMMA SameStoreType == TypeOK /\ SameStore => TypeStore'
BY DEF TypeOK, TypeStore, SameStore

LEMMA EarlyTypes ==
    ASSUME TypeOK, NEW w \in Worker,
           \/ StartRun(w) \/ Inspect(w) \/ InspectConflict(w) \/ Route(w) \/ RecordReplay(w)
    PROVE  TypeOK'
<1>1. CASE StartRun(w)
  BY <1>1 DEF StartRun, Goto, TypeOK, TypeStore, TypeLocks, TypeRequests, lockTable, InMessage, InReconcile
<1>2. CASE Inspect(w)
  <2>1. PICK m \in pending[w] :
          /\ msg' = [msg EXCEPT ![w] = m]
          /\ Goto(w, "replay") \/ Goto(w, "prior")
    BY <1>2 DEF Inspect
  <2>2. m \in Message
    BY DEF TypeOK, TypeRequests
  <2>3. UNCHANGED <<tables, lockTable, pending, op, seen, remote, lock>>
    BY <1>2 DEF Inspect
  <2>4. TypeStore' /\ TypeLocks'
    BY <2>3 DEF TypeOK, TypeStore, TypeLocks, tables, lockTable
  <2>5. TypeRequests'
    BY <2>1, <2>2, <2>3 DEF TypeOK, TypeRequests, Goto, InMessage, InReconcile
  <2> QED
    BY <2>4, <2>5 DEF TypeOK
<1>3. CASE InspectConflict(w)
  BY <1>3, FailType, SameStoreType DEF InspectConflict, SameStore, TypeOK, TypeLocks, lockTable
<1>4. CASE Route(w)
  <2>1. PICK o \in Operation : op' = [op EXCEPT ![w] = o]
    BY <1>4 DEF Route, Operation
  <2>2. /\ UNCHANGED <<tables, lockTable, pending, msg, seen, remote, lock>>
        /\ pc[w] = "prior" /\ Goto(w, "lookup")
    BY <1>4 DEF Route
  <2>3. TypeStore' /\ TypeLocks'
    BY <2>2 DEF TypeOK, TypeStore, TypeLocks, tables, lockTable
  <2>4. TypeRequests'
    BY <2>1, <2>2 DEF TypeOK, TypeRequests, Goto, InMessage, InReconcile
  <2> QED
    BY <2>3, <2>4 DEF TypeOK
<1>5. CASE RecordReplay(w)
  BY <1>5, AdvanceType, SameStoreType DEF RecordReplay, SameStore, TypeOK, TypeLocks, lockTable
<1> QED
  BY <1>1, <1>2, <1>3, <1>4, <1>5

LEMMA LockTypes ==
    ASSUME TypeOK, NEW w \in Worker,
           LookUp(w) \/ MakeLock(w) \/ InsertLock(w) \/ Acquire(w)
    PROVE  TypeOK'
<1> USE DEF InMessage, InReconcile
<1>1. msg[w] \in Message /\ msg[w].thread \in Thread
  BY MessageType DEF LookUp, MakeLock, InsertLock, Acquire, TypeOK, TypeRequests
<1>2. CASE LookUp(w)
  BY <1>1, <1>2 DEF LookUp, Goto, TypeOK, TypeStore, TypeLocks, TypeRequests, tables, lockTable
<1>3. CASE MakeLock(w)
  <2>1. PICK k \in Lock : /\ lock' = [lock EXCEPT ![w] = k]
                          /\ made' = [made EXCEPT ![msg[w].thread] = @ \cup {k}]
    BY <1>3 DEF MakeLock
  <2>2. TypeLocks'
    BY <1>1, <1>3, <2>1 DEF MakeLock, TypeOK, TypeLocks
  <2>3. TypeStore' /\ TypeRequests'
    BY <1>3 DEF MakeLock, Goto, TypeOK, TypeStore, TypeRequests, tables
  <2> QED
    BY <2>2, <2>3 DEF TypeOK
<1>4. CASE InsertLock(w)
  BY <1>1, <1>4 DEF InsertLock, Goto, TypeOK, TypeStore, TypeLocks, TypeRequests, tables, lockTable
<1>5. CASE Acquire(w)
  BY <1>5 DEF Acquire, Goto, TypeOK, TypeStore, TypeLocks, TypeRequests, tables, lockTable
<1> QED
  BY <1>2, <1>3, <1>4, <1>5

LEMMA ReadTypes ==
    ASSUME TypeOK, NEW w \in Worker,
           \/ ReadThread(w) \/ FoundUnchanged(w) \/ FoundConflict(w)
           \/ KeepTask(w) \/ MatchTask(w) \/ Refuse(w)
    PROVE  TypeOK'
<1>1. CASE ReadThread(w)
  <2>1. threads[msg[w].thread] \in Row
    BY <1>1, MessageType DEF ReadThread, TypeOK, TypeStore, TypeRequests, InMessage, InReconcile
  <2> QED
    BY <1>1, <2>1 DEF ReadThread, Goto, TypeOK, TypeStore, TypeLocks, TypeRequests, tables, lockTable, InMessage, InReconcile
<1>2. CASE FoundUnchanged(w)
  BY <1>2 DEF FoundUnchanged, Goto, TypeOK, TypeStore, TypeLocks, TypeRequests, tables, lockTable, InMessage, InReconcile
<1>3. CASE FoundConflict(w)
  BY <1>3, FailType, SameStoreType DEF FoundConflict, SameStore, TypeOK, TypeLocks, lockTable
<1>4. CASE KeepTask(w)
  <2>1. seen[w].task \in Task \cup {None}
    BY DEF TypeOK, TypeRequests, Row
  <2> QED
    BY <1>4, <2>1 DEF KeepTask, Goto, TypeOK, TypeStore, TypeLocks, TypeRequests, tables, lockTable, InMessage, InReconcile
<1>5. CASE MatchTask(w)
  BY <1>5, MatchedType DEF MatchTask, Goto, TypeOK, TypeStore, TypeLocks, TypeRequests, tables, lockTable, InMessage, InReconcile
<1>6. CASE Refuse(w)
  BY <1>6, FailType, SameStoreType DEF Refuse, SameStore, TypeOK, TypeLocks, lockTable
<1> QED
  BY <1>1, <1>2, <1>3, <1>4, <1>5, <1>6

LEMMA WriteTypes ==
    ASSUME TypeOK, NEW w \in Worker,
           CreateTask(w) \/ PatchTask(w) \/ PatchMissing(w) \/ SaveOutcome(w)
    PROVE  TypeOK'
<1>1. msg[w] \in Message
  BY DEF CreateTask, PatchTask, PatchMissing, SaveOutcome, TypeOK, TypeRequests, InMessage, InReconcile
<1>2. /\ msg[w].email \in Email /\ msg[w].thread \in Thread
      /\ <<msg[w].thread, msg[w].index>> \in Place
  BY <1>1, MessageType
<1>3. CASE CreateTask(w)
  <2>1. PICK x \in IngestTask : /\ tasks' = [tasks EXCEPT ![x] = msg[w].thread]
                                /\ drawn' = drawn \cup {x}
                                /\ remote' = [remote EXCEPT ![w] = x]
    BY <1>3 DEF CreateTask
  <2>2. x \in Task
    BY DEF Task
  <2> QED
    BY <1>2, <1>3, <2>1, <2>2 DEF CreateTask, Goto, TypeOK, TypeStore, TypeLocks, TypeRequests, lockTable, InMessage, InReconcile
<1>4. CASE PatchTask(w)
  <2>1. op' \in [Worker -> Operation]
    BY <1>4 DEF PatchTask, TypeOK, TypeRequests, Operation
  <2> QED
    BY <1>4, <2>1 DEF PatchTask, Goto, TypeOK, TypeStore, TypeLocks, TypeRequests, tables, lockTable, InMessage, InReconcile
<1>5. CASE PatchMissing(w)
  BY <1>5, FailType, SameStoreType DEF PatchMissing, SameStore, TypeOK, TypeLocks, lockTable
<1>6. CASE SaveOutcome(w)
  <2>1. TypeRequests' /\ TypeLocks'
    BY <1>6, AdvanceType DEF SaveOutcome, TypeOK, TypeLocks, lockTable
  <2>2. [msg |-> msg[w], op |-> op[w], task |-> remote[w], run |-> w] \in Decision
    BY <1>1 DEF Decision, TypeOK, TypeRequests
  <2>3. emails' \in [Email -> Message \cup {None}] /\ indexes' \in [Place -> Email \cup {None}]
    BY <1>1, <1>2, <1>6 DEF SaveOutcome, TypeOK, TypeStore
  <2>4. decisions' \in [Email -> Decision \cup {None}]
    BY <1>2, <1>6, <2>2 DEF SaveOutcome, TypeOK, TypeStore
  <2>5. threads' \in [Thread -> Row]
    BY <1>1, <1>2, <1>6, SavedRowType DEF SaveOutcome, TypeOK, TypeStore
  <2>6. TypeStore'
    BY <1>6, <2>3, <2>4, <2>5 DEF SaveOutcome, TypeOK, TypeStore
  <2> QED
    BY <2>1, <2>6 DEF TypeOK
<1> QED
  BY <1>3, <1>4, <1>5, <1>6

LEMMA ApiTypes ==
    ASSUME TypeOK,
           (\E th \in Thread : PostTask(th)) \/ (\E x \in Task : DeleteTask(x))
    PROVE  TypeOK'
<1>1. ASSUME NEW th \in Thread, PostTask(th) PROVE TypeOK'
  <2>1. PICK x \in ApiTask : /\ tasks' = [tasks EXCEPT ![x] = th]
                             /\ drawn' = drawn \cup {x}
    BY <1>1 DEF PostTask
  <2>2. x \in Task
    BY DEF Task
  <2> QED
    BY <1>1, <2>1, <2>2 DEF PostTask, TypeOK, TypeStore, TypeLocks, TypeRequests, lockTable
<1>2. ASSUME NEW x \in Task, DeleteTask(x) PROVE TypeOK'
  <2>1. \A th \in Thread : [threads[th] EXCEPT !.task = None] \in Row /\ threads[th] \in Row
    BY DEF TypeOK, TypeStore, Row
  <2>2. threads' \in [Thread -> Row]
    BY <1>2, <2>1 DEF DeleteTask
  <2> QED
    BY <1>2, <2>2 DEF DeleteTask, TypeOK, TypeStore, TypeLocks, TypeRequests, lockTable
<1> QED
  BY <1>1, <1>2

-------------------------------------------------------------------------------
(* What a step of one request leaves of the others *)

Still(v) ==
    /\ pc'[v] = pc[v] /\ msg'[v] = msg[v] /\ lock'[v] = lock[v]
    /\ seen'[v] = seen[v] /\ remote'[v] = remote[v]

Others(w) == \A v \in Worker \ {w} : Still(v)

\* With one lock, one request at a time reconciles in a thread.
LEMMA Alone ==
    ASSUME Mutex, NEW v \in Worker, NEW w \in Worker, WorkerInv(v), WorkerInv(w),
           pc[v] \in InReconcile, pc[w] \in InReconcile,
           msg[v].thread = msg[w].thread, Sole(msg[w].thread)
    PROVE  v = w
BY DEF Mutex, WorkerInv, Sole, HasLock

LEMMA MutexKept ==
    ASSUME Mutex, NEW w \in Worker, Others(w),
           pc'[w] \in InReconcile => pc[w] \in InReconcile /\ lock'[w] = lock[w]
    PROVE  Mutex'
<1> SUFFICES ASSUME NEW u \in Worker, NEW v \in Worker, u # v,
                    pc'[u] \in InReconcile, pc'[v] \in InReconcile
             PROVE  lock'[u] # lock'[v]
  BY DEF Mutex
<1>1. /\ pc[u] \in InReconcile /\ lock'[u] = lock[u]
      /\ pc[v] \in InReconcile /\ lock'[v] = lock[v]
  BY DEF Others, Still
<1> QED
  BY <1>1 DEF Mutex

LEMMA SoleBefore ==
    ASSUME NEW th, made[th] \subseteq made'[th], Sole(th)'
    PROVE  Sole(th)
BY DEF Sole

LEMMA StillKept ==
    ASSUME NEW v \in Worker, Still(v), WorkerInv(v), TypeOK,
           \A th \in Thread : made[th] \subseteq made'[th],
           \A x \in Task \cup {None}, th \in Thread : Belongs(x, th) => Belongs(x, th)',
           pc[v] \in Inside /\ Sole(msg[v].thread) =>
               LET m == msg[v] IN
               /\ indexes'[<<m.thread, m.index>>] = indexes[<<m.thread, m.index>>]
               /\ \/ decisions'[m.email] = decisions[m.email]
                  \/ decisions'[m.email].msg.thread # m.thread
               /\ Ours(m.thread)' \subseteq Ours(m.thread)
    PROVE  WorkerInv(v)'
<1>1. /\ pc'[v] = pc[v] /\ msg'[v] = msg[v] /\ lock'[v] = lock[v]
      /\ seen'[v] = seen[v] /\ remote'[v] = remote[v]
  BY DEF Still
<1>2. CASE pc[v] \notin HasLock
  BY <1>1, <1>2 DEF WorkerInv, HasLock, Inside, InReconcile
<1>3. CASE pc[v] \in HasLock
  <2>1. msg[v] \in Message /\ msg[v].thread \in Thread
    BY <1>3, MessageType DEF TypeOK, TypeRequests, HasLock, InMessage
  <2>2. seen[v].task \in Task \cup {None} /\ remote[v] \in Task \cup {None}
    BY DEF TypeOK, TypeRequests, Row
  <2>3. lock'[v] \in made'[msg'[v].thread]
    BY <1>1, <1>3, <2>1 DEF WorkerInv
  <2>4. pc'[v] \in Inside => Belongs(seen[v].task, msg[v].thread)'
    <3> HAVE pc'[v] \in Inside
    <3>1. Belongs(seen[v].task, msg[v].thread)
      BY <1>1 DEF WorkerInv
    <3> DEFINE x == seen[v].task  th == msg[v].thread
    <3>2. x \in Task \cup {None} /\ th \in Thread /\ Belongs(x, th)
      BY <2>1, <2>2, <3>1
    <3>3. seen'[v].task = x /\ msg'[v].thread = th
      BY <1>1
    <3> HIDE DEF x, th
    <3>4. x # None => x \in drawn' /\ (x \in Task /\ tasks'[x] # None => tasks'[x] = th)
      BY <3>2 DEF Belongs, Live
    <3> QED
      BY <3>3, <3>4 DEF Belongs, Live
  <2>5. pc'[v] \in {"matched", "save"} => Belongs(remote[v], msg[v].thread)'
    <3> HAVE pc'[v] \in {"matched", "save"}
    <3>1. Belongs(remote[v], msg[v].thread)
      BY <1>1 DEF WorkerInv
    <3> DEFINE x == remote[v]  th == msg[v].thread
    <3>2. x \in Task \cup {None} /\ th \in Thread /\ Belongs(x, th)
      BY <2>1, <2>2, <3>1
    <3>3. remote'[v] = x /\ msg'[v].thread = th
      BY <1>1
    <3> HIDE DEF x, th
    <3>4. x # None => x \in drawn' /\ (x \in Task /\ tasks'[x] # None => tasks'[x] = th)
      BY <3>2 DEF Belongs, Live
    <3> QED
      BY <3>3, <3>4 DEF Belongs, Live
  <2>6. pc'[v] \in Inside /\ Sole(msg[v].thread)' => Fresh(v)'
    <3> HAVE pc'[v] \in Inside /\ Sole(msg[v].thread)'
    <3>1. Sole(msg[v].thread)
      BY <1>1, <2>1 DEF Sole
    <3>2. Fresh(v)
      BY <1>1, <3>1 DEF WorkerInv
    <3>3. Known(v)' = Known(v)
      BY <1>1 DEF Known
    <3>4. /\ indexes'[<<msg[v].thread, msg[v].index>>] = None
          /\ decisions'[msg[v].email] # None => decisions'[msg[v].email].msg.thread # msg[v].thread
      BY <1>1, <3>1, <3>2 DEF Fresh
    <3>5. \A x \in Ours(msg[v].thread)' : x = Known(v)
      <4>1. Ours(msg[v].thread)' \subseteq Ours(msg[v].thread)
        BY <1>1, <3>1
      <4> QED
        BY <3>2, <4>1 DEF Fresh
    <3> QED
      BY <1>1, <3>3, <3>4, <3>5 DEF Fresh
  <2> QED
    BY <2>3, <2>4, <2>5, <2>6 DEF WorkerInv
<1> QED
  BY <1>2, <1>3

LEMMA QuietStep ==
    ASSUME IInv, TypeOK', NEW w \in Worker, SameStore, Others(w), pc[w] # "save",
           \A th \in Thread : /\ made[th] \subseteq made'[th]
                              /\ IsFiniteSet(made'[th])
                              /\ locks'[th] # None => locks'[th] \in made'[th],
           Mutex', WorkerInv(w)'
    PROVE  IInv'
<1>1. \A th : Ours(th)' = Ours(th) /\ Taken(th)' = Taken(th)
  BY DEF Ours, Listed, Live, Taken, SameStore
<1>2. \A x, th : Belongs(x, th)' <=> Belongs(x, th)
  BY DEF Belongs, Live, SameStore
<1>3. TableInv'
  BY DEF IInv, TableInv, Live, SameStore
<1>4. ASSUME NEW v \in Worker PROVE WorkerInv(v)'
  <2>1. CASE v = w
    BY <2>1
  <2>2. CASE v # w
    <3>1. Ours(msg[v].thread)' = {x \in IngestTask : x \in Task /\ tasks'[x] # None /\ tasks'[x] = msg'[v].thread}
      BY DEF Ours, Listed, Live
    <3>2. Ours(msg[v].thread)' \subseteq Ours(msg[v].thread)
      BY <2>2, <3>1 DEF Ours, Listed, Live, SameStore, Others, Still
    <3>3. Still(v) /\ WorkerInv(v)
      BY <2>2 DEF Others, IInv
    <3> QED
      BY <1>2, <2>2, <3>2, <3>3, StillKept DEF IInv, SameStore
  <2> QED
    BY <2>1, <2>2
<1>5. ASSUME NEW th \in Thread PROVE ThreadInv(th)'
  <2>1. ThreadInv(th) /\ threads'[th] = threads[th]
    BY DEF IInv, SameStore
  <2>2. Belongs(threads[th].task, th)'
    BY <2>1 DEF ThreadInv, Belongs, Live, SameStore
  <2>3. ASSUME Sole(th)' PROVE Mapped(th)' /\ RowAgrees(th)'
    <3>1. Mapped(th) /\ RowAgrees(th)
      BY <2>1, <2>3, SoleBefore DEF ThreadInv
    <3>2. RowAgrees(th)'
      BY <1>1, <2>1, <3>1 DEF RowAgrees
    <3>3. Mapped(th)'
      <4> SUFFICES ASSUME NEW x \in Ours(th), threads[th].task # x
                   PROVE  \E v \in Worker : pc'[v] = "save" /\ remote'[v] = x
        BY <1>1, <2>1 DEF Mapped
      <4>1. PICK v \in Worker : pc[v] = "save" /\ remote[v] = x
        BY <3>1 DEF Mapped
      <4> QED
        BY <4>1 DEF Others, Still
    <3> QED
      BY <3>2, <3>3
  <2> QED
    BY <2>1, <2>2, <2>3 DEF ThreadInv
<1> QED
  BY <1>3, <1>4, <1>5 DEF IInv

\* A request that goes where it holds no lock.
LEMMA LeaveStep ==
    ASSUME IInv, TypeOK', NEW w \in Worker, SameStore, UNCHANGED lockTable,
           Others(w), pc[w] # "save", pc'[w] \notin HasLock
    PROVE  IInv'
<1>1. WorkerInv(w)'
  BY DEF WorkerInv, HasLock, Inside, InReconcile
<1>2. Mutex'
  BY MutexKept DEF IInv, HasLock
<1>3. \A th \in Thread : /\ made[th] \subseteq made'[th]
                         /\ IsFiniteSet(made'[th])
                         /\ locks'[th] # None => locks'[th] \in made'[th]
  BY DEF IInv, TableInv, ThreadInv, lockTable
<1> QED
  BY <1>1, <1>2, <1>3, QuietStep

-------------------------------------------------------------------------------
(* The steps of a request that write no table *)

LEMMA ForgetOthers ==
    ASSUME TypeOK, NEW w \in Worker, NEW label, Goto(w, label), Forget(w)
    PROVE  Others(w) /\ pc'[w] = label
BY DEF TypeOK, TypeRequests, TypeLocks, Goto, Forget, Others, Still

LEMMA FailStep ==
    ASSUME IInv, TypeOK', NEW w \in Worker, SameStore, UNCHANGED lockTable,
           Fail(w), pc[w] # "save"
    PROVE  IInv'
<1>1. Others(w) /\ pc'[w] = "failed"
  BY ForgetOthers DEF Fail, IInv
<1> QED
  BY <1>1, LeaveStep DEF HasLock, InReconcile

LEMMA EarlySteps ==
    ASSUME IInv, NEW w \in Worker,
           \/ StartRun(w) \/ Inspect(w) \/ InspectConflict(w) \/ Route(w) \/ RecordReplay(w)
    PROVE  IInv'
<1>1. TypeOK /\ TypeOK'
  BY EarlyTypes DEF IInv
<1>2. SameStore /\ UNCHANGED lockTable
  BY DEF StartRun, Inspect, InspectConflict, Route, RecordReplay, SameStore, tables, lockTable
<1>3. CASE InspectConflict(w)
  BY <1>1, <1>2, <1>3, FailStep DEF InspectConflict
<1>4. CASE RecordReplay(w)
  <2>1. Others(w) /\ pc'[w] \in {"done", "idle"}
    BY <1>1, <1>4, ForgetOthers DEF RecordReplay, Advance
  <2> QED
    BY <1>1, <1>2, <1>4, <2>1, LeaveStep DEF RecordReplay, HasLock, InReconcile
<1>5. CASE StartRun(w) \/ Inspect(w) \/ Route(w)
  <2>1. pc[w] # "save" /\ pc'[w] \in {"idle", "replay", "prior", "lookup"}
    BY <1>1, <1>5 DEF StartRun, Inspect, Route, Goto, TypeOK, TypeRequests
  <2>2. Others(w)
    BY <1>1, <1>5 DEF StartRun, Inspect, Route, Goto, TypeOK, TypeRequests, Others, Still
  <2> QED
    BY <1>1, <1>2, <2>1, <2>2, LeaveStep DEF HasLock, InReconcile
<1> QED
  BY <1>3, <1>4, <1>5

LEMMA LockSteps ==
    ASSUME IInv, NEW w \in Worker,
           LookUp(w) \/ MakeLock(w) \/ InsertLock(w) \/ Acquire(w)
    PROVE  IInv'
<1>1. TypeOK /\ TypeOK'
  BY LockTypes DEF IInv
<1>2. SameStore /\ pc[w] # "save"
  BY DEF LookUp, MakeLock, InsertLock, Acquire, SameStore, tables
<1>3. msg[w] \in Message /\ msg[w].thread \in Thread /\ msg'[w] = msg[w]
  BY <1>1, MessageType DEF LookUp, MakeLock, InsertLock, Acquire, TypeOK, TypeRequests,
                           InMessage, InReconcile
<1>4. Others(w)
  BY <1>1 DEF LookUp, MakeLock, InsertLock, Acquire, Goto, TypeOK, TypeRequests, TypeLocks, Others, Still
<1>5. pc'[w] \in {"acquire", "insert", "locked"}
  BY <1>1 DEF LookUp, MakeLock, InsertLock, Acquire, Goto, TypeOK, TypeRequests
<1>6. \A th \in Thread : /\ made[th] \subseteq made'[th]
                         /\ IsFiniteSet(made'[th])
                         /\ locks'[th] # None => locks'[th] \in made'[th]
  <2> SUFFICES ASSUME NEW th \in Thread
               PROVE  /\ made[th] \subseteq made'[th]
                      /\ IsFiniteSet(made'[th])
                      /\ locks'[th] # None => locks'[th] \in made'[th]
    OBVIOUS
  <2>1. /\ IsFiniteSet(made[th])
        /\ locks[th] # None => locks[th] \in made[th]
    BY DEF IInv, TableInv, ThreadInv
  <2>2. CASE UNCHANGED lockTable
    BY <2>1, <2>2 DEF lockTable
  <2>3. CASE MakeLock(w)
    <3>1. PICK k \in Lock : made' = [made EXCEPT ![msg[w].thread] = @ \cup {k}]
      BY <2>3 DEF MakeLock
    <3>2. made'[th] = made[th] \/ made'[th] = made[th] \cup {k}
      BY <1>1, <3>1 DEF TypeOK, TypeLocks
    <3>3. IsFiniteSet(made[th] \cup {k})
      BY <2>1, FS_AddElement
    <3> QED
      BY <2>1, <2>3, <3>2, <3>3 DEF MakeLock
  <2>4. CASE InsertLock(w)
    <3>1. lock[w] \in made[msg[w].thread]
      BY <2>4 DEF InsertLock, IInv, WorkerInv, HasLock
    <3> QED
      BY <1>1, <1>3, <2>1, <2>4, <3>1 DEF InsertLock, TypeOK, TypeLocks
  <2> QED
    BY <2>2, <2>3, <2>4 DEF LookUp, Acquire
<1>7. lock'[w] \in made'[msg[w].thread]
  <2>1. CASE LookUp(w)
    <3>1. locks[msg[w].thread] \in made[msg[w].thread]
      BY <1>3, <2>1 DEF LookUp, IInv, ThreadInv
    <3> QED
      BY <1>1, <2>1, <3>1 DEF LookUp, lockTable, TypeOK, TypeLocks
  <2>2. CASE MakeLock(w)
    BY <1>1, <1>3, <2>2 DEF MakeLock, TypeOK, TypeLocks
  <2>3. CASE InsertLock(w) \/ Acquire(w)
    <3>1. lock[w] \in made[msg[w].thread]
      BY <2>3 DEF InsertLock, Acquire, IInv, WorkerInv, HasLock
    <3> QED
      BY <1>3, <1>6, <2>3, <3>1 DEF InsertLock, Acquire
  <2> QED
    BY <2>1, <2>2, <2>3
<1>8. WorkerInv(w)'
  BY <1>3, <1>5, <1>7 DEF WorkerInv, Inside
<1>9. Mutex'
  <2>1. CASE Acquire(w)
    <3>1. \A v \in Worker \ {w} : pc'[v] \in InReconcile => lock'[v] # lock'[w]
      BY <2>1, <1>4 DEF Acquire, Others, Still
    <3>2. \A u, v \in Worker \ {w} :
            u # v /\ pc'[u] \in InReconcile /\ pc'[v] \in InReconcile => lock'[u] # lock'[v]
      BY <1>4 DEF Others, Still, IInv, Mutex
    <3> QED
      BY <3>1, <3>2 DEF Mutex
  <2>2. CASE ~Acquire(w)
    <3>1. pc'[w] \notin InReconcile
      BY <1>1, <2>2 DEF LookUp, MakeLock, InsertLock, Goto, TypeOK, TypeRequests, InReconcile
    <3> QED
      BY <1>4, <3>1, MutexKept DEF IInv
  <2> QED
    BY <2>1, <2>2
<1> QED
  BY <1>1, <1>2, <1>4, <1>6, <1>8, <1>9, QuietStep

\* What stays when a request goes on in reconcile and writes no table.
LEMMA InsideStep ==
    ASSUME IInv, TypeOK', NEW w \in Worker, SameStore, UNCHANGED lockTable,
           Others(w), pc[w] \in InReconcile \ {"save"}, pc'[w] \in Inside,
           lock'[w] = lock[w], msg'[w] = msg[w],
           Belongs(seen[w].task, msg[w].thread)',
           pc'[w] # "read" => Belongs(remote[w], msg[w].thread)',
           Sole(msg[w].thread) => Fresh(w)'
    PROVE  IInv'
<1>1. WorkerInv(w)'
  <2>1. lock[w] \in made[msg[w].thread]
    BY DEF IInv, WorkerInv, HasLock
  <2>2. lock'[w] \in made'[msg'[w].thread]
    BY <2>1 DEF lockTable
  <2>3. Sole(msg[w].thread)' => Sole(msg[w].thread)
    BY DEF Sole, lockTable
  <2> QED
    BY <2>2, <2>3 DEF WorkerInv, Inside
<1>2. Mutex'
  BY MutexKept DEF IInv
<1>3. \A th \in Thread : /\ made[th] \subseteq made'[th]
                         /\ IsFiniteSet(made'[th])
                         /\ locks'[th] # None => locks'[th] \in made'[th]
  BY DEF IInv, TableInv, ThreadInv, lockTable
<1> QED
  BY <1>1, <1>2, <1>3, QuietStep

\* inspect_email under the lock, then get_thread.
LEMMA ReadThreadStep ==
    ASSUME IInv, NEW w \in Worker, ReadThread(w)
    PROVE  IInv'
<1> DEFINE m == msg[w]
<1>1. TypeOK /\ TypeOK'
  BY ReadTypes DEF IInv
<1>2. m \in Message /\ m.thread \in Thread /\ m.email \in Email /\ m.email # None
      /\ <<m.thread, m.index>> \in Place
  BY <1>1, MessageType DEF ReadThread, TypeOK, TypeRequests, InMessage, InReconcile
<1>3. /\ pc[w] = "locked" /\ pc'[w] = "read" /\ msg'[w] = m /\ lock'[w] = lock[w]
      /\ seen'[w] = threads[m.thread]
      /\ Others(w) /\ SameStore /\ UNCHANGED lockTable
  BY <1>1 DEF ReadThread, Goto, TypeOK, TypeRequests, Others, Still, SameStore, tables
<1>4. Belongs(seen[w].task, msg[w].thread)'
  <2>1. Belongs(threads[m.thread].task, m.thread)
    BY <1>2 DEF IInv, ThreadInv
  <2> QED
    BY <1>3, <2>1 DEF Belongs, Live, SameStore
<1>5. ASSUME Sole(m.thread) PROVE Fresh(w)'
  <2>1. emails[m.email] = None /\ indexes[<<m.thread, m.index>>] \in {None, m.email}
    BY DEF ReadThread, IsNew, Stored, Conflicts
  <2>2. indexes[<<m.thread, m.index>>] = None
    BY <1>2, <2>1 DEF IInv, TableInv
  <2>3. decisions[m.email] = None
    BY <1>2, <2>1 DEF IInv, TableInv
  <2>4. ASSUME NEW x \in Ours(m.thread) PROVE x = threads[m.thread].task
    <3>1. Mapped(m.thread)
      BY <1>2, <1>5 DEF IInv, ThreadInv
    <3>2. ASSUME NEW v \in Worker, pc[v] = "save", remote[v] = x PROVE FALSE
      <4>1. Belongs(x, msg[v].thread) /\ WorkerInv(v) /\ WorkerInv(w) /\ Mutex
        BY <3>2 DEF IInv, WorkerInv
      <4>2. x # None /\ Live(x) /\ tasks[x] = m.thread
        BY NoneAssumption DEF Ours, Listed, Task
      <4>3. msg[v].thread = m.thread
        BY <4>1, <4>2 DEF Belongs
      <4> QED
        BY <1>3, <1>5, <3>2, <4>1, <4>3, Alone DEF InReconcile
    <3> QED
      BY <3>1, <3>2 DEF Mapped
  <2>5. Ours(m.thread)' = Ours(m.thread)
    BY <1>3 DEF Ours, Listed, Live, SameStore
  <2>6. Known(w)' = threads[m.thread].task
    BY <1>3 DEF Known
  <2> QED
    BY <1>3, <2>2, <2>3, <2>4, <2>5, <2>6 DEF Fresh, SameStore
<1> QED
  BY <1>1, <1>3, <1>4, <1>5, InsideStep DEF InReconcile, Inside

LEMMA KeepTaskStep ==
    ASSUME IInv, NEW w \in Worker, KeepTask(w)
    PROVE  IInv'
<1>1. TypeOK /\ TypeOK'
  BY ReadTypes DEF IInv
<1>2. /\ pc[w] = "read" /\ pc'[w] = "save" /\ msg'[w] = msg[w] /\ lock'[w] = lock[w]
      /\ seen'[w] = seen[w] /\ remote'[w] = seen[w].task
      /\ Others(w) /\ SameStore /\ UNCHANGED lockTable
  BY <1>1 DEF KeepTask, Goto, TypeOK, TypeRequests, Others, Still, SameStore, tables
<1>3. Belongs(seen[w].task, msg[w].thread)
  BY <1>2 DEF IInv, WorkerInv, Inside
<1>4. Belongs(seen[w].task, msg[w].thread)' /\ Belongs(remote[w], msg[w].thread)'
  BY <1>2, <1>3 DEF Belongs, Live, SameStore
<1>5. ASSUME Sole(msg[w].thread) PROVE Fresh(w)'
  <2>1. Fresh(w) /\ Known(w) = seen[w].task /\ Known(w)' = seen[w].task
    BY <1>2, <1>5 DEF IInv, WorkerInv, Inside, Known
  <2>2. Ours(msg[w].thread)' = Ours(msg[w].thread)
    BY <1>2 DEF Ours, Listed, Live, SameStore
  <2> QED
    BY <1>2, <2>1, <2>2 DEF Fresh, SameStore
<1> QED
  BY <1>1, <1>2, <1>4, <1>5, InsideStep DEF InReconcile, Inside

LEMMA OneElement ==
    ASSUME NEW S, IsFiniteSet(S), ~(Cardinality(S) > 1), NEW x \in S, NEW y \in S
    PROVE  x = y
<1>1. Cardinality(S) \in Nat
  BY FS_CardinalityType
<1>2. Cardinality(S) = 0 => S = {}
  BY FS_EmptySet
<1>3. Cardinality(S) = 1
  BY <1>1, <1>2
<1> QED
  BY <1>3, FS_Singleton

\* list_tasks, which found one task, or get_task of the one read.
LEMMA MatchTaskStep ==
    ASSUME IInv, NEW w \in Worker, MatchTask(w)
    PROVE  IInv'
<1> DEFINE th == msg[w].thread
<1>1. TypeOK /\ TypeOK'
  BY ReadTypes DEF IInv
<1>2. /\ pc[w] = "read" /\ pc'[w] = "matched" /\ msg'[w] = msg[w] /\ lock'[w] = lock[w]
      /\ seen'[w] = seen[w] /\ remote'[w] = Matched(w)
      /\ Others(w) /\ SameStore /\ UNCHANGED lockTable
  BY <1>1 DEF MatchTask, Goto, TypeOK, TypeRequests, Others, Still, SameStore, tables
<1>3. Belongs(seen[w].task, th)
  BY <1>2 DEF IInv, WorkerInv, Inside
<1>4. ~(Cardinality(Listed(th)) > 1)
  BY DEF MatchTask, Refused
<1>5. IsFiniteSet(Listed(th))
  <2>1. Listed(th) \in SUBSET drawn /\ IsFiniteSet(drawn)
    BY DEF IInv, TableInv, Listed
  <2> QED
    BY <2>1, FS_Subset
<1>6. \A x \in Listed(th) : x = Matched(w)
  BY <1>1, <1>4, <1>5, MatchedType, OneElement
<1>7. Belongs(Matched(w), th)
  <2>1. CASE Listed(th) = {}
    BY <1>1, <1>3, <2>1, MatchedType
  <2>2. CASE Listed(th) # {}
    <3>1. Matched(w) \in Listed(th)
      BY <1>1, <2>2, MatchedType
    <3> QED
      BY <3>1 DEF Listed, Belongs, IInv, TableInv
  <2> QED
    BY <2>1, <2>2
<1>8. Belongs(seen[w].task, msg[w].thread)' /\ Belongs(remote[w], msg[w].thread)'
  BY <1>2, <1>3, <1>7 DEF Belongs, Live, SameStore
<1>9. ASSUME Sole(th) PROVE Fresh(w)'
  <2>1. Fresh(w) /\ Known(w)' = Matched(w)
    BY <1>2, <1>9 DEF IInv, WorkerInv, Inside, Known
  <2>2. Ours(msg[w].thread)' = Ours(th)
    BY <1>2 DEF Ours, Listed, Live, SameStore
  <2>3. \A x \in Ours(th) : x = Matched(w)
    BY <1>6 DEF Ours
  <2> QED
    BY <1>2, <2>1, <2>2, <2>3 DEF Fresh, SameStore
<1> QED
  BY <1>1, <1>2, <1>8, <1>9, InsideStep DEF InReconcile, Inside

LEMMA PatchTaskStep ==
    ASSUME IInv, NEW w \in Worker, PatchTask(w)
    PROVE  IInv'
<1>1. TypeOK /\ TypeOK'
  BY WriteTypes DEF IInv
<1>2. /\ pc[w] = "matched" /\ pc'[w] = "save" /\ msg'[w] = msg[w] /\ lock'[w] = lock[w]
      /\ seen'[w] = seen[w] /\ remote'[w] = remote[w]
      /\ Others(w) /\ SameStore /\ UNCHANGED lockTable
  BY <1>1 DEF PatchTask, Goto, TypeOK, TypeRequests, Others, Still, SameStore, tables
<1>3. Belongs(seen[w].task, msg[w].thread) /\ Belongs(remote[w], msg[w].thread)
  BY <1>2 DEF IInv, WorkerInv, Inside
<1>4. Belongs(seen[w].task, msg[w].thread)' /\ Belongs(remote[w], msg[w].thread)'
  BY <1>2, <1>3 DEF Belongs, Live, SameStore
<1>5. ASSUME Sole(msg[w].thread) PROVE Fresh(w)'
  <2>1. Fresh(w) /\ Known(w)' = Known(w)
    BY <1>2, <1>5 DEF IInv, WorkerInv, Inside, Known
  <2>2. Ours(msg[w].thread)' = Ours(msg[w].thread)
    BY <1>2 DEF Ours, Listed, Live, SameStore
  <2> QED
    BY <1>2, <2>1, <2>2 DEF Fresh, SameStore
<1> QED
  BY <1>1, <1>2, <1>4, <1>5, InsideStep DEF InReconcile, Inside

LEMMA RefusedSteps ==
    ASSUME IInv, NEW w \in Worker,
           FoundUnchanged(w) \/ FoundConflict(w) \/ Refuse(w) \/ PatchMissing(w)
    PROVE  IInv'
<1>1. TypeOK /\ TypeOK'
  BY ReadTypes, WriteTypes DEF IInv
<1>2. SameStore /\ UNCHANGED lockTable /\ pc[w] # "save"
  BY DEF FoundUnchanged, FoundConflict, Refuse, PatchMissing, SameStore, tables, lockTable
<1>3. CASE FoundConflict(w) \/ Refuse(w) \/ PatchMissing(w)
  BY <1>1, <1>2, <1>3, FailStep DEF FoundConflict, Refuse, PatchMissing
<1>4. CASE FoundUnchanged(w)
  <2>1. Others(w) /\ pc'[w] = "replay"
    BY <1>1, <1>4 DEF FoundUnchanged, Goto, TypeOK, TypeRequests, TypeLocks, Others, Still
  <2> QED
    BY <1>1, <1>2, <2>1, LeaveStep DEF HasLock, InReconcile
<1> QED
  BY <1>3, <1>4

-------------------------------------------------------------------------------
(* The steps that write tables *)

LEMMA CreateTaskStep ==
    ASSUME IInv, NEW w \in Worker, CreateTask(w)
    PROVE  IInv'
<1> DEFINE th == msg[w].thread
<1>1. TypeOK /\ TypeOK'
  BY WriteTypes DEF IInv
<1>2. PICK x \in IngestTask \ drawn : /\ tasks' = [tasks EXCEPT ![x] = th]
                                     /\ drawn' = drawn \cup {x}
                                     /\ remote' = [remote EXCEPT ![w] = x]
  BY DEF CreateTask
<1>3. /\ pc[w] = "matched" /\ pc'[w] = "save" /\ msg'[w] = msg[w] /\ lock'[w] = lock[w]
      /\ seen'[w] = seen[w] /\ remote[w] = None /\ remote'[w] = x
      /\ Others(w) /\ UNCHANGED <<emails, indexes, decisions, threads, lockTable>>
  BY <1>1, <1>2 DEF CreateTask, Goto, TypeOK, TypeRequests, Others, Still
<1>4. x \in Task /\ x # None
  BY NoneAssumption DEF Task
<1>5. th \in Thread /\ WorkerInv(w) /\ Mutex
  BY <1>1, <1>3, MessageType DEF TypeOK, TypeRequests, InMessage, InReconcile, IInv
<1>6. /\ tasks'[x] = th
      /\ \A y \in Task \ {x} : tasks'[y] = tasks[y]
      /\ tasks[x] = None
  BY <1>1, <1>2, <1>4 DEF TypeOK, TypeStore, IInv, TableInv, Live
<1>7. \A y \in Task \cup {None}, t \in Thread : Belongs(y, t) => Belongs(y, t)'
  BY <1>2, <1>4, <1>6 DEF Belongs, Live
<1>8. TableInv'
  <2>1. IsFiniteSet(drawn')
    BY <1>2, FS_AddElement DEF IInv, TableInv
  <2>2. \A y \in Task : Live(y)' => y \in drawn'
    BY <1>2, <1>6 DEF IInv, TableInv, Live
  <2> QED
    BY <1>3, <2>1, <2>2 DEF IInv, TableInv, lockTable
<1>9. Mutex'
  BY <1>3, <1>5, MutexKept DEF InReconcile
<1>10. ASSUME NEW v \in Worker PROVE WorkerInv(v)'
  <2>1. CASE v = w
    <3>1. lock'[w] \in made'[msg'[w].thread]
      BY <1>3, <1>5 DEF WorkerInv, HasLock, InReconcile, lockTable
    <3>2. Belongs(seen[w].task, th) /\ seen[w].task \in Task \cup {None}
      BY <1>1, <1>3, <1>5 DEF WorkerInv, Inside, TypeOK, TypeRequests, Row
    <3>3. seen[w].task # None => /\ seen[w].task \in drawn'
                                 /\ tasks'[seen[w].task] # None => tasks'[seen[w].task] = th
      BY <1>5, <1>2, <1>6, <3>2 DEF Belongs, Live
    <3>4. Belongs(seen[w].task, msg[w].thread)' /\ Belongs(remote[w], msg[w].thread)'
      BY <1>2, <1>3, <1>6, <3>3 DEF Belongs, Live
    <3>5. ASSUME Sole(th) PROVE Fresh(w)'
      <4>1. Fresh(w) /\ Known(w) = None /\ Known(w)' = x
        BY <1>3, <1>5, <3>5 DEF WorkerInv, Inside, Known
      <4>2. Ours(th) = {}
        BY <4>1, NoneAssumption DEF Fresh, Ours, Task
      <4>3. Ours(msg[w].thread)' = {y \in IngestTask : y \in Task /\ tasks'[y] # None /\ tasks'[y] = th}
        BY <1>3 DEF Ours, Listed, Live
      <4>4. \A y \in Ours(msg[w].thread)' : y = x
        BY <1>6, <4>2, <4>3 DEF Ours, Listed, Live
      <4> QED
        BY <1>3, <4>1, <4>4 DEF Fresh
    <3>6. Sole(msg[w].thread)' => Sole(th)
      BY <1>3 DEF Sole, lockTable
    <3> QED
      BY <2>1, <1>3, <3>1, <3>4, <3>5, <3>6 DEF WorkerInv
  <2>2. CASE v # w
    <3>1. Still(v) /\ WorkerInv(v)
      BY <1>3, <2>2 DEF Others, IInv
    <3>2. ASSUME pc[v] \in Inside, Sole(msg[v].thread)
          PROVE  Ours(msg[v].thread)' \subseteq Ours(msg[v].thread)
      <4>1. msg[v].thread # th
        BY <1>3, <1>5, <2>2, <3>1, <3>2, Alone DEF Inside, InReconcile
      <4>2. Ours(msg[v].thread)' = {y \in IngestTask : y \in Task /\ tasks'[y] # None /\ tasks'[y] = msg[v].thread}
        BY <3>1 DEF Ours, Listed, Live, Still
      <4> QED
        BY <1>6, <4>1, <4>2 DEF Ours, Listed, Live
    <3> QED
      BY <1>1, <1>3, <1>7, <3>1, <3>2, StillKept DEF lockTable
  <2> QED
    BY <2>1, <2>2
<1>11. ASSUME NEW t \in Thread PROVE ThreadInv(t)'
  <2>1. ThreadInv(t) /\ threads'[t] = threads[t] /\ threads[t].task \in Task \cup {None}
    BY <1>1, <1>3 DEF IInv, TypeOK, TypeStore, Row
  <2>2. Belongs(threads[t].task, t)'
    <3>1. Belongs(threads[t].task, t)
      BY <2>1 DEF ThreadInv
    <3> QED
      BY <1>2, <1>6, <2>1, <3>1 DEF Belongs, Live
  <2>3. Sole(t)' => Sole(t)
    BY <1>3 DEF Sole, lockTable
  <2>4. RowAgrees(t) => RowAgrees(t)'
    BY <1>3 DEF RowAgrees, Taken
  <2>5. ASSUME Mapped(t) PROVE Mapped(t)'
    <3> SUFFICES ASSUME NEW y \in Ours(t)', threads[t].task # y
                 PROVE  \E v \in Worker : pc'[v] = "save" /\ remote'[v] = y
      BY <2>1 DEF Mapped
    <3>1. CASE y = x
      BY <1>3, <3>1
    <3>2. CASE y \in Ours(t)
      <4>1. PICK v \in Worker : pc[v] = "save" /\ remote[v] = y
        BY <2>5, <3>2 DEF Mapped
      <4> QED
        BY <1>3, <4>1 DEF Others, Still
    <3> QED
      BY <1>6, <3>1, <3>2 DEF Ours, Listed, Live
  <2> QED
    BY <1>3, <2>1, <2>2, <2>3, <2>4, <2>5 DEF ThreadInv, lockTable
<1> QED
  BY <1>1, <1>8, <1>9, <1>10, <1>11 DEF IInv

LEMMA PlaceFinite == IsFiniteSet(Place)
<1> DEFINE f == [m \in Message |-> <<m.thread, m.index>>]
<1>1. f \in Surjection(Message, Place)
  BY DEF Surjection, Place
<1> QED
  BY <1>1, FS_Surjection, MessageAssumption

\* One place more is taken in the thread, and the row counts it.
LEMMA SavedRowAgrees ==
    ASSUME TypeOK, NEW w \in Worker, msg[w] \in Message, SaveOutcome(w),
           NEW th, th = msg[w].thread, RowAgrees(th), indexes[<<th, msg[w].index>>] = None
    PROVE  RowAgrees(th)'
<1> DEFINE m == msg[w]
           p == <<th, m.index>>
           before == Taken(th)
           prior == threads[th]
<1>1. /\ p \in Place /\ th \in Thread /\ m.email # None /\ m.index \in Nat
  BY MessageType
<1>2. indexes' = [indexes EXCEPT ![p] = m.email] /\ threads' = [threads EXCEPT ![th] = SavedRow(w)]
  BY DEF SaveOutcome
<1>3. {q \in Place : q[1] = th /\ indexes'[q] # None} = before \cup {p} /\ p \notin before
  BY <1>1, <1>2 DEF TypeOK, TypeStore, Taken
<1>4. IsFiniteSet(before)
  <2>1. before \in SUBSET Place
    BY DEF Taken
  <2> QED
    BY <2>1, PlaceFinite, FS_Subset
<1>5. Cardinality(before \cup {p}) = Cardinality(before) + 1
  BY <1>3, <1>4, FS_AddElement
<1>6. /\ threads'[th].count = prior.count + 1
      /\ threads'[th].last = IF m.index > prior.last THEN m.index ELSE prior.last
  BY <1>1, <1>2 DEF TypeOK, TypeStore, SavedRow
<1>7. prior.last \in Int /\ prior.count \in Nat
  BY <1>1 DEF TypeOK, TypeStore, Row
<1>8. /\ prior.count = Cardinality(before)
      /\ \A q \in before : q[2] <= prior.last
      /\ prior.last >= 0 => <<th, prior.last>> \in before
  BY DEF RowAgrees
<1>9. \A q \in before : q[2] \in Nat
  BY MessageType DEF Taken, Place
<1>10. p[2] = m.index /\ p[1] = th
  OBVIOUS
<1>11. /\ \A q \in before \cup {p} : q[2] <= threads'[th].last
       /\ threads'[th].last >= 0 => <<th, threads'[th].last>> \in before \cup {p}
  <2> HIDE DEF before
  <2>1. CASE m.index > prior.last
    <3>1. threads'[th].last = m.index
      BY <1>6, <2>1
    <3>2. \A q \in before : q[2] <= m.index
      BY <1>1, <1>7, <1>8, <1>9, <2>1
    <3> QED
      BY <1>1, <1>10, <3>1, <3>2
  <2>2. CASE ~(m.index > prior.last)
    <3>1. threads'[th].last = prior.last
      BY <1>6, <2>2
    <3>2. m.index <= prior.last
      BY <1>1, <1>7, <2>2
    <3> QED
      BY <1>8, <1>10, <3>1, <3>2
  <2> QED
    BY <2>1, <2>2
<1> QED
  BY <1>3, <1>5, <1>6, <1>8, <1>11 DEF RowAgrees, Taken

LEMMA SaveOutcomeStep ==
    ASSUME IInv, NEW w \in Worker, SaveOutcome(w)
    PROVE  IInv'
<1> DEFINE m == msg[w]
           p == <<m.thread, m.index>>
<1>1. TypeOK /\ TypeOK'
  BY WriteTypes DEF IInv
<1>2. pc[w] = "save" /\ m \in Message
  BY <1>1 DEF SaveOutcome, TypeOK, TypeRequests, InMessage, InReconcile
<1>3. /\ m.email \in Email /\ m.thread \in Thread /\ p \in Place
      /\ m # None /\ m.email # None
  BY <1>2, MessageType
<1>4. /\ emails' = [emails EXCEPT ![m.email] = m]
      /\ indexes' = [indexes EXCEPT ![p] = m.email]
      /\ decisions' = [decisions EXCEPT ![m.email] =
                         [msg |-> m, op |-> op[w], task |-> remote[w], run |-> w]]
      /\ threads' = [threads EXCEPT ![m.thread] = SavedRow(w)]
      /\ UNCHANGED <<tasks, drawn, lockTable>>
  BY DEF SaveOutcome
<1>5. Others(w) /\ pc'[w] \in {"done", "idle"}
  BY <1>1, ForgetOthers DEF SaveOutcome, Advance
<1>6. WorkerInv(w) /\ Mutex
  BY DEF IInv
<1>7. TableInv'
  <2>1. \A q \in Place : indexes'[q] # None => emails'[indexes'[q]] # None
    <3> SUFFICES ASSUME NEW q \in Place, indexes'[q] # None
                 PROVE  emails'[indexes'[q]] # None
      OBVIOUS
    <3>1. \A e \in Email : emails[e] # None => emails'[e] # None
      BY <1>1, <1>3, <1>4 DEF TypeOK, TypeStore
    <3>2. CASE q = p
      BY <1>1, <1>3, <1>4, <3>2 DEF TypeOK, TypeStore
    <3>3. CASE q # p
      <4>1. indexes'[q] = indexes[q] /\ indexes[q] \in Email
        BY <1>1, <1>4, <3>3 DEF TypeOK, TypeStore
      <4>2. emails[indexes[q]] # None
        BY <4>1 DEF IInv, TableInv
      <4> QED
        BY <3>1, <4>1, <4>2
    <3> QED
      BY <3>2, <3>3
  <2>2. \A e \in Email : decisions'[e] # None => emails'[e] # None
    BY <1>1, <1>3, <1>4 DEF TypeOK, TypeStore, IInv, TableInv
  <2> QED
    BY <1>4, <2>1, <2>2 DEF IInv, TableInv, lockTable, Live
<1>8. Mutex'
  BY <1>5, <1>6, MutexKept DEF InReconcile
<1>9. \A x, t : Belongs(x, t)' <=> Belongs(x, t)
  BY <1>4 DEF Belongs, Live
<1>10. \A t : Ours(t)' = Ours(t) /\ (Sole(t)' <=> Sole(t))
  BY <1>4 DEF Ours, Listed, Live, Sole, lockTable
<1>11. ASSUME NEW v \in Worker PROVE WorkerInv(v)'
  <2>1. CASE v = w
    BY <1>5, <2>1 DEF WorkerInv, HasLock, Inside, InReconcile
  <2>2. CASE v # w
    <3>1. Still(v) /\ WorkerInv(v)
      BY <1>5, <2>2 DEF Others, IInv
    <3>2. Ours(msg[v].thread)' \subseteq Ours(msg[v].thread)
      BY <1>4, <3>1 DEF Ours, Listed, Live, Still
    <3>3. ASSUME pc[v] \in Inside, Sole(msg[v].thread)
          PROVE  LET n == msg[v] IN
                 /\ indexes'[<<n.thread, n.index>>] = indexes[<<n.thread, n.index>>]
                 /\ \/ decisions'[n.email] = decisions[n.email]
                    \/ decisions'[n.email].msg.thread # n.thread
      <4>1. msg[v].thread # m.thread
        BY <1>2, <1>6, <2>2, <3>1, <3>3, Alone DEF Inside, InReconcile
      <4>2. msg[v] \in Message
        BY <1>1, <3>3 DEF TypeOK, TypeRequests, Inside, InMessage, InReconcile
      <4>3. msg[v].email \in Email /\ <<msg[v].thread, msg[v].index>> \in Place
        BY <4>2, MessageType
      <4>4. <<msg[v].thread, msg[v].index>> # p
        BY <4>1
      <4> QED
        BY <1>1, <1>3, <1>4, <4>1, <4>3, <4>4 DEF TypeOK, TypeStore
    <3> QED
      BY <1>1, <1>4, <1>9, <3>1, <3>2, <3>3, StillKept DEF lockTable
  <2> QED
    BY <2>1, <2>2
<1>12. ASSUME NEW t \in Thread PROVE ThreadInv(t)'
  <2>1. ThreadInv(t)
    BY DEF IInv
  <2>2. locks'[t] # None => locks'[t] \in made'[t]
    BY <1>4, <2>1 DEF ThreadInv, lockTable
  <2>3. CASE t # m.thread
    <3>1. threads'[t] = threads[t]
      BY <1>1, <1>4, <2>3 DEF TypeOK, TypeStore
    <3>2. Taken(t)' = Taken(t)
      BY <1>1, <1>3, <1>4, <2>3 DEF TypeOK, TypeStore, Taken
    <3>3. Belongs(threads[t].task, t)'
      BY <1>4, <2>1, <3>1 DEF ThreadInv, Belongs, Live
    <3>4. RowAgrees(t) => RowAgrees(t)'
      BY <3>1, <3>2 DEF RowAgrees
    <3>5. ASSUME Mapped(t) PROVE Mapped(t)'
      <4> SUFFICES ASSUME NEW x \in Ours(t), threads[t].task # x
                   PROVE  \E v \in Worker : pc'[v] = "save" /\ remote'[v] = x
        BY <1>10, <3>1 DEF Mapped
      <4>1. PICK v \in Worker : pc[v] = "save" /\ remote[v] = x
        BY <3>5 DEF Mapped
      <4>2. ASSUME v = w PROVE FALSE
        <5>1. Belongs(x, m.thread)
          BY <1>2, <1>6, <4>1, <4>2 DEF WorkerInv
        <5>2. x # None /\ Live(x) /\ tasks[x] = t
          BY NoneAssumption DEF Ours, Listed, Task
        <5> QED
          BY <2>3, <5>1, <5>2 DEF Belongs
      <4> QED
        BY <1>5, <4>1, <4>2 DEF Others, Still
    <3> QED
      BY <1>10, <2>1, <2>2, <3>3, <3>4, <3>5 DEF ThreadInv
  <2>4. CASE t = m.thread
    <3>1. threads'[t] = SavedRow(w)
      BY <1>1, <1>3, <1>4, <2>4 DEF TypeOK, TypeStore
    <3>2. threads'[t].task = IF remote[w] # None THEN remote[w] ELSE threads[t].task
      BY <2>4, <3>1 DEF SavedRow
    <3>3. Belongs(threads'[t].task, t)
      BY <1>2, <1>6, <2>1, <2>4, <3>2 DEF WorkerInv, ThreadInv
    <3>4. Belongs(threads[t].task, t)'
      BY <1>4, <3>3 DEF Belongs, Live
    <3>5. ASSUME Sole(t) PROVE Mapped(t)' /\ RowAgrees(t)'
      <4>1. Fresh(w) /\ Known(w) = remote[w]
        BY <1>2, <1>6, <2>4, <3>5 DEF WorkerInv, Inside, Known
      <4>2. \A x \in Ours(t) : x = remote[w] /\ x # None
        BY <2>4, <4>1, NoneAssumption DEF Fresh, Ours, Task
      <4>3. Mapped(t)'
        BY <1>10, <3>2, <4>2 DEF Mapped
      <4>4. RowAgrees(t)'
        BY <1>1, <1>2, <2>1, <2>4, <3>5, <4>1, SavedRowAgrees DEF Fresh, ThreadInv
      <4> QED
        BY <4>3, <4>4
    <3> QED
      BY <1>10, <2>2, <3>4, <3>5 DEF ThreadInv
  <2> QED
    BY <2>3, <2>4
<1> QED
  BY <1>1, <1>7, <1>8, <1>11, <1>12 DEF IInv

LEMMA ApiStep ==
    ASSUME IInv, TypeOK', TableInv',
           UNCHANGED <<emails, indexes, decisions, lockTable, pc, msg, seen, remote, lock>>,
           \A t \in Thread : Ours(t)' \subseteq Ours(t),
           \A x \in Task \cup {None}, t \in Thread : Belongs(x, t) => Belongs(x, t)',
           \A t \in Thread :
               /\ threads'[t].count = threads[t].count /\ threads'[t].last = threads[t].last
               /\ threads'[t].task \in {threads[t].task, None}
               /\ threads[t].task \in Ours(t)' => threads'[t].task = threads[t].task
    PROVE  IInv'
<1>1. Mutex'
  BY DEF IInv, Mutex
<1>2. ASSUME NEW v \in Worker PROVE WorkerInv(v)'
  <2>1. Still(v) /\ WorkerInv(v) /\ TypeOK
    BY DEF Still, IInv
  <2>2. ASSUME pc[v] \in Inside PROVE Ours(msg[v].thread)' \subseteq Ours(msg[v].thread)
    <3>1. msg[v].thread \in Thread
      BY <2>1, <2>2, MessageType DEF TypeOK, TypeRequests, Inside, InMessage, InReconcile
    <3> DEFINE t == msg[v].thread
    <3>2. Ours(msg[v].thread)' = {x \in IngestTask : x \in Task /\ tasks'[x] # None /\ tasks'[x] = t}
      BY DEF Ours, Listed, Live
    <3> HIDE DEF t
    <3>3. Ours(t)' = {x \in IngestTask : x \in Task /\ tasks'[x] # None /\ tasks'[x] = t}
      BY DEF Ours, Listed, Live, t
    <3> QED
      BY <3>1, <3>2, <3>3 DEF t
  <2> QED
    BY <2>1, <2>2, StillKept DEF lockTable
<1>3. ASSUME NEW t \in Thread PROVE ThreadInv(t)'
  <2>1. ThreadInv(t) /\ threads[t].task \in Task \cup {None}
    BY DEF IInv, TypeOK, TypeStore, Row
  <2>2. Belongs(threads[t].task, t)'
    <3>1. CASE threads'[t].task = None
      BY <3>1 DEF Belongs
    <3>2. CASE threads'[t].task = threads[t].task
      <4> DEFINE x == threads[t].task
      <4>1. x \in Task \cup {None} /\ Belongs(x, t) /\ threads'[t].task = x
        BY <2>1, <3>2 DEF ThreadInv
      <4> HIDE DEF x
      <4>2. x # None => x \in drawn' /\ (x \in Task /\ tasks'[x] # None => tasks'[x] = t)
        BY <4>1 DEF Belongs, Live
      <4> QED
        BY <4>1, <4>2 DEF Belongs, Live
    <3> QED
      BY <3>1, <3>2
  <2>3. Sole(t)' => Sole(t)
    BY DEF Sole, lockTable
  <2>4. RowAgrees(t) => RowAgrees(t)'
    BY DEF RowAgrees, Taken
  <2>5. ASSUME Mapped(t) PROVE Mapped(t)'
    <3> SUFFICES ASSUME NEW x \in Ours(t)', threads'[t].task # x
                 PROVE  \E v \in Worker : pc'[v] = "save" /\ remote'[v] = x
      BY DEF Mapped
    <3> QED
      BY <2>5 DEF Mapped
  <2> QED
    BY <2>1, <2>2, <2>3, <2>4, <2>5 DEF ThreadInv, lockTable
<1> QED
  BY <1>1, <1>2, <1>3 DEF IInv

LEMMA PostTaskStep ==
    ASSUME IInv, NEW th \in Thread, PostTask(th)
    PROVE  IInv'
<1>1. TypeOK /\ TypeOK'
  BY ApiTypes DEF IInv
<1>2. PICK x \in ApiTask \ drawn : /\ tasks' = [tasks EXCEPT ![x] = th]
                                  /\ drawn' = drawn \cup {x}
  BY DEF PostTask
<1>3. UNCHANGED <<emails, indexes, decisions, threads, lockTable, pc, msg, seen, remote, lock>>
  BY DEF PostTask
<1>4. x \in Task /\ x \notin IngestTask /\ x # None
  BY IdAssumption, NoneAssumption DEF Task
<1>5. tasks'[x] = th /\ \A y \in Task \ {x} : tasks'[y] = tasks[y]
  BY <1>1, <1>2, <1>4 DEF TypeOK, TypeStore
<1>6. TableInv'
  <2>1. IsFiniteSet(drawn')
    BY <1>2, FS_AddElement DEF IInv, TableInv
  <2>2. \A y \in Task : Live(y)' => y \in drawn'
    BY <1>2, <1>5 DEF IInv, TableInv, Live
  <2> QED
    BY <1>3, <2>1, <2>2 DEF IInv, TableInv, lockTable
<1>7. \A t \in Thread : Ours(t)' \subseteq Ours(t)
  BY <1>4, <1>5 DEF Ours, Listed, Live
<1>8. \A y \in Task \cup {None}, t \in Thread : Belongs(y, t) => Belongs(y, t)'
  BY <1>2, <1>4, <1>5 DEF Belongs, Live
<1> QED
  BY <1>1, <1>3, <1>6, <1>7, <1>8, ApiStep

LEMMA DeleteTaskStep ==
    ASSUME IInv, NEW x \in Task, DeleteTask(x)
    PROVE  IInv'
<1>1. TypeOK /\ TypeOK'
  BY ApiTypes DEF IInv
<1>2. UNCHANGED <<emails, indexes, decisions, drawn, lockTable, pc, msg, seen, remote, lock>>
  BY DEF DeleteTask
<1>3. tasks'[x] = None /\ \A y \in Task \ {x} : tasks'[y] = tasks[y]
  BY <1>1 DEF DeleteTask, TypeOK, TypeStore
<1>4. TableInv'
  BY <1>2, <1>3 DEF IInv, TableInv, Live, lockTable
<1>5. \A t \in Thread : Ours(t)' \subseteq Ours(t) \ {x}
  BY <1>3 DEF Ours, Listed, Live
<1>6. \A y \in Task \cup {None}, t \in Thread : Belongs(y, t) => Belongs(y, t)'
  BY <1>2, <1>3 DEF Belongs, Live
<1>7. \A t \in Thread :
        /\ threads'[t].count = threads[t].count /\ threads'[t].last = threads[t].last
        /\ threads'[t].task \in {threads[t].task, None}
        /\ threads[t].task # x => threads'[t].task = threads[t].task
  BY <1>1 DEF DeleteTask, TypeOK, TypeStore, Row
<1> QED
  BY <1>1, <1>2, <1>4, <1>5, <1>6, <1>7, ApiStep

-------------------------------------------------------------------------------
(* The theorems *)

LEMMA InitIInv == Init => IInv
<1> SUFFICES ASSUME Init PROVE IInv
  OBVIOUS
<1> USE DEF Init
<1>1. TypeOK
  <2>1. TypeStore /\ TypeLocks
    BY EmptyRowType DEF TypeStore, TypeLocks
  <2>2. TypeRequests
    BY EmptyRowType DEF TypeRequests, Operation, InMessage, InReconcile
  <2> QED
    BY <2>1, <2>2 DEF TypeOK
<1>2. \A x \in Task : ~Live(x)
  BY DEF Live
<1>3. TableInv
  BY <1>2, FS_EmptySet DEF TableInv
<1>4. Mutex /\ \A w \in Worker : WorkerInv(w)
  BY DEF Mutex, WorkerInv, HasLock, Inside, InReconcile
<1>5. ASSUME NEW th \in Thread PROVE ThreadInv(th)
  <2>1. Ours(th) = {} /\ Taken(th) = {}
    BY <1>2 DEF Ours, Listed, Taken
  <2>2. threads[th] = EmptyRow
    OBVIOUS
  <2>3. RowAgrees(th)
    BY <2>1, <2>2, FS_EmptySet DEF RowAgrees, EmptyRow
  <2>4. Mapped(th)
    BY <2>1 DEF Mapped
  <2>5. Belongs(threads[th].task, th)
    BY <2>2 DEF Belongs, EmptyRow
  <2> QED
    BY <2>3, <2>4, <2>5 DEF ThreadInv
<1> QED
  BY <1>1, <1>3, <1>4, <1>5 DEF IInv

LEMMA IdleIInv == IInv /\ UNCHANGED vars => IInv'
<1> SUFFICES ASSUME IInv, UNCHANGED vars PROVE IInv'
  OBVIOUS
<1> USE DEF vars, tables, lockTable
<1>1. TypeOK' /\ TableInv' /\ Mutex'
  BY DEF IInv, TypeOK, TypeStore, TypeLocks, TypeRequests, TableInv, Live, Mutex
<1>2. \A t \in Thread : Ours(t)' \subseteq Ours(t)
  BY DEF Ours, Listed, Live
<1>3. \A x \in Task \cup {None}, t \in Thread : Belongs(x, t) => Belongs(x, t)'
  BY DEF Belongs, Live
<1> QED
  BY <1>1, <1>2, <1>3, ApiStep

LEMMA NextIInv == IInv /\ [Next]_vars => IInv'
<1> SUFFICES ASSUME IInv, [Next]_vars PROVE IInv'
  OBVIOUS
<1>1. ASSUME NEW w \in Worker, Step(w) PROVE IInv'
  BY <1>1, EarlySteps, LockSteps, ReadThreadStep, KeepTaskStep, MatchTaskStep, RefusedSteps,
     CreateTaskStep, PatchTaskStep, SaveOutcomeStep DEF Step
<1>2. ASSUME NEW th \in Thread, PostTask(th) PROVE IInv'
  BY <1>2, PostTaskStep
<1>3. ASSUME NEW x \in Task, DeleteTask(x) PROVE IInv'
  BY <1>3, DeleteTaskStep
<1>4. CASE UNCHANGED vars
  BY <1>4, IdleIInv
<1> QED
  BY <1>1, <1>2, <1>3, <1>4 DEF Next

LEMMA AlwaysIInv == Spec => []IInv
  BY InitIInv, NextIInv, PTL DEF Spec

\* If the factory ran once at most for a thread, it has one lock at most.
LEMMA OneLockIsSole ==
    ASSUME TypeOK, TableInv, NEW th \in Thread, OneLock(th)
    PROVE  Sole(th)
<1>1. IsFiniteSet(made[th]) /\ Cardinality(made[th]) \in Nat
  BY FS_CardinalityType DEF TableInv
<1>2. ~(Cardinality(made[th]) > 1)
  BY <1>1 DEF OneLock
<1> QED
  BY <1>1, <1>2, OneElement DEF Sole

\* While one lock was ever made for a thread, ingestion gives it one task at
\* most, mapped or about to be (reconcile under thread_lock of the in-memory
\* store).
THEOREM OneTask == Spec => []OneTaskWhileOneLock
<1>1. ASSUME IInv PROVE OneTaskWhileOneLock
  <2> SUFFICES ASSUME NEW th \in Thread, OneLock(th), NEW x \in Ours(th)
               PROVE  /\ \A y \in Ours(th) : x = y
                      /\ \/ threads[th].task = x
                         \/ \E w \in Worker : pc[w] = "save" /\ remote[w] = x
    BY DEF OneTaskWhileOneLock, Ours
  <2>1. Sole(th) /\ Mapped(th)
    BY <1>1, OneLockIsSole DEF IInv, ThreadInv
  <2>2. ASSUME NEW y \in Ours(th), NEW w \in Worker, pc[w] = "save", remote[w] = y
        PROVE  \A z \in Ours(th) : z = y
    <3>1. WorkerInv(w)
      BY <1>1 DEF IInv
    <3>2. y # None /\ Live(y) /\ tasks[y] = th
      BY NoneAssumption DEF Ours, Listed, Task
    <3>3. msg[w].thread = th
      BY <2>2, <3>1, <3>2 DEF WorkerInv, Belongs
    <3> QED
      BY <2>1, <2>2, <3>1, <3>3 DEF WorkerInv, Fresh, Known, Inside
  <2> QED
    BY <2>1, <2>2 DEF Mapped
<1> QED
  BY <1>1, AlwaysIInv, PTL

\* While one lock was ever made for a thread, its row counts each of its places
\* once and the last index is the highest of them (save_outcome).
THEOREM RowAgreement == Spec => []RowAgreesWhileOneLock
<1>1. ASSUME IInv PROVE RowAgreesWhileOneLock
  <2> SUFFICES ASSUME NEW th \in Thread, OneLock(th)
               PROVE  /\ threads[th].count = Cardinality(Taken(th))
                      /\ \A p \in Taken(th) : p[2] <= threads[th].last
                      /\ Taken(th) # {} => <<th, threads[th].last>> \in Taken(th)
    BY DEF RowAgreesWhileOneLock, Taken
  <2>1. RowAgrees(th)
    BY <1>1, OneLockIsSole DEF IInv, ThreadInv
  <2>2. threads[th].last \in Int
    BY <1>1 DEF IInv, TypeOK, TypeStore, Row
  <2>3. ASSUME NEW p \in Taken(th) PROVE threads[th].last >= 0
    <3>1. p[2] \in Nat
      BY MessageType DEF Taken, Place
    <3> QED
      BY <2>1, <2>2, <3>1 DEF RowAgrees
  <2> QED
    BY <2>1, <2>3 DEF RowAgrees
<1> QED
  BY <1>1, AlwaysIInv, PTL

\* With one lock a thread, a decision is replaced only by one about another
\* thread that claims the same e-mail id ("its immutable email decision").
THEOREM DecisionsKept == Spec => DecisionKeptWithinThread
<1> DEFINE A == \A e \in Email :
                  decisions[e] # None /\ decisions'[e] # decisions[e] =>
                      \/ ~OneLock(decisions[e].msg.thread)
                      \/ decisions'[e].msg.thread # decisions[e].msg.thread
<1>1. IInv /\ [Next]_vars => [A]_vars
  <2> SUFFICES ASSUME IInv, [Next]_vars, NEW e \in Email,
                      decisions[e] # None, decisions'[e] # decisions[e],
                      OneLock(decisions[e].msg.thread)
               PROVE  decisions'[e].msg.thread # decisions[e].msg.thread
    OBVIOUS
  <2>1. PICK w \in Worker : SaveOutcome(w)
    BY DEF Next, vars, tables, Step, StartRun, Inspect, InspectConflict, Route, RecordReplay,
           LookUp, MakeLock, InsertLock, Acquire, ReadThread, FoundUnchanged, FoundConflict,
           KeepTask, MatchTask, Refuse, CreateTask, PatchTask, PatchMissing,
           PostTask, DeleteTask
  <2>2. TypeOK /\ TableInv /\ WorkerInv(w)
    BY DEF IInv
  <2>3. pc[w] = "save" /\ msg[w] \in Message
    BY <2>1, <2>2 DEF SaveOutcome, TypeOK, TypeRequests, InMessage, InReconcile
  <2>4. msg[w].email = e /\ decisions'[e].msg = msg[w]
    BY <2>1, <2>2 DEF SaveOutcome, TypeOK, TypeStore
  <2>5. ASSUME msg[w].thread = decisions[e].msg.thread PROVE FALSE
    <3>1. msg[w].thread \in Thread
      BY <2>3, MessageType
    <3>2. Sole(msg[w].thread)
      BY <2>2, <2>5, <3>1, OneLockIsSole
    <3> QED
      BY <2>2, <2>3, <2>4, <2>5, <3>2 DEF WorkerInv, Inside, Fresh
  <2> QED
    BY <2>4, <2>5
<1> QED
  BY <1>1, AlwaysIInv, PTL DEF Spec, DecisionKeptWithinThread

===============================================================================
