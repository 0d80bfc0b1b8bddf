------------------------------- MODULE ChatProofs -------------------------------
(***************************************************************************)
(* What chat answers, for any questions of the planner's phrases, any      *)
(* store, scopes, models' plans and changes between the reads.             *)
(*                                                                         *)
(* The reads of a question see the store at different moments.  ReadInv    *)
(* says what connects them: a task that a thread was read to have is still *)
(* its task, or is gone for good and the thread was without one.  LinkInv  *)
(* is what the store keeps between its rows, on which statistics and chat  *)
(* agree.  RepeatInv follows a question that is put twice.                 *)
(***************************************************************************)
EXTENDS Chat, FiniteSetTheorems, SequenceTheorems, TLAPS

-------------------------------------------------------------------------------
(* The planner *)

LEMMA RulesAre ==
    ASSUME NEW hits
    PROVE  /\ DOMAIN Rules(hits) = 1 .. 13
           /\ Rules(hits)[1][2] = Plan("out_of_scope", <<>>)
           /\ Elements(ASSIGNEE_ALIASES) \cap hits # {} => Rules(hits)[2][1]
           /\ Rules(hits)[2][2] = GeneralPlan(hits)
<1>1. DOMAIN Rules(hits) = 1 .. 13
  BY SMTT(30) DEF Rules
<1>2. Rules(hits)[1][2] = Plan("out_of_scope", <<>>)
  BY SMTT(30) DEF Rules
<1>3. Rules(hits)[2][2] = GeneralPlan(hits)
  BY SMTT(30) DEF Rules
<1>4. ASSUME Elements(ASSIGNEE_ALIASES) \cap hits # {} PROVE Rules(hits)[2][1]
  <2>1. Rules(hits)[2][1] = (Elements(ASSIGNEE_ALIASES) \cap hits # {})
    BY SMTT(30) DEF Rules
  <2> QED
    BY <1>4, <2>1
<1> QED
  BY <1>1, <1>2, <1>3, <1>4

\* The first rule that applies makes the plan.
LEMMA PlanIsARule ==
    ASSUME NEW q, NEW n \in 1 .. 13,
           Rules(HitsOf(q))[n][1], \A j \in 1 .. n - 1 : ~Rules(HitsOf(q))[j][1]
    PROVE  PlanQuestion(q) = Rules(HitsOf(q))[n][2]
<1> DEFINE rules == Rules(HitsOf(q))
           First(i) == rules[i][1] /\ \A j \in 1 .. i - 1 : ~rules[j][1]
<1>1. DOMAIN rules = 1 .. 13
  BY RulesAre
<1>2. n \in DOMAIN rules /\ First(n)
  BY <1>1
<1>3. \A i \in DOMAIN rules : First(i) => i = n
  <2> SUFFICES ASSUME NEW i \in 1 .. 13, First(i), i # n PROVE FALSE
    BY <1>1
  <2>1. i \in 1 .. n - 1 \/ n \in 1 .. i - 1
    OBVIOUS
  <2> QED
    BY <2>1, <1>2
<1>4. (CHOOSE i \in DOMAIN rules : First(i)) = n
  BY <1>2, <1>3
<1> QED
  BY <1>4 DEF PlanQuestion

\* A question that names an owner is out of scope or general.
LEMMA OwnerPlan ==
    ASSUME NEW q, Elements(ASSIGNEE_ALIASES) \cap HitsOf(q) # {}
    PROVE  PlanQuestion(q) \in {Plan("out_of_scope", <<>>), GeneralPlan(HitsOf(q))}
<1> DEFINE hits == HitsOf(q)
<1>1. /\ Rules(hits)[1][2] = Plan("out_of_scope", <<>>)
      /\ Rules(hits)[2][1]
      /\ Rules(hits)[2][2] = GeneralPlan(hits)
  BY RulesAre
<1>2. (1 .. 1 - 1) = {} /\ (1 .. 2 - 1) = {1} /\ 1 \in 1 .. 13 /\ 2 \in 1 .. 13
  OBVIOUS
<1>3. CASE Rules(hits)[1][1]
  <2>1. PlanQuestion(q) = Rules(hits)[1][2]
    BY <1>2, <1>3, PlanIsARule
  <2> QED
    BY <1>1, <2>1
<1>4. CASE ~Rules(hits)[1][1]
  <2>1. PlanQuestion(q) = Rules(hits)[2][2]
    BY <1>1, <1>2, <1>4, PlanIsARule
  <2> QED
    BY <1>1, <2>1
<1> QED
  BY <1>3, <1>4

\* When a question names an owner, no family of questions but the general one gets it
\* (plan_question).
THEOREM Owners == Spec => []OwnersKept
<1> DEFINE hits == HitsOf(question)
           owners == FirstOf(ASSIGNEE_ALIASES, hits)
           p == PlanQuestion(question)
<1>1. ASSUME owners # {} PROVE p = Plan("out_of_scope", <<>>) \/ p = GeneralPlan(hits)
  <2>1. Elements(ASSIGNEE_ALIASES) \cap hits # {}
    BY <1>1 DEF FirstOf, Elements
  <2> QED
    BY <2>1, OwnerPlan
<1>2. \A v \in owners : Is("assignee_id", v) \in FiltersOf(hits)
  BY DEF FiltersOf
<1>3. OwnersKept
  <2> SUFFICES ASSUME owners # {}
               PROVE  \/ p.intent \in {"out_of_scope", "unsupported"}
                      \/ p.intent = "analytics" /\ \A v \in owners :
                            Is("assignee_id", v) \in p.query.filters
    BY DEF OwnersKept
  <2>1. CASE p = Plan("out_of_scope", <<>>) \/ p = Plan("unsupported", <<>>)
    BY <2>1 DEF Plan
  <2>2. CASE p = Analytics(QueryOf(hits))
    <3>1. p.intent = "analytics" /\ p.query.filters = FiltersOf(hits)
      BY <2>2 DEF Analytics, QueryOf
    <3> QED
      BY <3>1, <1>2
  <2> QED
    BY <1>1, <2>1, <2>2 DEF GeneralPlan
<1> QED
  BY <1>3, PTL

-------------------------------------------------------------------------------
(* The invariants *)

Row == [task : Task \cup {None}, snapshot : Content \cup {None}]

TypeOK ==
    /\ decisions \in [Message -> Decision \cup {None}]
    /\ deliveries \in Seq([run : Run, msg : Message])
    /\ threads \in [Thread -> Row]
    /\ tasks \in [Task -> Content \cup {None}]
    /\ since \in [Thread -> SUBSET (Content \cup {None})]
    /\ scope \in Scope

\* What the store keeps between its tables: ids that exist are drawn, a thread has a
\* snapshot with a task that exists or neither, and the task of a decision is its
\* thread's or gone.  Delivered e-mails are decided.
LinkInv ==
    /\ \A x \in Task : tasks[x] # None => Drawn(x)
    /\ \A th \in Thread :
          \/ threads[th] = NoThread
          \/ /\ threads[th].task # None /\ threads[th].snapshot # None
             /\ tasks[threads[th].task] # None
    /\ \A m \in Message : Decided(m) /\ decisions[m].task # None =>
          \/ tasks[decisions[m].task] = None
          \/ threads[m.thread].task = decisions[m].task
    /\ \A i \in DOMAIN deliveries : Decided(deliveries[i].msg)

\* The reads have the fields of a result, and rows of messages.
GotInv ==
    /\ got = [rows |-> got.rows, decisions |-> got.decisions, threads |-> got.threads,
              tasks |-> got.tasks, events |-> got.events, spurious |-> got.spurious,
              runs |-> got.runs]
    /\ \A r \in got.rows : r.msg \in Message
    /\ DOMAIN got.threads \subseteq Thread

\* A thread that was read without a task had none; the task it was read to have is
\* still its task, or gone, and then the thread was without one.
ThreadRead(th) ==
    LET x == got.threads[th].task IN
    \/ x = None /\ None \in since[th]
    \/ /\ x \in Task /\ Drawn(x)
       /\ \/ threads[th].task = x
          \/ tasks[x] = None /\ None \in since[th]

\* What the read of a thread's task returned was its content, or it had none.
TaskRead(th) ==
    LET x == got.threads[th].task IN
    x # None => got.tasks[x] \in since[th] \/ None \in since[th]

ReadInv ==
    /\ \A th \in Thread : CurrentIn(threads, tasks, th) \in since[th]
    /\ pc \in {"tasks", "rest", "phrase"} => \A th \in DOMAIN got.threads : ThreadRead(th)
    /\ pc \in {"rest", "phrase"} /\ plan.intent = "analytics" =>
          \A th \in DOMAIN got.threads : TaskRead(th)

IInv == TypeOK /\ LinkInv /\ GotInv /\ ReadInv

-------------------------------------------------------------------------------
(* Changes of the store *)

LEMMA NoneIsApart ==
    /\ None \notin Task /\ None \notin Content /\ None \notin Decision
    /\ \A m \in Message : m.thread \in Thread /\ m.index \in Nat
BY NoneAssumption, MessageAssumption

LEMMA Positions ==
    ASSUME NEW S, NEW s \in Seq(S)
    PROVE  \A i \in DOMAIN s : i \in Nat /\ s[i] \in S
BY LenProperties

LEMMA DeliverType ==
    ASSUME TypeOK, NEW r \in Run, NEW m \in Message, Deliver(r, m)
    PROVE  /\ deliveries' \in Seq([run : Run, msg : Message])
           /\ \A i \in DOMAIN deliveries' :
                 deliveries'[i].msg = m \/ \E j \in DOMAIN deliveries : deliveries'[i] = deliveries[j]
           /\ \A i \in DOMAIN deliveries : deliveries[i].msg \in Message
<1> DEFINE D == [run : Run, msg : Message]  d == [run |-> r, msg |-> m]
<1>1. deliveries \in Seq(D) /\ d \in D /\ deliveries' = Append(deliveries, d) /\ d.msg = m
  BY DEF TypeOK, Deliver
<1> HIDE DEF D, d
<1>2. /\ deliveries' \in Seq(D) /\ Len(deliveries') = Len(deliveries) + 1
      /\ deliveries'[Len(deliveries) + 1] = d
      /\ \A i \in 1 .. Len(deliveries) : deliveries'[i] = deliveries[i]
  BY <1>1, AppendProperties
<1>3. Len(deliveries) \in Nat /\ DOMAIN deliveries = 1 .. Len(deliveries)
      /\ DOMAIN deliveries' = 1 .. Len(deliveries) + 1
  BY <1>1, <1>2, LenProperties
<1>4. ASSUME NEW i \in DOMAIN deliveries'
      PROVE  deliveries'[i].msg = m \/ \E j \in DOMAIN deliveries : deliveries'[i] = deliveries[j]
  <2>1. i = Len(deliveries) + 1 \/ i \in 1 .. Len(deliveries)
    BY <1>3
  <2> QED
    BY <1>1, <1>2, <1>3, <2>1
<1>5. \A i \in DOMAIN deliveries : deliveries[i].msg \in Message
  <2>1. \A i \in DOMAIN deliveries : deliveries[i] \in D
    BY <1>1, Positions
  <2> QED
    BY <2>1 DEF D
<1> QED
  BY <1>2, <1>4, <1>5 DEF D

\* A drawn id stays drawn, and a task that is gone stays so; a thread keeps its task
\* until that is gone.
Onward ==
    /\ \A x \in Task : Drawn(x) => Drawn(x)'
    /\ \A x \in Task : Drawn(x) /\ tasks[x] = None => tasks'[x] = None
    /\ \A th \in Thread : threads[th].task # None =>
          \/ threads'[th].task = threads[th].task
          \/ threads'[th].task = None /\ tasks'[threads[th].task] = None

LEMMA DismissedStep ==
    ASSUME TypeOK, LinkInv, NEW r \in Run, NEW m \in Message, NEW reason \in Reason,
           IngestDismissed(r, m, reason)
    PROVE  decisions' \in [Message -> Decision \cup {None}] /\ LinkInv' /\ Onward
<1> DEFINE op == IF reason = "none" /\ threads[m.thread].snapshot # None
                 THEN "noop" ELSE "skip"
           d == [op |-> op, content |-> None, task |-> threads[m.thread].task,
                 reason |-> reason]
<1>1. /\ ~Decided(m) /\ Deliver(r, m)
      /\ decisions' = [decisions EXCEPT ![m] = d]
      /\ threads' = threads /\ tasks' = tasks
  BY DEF IngestDismissed, Takes
<1>2. threads[m.thread].task \in Task \cup {None}
  BY NoneIsApart DEF TypeOK, Row
<1>3. d \in Decision /\ d.task = threads[m.thread].task
  BY <1>2 DEF Decision
<1> HIDE DEF d
<1>4. /\ decisions' \in [Message -> Decision \cup {None}]
      /\ decisions'[m] = d /\ d # None
      /\ \A n \in Message \ {m} : decisions'[n] = decisions[n]
  BY <1>1, <1>3, NoneIsApart DEF TypeOK
<1>5. \A n \in Message : Decided(n) => n # m /\ Decided(n)' /\ decisions'[n] = decisions[n]
  BY <1>1, <1>4 DEF Decided
<1>6. \A x \in Task : Drawn(x) => Drawn(x)'
  BY <1>5 DEF Drawn
<1>7. \A i \in DOMAIN deliveries' : decisions'[deliveries'[i].msg] # None
  BY <1>1, <1>4, <1>5, DeliverType DEF LinkInv, Decided
<1>8. \A n \in Message : decisions'[n] # None /\ decisions'[n].task # None =>
          tasks'[decisions'[n].task] = None \/ threads'[n.thread].task = decisions'[n].task
  BY <1>1, <1>3, <1>4 DEF LinkInv, Decided
<1>9. LinkInv'
  <2>1. (\A x \in Task : tasks[x] # None => Drawn(x))'
    BY <1>1, <1>6 DEF LinkInv
  <2> QED
    BY <1>1, <1>7, <1>8, <2>1 DEF LinkInv, Decided
<1> QED
  BY <1>1, <1>4, <1>6, <1>9 DEF Onward
LEMMA TaskStep ==
    ASSUME TypeOK, LinkInv, NEW r \in Run, NEW m \in Message, NEW c \in Content,
           IngestTask(r, m, c)
    PROVE  /\ decisions' \in [Message -> Decision \cup {None}]
           /\ threads' \in [Thread -> Row] /\ tasks' \in [Task -> Content \cup {None}]
           /\ LinkInv' /\ Onward
<1> DEFINE mapped == threads[m.thread].task
<1>1. PICK x \in Task :
        /\ IF mapped = None THEN ~Drawn(x) ELSE x = mapped
        /\ decisions' = [decisions EXCEPT ![m] =
                           [op |-> CASE mapped = None -> "create"
                                     [] mapped # None /\ tasks[x] = c -> "noop"
                                     [] OTHER -> "update",
                            content |-> c, task |-> x, reason |-> "none"]]
        /\ threads' = [threads EXCEPT ![m.thread] = [task |-> x, snapshot |-> c]]
        /\ tasks' = [tasks EXCEPT ![x] = c]
  BY DEF IngestTask
<1>2. ~Decided(m) /\ Deliver(r, m)
  BY DEF IngestTask, Takes
<1>3. m.thread \in Thread /\ x # None /\ c # None
  BY NoneIsApart
<1>4. PICK d \in Decision : decisions' = [decisions EXCEPT ![m] = d] /\ d.task = x
  <2> DEFINE op == CASE mapped = None -> "create"
                     [] mapped # None /\ tasks[x] = c -> "noop"
                     [] OTHER -> "update"
             e == [op |-> op, content |-> c, task |-> x, reason |-> "none"]
  <2>1. op \in {"create", "update", "noop", "skip"}
    OBVIOUS
  <2> HIDE DEF op
  <2>2. e \in Decision /\ e.task = x
    BY <2>1 DEF Decision
  <2>3. decisions' = [decisions EXCEPT ![m] = e]
    BY <1>1 DEF op
  <2> QED
    BY <2>2, <2>3
<1>5. /\ decisions' \in [Message -> Decision \cup {None}]
      /\ decisions'[m] = d /\ d # None
      /\ \A n \in Message \ {m} : decisions'[n] = decisions[n]
  BY <1>4, NoneIsApart DEF TypeOK
<1>6. /\ threads' \in [Thread -> Row]
      /\ threads'[m.thread].task = x /\ threads'[m.thread].snapshot = c
      /\ \A th \in Thread \ {m.thread} : threads'[th] = threads[th]
  BY <1>1, <1>3 DEF TypeOK, Row
<1>7. /\ tasks' \in [Task -> Content \cup {None}]
      /\ tasks'[x] = c
      /\ \A y \in Task \ {x} : tasks'[y] = tasks[y]
  BY <1>1 DEF TypeOK
<1>8. \/ mapped = None /\ ~Drawn(x)
      \/ mapped = x /\ tasks[x] # None
  BY <1>1, <1>3 DEF LinkInv, NoThread
<1>9. \A n \in Message : Decided(n) => n # m /\ decisions'[n] # None /\ decisions'[n] = decisions[n]
  BY <1>2, <1>5 DEF Decided
<1>10. Drawn(x)' /\ \A y \in Task : Drawn(y) => Drawn(y)'
  BY <1>4, <1>5, <1>9 DEF Drawn, Decided
<1>11. Onward
  <2>1. \A y \in Task : Drawn(y) /\ tasks[y] = None => tasks'[y] = None
    BY <1>7, <1>8
  <2>2. \A th \in Thread : threads[th].task # None => threads'[th].task = threads[th].task
    BY <1>6, <1>8
  <2> QED
    BY <1>10, <2>1, <2>2 DEF Onward
<1>12. LinkInv'
  <2>1. \A y \in Task : tasks'[y] # None => Drawn(y)'
    BY <1>7, <1>10 DEF LinkInv
  <2>2. \A th \in Thread :
          \/ threads'[th] = NoThread
          \/ /\ threads'[th].task # None /\ threads'[th].snapshot # None
             /\ tasks'[threads'[th].task] # None
    <3> TAKE th \in Thread
    <3>1. CASE th = m.thread
      BY <1>3, <1>6, <1>7, <3>1
    <3>2. CASE th # m.thread
      <4>1. threads[th].task # None => threads[th].task \in Task
        BY DEF TypeOK, Row
      <4> QED
        BY <1>3, <1>6, <1>7, <3>2, <4>1 DEF LinkInv
    <3> QED
      BY <3>1, <3>2
  <2>3. \A n \in Message : decisions'[n] # None /\ decisions'[n].task # None =>
          tasks'[decisions'[n].task] = None \/ threads'[n.thread].task = decisions'[n].task
    <3> SUFFICES ASSUME NEW n \in Message, decisions'[n] # None, decisions'[n].task # None
                 PROVE  \/ tasks'[decisions'[n].task] = None
                        \/ threads'[n.thread].task = decisions'[n].task
      OBVIOUS
    <3> DEFINE y == decisions'[n].task
    <3>1. CASE n = m
      BY <1>4, <1>5, <1>6, <3>1
    <3>2. CASE n # m
      <4>1. Decided(n) /\ y = decisions[n].task /\ n.thread \in Thread
        BY <1>5, <3>2, NoneIsApart DEF Decided
      <4>2. y \in Task
        BY <4>1 DEF TypeOK, Decided, Decision
      <4>3. tasks[y] = None \/ threads[n.thread].task = y
        BY <4>1 DEF LinkInv
      <4>4. y = x => Drawn(x)
        BY <4>1 DEF Drawn
      <4>5. CASE y = x
        BY <1>6, <1>8, <4>1, <4>3, <4>4, <4>5
      <4>6. CASE y # x
        BY <1>6, <1>7, <1>8, <4>1, <4>2, <4>3, <4>6
      <4> QED
        BY <4>5, <4>6
    <3> QED
      BY <3>1, <3>2
  <2>4. \A i \in DOMAIN deliveries' : decisions'[deliveries'[i].msg] # None
    BY <1>2, <1>5, <1>9, DeliverType DEF LinkInv, Decided
  <2> QED
    BY <2>1, <2>2, <2>3, <2>4 DEF LinkInv, Decided
<1> QED
  BY <1>5, <1>6, <1>7, <1>11, <1>12

LEMMA PatchStep ==
    ASSUME TypeOK, LinkInv, NEW x \in Task, NEW c \in Content, PatchTask(x, c)
    PROVE  tasks' \in [Task -> Content \cup {None}] /\ LinkInv' /\ Onward
<1>1. /\ tasks' \in [Task -> Content \cup {None}]
      /\ \A y \in Task : tasks'[y] = None <=> tasks[y] = None
      /\ UNCHANGED <<decisions, deliveries, threads>>
  BY NoneIsApart DEF PatchTask, TypeOK
<1>2. \A y : Drawn(y)' <=> Drawn(y)
  BY <1>1 DEF Drawn, Decided
<1>3. \A th \in Thread : threads[th].task # None => threads[th].task \in Task
  BY DEF TypeOK, Row
<1>4. \A m \in Message : Decided(m) /\ decisions[m].task # None => decisions[m].task \in Task
  BY DEF TypeOK, Decided, Decision
<1>5. LinkInv'
  BY <1>1, <1>2, <1>3, <1>4 DEF LinkInv, Decided
<1> QED
  BY <1>1, <1>2, <1>5 DEF Onward

LEMMA DeleteStep ==
    ASSUME TypeOK, LinkInv, NEW x \in Task, DeleteTask(x)
    PROVE  /\ threads' \in [Thread -> Row] /\ tasks' \in [Task -> Content \cup {None}]
           /\ LinkInv' /\ Onward
<1>1. /\ tasks' \in [Task -> Content \cup {None}]
      /\ tasks'[x] = None /\ \A y \in Task \ {x} : tasks'[y] = tasks[y]
      /\ UNCHANGED <<decisions, deliveries>>
  BY DEF DeleteTask, TypeOK
<1>2. /\ threads' \in [Thread -> Row]
      /\ \A th \in Thread : threads'[th] = IF threads[th].task = x THEN NoThread ELSE threads[th]
  BY DEF DeleteTask, TypeOK, Row, NoThread
<1>3. \A y : Drawn(y)' <=> Drawn(y)
  BY <1>1 DEF Drawn, Decided
<1>4. \A th \in Thread : threads[th].task # None => threads[th].task \in Task
  BY DEF TypeOK, Row
<1>5. \A m \in Message : Decided(m) /\ decisions[m].task # None => decisions[m].task \in Task
  BY DEF TypeOK, Decided, Decision
<1>6. LinkInv'
  <2>1. \A th \in Thread :
          \/ threads'[th] = NoThread
          \/ /\ threads'[th].task # None /\ threads'[th].snapshot # None
             /\ tasks'[threads'[th].task] # None
    BY <1>1, <1>2, <1>4 DEF LinkInv
  <2>2. \A m \in Message : Decided(m) /\ decisions[m].task # None =>
          \/ tasks'[decisions[m].task] = None
          \/ threads'[m.thread].task = decisions[m].task
    BY <1>1, <1>2, <1>5, NoneIsApart DEF LinkInv
  <2> QED
    BY <1>1, <1>3, <2>1, <2>2 DEF LinkInv, Decided
<1>7. NoThread.task = None
  BY DEF NoThread
<1> QED
  BY <1>1, <1>2, <1>3, <1>4, <1>6, <1>7 DEF Onward

LEMMA SameStep ==
    ASSUME LinkInv, UNCHANGED <<decisions, threads, tasks>>,
           \A i \in DOMAIN deliveries' : decisions[deliveries'[i].msg] # None
    PROVE  LinkInv' /\ Onward
<1>1. \A y : Drawn(y)' <=> Drawn(y)
  BY DEF Drawn, Decided
<1> QED
  BY <1>1 DEF LinkInv, Onward, Decided

LEMMA ChangeSteps ==
    ASSUME IInv, Changes
    PROVE  IInv' /\ Onward
<1> USE DEF IInv
<1>1. /\ since' = [th \in Thread |-> since[th] \cup {CurrentIn(threads', tasks', th)}]
      /\ UNCHANGED chat
  BY DEF Changes, IngestDismissed, IngestTask, Replay, PatchTask, DeleteTask, SetFeedback, Change
<1> DEFINE Kept ==
             /\ decisions' \in [Message -> Decision \cup {None}]
             /\ deliveries' \in Seq([run : Run, msg : Message])
             /\ threads' \in [Thread -> Row] /\ tasks' \in [Task -> Content \cup {None}]
             /\ LinkInv' /\ Onward
<1>2. Kept
  <2>1. ASSUME NEW r \in Run, NEW m \in Message, NEW reason \in Reason,
               IngestDismissed(r, m, reason)
        PROVE  Kept
    <3>1. Deliver(r, m) /\ UNCHANGED <<threads, tasks>>
      BY <2>1 DEF IngestDismissed, Takes
    <3> QED
      BY <2>1, <3>1, DismissedStep, DeliverType DEF TypeOK
  <2>2. ASSUME NEW r \in Run, NEW m \in Message, NEW c \in Content, IngestTask(r, m, c)
        PROVE  Kept
    <3>1. Deliver(r, m)
      BY <2>2 DEF IngestTask, Takes
    <3> QED
      BY <2>2, <3>1, TaskStep, DeliverType
  <2>3. ASSUME NEW r \in Run, NEW m \in Message, Replay(r, m) PROVE Kept
    <3>1. Deliver(r, m) /\ Decided(m) /\ UNCHANGED <<decisions, threads, tasks>>
      BY <2>3 DEF Replay
    <3>2. \A i \in DOMAIN deliveries' : decisions[deliveries'[i].msg] # None
      BY <3>1, DeliverType DEF LinkInv, Decided
    <3> QED
      BY <3>1, <3>2, SameStep, DeliverType DEF TypeOK
  <2>4. ASSUME NEW x \in Task, NEW c \in Content, PatchTask(x, c) PROVE Kept
    <3>1. UNCHANGED <<decisions, deliveries, threads>>
      BY <2>4 DEF PatchTask
    <3> QED
      BY <2>4, <3>1, PatchStep DEF TypeOK
  <2>5. ASSUME NEW x \in Task, DeleteTask(x) PROVE Kept
    <3>1. UNCHANGED <<decisions, deliveries>>
      BY <2>5 DEF DeleteTask
    <3> QED
      BY <2>5, <3>1, DeleteStep DEF TypeOK
  <2>6. ASSUME NEW m \in Message, SetFeedback(m) PROVE Kept
    <3>1. UNCHANGED <<decisions, deliveries, threads, tasks>>
      BY <2>6 DEF SetFeedback
    <3> QED
      BY <3>1, SameStep DEF TypeOK, LinkInv, Decided
  <2> QED
    BY <2>1, <2>2, <2>3, <2>4, <2>5, <2>6 DEF Changes
<1>3. \A th \in Thread : CurrentIn(threads', tasks', th) \in Content \cup {None}
  BY <1>2, NoneIsApart DEF CurrentIn, Row
<1>4. /\ since' \in [Thread -> SUBSET (Content \cup {None})]
      /\ \A th \in Thread : /\ since[th] \subseteq since'[th]
                            /\ CurrentIn(threads', tasks', th) \in since'[th]
  BY <1>1, <1>3 DEF TypeOK
<1>5. TypeOK'
  BY <1>1, <1>2, <1>4 DEF TypeOK, chat
<1>6. GotInv'
  BY <1>1 DEF GotInv, chat
<1>7. \A th \in DOMAIN got.threads : th \in Thread
  BY DEF GotInv
<1>8. ASSUME NEW th \in DOMAIN got.threads, ThreadRead(th) PROVE ThreadRead(th)'
  <2>1. PICK x : x = got.threads[th].task /\ x = got'.threads[th].task
    BY <1>1 DEF chat
  <2>2. CASE x = None
    BY <1>4, <1>7, <1>8, <2>1, <2>2, NoneIsApart DEF ThreadRead
  <2>3. CASE x # None
    <3>1. x \in Task /\ Drawn(x) /\ Drawn(x)'
      BY <1>2, <1>8, <2>1, <2>3 DEF ThreadRead, Onward
    <3>2. threads'[th].task = x \/ (tasks'[x] = None /\ None \in since'[th])
      <4>1. CASE threads[th].task = x
        <5>1. \/ threads'[th].task = x
              \/ threads'[th].task = None /\ tasks'[x] = None
          BY <1>2, <1>7, <2>3, <4>1 DEF Onward
        <5> QED
          BY <1>4, <1>7, <5>1 DEF CurrentIn
      <4>2. CASE threads[th].task # x
        <5>1. tasks[x] = None /\ None \in since[th]
          BY <1>8, <2>1, <2>3, <4>2 DEF ThreadRead
        <5> QED
          BY <1>2, <1>4, <1>7, <3>1, <5>1 DEF Onward
      <4> QED
        BY <4>1, <4>2
    <3> QED
      BY <2>1, <3>1, <3>2 DEF ThreadRead
  <2> QED
    BY <2>2, <2>3
<1>9. ASSUME NEW th \in DOMAIN got.threads, TaskRead(th) PROVE TaskRead(th)'
  BY <1>1, <1>4, <1>7, <1>9 DEF TaskRead, chat
<1>10. ReadInv'
  <2>1. \A th \in Thread : CurrentIn(threads, tasks, th)' \in since'[th]
    BY <1>4 DEF CurrentIn
  <2>2. UNCHANGED <<pc, plan, got>>
    BY <1>1 DEF chat
  <2> QED
    BY <1>8, <1>9, <2>1, <2>2 DEF ReadInv
<1> QED
  BY <1>2, <1>5, <1>6, <1>10

-------------------------------------------------------------------------------
(* Steps of the handler *)

\* Steps that leave the reads as they are, and after which fewer of them count.
LEMMA QuietSteps ==
    ASSUME IInv, UNCHANGED <<store, scope, got, since>>,
           pc' \in {"tasks", "rest", "phrase"} => pc \in {"tasks", "rest", "phrase"},
           pc' \in {"rest", "phrase"} /\ plan'.intent = "analytics" =>
               pc \in {"rest", "phrase"} /\ plan = plan'
    PROVE  IInv'
<1>1. UNCHANGED <<decisions, deliveries, threads, tasks, since, scope, got>>
  BY DEF store
<1>2. TypeOK' /\ GotInv'
  BY <1>1 DEF IInv, TypeOK, GotInv
<1>3. \A y : Drawn(y)' <=> Drawn(y)
  BY <1>1 DEF Drawn, Decided
<1>4. LinkInv'
  BY <1>1, <1>3 DEF IInv, LinkInv, Decided
<1>5. \A th : (ThreadRead(th)' <=> ThreadRead(th)) /\ (TaskRead(th)' <=> TaskRead(th))
  BY <1>1, <1>3 DEF ThreadRead, TaskRead
<1>6. ReadInv'
  <2>1. \A th \in Thread : CurrentIn(threads, tasks, th)' = CurrentIn(threads, tasks, th)
    BY <1>1 DEF CurrentIn
  <2> QED
    BY <1>1, <1>5, <2>1 DEF IInv, ReadInv
<1> QED
  BY <1>2, <1>4, <1>6 DEF IInv

LEMMA AskStep ==
    ASSUME IInv, Ask
    PROVE  IInv'
<1>1. /\ UNCHANGED <<decisions, deliveries, threads, tasks, scope, got>>
      /\ pc' = "plan"
      /\ since' = [th \in Thread |-> {CurrentIn(threads, tasks, th)}]
  BY DEF Ask, store
<1>2. \A th \in Thread : CurrentIn(threads, tasks, th) \in Content \cup {None}
  BY NoneIsApart DEF CurrentIn, Row, IInv, TypeOK
<1>3. TypeOK' /\ GotInv'
  BY <1>1, <1>2 DEF IInv, TypeOK, GotInv
<1>4. \A y : Drawn(y)' <=> Drawn(y)
  BY <1>1 DEF Drawn, Decided
<1>5. LinkInv'
  BY <1>1, <1>4 DEF IInv, LinkInv, Decided
<1>6. ReadInv'
  BY <1>1 DEF ReadInv, CurrentIn
<1> QED
  BY <1>3, <1>5, <1>6 DEF IInv

LEMMA RowsType ==
    ASSUME TypeOK, NEW s
    PROVE  \A r \in ListDecisions(s) :
              /\ r.msg \in Message
              /\ \E j \in DOMAIN deliveries : InScope(deliveries[j], s) /\ deliveries[j].msg = r.msg
<1>1. \A j \in DOMAIN deliveries : deliveries[j] \in [run : Run, msg : Message]
  BY Positions DEF TypeOK
<1>2. \A j \in DOMAIN deliveries : deliveries[j].msg \in Message
  BY <1>1
<1>3. ASSUME NEW r \in ListDecisions(s)
      PROVE  \E j \in DOMAIN deliveries : InScope(deliveries[j], s) /\ deliveries[j].msg = r.msg
  <2> DEFINE inScope == {j \in DOMAIN deliveries : InScope(deliveries[j], s)}
             latest(m) == Max({j \in inScope : deliveries[j].msg = m})
  <2>1. PICK m \in {deliveries[j].msg : j \in inScope} : r = [msg |-> m, delivery |-> latest(m)]
    BY DEF ListDecisions
  <2> HIDE DEF latest
  <2>2. r.msg = m
    BY <2>1
  <2> QED
    BY <2>2
<1> QED
  BY <1>2, <1>3

\* The store, the clock of what was current and the type of the reads.
StoreSame == UNCHANGED <<decisions, deliveries, threads, tasks, since, scope>>

LEMMA StoreSteps ==
    ASSUME IInv, StoreSame
    PROVE  /\ TypeOK' /\ LinkInv'
           /\ \A th \in Thread : CurrentIn(threads, tasks, th)' \in since'[th]
           /\ \A y : Drawn(y)' <=> Drawn(y)
<1>1. TypeOK'
  BY DEF IInv, TypeOK, StoreSame
<1>2. \A y : Drawn(y)' <=> Drawn(y)
  BY DEF Drawn, Decided, StoreSame
<1>3. LinkInv'
  BY <1>2 DEF IInv, LinkInv, Decided, StoreSame
<1>4. \A th \in Thread : CurrentIn(threads, tasks, th)' \in since'[th]
  BY DEF CurrentIn, StoreSame, IInv, ReadInv
<1> QED
  BY <1>1, <1>2, <1>3, <1>4

LEMMA ReadDecisionsStep ==
    ASSUME IInv, ReadDecisions
    PROVE  IInv'
<1>1. /\ StoreSame /\ pc' = "threads"
      /\ got' = [NothingRead EXCEPT !.rows = ListDecisions(scope), !.decisions = decisions]
  BY DEF ReadDecisions, StoreSame, store
<1>2. GotInv'
  <2>1. \A r \in ListDecisions(scope) : r.msg \in Message
    BY RowsType DEF IInv
  <2>2. /\ got' = [rows |-> ListDecisions(scope), decisions |-> decisions,
                  threads |-> [th \in {} |-> NoThread], tasks |-> [x \in Task |-> None],
                  events |-> {}, spurious |-> {}, runs |-> {}]
    BY <1>1 DEF NothingRead
  <2> HIDE DEF ListDecisions
  <2> QED
    BY <2>1, <2>2 DEF GotInv
<1> QED
  BY <1>1, <1>2, StoreSteps DEF IInv, ReadInv

LEMMA ReadThreadsStep ==
    ASSUME IInv, ReadThreads
    PROVE  IInv'
<1> DEFINE T == {r.msg.thread : r \in got.rows}
           f == [th \in T |-> threads[th]]
<1>1. /\ StoreSame /\ got' = [got EXCEPT !.threads = f]
      /\ pc' \in {"tasks", "rest"} /\ plan' = plan
      /\ pc' = "rest" => plan.intent # "analytics"
  BY DEF ReadThreads, StoreSame, store
<1>2. T \subseteq Thread
  BY NoneIsApart DEF IInv, GotInv
<1> HIDE DEF T
<1>3. GotInv' /\ got'.threads = f
  BY <1>1, <1>2 DEF IInv, GotInv
<1>4. ASSUME NEW th \in T PROVE ThreadRead(th)'
  <2>1. PICK x : x = threads[th].task
    OBVIOUS
  <2>2. /\ th \in Thread /\ got'.threads[th].task = x /\ threads'[th].task = x
        /\ CurrentIn(threads, tasks, th) \in since'[th]
    BY <1>1, <1>2, <1>3, <2>1 DEF StoreSame, IInv, ReadInv
  <2>3. CASE x = None
    BY <2>1, <2>2, <2>3 DEF ThreadRead, CurrentIn
  <2>4. CASE x # None
    <3>1. x \in Task /\ tasks[x] # None
      BY <2>1, <2>2, <2>4 DEF IInv, TypeOK, Row, LinkInv, NoThread
    <3>2. Drawn(x)'
      BY <1>1, <3>1, StoreSteps DEF IInv, LinkInv
    <3> QED
      BY <2>2, <3>1, <3>2 DEF ThreadRead
  <2> QED
    BY <2>3, <2>4
<1> QED
  BY <1>1, <1>3, <1>4, StoreSteps DEF IInv, ReadInv

LEMMA ReadTasksStep ==
    ASSUME IInv, ReadTasks
    PROVE  IInv'
<1>1. /\ StoreSame /\ got' = [got EXCEPT !.tasks = tasks]
      /\ pc = "tasks" /\ pc' = "rest" /\ plan' = plan
  BY DEF ReadTasks, StoreSame, store
<1>2. GotInv' /\ got'.threads = got.threads /\ got'.tasks = tasks
  BY <1>1 DEF IInv, GotInv
<1>3. ASSUME NEW th \in DOMAIN got.threads PROVE ThreadRead(th)' /\ TaskRead(th)'
  <2>1. PICK x : x = got.threads[th].task
    OBVIOUS
  <2>2. th \in Thread /\ ThreadRead(th) /\ CurrentIn(threads, tasks, th) \in since[th]
    BY <1>1 DEF IInv, GotInv, ReadInv
  <2>3. ThreadRead(th)'
    <3>1. Drawn(x)' <=> Drawn(x)
      BY <1>1, StoreSteps
    <3> QED
      BY <1>1, <1>2, <2>1, <2>2, <3>1 DEF ThreadRead, StoreSame
  <2>4. x # None => tasks[x] \in since[th] \/ None \in since[th]
    BY <2>1, <2>2 DEF ThreadRead, CurrentIn
  <2> QED
    BY <1>1, <1>2, <2>1, <2>3, <2>4 DEF TaskRead, StoreSame
<1> QED
  BY <1>1, <1>2, <1>3, StoreSteps DEF IInv, ReadInv

LEMMA ExecuteStep ==
    ASSUME IInv, Execute
    PROVE  IInv'
<1>1. PICK g : /\ got' = g
               /\ g = [got EXCEPT !.events = Now(scope).events, !.spurious = spurious,
                                  !.runs = Now(scope).runs]
  BY DEF Execute
<1>2. StoreSame /\ pc = "rest" /\ plan' = plan
  BY DEF Execute, StoreSame, store
<1>3. GotInv' /\ got'.threads = got.threads /\ got'.tasks = got.tasks
  BY <1>1 DEF IInv, GotInv
<1>4. ASSUME NEW th \in DOMAIN got.threads
      PROVE  (ThreadRead(th) => ThreadRead(th)') /\ (TaskRead(th) => TaskRead(th)')
  <2>1. PICK x : x = got.threads[th].task
    OBVIOUS
  <2>2. Drawn(x)' <=> Drawn(x)
    BY <1>2, StoreSteps
  <2> QED
    BY <1>2, <1>3, <2>1, <2>2 DEF ThreadRead, TaskRead, StoreSame
<1> QED
  BY <1>2, <1>3, <1>4, StoreSteps DEF IInv, ReadInv

-------------------------------------------------------------------------------
(* The invariant holds *)

LEMMA InitIInv ==
    ASSUME Init
    PROVE  IInv
<1>1. TypeOK
  <2>1. deliveries \in Seq([run : Run, msg : Message])
    BY EmptySeq DEF Init
  <2> QED
    BY <2>1 DEF Init, TypeOK, Row, NoThread
<1>2. LinkInv
  BY DEF Init, LinkInv, Decided
<1>3. GotInv
  BY DEF Init, GotInv, NothingRead
<1>4. ReadInv
  BY DEF Init, ReadInv, CurrentIn, NoThread
<1> QED
  BY <1>1, <1>2, <1>3, <1>4 DEF IInv

LEMMA NextIInv ==
    ASSUME IInv, [Next]_vars
    PROVE  IInv'
<1>1. CASE PlanIt \/ WordAnswer \/ UNCHANGED vars
  BY <1>1, QuietSteps DEF PlanIt, WordAnswer, vars, chat
<1> QED
  BY <1>1, AskStep, ReadDecisionsStep, ReadThreadsStep, ReadTasksStep, ExecuteStep, ChangeSteps
     DEF Next, Handler

LEMMA AlwaysIInv == Spec => []IInv
<1>1. Init => IInv
  BY InitIInv
<1>2. IInv /\ [Next]_vars => IInv'
  BY NextIInv
<1> QED
  BY <1>1, <1>2, PTL DEF Spec

\* What an answer says of a current task was true of it since the question was put,
\* or the thread was without a task (the reads of _scoped_records, current_tasks).
THEOREM WereCurrent == Spec => []CurrentTasksWereCurrent
<1>1. ASSUME IInv PROVE CurrentTasksWereCurrent
  <2> SUFFICES ASSUME pc = "phrase", plan.intent = "analytics", NEW rec \in CurrentTasks(got)
               PROVE  since[rec.key] \cap {rec.row, None} # {}
    BY DEF CurrentTasksWereCurrent
  <2>1. PICK th \in DOMAIN got.threads : rec = [key |-> th, row |-> CurrentTask(got, th)]
    BY DEF CurrentTasks
  <2>2. ThreadRead(th) /\ TaskRead(th)
    BY <1>1 DEF IInv, ReadInv
  <2>3. \/ None \in since[th]
        \/ CurrentTask(got, th) \in since[th]
    <3>1. PICK x : x = got.threads[th].task
      OBVIOUS
    <3>2. CASE x # None /\ got.tasks[x] # None
      <4>1. CurrentTask(got, th) = got.tasks[x]
        BY <3>1, <3>2 DEF CurrentTask
      <4> QED
        BY <2>2, <3>1, <3>2, <4>1 DEF TaskRead
    <3>3. CASE x = None \/ got.tasks[x] = None
      BY <2>2, <3>1, <3>3, NoneIsApart DEF ThreadRead, TaskRead
    <3> QED
      BY <3>2, <3>3
  <2> QED
    BY <2>1, <2>3
<1> QED
  BY <1>1, AlwaysIInv, PTL

-------------------------------------------------------------------------------
(* Counting *)

LEMMA SameSize ==
    ASSUME NEW S, IsFiniteSet(S), NEW T, NEW f \in [S -> T],
           \A a, b \in S : f[a] = f[b] => a = b, \A t \in T : \E a \in S : f[a] = t
    PROVE  IsFiniteSet(T) /\ Cardinality(T) = Cardinality(S)
<1>1. f \in Bijection(S, T)
  BY DEF Bijection, Injection, Surjection, IsInjective
<1> QED
  BY <1>1, FS_Bijection DEF ExistsBijection

LEMMA Disjoint ==
    ASSUME NEW S, NEW T, IsFiniteSet(S), IsFiniteSet(T), S \cap T = {}
    PROVE  /\ IsFiniteSet(S \cup T)
           /\ Cardinality(S \cup T) = Cardinality(S) + Cardinality(T)
<1>1. Cardinality(S) \in Nat /\ Cardinality(T) \in Nat
  BY FS_CardinalityType
<1>2. /\ IsFiniteSet(S \cup T)
      /\ Cardinality(S \cup T) = Cardinality(S) + Cardinality(T) - Cardinality(S \cap T)
  BY FS_Union
<1>3. Cardinality(S \cap T) = 0
  BY FS_EmptySet
<1> QED
  BY <1>1, <1>2, <1>3

\* Of finitely many rows one has the highest place.
LEMMA HighestRow ==
    ASSUME NEW R, IsFiniteSet(R), R # {}, \A r \in R : r.msg.index \in Nat
    PROVE  \E r \in R : \A q \in R : q.msg.index <= r.msg.index
<1> DEFINE Has(T) == \E r \in T : \A q \in T : q.msg.index <= r.msg.index
           C == {T \in SUBSET R : T # {} /\ ~Has(T)}
<1> SUFFICES ASSUME ~Has(R) PROVE FALSE
  OBVIOUS
<1>1. R \in C
  OBVIOUS
<1>2. IsWellFoundedOn(StrictSubsetOrdering(R), SUBSET R)
  BY FS_StrictSubsetOrderingWellFounded, FS_FiniteSubsetsOfFinite
<1>3. PICK T \in C : \A U \in C : ~(<<U, T>> \in StrictSubsetOrdering(R))
  <2>1. C \subseteq SUBSET R /\ C # {}
    BY <1>1
  <2> HIDE DEF C
  <2> QED
    BY <1>2, <2>1, WFMin
<1>4. PICK t \in T : t \in R
  OBVIOUS
<1> DEFINE U == T \ {t}
<1>5. U \notin C
  BY <1>3, <1>4 DEF StrictSubsetOrdering
<1>6. CASE U = {}
  <2>1. T = {t} /\ t.msg.index <= t.msg.index
    BY <1>4, <1>6
  <2>2. Has(T)
    BY <2>1
  <2> QED
    BY <2>2
<1>7. CASE U # {}
  <2>1. Has(U)
    BY <1>5, <1>7
  <2>2. PICK r \in U : \A q \in U : q.msg.index <= r.msg.index
    BY <2>1
  <2>3. /\ T \subseteq R /\ r \in T /\ r.msg.index \in Nat /\ t.msg.index \in Nat
        /\ \A q \in T : q.msg.index \in Nat
    BY <1>4
  <2>4. CASE t.msg.index <= r.msg.index
    BY <2>2, <2>3, <2>4
  <2>5. CASE r.msg.index <= t.msg.index
    <3>1. \A q \in T : q.msg.index <= t.msg.index
      BY <2>2, <2>3, <2>5
    <3> QED
      BY <1>4, <3>1
  <2> QED
    BY <2>3, <2>4, <2>5
<1> QED
  BY <1>6, <1>7

\* Each e-mail that was delivered in a scope has one row.
LEMMA RowsOfMessages ==
    ASSUME TypeOK, NEW s
    PROVE  LET rows == ListDecisions(s) IN
           /\ IsFiniteSet(rows)
           /\ \A r, q \in rows : r.msg = q.msg => r = q
<1> DEFINE inScope == {j \in DOMAIN deliveries : InScope(deliveries[j], s)}
           latest(m) == Max({j \in inScope : deliveries[j].msg = m})
           M == {deliveries[j].msg : j \in inScope}
           rows == ListDecisions(s)
<1>1. rows = {[msg |-> m, delivery |-> latest(m)] : m \in M}
  BY DEF ListDecisions
<1>2. IsFiniteSet(inScope)
  <2>1. DOMAIN deliveries = 1 .. Len(deliveries) /\ Len(deliveries) \in Int
    BY LenProperties DEF TypeOK
  <2>2. IsFiniteSet(DOMAIN deliveries)
    BY <2>1, FS_Interval
  <2> QED
    BY <2>2, FS_Subset
<1> HIDE DEF inScope, latest
<1>3. IsFiniteSet(M)
  <2> DEFINE f == [j \in inScope |-> deliveries[j].msg]
  <2>1. f \in Surjection(inScope, M)
    BY DEF Surjection
  <2> QED
    BY <1>2, <2>1, FS_Surjection
<1> HIDE DEF M
<1>4. IsFiniteSet(rows)
  <2> DEFINE f == [m \in M |-> [msg |-> m, delivery |-> latest(m)]]
  <2>1. f \in Surjection(M, rows)
    BY <1>1 DEF Surjection
  <2> QED
    BY <1>3, <2>1, FS_Surjection
<1> QED
  BY <1>1, <1>4

\* The rows by operation.
LEMMA RowsByOperation ==
    ASSUME TypeOK, LinkInv, NEW s
    PROVE  StatsOf(s, "create") + StatsOf(s, "update") + StatsOf(s, "noop") + StatsOf(s, "skip")
             = StatsProcessed(s)
<1> DEFINE rows == ListDecisions(s)
           Of(op) == {r \in rows : decisions[r.msg].op = op}
<1>1. IsFiniteSet(rows) /\ \A r, q \in rows : r.msg = q.msg => r = q
  BY RowsOfMessages
<1>2. \A r \in rows : decisions[r.msg].op \in {"create", "update", "noop", "skip"}
  <2> TAKE r \in rows
  <2>1. r.msg \in Message /\ Decided(r.msg)
    BY RowsType DEF LinkInv
  <2>2. decisions[r.msg] \in Decision
    BY <2>1 DEF Decided, TypeOK
  <2> QED
    BY <2>2 DEF Decision
<1> HIDE DEF rows
<1>3. \A op : IsFiniteSet(Of(op))
  BY <1>1, FS_Subset
<1>4. /\ Of("create") \cap Of("update") = {}
      /\ (Of("create") \cup Of("update")) \cap Of("noop") = {}
      /\ (Of("create") \cup Of("update") \cup Of("noop")) \cap Of("skip") = {}
  OBVIOUS
<1>5. rows = Of("create") \cup Of("update") \cup Of("noop") \cup Of("skip")
  BY <1>2
<1>6. \A op : StatsOf(s, op) = Cardinality(Of(op))
  BY DEF StatsOf, rows
<1> HIDE DEF Of
<1>7. Cardinality(rows) = Cardinality(Of("create")) + Cardinality(Of("update"))
                            + Cardinality(Of("noop")) + Cardinality(Of("skip"))
  <2>1. /\ IsFiniteSet(Of("create") \cup Of("update"))
        /\ Cardinality(Of("create") \cup Of("update"))
             = Cardinality(Of("create")) + Cardinality(Of("update"))
    BY <1>3, <1>4, Disjoint
  <2>2. /\ IsFiniteSet(Of("create") \cup Of("update") \cup Of("noop"))
        /\ Cardinality(Of("create") \cup Of("update") \cup Of("noop"))
             = Cardinality(Of("create")) + Cardinality(Of("update")) + Cardinality(Of("noop"))
    BY <1>3, <1>4, <2>1, Disjoint
  <2> QED
    BY <1>3, <1>4, <1>5, <2>2, Disjoint
<1>8. Cardinality({r.msg : r \in rows}) = Cardinality(rows)
  <2> DEFINE f == [r \in rows |-> r.msg]
  <2>1. /\ f \in [rows -> {r.msg : r \in rows}]
        /\ \A a, b \in rows : f[a] = f[b] => a = b
        /\ \A t \in {r.msg : r \in rows} : \E a \in rows : f[a] = t
    BY <1>1
  <2> HIDE DEF f
  <2> QED
    BY <1>1, <2>1, SameSize
<1>9. StatsProcessed(s) = Cardinality({r.msg : r \in rows})
  BY DEF StatsProcessed, rows
<1> QED
  BY <1>6, <1>7, <1>8, <1>9
LEMMA LastOfIs ==
    ASSUME NEW rows, IsFiniteSet(rows), NEW th, \E r \in rows : r.msg.thread = th,
           \A r \in rows : r.msg.index \in Nat
    PROVE  LastOf(rows, th) \in rows /\ LastOf(rows, th).msg.thread = th
<1> DEFINE ofThread == {r \in rows : r.msg.thread = th}
<1>1. IsFiniteSet(ofThread) /\ ofThread # {}
  BY FS_Subset
<1>2. \E r \in ofThread : \A q \in ofThread : q.msg.index <= r.msg.index
  BY <1>1, HighestRow
<1>3. LastOf(rows, th) \in ofThread
  BY <1>2 DEF LastOf
<1> QED
  BY <1>3

\* The row that stands for a thread has a content when some row of the thread has.
LEMMA Representative ==
    ASSUME TypeOK, NEW s, NEW th, \E r \in ListDecisions(s) : r.msg.thread = th
    PROVE  LET rep == RepresentativeOf(Now(s), th) IN
           /\ rep \in ListDecisions(s) /\ rep.msg.thread = th
           /\ decisions[rep.msg].content # None <=>
                \E r \in ListDecisions(s) : r.msg.thread = th /\ decisions[r.msg].content # None
<1> DEFINE rows == ListDecisions(s)
           tasked == {r \in rows : decisions[r.msg].content # None}
<1>1. Now(s).rows = rows /\ Now(s).decisions = decisions
  BY DEF Now
<1>2. IsFiniteSet(rows) /\ \A r \in rows : r.msg.index \in Nat
  BY RowsOfMessages, RowsType, NoneIsApart
<1>3. IsFiniteSet(tasked)
  BY <1>2, FS_Subset
<1>4. RepresentativeOf(Now(s), th) =
        IF \E r \in tasked : r.msg.thread = th THEN LastOf(tasked, th) ELSE LastOf(rows, th)
  BY <1>1 DEF RepresentativeOf
<1> HIDE DEF rows
<1>5. CASE \E r \in tasked : r.msg.thread = th
  <2>1. LastOf(tasked, th) \in tasked /\ LastOf(tasked, th).msg.thread = th
    BY <1>2, <1>3, <1>5, LastOfIs
  <2> QED
    BY <1>4, <1>5, <2>1 DEF rows
<1>6. CASE ~\E r \in tasked : r.msg.thread = th
  <2>1. LastOf(rows, th) \in rows /\ LastOf(rows, th).msg.thread = th
    BY <1>2, LastOfIs DEF rows
  <2> QED
    BY <1>4, <1>6, <2>1 DEF rows
<1> QED
  BY <1>5, <1>6

\* At one instant the current tasks are those of the threads with a snapshot, and what
\* remains of tasks that were deleted.
LEMMA CurrentNow ==
    ASSUME TypeOK, LinkInv, NEW s, NEW th, \E r \in ListDecisions(s) : r.msg.thread = th
    PROVE  CurrentTask(Now(s), th) # None <=>
              \/ threads[th].snapshot # None
              \/ /\ threads[th].task = None
                 /\ \E r \in ListDecisions(s) :
                       r.msg.thread = th /\ decisions[r.msg].content # None
<1> DEFINE g == Now(s)
           decision == decisions[RepresentativeOf(g, th).msg]
<1>1. /\ g.threads[th] = threads[th] /\ g.tasks = tasks /\ g.decisions = decisions
  BY DEF Now
<1>2. th \in Thread
  BY RowsType, NoneIsApart
<1>3. PICK rep : /\ rep = RepresentativeOf(g, th)
                 /\ rep \in ListDecisions(s) /\ rep.msg.thread = th
                 /\ decisions[rep.msg].content # None <=>
                      \E r \in ListDecisions(s) :
                         r.msg.thread = th /\ decisions[r.msg].content # None
  BY Representative
<1>4. rep.msg \in Message /\ Decided(rep.msg)
  BY <1>3, RowsType DEF LinkInv
<1> HIDE DEF g
<1>5. CASE threads[th].task # None
  <2>1. tasks[threads[th].task] # None /\ threads[th].snapshot # None
    BY <1>2, <1>5 DEF LinkInv, NoThread
  <2>2. CurrentTask(g, th) = tasks[threads[th].task]
    BY <1>1, <1>5, <2>1 DEF CurrentTask
  <2> QED
    BY <2>1, <2>2 DEF g
<1>6. CASE threads[th].task = None
  <2>1. threads[th].snapshot = None
    BY <1>2, <1>6 DEF LinkInv, NoThread
  <2>2. decision.task = None \/ tasks[decision.task] = None
    BY <1>3, <1>4, <1>6 DEF LinkInv
  <2>3. CurrentTask(g, th) = decision.content
    BY <1>1, <1>6, <2>1, <2>2 DEF CurrentTask
  <2> QED
    BY <1>3, <1>6, <2>1, <2>3 DEF g
<1> QED
  BY <1>5, <1>6

LEMMA CurrentTasksCount ==
    ASSUME TypeOK, LinkInv, NEW s
    PROVE  Cardinality(CurrentTasks(Now(s))) = StatsCurrentTasks(s) + Cardinality(Ghosts(s))
<1> DEFINE g == Now(s)
           ths == {r.msg.thread : r \in ListDecisions(s)}
           A == {th \in ths : CurrentTask(g, th) # None}
           B == {th \in ths : threads[th].snapshot # None}
           G == Ghosts(s)
<1>1. DOMAIN g.threads = ths
  BY DEF Now
<1>2. IsFiniteSet(ths)
  <2> DEFINE f == [r \in ListDecisions(s) |-> r.msg.thread]
  <2>1. f \in Surjection(ListDecisions(s), ths)
    BY DEF Surjection
  <2> QED
    BY <2>1, RowsOfMessages, FS_Surjection
<1>3. \A th \in ths : \E r \in ListDecisions(s) : r.msg.thread = th
  OBVIOUS
<1>4. G = {th \in ths : /\ threads[th].task = None
                        /\ \E r \in ListDecisions(s) :
                              r.msg.thread = th /\ decisions[r.msg].content # None}
  BY <1>1 DEF Ghosts
<1> HIDE DEF g, ths
<1>5. A = B \cup G
  BY <1>3, <1>4, CurrentNow DEF g
<1>6. B \cap G = {}
  <2> SUFFICES ASSUME NEW th \in ths, threads[th].task = None PROVE threads[th].snapshot = None
    BY <1>4
  <2>1. th \in Thread
    BY <1>3, RowsType, NoneIsApart
  <2> QED
    BY <2>1 DEF LinkInv, NoThread
<1>7. IsFiniteSet(B) /\ IsFiniteSet(G) /\ IsFiniteSet(A)
  BY <1>2, <1>4, FS_Subset
<1>8. Cardinality(CurrentTasks(g)) = Cardinality(A)
  <2> DEFINE f == [th \in A |-> [key |-> th, row |-> CurrentTask(g, th)]]
  <2>1. CurrentTasks(g) = {[key |-> th, row |-> CurrentTask(g, th)] : th \in A}
    BY <1>1 DEF CurrentTasks
  <2>2. /\ f \in [A -> CurrentTasks(g)]
        /\ \A a, b \in A : f[a] = f[b] => a = b
        /\ \A t \in CurrentTasks(g) : \E a \in A : f[a] = t
    BY <2>1
  <2> HIDE DEF f
  <2> QED
    BY <1>7, <2>2, SameSize
<1>9. StatsCurrentTasks(s) = Cardinality(B)
  BY <1>1 DEF StatsCurrentTasks, g
<1>10. Cardinality(A) = Cardinality(B) + Cardinality(G)
  <2> HIDE DEF A, B, G
  <2> QED
    BY <1>5, <1>6, <1>7, Disjoint
<1> QED
  BY <1>8, <1>9, <1>10 DEF g

\* GET /stats and chat agree on any scope, but for tasks that were deleted
\* (stats_service and _scoped_records over one store).
THEOREM StatsAgree == Spec => []StatsAgreeWithChat
<1>1. IInv => StatsAgreeWithChat
  BY RowsByOperation, CurrentTasksCount DEF IInv, StatsAgreeWithChat
<1> QED
  BY <1>1, AlwaysIInv, PTL

-------------------------------------------------------------------------------
(* The same question twice *)

\* A first rule applies, since the last always does.
LEMMA SomeRule ==
    ASSUME NEW q
    PROVE  \E n \in 1 .. 13 : PlanQuestion(q) = Rules(HitsOf(q))[n][2]
<1> DEFINE rules == Rules(HitsOf(q))
           T == {i \in 1 .. 13 : rules[i][1]}
<1>1. T \subseteq Nat /\ T # {}
  <2>1. rules[13][1] = TRUE
    BY SMTT(30) DEF Rules
  <2> QED
    BY <2>1
<1>2. PICK n \in T : \A i \in T : ~(<<i, n>> \in OpToRel(<, Nat))
  BY <1>1, WFMin, NatLessThanWellFounded
<1>3. n \in 1 .. 13 /\ rules[n][1]
  OBVIOUS
<1>4. \A j \in 1 .. n - 1 : ~rules[j][1]
  <2> SUFFICES ASSUME NEW j \in 1 .. n - 1, rules[j][1] PROVE FALSE
    OBVIOUS
  <2>1. j \in T /\ j < n
    BY <1>3
  <2>2. <<j, n>> \in OpToRel(<, Nat)
    BY <1>1, <2>1 DEF OpToRel
  <2> QED
    BY <1>2, <2>1, <2>2
<1> QED
  BY <1>3, <1>4, PlanIsARule

LEMMA RulePlans ==
    ASSUME NEW hits, NEW n \in 1 .. 13
    PROVE  Rules(hits)[n][2] = GeneralPlan(hits) \/ Rules(hits)[n][2].intent # "analytics"
<1> DEFINE R(k) == Rules(hits)[k][2]
<1>1. /\ R(1) = Plan("out_of_scope", <<>>)
      /\ R(2) = GeneralPlan(hits)
      /\ R(3) = Plan("spurious_rate", <<>>)
      /\ R(4) = Plan("threads_with_updates", <<>>)
  BY SMTT(30) DEF Rules
<1>2. /\ R(5) = Plan("sum_deal_value", <<"enterprise_rfp">>)
      /\ R(6) = Plan("list_triage", <<>>)
      /\ R(7) = Plan("list_priority_confidence", <<>>)
      /\ R(8) = Plan("count_topic", <<>>)
  BY SMTT(30) DEF Rules
<1>3. /\ R(9) = Plan("count_subtypes", <<"alliances">>)
      /\ R(10) = Plan("compare_category_and_skip_reason", <<"marketing">>)
      /\ R(11) = Plan("compare_categories", <<"enterprise_rfp", "marketing">>)
      /\ R(12) = Plan("count_category", <<"enterprise_rfp">>)
      /\ R(13) = GeneralPlan(hits)
  BY SMTT(30) DEF Rules
<1>4. \A i, c : Plan(i, c).intent = i
  BY DEF Plan
<1> HIDE DEF R
<1>5. n \in 1 .. 4 \/ n \in 5 .. 8 \/ n \in 9 .. 13
  OBVIOUS
<1>6. R(n) = GeneralPlan(hits) \/ R(n).intent # "analytics"
  <2>1. CASE n \in 1 .. 4
    BY <1>1, <1>4, <2>1
  <2>2. CASE n \in 5 .. 8
    BY <1>2, <1>4, <2>2
  <2>3. CASE n \in 9 .. 13
    BY <1>3, <1>4, <2>3
  <2> QED
    BY <1>5, <2>1, <2>2, <2>3
<1> QED
  BY <1>6 DEF R

\* The planner never uses the operator that may raise.
LEMMA NoRaise ==
    ASSUME NEW q, NEW g
    PROVE  ~Raises(PlanQuestion(q), g)
<1> DEFINE p == PlanQuestion(q)
           hits == HitsOf(q)
<1> SUFFICES ASSUME p.intent = "analytics" PROVE \A f \in p.query.filters : f.operator # "in"
  BY DEF Raises
<1>1. p = GeneralPlan(hits)
  BY SomeRule, RulePlans
<1>2. p = Analytics(QueryOf(hits))
  BY <1>1 DEF GeneralPlan, Plan
<1>3. p.query.filters = FiltersOf(hits)
  BY <1>2 DEF Analytics, QueryOf
<1>4. \A f \in FiltersOf(hits) : f.operator # "in"
  <2>1. \A v : Is("assignee_id", v).operator # "in" /\ Is("category", v).operator # "in"
               /\ Is("priority", v).operator # "in" /\ Is("operation", v).operator # "in"
               /\ Is("skip_reason", v).operator # "in"
    BY DEF Is, Filter
  <2>2. \A f \in FirstFilter(ConfidenceFilters, hits) : f.operator # "in"
    BY DEF FirstFilter, ConfidenceFilters, Filter
  <2>3. \A f \in FirstFilter(DueFilters, hits) : f.operator # "in"
    <3>1. /\ DOMAIN DueFilters = 1 .. 3
          /\ DueFilters[1][2].operator = "eq"
          /\ DueFilters[2][2].operator = "eq"
          /\ DueFilters[3][2].operator = "lt"
      BY DEF DueFilters, Filter, Today
    <3> QED
      BY <3>1 DEF FirstFilter
  <2>4. /\ Filter("due_date", "is_null", <<>>).operator # "in"
        /\ Filter("deal_value_inr", "is_null", <<>>).operator # "in"
        /\ Filter("degraded_mode", "eq", <<"flag", TRUE>>).operator # "in"
    BY DEF Filter
  <2> QED
    BY <2>1, <2>2, <2>3, <2>4 DEF FiltersOf
<1> QED
  BY <1>3, <1>4

\* All that the reads of a question return while the store stays as it is.
Reading ==
    LET n == Now(scope) IN
    [rows |-> n.rows, decisions |-> decisions, threads |-> n.threads,
     tasks |-> IF PlanQuestion(question).intent = "analytics" THEN tasks
               ELSE [x \in Task |-> None],
     events |-> n.events, spurious |-> spurious, runs |-> n.runs]

\* The planner's plan and its figures for that.
TheAnswer(a) ==
    /\ a.status = StatusOf(PlanQuestion(question))
    /\ a.data = Figures(PlanQuestion(question), Reading)

\* The answers are a sequence.
AnswersInv == answers \in Seq(ToSet(answers))

Quiet == ~changed /\ PlanQuestion(question).intent # "unsupported"

\* As long as the store is as it was when the question was first put, each step
\* adds its part of the one reading.
RepeatInv ==
    Quiet =>
        /\ pc \notin {"idle", "plan"} => plan = PlanQuestion(question)
        /\ pc \in {"threads", "tasks", "rest"} =>
              got.rows = Reading.rows /\ got.decisions = decisions
        /\ pc \in {"tasks", "rest"} => got.threads = Reading.threads
        /\ pc = "threads" => got.tasks = [x \in Task |-> None]
        /\ pc = "tasks" => plan.intent = "analytics"
        /\ pc = "rest" => got.tasks = Reading.tasks
        /\ pc = "phrase" => figures = Figures(plan, Reading)
        /\ \A i \in DOMAIN answers : TheAnswer(answers[i])

\* What a step that changes neither the store nor the question keeps.
LEMMA SameReading ==
    ASSUME UNCHANGED <<store, question, scope>>
    PROVE  /\ Reading' = Reading
           /\ PlanQuestion(question)' = PlanQuestion(question)
           /\ \A a : TheAnswer(a)' <=> TheAnswer(a)
<1>1. UNCHANGED <<decisions, deliveries, threads, tasks, spurious, question, scope>>
  BY DEF store
<1>2. Now(scope)' = Now(scope)
  BY <1>1 DEF Now, ListDecisions, InScope, HasEvent, Decided
<1>3. PlanQuestion(question)' = PlanQuestion(question)
  BY <1>1
<1>4. Reading' = Reading
  BY <1>1, <1>2, <1>3 DEF Reading
<1> QED
  BY <1>3, <1>4 DEF TheAnswer

\* When the reads are done they are that reading.
LEMMA ReadAtRest ==
    ASSUME GotInv, RepeatInv, Quiet, pc = "rest",
           NEW g, g = [got EXCEPT !.events = Now(scope).events, !.spurious = spurious,
                                  !.runs = Now(scope).runs]
    PROVE  plan = PlanQuestion(question) /\ g = Reading
<1> DEFINE n == Now(scope)
           k == IF PlanQuestion(question).intent = "analytics" THEN tasks
                ELSE [x \in Task |-> None]
<1>1. /\ plan = PlanQuestion(question)
      /\ got.rows = Reading.rows /\ got.decisions = decisions
      /\ got.threads = Reading.threads /\ got.tasks = Reading.tasks
  BY DEF RepeatInv
<1>2. Reading = [rows |-> n.rows, decisions |-> decisions, threads |-> n.threads,
                 tasks |-> k, events |-> n.events, spurious |-> spurious, runs |-> n.runs]
  BY DEF Reading
<1>3. got = [rows |-> got.rows, decisions |-> got.decisions, threads |-> got.threads,
             tasks |-> got.tasks, events |-> got.events, spurious |-> got.spurious,
             runs |-> got.runs]
  BY DEF GotInv
<1> HIDE DEF n, k
<1>4. g = [got EXCEPT !.events = n.events, !.spurious = spurious, !.runs = n.runs]
  BY DEF n
<1> QED
  BY <1>1, <1>2, <1>3, <1>4

LEMMA OfItsElements ==
    ASSUME NEW S, NEW s \in Seq(S)
    PROVE  s \in Seq(ToSet(s))
<1>1. s \in [1 .. Len(s) -> S] /\ Len(s) \in Nat
  BY LenProperties
<1>2. s \in [1 .. Len(s) -> ToSet(s)]
  BY <1>1 DEF ToSet
<1> QED
  BY <1>1, <1>2

LEMMA OneMore ==
    ASSUME AnswersInv, NEW a, answers' = Append(answers, a)
    PROVE  /\ AnswersInv'
           /\ \A i \in DOMAIN answers' :
                 answers'[i] = a \/ \E j \in DOMAIN answers : answers'[i] = answers[j]
<1> DEFINE S == ToSet(answers) \cup {a}
<1>1. answers \in Seq(S) /\ a \in S
  BY DEF AnswersInv
<1> HIDE DEF S
<1>2. /\ answers' \in Seq(S) /\ Len(answers') = Len(answers) + 1
      /\ answers'[Len(answers) + 1] = a
      /\ \A i \in 1 .. Len(answers) : answers'[i] = answers[i]
  BY <1>1, AppendProperties
<1>3. Len(answers) \in Nat /\ DOMAIN answers = 1 .. Len(answers)
      /\ DOMAIN answers' = 1 .. Len(answers) + 1
  BY <1>1, <1>2, LenProperties
<1>4. AnswersInv'
  BY <1>2, OfItsElements DEF AnswersInv
<1>5. ASSUME NEW i \in DOMAIN answers'
      PROVE  answers'[i] = a \/ \E j \in DOMAIN answers : answers'[i] = answers[j]
  <2>1. i = Len(answers) + 1 \/ i \in 1 .. Len(answers)
    BY <1>3
  <2> QED
    BY <1>2, <1>3, <2>1
<1> QED
  BY <1>4, <1>5

\* Steps of the handler that add no answer.
LEMMA RepeatBeforeAnswer ==
    ASSUME GotInv, AnswersInv, RepeatInv, UNCHANGED answers,
           Ask \/ PlanIt \/ ReadDecisions \/ ReadThreads \/ ReadTasks \/ Execute
    PROVE  AnswersInv' /\ RepeatInv'
<1> DEFINE p == PlanQuestion(question)
<1>1. UNCHANGED <<store, question, scope>>
  BY DEF Ask, PlanIt, ReadDecisions, ReadThreads, ReadTasks, Execute
<1>2. Reading' = Reading /\ p' = p /\ \A a : TheAnswer(a)' <=> TheAnswer(a)
  BY <1>1, SameReading
<1>3. UNCHANGED <<decisions, tasks>>
  BY <1>1 DEF store
<1>4. AnswersInv'
  BY DEF AnswersInv, Ask, PlanIt, ReadDecisions, ReadThreads, ReadTasks, Execute
<1>5. CASE Ask
  <2>1. pc' = "plan" /\ (answers # <<>> => (changed' <=> changed))
    BY <1>5 DEF Ask
  <2>2. CASE answers = <<>>
    <3>1. DOMAIN answers' = {}
      BY <2>2
    <3> QED
      BY <1>4, <2>1, <3>1 DEF RepeatInv
  <2>3. CASE answers # <<>>
    <3>1. Quiet' => Quiet
      BY <1>2, <2>1, <2>3 DEF Quiet
    <3> QED
      BY <1>2, <1>4, <2>1, <3>1 DEF RepeatInv
  <2> QED
    BY <2>2, <2>3
<1>6. ASSUME ~Ask PROVE Quiet' = Quiet
  BY <1>2, <1>6 DEF Quiet, PlanIt, ReadDecisions, ReadThreads, ReadTasks, Execute
<1>7. CASE PlanIt /\ ~Ask
  <2>1. pc' = "decisions" /\ (Quiet => plan' = p)
    BY <1>7 DEF PlanIt, Quiet
  <2> QED
    BY <1>2, <1>4, <1>6, <1>7, <2>1 DEF RepeatInv
<1>8. CASE ReadDecisions /\ ~Ask
  <2>1. /\ pc = "decisions" /\ pc' = "threads" /\ UNCHANGED plan
        /\ got'.rows = ListDecisions(scope) /\ got'.decisions = decisions
        /\ got'.tasks = [x \in Task |-> None]
    BY <1>8 DEF ReadDecisions, NothingRead
  <2>2. Reading.rows = ListDecisions(scope)
    BY DEF Reading, Now
  <2> QED
    BY <1>2, <1>3, <1>4, <1>6, <1>8, <2>1, <2>2 DEF RepeatInv
<1>9. CASE ReadThreads /\ ~Ask
  <2>1. /\ pc = "threads" /\ UNCHANGED plan
        /\ got' = [got EXCEPT !.threads = [th \in {r.msg.thread : r \in got.rows} |-> threads[th]]]
        /\ pc' = IF plan.intent = "analytics" THEN "tasks" ELSE "rest"
    BY <1>9 DEF ReadThreads
  <2>2. /\ got'.rows = got.rows /\ got'.decisions = got.decisions /\ got'.tasks = got.tasks
        /\ got'.threads = [th \in {r.msg.thread : r \in got.rows} |-> threads[th]]
    BY <2>1 DEF GotInv
  <2>3. /\ Reading.threads = [th \in {r.msg.thread : r \in Reading.rows} |-> threads[th]]
        /\ p.intent # "analytics" => Reading.tasks = [x \in Task |-> None]
    BY DEF Reading, Now
  <2> HIDE DEF p
  <2>4. ASSUME Quiet
        PROVE  /\ plan = p /\ got.rows = Reading.rows /\ got.decisions = decisions
               /\ got.tasks = [x \in Task |-> None]
               /\ \A i \in DOMAIN answers : TheAnswer(answers[i])
    BY <2>1, <2>4 DEF RepeatInv, p
  <2>5. Quiet => got'.threads = Reading.threads
    BY <2>2, <2>3, <2>4
  <2> QED
    BY <1>2, <1>3, <1>4, <1>6, <1>9, <2>1, <2>2, <2>3, <2>4, <2>5 DEF RepeatInv, p
<1>10. CASE ReadTasks /\ ~Ask
  <2>1. /\ pc = "tasks" /\ pc' = "rest" /\ UNCHANGED plan
        /\ got' = [got EXCEPT !.tasks = tasks]
    BY <1>10 DEF ReadTasks
  <2>2. /\ got'.rows = got.rows /\ got'.decisions = got.decisions
        /\ got'.threads = got.threads /\ got'.tasks = tasks
    BY <2>1 DEF GotInv
  <2>3. p.intent = "analytics" => Reading.tasks = tasks
    BY DEF Reading
  <2> QED
    BY <1>2, <1>3, <1>4, <1>6, <1>10, <2>1, <2>2, <2>3 DEF RepeatInv
<1>11. CASE Execute /\ ~Ask
  <2>1. PICK g : g = [got EXCEPT !.events = Now(scope).events, !.spurious = spurious,
                                 !.runs = Now(scope).runs]
    OBVIOUS
  <2>2. pc = "rest" /\ UNCHANGED plan
    BY <1>11 DEF Execute
  <2>3. pc' = "idle" \/ (pc' = "phrase" /\ figures' = Figures(plan, g))
    BY <1>11, <2>1 DEF Execute
  <2>4. Quiet => plan = p /\ g = Reading
    BY <2>1, <2>2, ReadAtRest
  <2> QED
    BY <1>2, <1>4, <1>6, <1>11, <2>2, <2>3, <2>4 DEF RepeatInv
<1> QED
  BY <1>4, <1>5, <1>7, <1>8, <1>9, <1>10, <1>11

\* The planner's plan does not fail, so a step of Execute that adds an answer is one
\* of a question for the model.
LEMMA RepeatFailure ==
    ASSUME GotInv, AnswersInv, RepeatInv, Execute, ~UNCHANGED answers
    PROVE  AnswersInv' /\ RepeatInv'
<1>1. PICK g : g = [got EXCEPT !.events = Now(scope).events, !.spurious = spurious,
                               !.runs = Now(scope).runs]
  OBVIOUS
<1>2. /\ pc = "rest" /\ pc' = "idle" /\ Raises(plan, g)
      /\ answers' = Append(answers, [status |-> "failed", data |-> <<>>])
      /\ UNCHANGED <<store, question, scope, plan, changed>>
  BY <1>1 DEF Execute
<1>3. ~Quiet
  <2>1. Quiet => plan = PlanQuestion(question)
    BY <1>2 DEF RepeatInv
  <2> QED
    BY <1>2, <2>1, NoRaise
<1>4. ~Quiet'
  BY <1>2, <1>3, SameReading DEF Quiet
<1> QED
  BY <1>2, <1>4, OneMore DEF RepeatInv

LEMMA RepeatAnswer ==
    ASSUME AnswersInv, RepeatInv, WordAnswer
    PROVE  AnswersInv' /\ RepeatInv'
<1> DEFINE p == PlanQuestion(question)
<1>1. answers' = Append(answers, [status |-> StatusOf(plan), data |-> figures])
  BY DEF WordAnswer
<1>2. /\ pc = "phrase" /\ pc' = "idle"
      /\ UNCHANGED <<store, question, scope, plan, changed>>
  BY DEF WordAnswer
<1>3. Reading' = Reading /\ p' = p /\ \A a : TheAnswer(a)' <=> TheAnswer(a)
  BY <1>2, SameReading
<1>4. PICK a : a = [status |-> StatusOf(plan), data |-> figures]
  OBVIOUS
<1>5. Quiet => TheAnswer(a)
  <2>1. Quiet => plan = p /\ figures = Figures(plan, Reading)
    BY <1>2 DEF RepeatInv
  <2>2. a.status = StatusOf(plan) /\ a.data = figures
    BY <1>4
  <2> QED
    BY <2>1, <2>2 DEF TheAnswer
<1>6. AnswersInv' /\ \A i \in DOMAIN answers' : answers'[i] = a \/ \E j \in DOMAIN answers : answers'[i] = answers[j]
  BY <1>1, <1>2, <1>4, OneMore
<1>7. Quiet' = Quiet
  BY <1>2, <1>3 DEF Quiet
<1>8. Quiet => \A i \in DOMAIN answers' : TheAnswer(answers'[i])
  BY <1>5, <1>6 DEF RepeatInv
<1> QED
  BY <1>2, <1>3, <1>6, <1>7, <1>8 DEF RepeatInv

LEMMA RepeatChange ==
    ASSUME AnswersInv, RepeatInv, Changes
    PROVE  AnswersInv' /\ RepeatInv'
<1>1. Change
  BY DEF Changes, IngestDismissed, Replay, IngestTask, DeleteTask, PatchTask, SetFeedback
<1>2. changed' = TRUE /\ UNCHANGED <<pc, answers>>
  BY <1>1 DEF Change, chat
<1> QED
  BY <1>2 DEF AnswersInv, RepeatInv, Quiet

\* Where the store does not change and the planner knows the question, the second
\* answer has the data of the first, figure by figure, and neither fails: no read,
\* plan or figure depends on what a model says or on when the question is put
\* (plan_question, ChatAnswerService.plan, execute_plan).
THEOREM Repeats == Spec => []SameQuestionSameData
<1> DEFINE J == IInv /\ AnswersInv /\ RepeatInv
<1>1. Init => J
  <2>1. Init => answers = <<>> /\ pc = "idle" /\ DOMAIN answers = {}
    BY DEF Init
  <2>2. Init => AnswersInv
    BY <2>1, EmptySeq DEF AnswersInv
  <2> QED
    BY <2>1, <2>2, InitIInv DEF RepeatInv
<1>2. J /\ [Next]_vars => J'
  <2> SUFFICES ASSUME J, [Next]_vars PROVE AnswersInv' /\ RepeatInv'
    BY NextIInv
  <2>1. CASE UNCHANGED vars
    <3>1. UNCHANGED <<pc, plan, got, figures, answers, changed, decisions>>
          /\ UNCHANGED <<store, question, scope>>
      BY <2>1 DEF vars, chat, store
    <3>2. AnswersInv'
      BY <3>1 DEF AnswersInv
    <3> QED
      BY <3>1, <3>2, SameReading DEF RepeatInv, Quiet
  <2>2. CASE Execute /\ ~UNCHANGED answers
    BY <2>2, RepeatFailure DEF IInv
  <2>3. CASE Ask \/ PlanIt \/ ReadDecisions \/ ReadThreads \/ ReadTasks
              \/ (Execute /\ UNCHANGED answers)
    <3>1. UNCHANGED answers
      BY <2>3 DEF Ask, PlanIt, ReadDecisions, ReadThreads, ReadTasks
    <3> QED
      BY <2>3, <3>1, RepeatBeforeAnswer DEF IInv
  <2> QED
    <3>1. CASE WordAnswer
      BY <3>1, RepeatAnswer
    <3>2. CASE Changes
      BY <3>2, RepeatChange
    <3>3. Ask \/ PlanIt \/ ReadDecisions \/ ReadThreads \/ ReadTasks \/ Execute \/ WordAnswer
             \/ Changes \/ UNCHANGED vars
      BY DEF Next, Handler
    <3> QED
      BY <2>1, <2>2, <2>3, <3>1, <3>2, <3>3
<1>3. J => SameQuestionSameData
  <2> SUFFICES ASSUME J, Len(answers) = 2, Quiet
               PROVE  /\ answers[1].status = answers[2].status
                      /\ answers[1].status # "failed"
                      /\ answers[1].data = answers[2].data
    BY DEF SameQuestionSameData, Quiet
  <2>1. DOMAIN answers = 1 .. 2
    BY LenProperties DEF AnswersInv
  <2>2. 1 \in DOMAIN answers /\ 2 \in DOMAIN answers
    BY <2>1
  <2>3. TheAnswer(answers[1]) /\ TheAnswer(answers[2])
    BY <2>2 DEF RepeatInv
  <2>4. StatusOf(PlanQuestion(question)) # "failed"
    BY DEF StatusOf
  <2> QED
    BY <2>3, <2>4 DEF TheAnswer
<1> QED
  BY <1>1, <1>2, <1>3, PTL DEF Spec
===============================================================================
