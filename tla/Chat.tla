--------------------------------- MODULE Chat ---------------------------------
(***************************************************************************)
(* POST /chat: a plan for the question, from the planner or, when that has *)
(* none, from a model; its execution over what the store returns to a      *)
(* series of reads; and the figures of the answer.  Ingestion, PATCH and   *)
(* DELETE /tasks and feedback change the store meanwhile, each in one step *)
(* (Reconciler has them in detail).  GET /stats counts over the same       *)
(* store.                                                                  *)
(*                                                                         *)
(* Rows are functions from fields to tagged values (ChatPlanner) or None.  *)
(* The data of an answer is the sequence of its figures: the place of a    *)
(* figure says what it counts.  The text that a model may make of them is  *)
(* left out, and so is what a list shows of its items.  The two questions  *)
(* of a user are put on one day.                                           *)
(*                                                                         *)
(* An operator whose comment begins with "Fault:" is no part of the model. *)
(***************************************************************************)
EXTENDS ChatPlanner, Integers, Sequences, SequencesExt, FiniteSetsExt

CONSTANTS
    Thread,
    Message,    \* e-mails: records with fields email, thread and index
    AboutGst,   \* those whose decision has the topic gst_refund
    Run, Batch,
    BatchOf,    \* the client_batch_id of each run
    Task,       \* the ids create_task draws
    Content,    \* what a task may say: functions from TaskFields to values or None
    Scope,      \* scopes of questions: records with fields type and id
    Question,   \* questions: sets of phrases
    MaxChanges, \* changes of the store around each question (a bound)
    ModelPlan,  \* plans that the model may choose
    Reason,     \* why an e-mail may be dismissed
    None

ASSUME QuestionAssumption == Question \subseteq SUBSET Phrase
ASSUME ReasonAssumption == Reason \subseteq {"none"} \cup Elements(SkipReasons)
ASSUME RunAssumption == BatchOf \in [Run -> Batch]
ASSUME ScopeAssumption ==
    Scope \subseteq [type : {"all"}, id : {None}] \cup [type : {"run"}, id : Run]
                    \cup [type : {"batch"}, id : Batch]
ASSUME MaxChangesAssumption == MaxChanges \in [Question -> Nat]
ASSUME MessageAssumption == \A m \in Message : m.thread \in Thread /\ m.index \in Nat

VARIABLES
    decisions,   \* the decision of each e-mail
    deliveries,  \* app_private.ingest_deliveries, oldest first
    threads,     \* the mapped task and the snapshot of each thread
    tasks,       \* app_private.tasks
    spurious,    \* e-mails whose feedback says "spurious"
    changes,     \* how often the store changed
    question, scope, pc, plan,
    got,         \* what the reads have returned
    figures,     \* of the grounded answer
    answers,     \* status and supporting data of each answer
    changed,     \* the store changed since the question was first put
    since        \* contents of each thread's task since it was last put

store == <<decisions, deliveries, threads, tasks, spurious>>
chat == <<question, scope, pc, plan, got, figures, answers>>
vars == <<store, changes, chat, changed, since>>

-------------------------------------------------------------------------------
(* The store's queries *)

Decision == [op : {"create", "update", "noop", "skip"}, content : Content \cup {None},
             task : Task \cup {None}, reason : Reason \cup {"none"}]

ASSUME NoneAssumption == None \notin Task \cup Content \cup Decision

Decided(m) == decisions[m] # None

InScope(d, s) ==
    CASE s.type = "all" -> TRUE
      [] s.type = "run" -> d.run = s.id
      [] s.type = "batch" -> BatchOf[d.run] = s.id

\* Fault: a row for each delivery.
ListRowPerDelivery(s) ==
    {[msg |-> deliveries[i].msg, delivery |-> i] :
        i \in {j \in DOMAIN deliveries : InScope(deliveries[j], s)}}

\* list_decisions: one row per e-mail, with its latest delivery in the scope.
ListDecisions(s) ==
    LET inScope == {j \in DOMAIN deliveries : InScope(deliveries[j], s)}
        latest(m) == Max({j \in inScope : deliveries[j].msg = m})
    IN {[msg |-> m, delivery |-> latest(m)] : m \in {deliveries[j].msg : j \in inScope}}

\* Every decision but a skip has its event, of the kind of its operation.
HasEvent(m) == Decided(m) /\ decisions[m].op # "skip"

\* What the reads return at one instant.
Now(s) ==
    LET rows == ListDecisions(s)
        ths == {r.msg.thread : r \in rows}
    IN [rows |-> rows,
        decisions |-> decisions,
        threads |-> [th \in ths |-> threads[th]],
        tasks |-> tasks,
        events |-> {[msg |-> m, kind |-> decisions[m].op] : m \in {n \in Message : HasEvent(n)}},
        spurious |-> spurious,
        runs |-> {deliveries[j].run : j \in {i \in DOMAIN deliveries : InScope(deliveries[i], s)}}]

NoThread == [task |-> None, snapshot |-> None]
NothingRead == [rows |-> {}, decisions |-> [m \in Message |-> None],
                threads |-> [th \in {} |-> NoThread],
                tasks |-> [x \in Task |-> None], events |-> {}, spurious |-> {}, runs |-> {}]

-------------------------------------------------------------------------------
(* Changes of the store *)

\* The content of the task that th is mapped to, None when it is mapped to none.
CurrentIn(rowsOfThreads, rowsOfTasks, th) ==
    IF rowsOfThreads[th].task = None THEN None ELSE rowsOfTasks[rowsOfThreads[th].task]

Change ==
    /\ changes < MaxChanges[question]
    /\ changes' = changes + 1
    /\ changed' = TRUE
    /\ since' = [th \in Thread |-> since[th] \cup {CurrentIn(threads', tasks', th)}]
    /\ UNCHANGED chat

Deliver(r, m) == deliveries' = Append(deliveries, [run |-> r, msg |-> m])

DeliveredBy(r, m) == \E i \in DOMAIN deliveries : deliveries[i] = [run |-> r, msg |-> m]

Drawn(x) == \E m \in Message : Decided(m) /\ decisions[m].task = x

\* A run takes the e-mails of a thread in the order of their places.
InRunOrder(r, m) ==
    \A i \in DOMAIN deliveries :
        deliveries[i].run = r /\ deliveries[i].msg.thread = m.thread
          => deliveries[i].msg.index <= m.index

\* A new e-mail: inspect_email refuses an id, and a place, that is taken.
Takes(r, m) ==
    /\ \A n \in Message : Decided(n) =>
         n.email # m.email /\ ~(n.thread = m.thread /\ n.index = m.index)
    /\ InRunOrder(r, m)
    /\ Deliver(r, m)

\* Not actionable: NOOP on a thread with a task, when there is no reason to skip the
\* e-mail, else SKIP.  The decision names no content, and the task of the snapshot.
IngestDismissed(r, m, reason) ==
    /\ Takes(r, m)
    /\ LET row == threads[m.thread] IN
       decisions' = [decisions EXCEPT ![m] =
           [op |-> IF reason = "none" /\ row.snapshot # None THEN "noop" ELSE "skip",
            content |-> None, task |-> row.task, reason |-> reason]]
    /\ UNCHANGED <<threads, tasks, spurious>>
    /\ Change

\* A reply without a stored predecessor or a task is refused (orphan_reply).
Orphan(m) ==
    /\ m.index > 0 /\ threads[m.thread].task = None
    /\ \A n \in Message : n.thread = m.thread => ~Decided(n)

\* The thread's task is created, or patched, or has the content already.
IngestTask(r, m, c) ==
    LET mapped == threads[m.thread].task IN
    /\ Takes(r, m) /\ ~Orphan(m)
    /\ \E x \in Task :
        /\ IF mapped = None THEN ~Drawn(x) ELSE x = mapped
        /\ decisions' = [decisions EXCEPT ![m] =
                           [op |-> CASE mapped = None -> "create"
                                     [] mapped # None /\ tasks[x] = c -> "noop"
                                     [] OTHER -> "update",
                            content |-> c, task |-> x, reason |-> "none"]]
        /\ threads' = [threads EXCEPT ![m.thread] = [task |-> x, snapshot |-> c]]
        /\ tasks' = [tasks EXCEPT ![x] = c]
    /\ UNCHANGED spurious
    /\ Change

\* Another run carries an e-mail again.
Replay(r, m) ==
    /\ Decided(m) /\ ~DeliveredBy(r, m)
    /\ InRunOrder(r, m)
    /\ Deliver(r, m)
    /\ UNCHANGED <<decisions, threads, tasks, spurious>>
    /\ Change

PatchTask(x, c) ==
    /\ tasks[x] \notin {None, c}
    /\ tasks' = [tasks EXCEPT ![x] = c]
    /\ UNCHANGED <<decisions, deliveries, threads, spurious>>
    /\ Change

DeleteTask(x) ==
    /\ tasks[x] # None
    /\ tasks' = [tasks EXCEPT ![x] = None]
    /\ threads' = [th \in Thread |-> IF threads[th].task = x THEN NoThread ELSE threads[th]]
    /\ UNCHANGED <<decisions, deliveries, spurious>>
    /\ Change

\* set_feedback.
SetFeedback(m) ==
    /\ Decided(m)
    /\ m \notin spurious
    /\ spurious' = spurious \cup {m}
    /\ UNCHANGED <<decisions, deliveries, threads, tasks>>
    /\ Change

-------------------------------------------------------------------------------
(* execute_plan: the records of each dataset *)

\* The rows' fields: those of a content, or all None.
TaskRow(c) == IF c = None THEN [f \in TaskFields |-> None] ELSE c

\* The last row of a thread among rows: they are ordered by place.
LastOf(rows, th) ==
    LET ofThread == {r \in rows : r.msg.thread = th} IN
    CHOOSE r \in ofThread : \A q \in ofThread : q.msg.index <= r.msg.index

\* latest_task_decision, or latest_decision.
RepresentativeOf(g, th) ==
    LET tasked == {r \in g.rows : g.decisions[r.msg].content # None} IN
    IF \E r \in tasked : r.msg.thread = th THEN LastOf(tasked, th) ELSE LastOf(g.rows, th)

\* Fault: the thread's snapshot is preferred to the task.
CurrentTaskFromSnapshot(g, th) ==
    LET decision == g.decisions[RepresentativeOf(g, th).msg] IN
    IF g.threads[th].snapshot # None THEN g.threads[th].snapshot ELSE decision.content

\* The live task of the thread, else its snapshot, else what the decision said.
CurrentTask(g, th) ==
    LET decision == g.decisions[RepresentativeOf(g, th).msg]
        id == IF g.threads[th].task # None THEN g.threads[th].task ELSE decision.task
    IN IF id # None /\ g.tasks[id] # None THEN g.tasks[id]
       ELSE IF g.threads[th].snapshot # None THEN g.threads[th].snapshot
       ELSE decision.content

\* current_tasks: the threads that have one, with its content.
CurrentTasks(g) ==
    {[key |-> th, row |-> CurrentTask(g, th)] :
        th \in {t \in DOMAIN g.threads : CurrentTask(g, t) # None}}

DecisionRow(d) ==
    [f \in ANALYTICS_FIELDS.decisions |->
        CASE f \in TaskFields -> TaskRow(d.content)[f]
          [] f = "operation" -> <<"text", d.op>>
          [] f = "skip_reason" -> IF d.reason = "none" THEN None ELSE <<"text", d.reason>>
          [] f = "degraded_mode" -> <<"flag", FALSE>>
          [] f = "amount_mentions" -> IF d.content = None THEN None ELSE <<"objects">>]

Records(g, dataset) ==
    CASE dataset = "current_tasks" -> CurrentTasks(g)
      [] dataset = "decisions" ->
            {[key |-> r.msg, row |-> DecisionRow(g.decisions[r.msg])] : r \in g.rows}
      [] dataset = "threads" ->
            {[key |-> th, row |-> TaskRow(g.threads[th].snapshot)] : th \in DOMAIN g.threads}
      [] dataset = "events" ->
            {[key |-> e.msg, row |-> [f \in {"status"} |-> <<"text", "confirmed">>]] :
                e \in {v \in g.events : v.msg.thread \in DOMAIN g.threads}}
      [] dataset = "feedback" ->
            {[key |-> m, row |-> [f \in {"label"} |-> <<"text", "spurious">>]] :
                m \in g.spurious \cap {r.msg : r \in g.rows}}
      [] dataset = "runs" ->
            {[key |-> r, row |-> [f \in {"status"} |-> <<"text", "completed">>]] : r \in g.runs}

-------------------------------------------------------------------------------
(* execute_plan: filters, aggregates and the intents *)

ValueOf(row, field) == IF field \in DOMAIN row THEN row[field] ELSE None

\* Values of one kind are ordered; others raise TypeError, which is no match.
Less(a, b) == a[1] = b[1] /\ a[2] < b[2]

\* _matches_filter, for the operators that plans here use.
Matches(row, f) ==
    LET actual == ValueOf(row, f.field) IN
    CASE f.operator = "is_null" -> actual = None
      [] f.operator = "not_null" -> actual # None
      [] f.operator = "eq" -> actual = f.value
      [] f.operator = "neq" -> actual \notin {None, f.value}
      [] f.operator = "lt" -> actual # None /\ Less(actual, f.value)
      [] f.operator = "lte" -> actual # None /\ (actual = f.value \/ Less(actual, f.value))
      [] f.operator = "gte" -> actual # None /\ (actual = f.value \/ Less(f.value, actual))
      [] f.operator = "in" -> actual \in Elements(f.value)

\* The in operator hashes the elements of a list, which objects do not allow.
Raises(p, g) ==
    /\ p.intent = "analytics"
    /\ \E f \in p.query.filters, rec \in Records(g, p.query.dataset) :
        f.operator = "in" /\ ValueOf(rec.row, f.field) = <<"objects">>

Selected(query, g) ==
    {rec \in Records(g, query.dataset) : \A f \in query.filters : Matches(rec.row, f)}

Total(recs, field) == MapThenSumSet(LAMBDA rec : ValueOf(rec.row, field)[2], recs)

\* The figures of _execute_analytics.
AnalyticsFigures(query, g) ==
    LET selected == Selected(query, g)
        n == Cardinality(selected)
        valued == {rec \in selected : ValueOf(rec.row, query.metric) # None}
        used == Cardinality(valued)
        groups == SetToSeq({ValueOf(rec.row, query.group) : rec \in selected})
    IN CASE query.operation = "count" -> <<n>>
         [] query.operation = "list" -> IF n = 0 THEN <<>> ELSE <<n, n, n>>
         [] query.operation = "group_count" ->
              <<n>> \o [i \in DOMAIN groups |->
                Cardinality({rec \in selected : ValueOf(rec.row, query.group) = groups[i]})]
         [] query.operation = "sum" -> <<Total(valued, query.metric), used, n - used>>
         [] query.operation = "average" ->
              IF used = 0 THEN <<>> ELSE <<Total(valued, query.metric) \div used, used, n - used>>

\* Decisions, and snapshots of the scope's threads, with a text in a field.
DecisionsWith(g, field, v) ==
    {r \in g.rows : DecisionRow(g.decisions[r.msg])[field] = <<"text", v>>}
ThreadsWith(g, field, v) ==
    {th \in DOMAIN g.threads : TaskRow(g.threads[th].snapshot)[field] = <<"text", v>>}

UpdatesOf(g, th) == {e \in g.events : e.msg.thread = th /\ e.kind = "update"}

SumFigures(g, category) ==
    LET of == ThreadsWith(g, "category", category)
        valued == {th \in of : g.threads[th].snapshot["deal_value_inr"] # None}
    IN <<MapThenSumSet(LAMBDA th : g.threads[th].snapshot["deal_value_inr"][2], valued),
         Cardinality(of) - Cardinality(valued), Cardinality(of)>>

\* The figures of execute_plan.
Figures(p, g) ==
    LET routed(i) == Cardinality(DecisionsWith(g, "category", p.categories[i])) IN
    CASE p.intent = "analytics" -> AnalyticsFigures(p.query, g)
      [] p.intent \in {"count_category", "count_subtypes"} -> <<routed(1)>>
      [] p.intent = "compare_categories" -> <<routed(1), routed(2)>>
      [] p.intent = "compare_category_and_skip_reason" ->
            <<routed(1), Cardinality(DecisionsWith(g, "skip_reason", "vendor_spam"))>>
      [] p.intent = "list_triage" -> <<Cardinality(ThreadsWith(g, "category", "triage"))>>
      [] p.intent = "spurious_rate" ->
            <<Cardinality(Records(g, "feedback")), Cardinality({r.msg : r \in g.rows})>>
      [] p.intent = "list_priority_confidence" ->
            <<Cardinality({th \in ThreadsWith(g, "priority", "high") :
                             g.threads[th].snapshot["confidence"][2] <= 54})>>
      [] p.intent = "count_topic" -> <<Cardinality({r \in g.rows : r.msg \in AboutGst})>>
      [] p.intent = "sum_deal_value" -> SumFigures(g, p.categories[1])
      [] p.intent = "threads_with_updates" ->
            <<Cardinality({th \in DOMAIN g.threads : Cardinality(UpdatesOf(g, th)) > 1})>>
      [] p.intent \in {"out_of_scope", "unsupported"} -> <<>>

StatusOf(p) ==
    CASE p.intent = "out_of_scope" -> "refused"
      [] p.intent = "unsupported" -> "unsupported"
      [] OTHER -> "answered"

-------------------------------------------------------------------------------
(* The handler *)

Init ==
    /\ decisions = [m \in Message |-> None]
    /\ deliveries = <<>>
    /\ threads = [th \in Thread |-> NoThread]
    /\ tasks = [x \in Task |-> None]
    /\ spurious = {}
    /\ changes = 0
    /\ question \in Question
    /\ scope \in Scope
    /\ pc = "idle"
    /\ plan = Plan("unsupported", <<>>)
    /\ got = NothingRead
    /\ figures = <<>>
    /\ answers = <<>>
    /\ changed = FALSE
    /\ since = [th \in Thread |-> {None}]

\* The question is put twice.
Ask ==
    /\ pc = "idle" /\ Len(answers) < 2
    /\ pc' = "plan"
    /\ changed' = (changed /\ answers # <<>>)
    /\ since' = [th \in Thread |-> {CurrentIn(threads, tasks, th)}]
    /\ UNCHANGED <<store, changes, question, scope, plan, got, figures, answers>>

\* Fault: the model is asked about a question that the planner refuses, too.
PlanItByModel ==
    /\ pc = "plan"
    /\ LET fallback == PlanQuestion(question) IN
       plan' \in {fallback} \cup
            IF fallback.intent \in {"unsupported", "out_of_scope"}
            THEN {p \in ModelPlan : /\ ValidPlan(p)
                                    /\ p.intent \in {"analytics", "unsupported", "out_of_scope"}}
            ELSE {}
    /\ pc' = "decisions"
    /\ UNCHANGED <<store, changes, question, scope, got, figures, answers, changed, since>>

\* plan_question, and the model's plan for a question it does not support.  A plan
\* that is not valid, or has another intent, and a failing call leave the fallback.
PlanIt ==
    /\ pc = "plan"
    /\ LET fallback == PlanQuestion(question) IN
       plan' \in {fallback} \cup
            IF fallback.intent = "unsupported"
            THEN {p \in ModelPlan : /\ ValidPlan(p)
                                    /\ p.intent \in {"analytics", "unsupported", "out_of_scope"}}
            ELSE {}
    /\ pc' = "decisions"
    /\ UNCHANGED <<store, changes, question, scope, got, figures, answers, changed, since>>

\* list_decisions.
ReadDecisions ==
    /\ pc = "decisions"
    /\ got' = [NothingRead EXCEPT !.rows = ListDecisions(scope), !.decisions = decisions]
    /\ pc' = "threads"
    /\ UNCHANGED <<store, changes, question, scope, plan, figures, answers, changed, since>>

\* list_threads, of which those of the decisions are kept.
ReadThreads ==
    /\ pc = "threads"
    /\ got' = [got EXCEPT !.threads = [th \in {r.msg.thread : r \in got.rows} |-> threads[th]]]
    /\ pc' = IF plan.intent = "analytics" THEN "tasks" ELSE "rest"
    /\ UNCHANGED <<store, changes, question, scope, plan, figures, answers, changed, since>>

\* get_task for each thread.
ReadTasks ==
    /\ pc = "tasks"
    /\ got' = [got EXCEPT !.tasks = tasks]
    /\ pc' = "rest"
    /\ UNCHANGED <<store, changes, question, scope, plan, figures, answers, changed, since>>

\* list_events, list_feedback and list_runs; the execution of the plan over what
\* was read; render_answer.
Execute ==
    /\ pc = "rest"
    /\ LET g == [got EXCEPT !.events = Now(scope).events, !.spurious = spurious,
                           !.runs = Now(scope).runs] IN
       /\ got' = g
       /\ IF Raises(plan, g)
          THEN /\ pc' = "idle"
               /\ answers' = Append(answers, [status |-> "failed", data |-> <<>>])
               /\ UNCHANGED figures
          ELSE /\ pc' = "phrase"
               /\ figures' = Figures(plan, g)
               /\ UNCHANGED answers
    /\ UNCHANGED <<store, changes, question, scope, plan, changed, since>>

\* render_answer and phrase make a text of the figures, which a model may word
\* otherwise; the response and add_chat_audit have the figures themselves beside it.
WordAnswer ==
    /\ pc = "phrase"
    /\ answers' = Append(answers, [status |-> StatusOf(plan), data |-> figures])
    /\ pc' = "idle"
    /\ UNCHANGED <<store, changes, question, scope, plan, got, figures, changed, since>>

Handler == Ask \/ PlanIt \/ ReadDecisions \/ ReadThreads \/ ReadTasks \/ Execute \/ WordAnswer

Changes ==
    \/ \E r \in Run, m \in Message :
        \/ Replay(r, m)
        \/ \E reason \in Reason : IngestDismissed(r, m, reason)
        \/ \E c \in Content : IngestTask(r, m, c)
    \/ \E x \in Task : DeleteTask(x) \/ \E c \in Content : PatchTask(x, c)
    \/ \E m \in Message : SetFeedback(m)

Next ==
    \/ Handler
    \/ Changes
    \/ Len(answers) = 2 /\ UNCHANGED vars

Spec == Init /\ [][Next]_vars

-------------------------------------------------------------------------------
(* Properties *)

\* "Owner names are a compound-filter signal that the legacy one-purpose intents
\* cannot represent" (plan_question): when a question names an owner, whatever
\* else it says, the deterministic planner refuses it, leaves it, or restricts it to
\* that owner, and never lets another family of questions drop the owner.
OwnersKept ==
    LET p == PlanQuestion(question)
        owners == FirstOf(ASSIGNEE_ALIASES, HitsOf(question))
    IN owners # {} =>
        \/ p.intent \in {"out_of_scope", "unsupported"}
        \/ p.intent = "analytics" /\ \A v \in owners : Is("assignee_id", v) \in p.query.filters

\* What an answer says of a current task was true of it at some moment since the
\* question was put, PATCH /tasks included, unless the thread was without a task at
\* some such moment (the reads of _scoped_records against changes between them).
CurrentTasksWereCurrent ==
    pc = "phrase" /\ plan.intent = "analytics" =>
        \A rec \in CurrentTasks(got) : since[rec.key] \cap {rec.row, None} # {}

\* "A chat interface that answers questions using data it re-derives from Gemini
\* instead of your own stored ground truth" (PROBLEM_STATEMENT.md): when a question
\* that the deterministic planner supports is put twice, and the store does not
\* change in between, neither answer fails and both have the same data, figure by
\* figure, whatever plan a model would make of it (plan, execute_plan and the reads
\* between them).  The text of the two answers is not compared.
SameQuestionSameData ==
    Len(answers) = 2 /\ ~changed /\ PlanQuestion(question).intent # "unsupported" =>
        /\ answers[1].status = answers[2].status
        /\ answers[1].status # "failed"
        /\ answers[1].data = answers[2].data

\* GET /stats: current_tasks, unique_processed, and the e-mails of each operation.
StatsCurrentTasks(s) ==
    Cardinality({th \in DOMAIN Now(s).threads : threads[th].snapshot # None})
StatsProcessed(s) == Cardinality({r.msg : r \in ListDecisions(s)})
StatsOf(s, op) == Cardinality({r \in ListDecisions(s) : decisions[r.msg].op = op})

\* Threads of the scope whose task was deleted and of whose e-mails a decision still
\* says one.
Ghosts(s) ==
    {th \in DOMAIN Now(s).threads :
        /\ threads[th].task = None
        /\ \E r \in ListDecisions(s) : r.msg.thread = th /\ decisions[r.msg].content # None}

\* Stats and chat agree on any scope, however often its e-mails were delivered:
\* each e-mail counts for one operation, and chat counts the current tasks that
\* stats counts, and one for each thread whose task was deleted.
StatsAgreeWithChat ==
    \A s \in Scope :
        /\ StatsOf(s, "create") + StatsOf(s, "update") + StatsOf(s, "noop") + StatsOf(s, "skip")
             = StatsProcessed(s)
        /\ Cardinality(CurrentTasks(Now(s))) = StatsCurrentTasks(s) + Cardinality(Ghosts(s))
===============================================================================
