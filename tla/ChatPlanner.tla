----------------------------- MODULE ChatPlanner ------------------------------
(***************************************************************************)
(* plan_question: from a question to a read-only plan, without a model.    *)
(*                                                                         *)
(* The planner looks for terms anywhere in the text of the question.  A    *)
(* question is a set of phrases here, and Hits says in which tables of     *)
(* terms the planner finds each phrase: "company" is found among the words *)
(* that ask for a count, which have "any".  A table whose terms stand for  *)
(* values (categories, owners, operations) has the values as its hits.     *)
(*                                                                         *)
(* Values of fields are tagged: <<"text", v>>, <<"num", n>>, <<"flag", b>>,*)
(* <<"day", n>> for a date, of which Today is one, <<"objects">> for a     *)
(* list of objects.                                                        *)
(***************************************************************************)
EXTENDS Naturals, FiniteSets

Today == 2

Hits ==
    [delete_the_task |-> {"action", "task"},
     aarti |-> {"u_aarti"}, rohit |-> {"u_rohit"},
     triage_queue |-> {"u_triage", "triage terms", "triage"},
     spurious |-> {"spurious"},
     flagged_as_spurious |-> {"spurious", "feedback"},
     threads |-> {"thread"},
     updated_more_than_once |-> {"repeat", "update"},
     task_updates |-> {"task", "event", "update"},
     total_deal_value |-> {"total", "value", "sum"},
     rfp |-> {"rfp", "enterprise_rfp"},
     demo_requests |-> {"smb_enquiry"},
     partnership |-> {"alliance", "alliances"},
     sponsorship |-> {"marketing terms", "marketing"},
     invoice |-> {"finance"},
     manual_review |-> {"triage terms", "triage"},
     show |-> {"ask", "list"}, why |-> {"ask"}, give_me |-> {"list"},
     high_priority |-> {"priority", "high"}, low_priority |-> {"low"},
     urgent |-> {"priority", "urgent word"},
     low_confidence |-> {"confidence", "unsure"},
     routing_certainty |-> {"confidence"},
     high_confidence |-> {"sure"},
     gst |-> {"gst"}, refund |-> {"refund"},
     reseller |-> {"subtype"}, versus |-> {"subtype", "compare"},
     vendor_spam |-> {"spam", "vendor_spam"},
     skipped |-> {"spam", "skip"}, created |-> {"create"},
     newsletter |-> {"newsletter"},
     how_many |-> {"number", "how many"}, company |-> {"number", "how many"},
     tasks |-> {"task"}, events |-> {"event"}, feedback |-> {"feedback"}, runs |-> {"runs"},
     overdue |-> {"overdue"}, due_tomorrow |-> {"due tomorrow"},
     no_due_date |-> {"no due date"}, no_deal_value |-> {"value", "no deal value"},
     degraded |-> {"degraded"}, average_confidence |-> {"average"},
     by_owner |-> {"task", "assignee_id"}, by_category |-> {"category"},
     by_company |-> {"number", "how many", "company_name"}, by_status |-> {"status"}]

Phrase == DOMAIN Hits
HitsOf(question) == UNION {Hits[p] : p \in question}

-------------------------------------------------------------------------------
(* Plans and what makes them valid *)

Filter(field, operator, value) == [field |-> field, operator |-> operator, value |-> value]
Is(field, v) == Filter(field, "eq", <<"text", v>>)

TaskFields == {"assignee_id", "category", "priority", "due_date", "deal_value_inr",
               "company_name", "confidence"}

\* The fields of each dataset, as far as plans here name them.
ANALYTICS_FIELDS ==
    [current_tasks |-> TaskFields, threads |-> TaskFields,
     decisions |-> TaskFields \cup {"operation", "skip_reason", "degraded_mode",
                                    "amount_mentions"},
     events |-> {"status"}, feedback |-> {"label"}, runs |-> {"status"}]

Numeric == {"deal_value_inr", "confidence"}

NoQuery == [dataset |-> "none", operation |-> "none", filters |-> {}, group |-> "none",
            metric |-> "none"]

\* AnalyticsFilter and AnalyticsQuery.
ValidFilter(f) == f.operator \in {"is_null", "not_null"} \/ f.value # <<>>

\* query_is_allowlisted.
ValidQuery(query) ==
    LET allowed == ANALYTICS_FIELDS[query.dataset] IN
    /\ \A f \in query.filters : ValidFilter(f) /\ f.field \in allowed
    /\ IF query.operation = "group_count" THEN query.group \in allowed
       ELSE query.group = "none"
    /\ IF query.operation \in {"sum", "average"} THEN query.metric \in allowed \cap Numeric
       ELSE query.metric = "none"

Plan(intent, categories) ==
    [intent |-> intent, categories |-> categories, query |-> NoQuery]
Analytics(query) == [intent |-> "analytics", categories |-> <<>>, query |-> query]

ValidPlan(plan) == plan.intent = "analytics" => ValidQuery(plan.query)

-------------------------------------------------------------------------------
(* _general_analytics_plan *)

ASSIGNEE_ALIASES == <<"u_aarti", "u_rohit", "u_meera", "u_karan", "u_divya", "u_triage">>
CATEGORY_ALIASES ==
    <<"enterprise_rfp", "smb_enquiry", "marketing", "alliances", "finance", "triage">>
Priorities == <<"high", "medium", "low">>
Operations == <<"create", "update", "skip", "noop">>
SkipReasons == <<"out_of_office", "newsletter", "vendor_spam", "automated_bounce">>
GroupFields == <<"assignee_id", "category", "priority", "operation", "skip_reason",
                 "company_name", "status">>

\* The first value of a table that the question hits, as a set of one, or {}.
FirstOf(table, hits) ==
    {table[i] : i \in {j \in DOMAIN table :
        table[j] \in hits /\ \A k \in 1 .. j - 1 : table[k] \notin hits}}

PriorityOf(hits) ==
    LET named == FirstOf(Priorities, hits) IN
    IF named = {} /\ "urgent word" \in hits THEN {"high"} ELSE named

\* The first condition in a list of <<hit, filter>> that the question hits.
FirstFilter(conditions, hits) ==
    {conditions[i][2] : i \in {j \in DOMAIN conditions :
        conditions[j][1] \in hits /\ \A k \in 1 .. j - 1 : conditions[k][1] \notin hits}}

ConfidenceFilters ==
    <<<<"unsure", Filter("confidence", "lte", <<"num", 54>>)>>,
      <<"sure", Filter("confidence", "gte", <<"num", 80>>)>>>>
DueFilters ==
    <<<<"due tomorrow", Filter("due_date", "eq", <<"day", Today + 1>>)>>,
      <<"due today", Filter("due_date", "eq", <<"day", Today>>)>>,
      <<"overdue", Filter("due_date", "lt", <<"day", Today>>)>>>>

FiltersOf(hits) ==
    UNION {{Is("assignee_id", v) : v \in FirstOf(ASSIGNEE_ALIASES, hits)},
           {Is("category", v) : v \in FirstOf(CATEGORY_ALIASES, hits)},
           {Is("priority", v) : v \in PriorityOf(hits)},
           FirstFilter(ConfidenceFilters, hits),
           {Is("operation", v) : v \in FirstOf(Operations, hits)},
           {Is("skip_reason", v) : v \in FirstOf(SkipReasons, hits)},
           FirstFilter(DueFilters, hits),
           {Filter("due_date", "is_null", <<>>) : x \in hits \cap {"no due date"}},
           {Filter("deal_value_inr", "is_null", <<>>) : x \in hits \cap {"no deal value"}},
           {Filter("degraded_mode", "eq", <<"flag", TRUE>>) : x \in hits \cap {"degraded"}}}

Elements(table) == {table[i] : i \in DOMAIN table}

OperationOf(hits) ==
    IF FirstOf(GroupFields, hits) # {} THEN "group_count"
    ELSE IF "average" \in hits THEN "average"
    ELSE IF "sum" \in hits THEN "sum"
    ELSE IF "how many" \in hits THEN "count"
    ELSE "list"

\* Each rule overrides those before it.
DatasetRules(hits) ==
    <<<<{"task"}, "current_tasks">>,
      <<{"thread"}, "threads">>,
      <<{"event"}, "events">>,
      <<{"feedback"}, "feedback">>,
      <<{"runs"}, "runs">>,
      <<Elements(ASSIGNEE_ALIASES), "current_tasks">>,
      <<Elements(Operations) \cup Elements(SkipReasons), "decisions">>,
      <<{"due tomorrow", "due today", "overdue", "no due date", "no deal value"},
        "current_tasks">>,
      <<{"degraded"}, "decisions">>,
      <<IF FirstOf(GroupFields, hits) \subseteq {"operation", "skip_reason"}
        THEN FirstOf(GroupFields, hits) ELSE {}, "decisions">>,
      <<IF OperationOf(hits) = "sum" THEN {"sum"} ELSE {}, "current_tasks">>>>

DatasetOf(hits) ==
    LET rules == DatasetRules(hits)
        applies == {i \in DOMAIN rules : rules[i][1] \cap hits # {}}
    IN IF applies = {} THEN "decisions"
       ELSE rules[CHOOSE i \in applies : \A j \in applies : j <= i][2]

Recognized(hits) ==
    \/ FiltersOf(hits) # {}
    \/ FirstOf(GroupFields, hits) # {}
    \/ hits \cap {"task", "thread", "event", "feedback", "runs", "average", "sum",
                  "how many", "list"} # {}

QueryOf(hits) ==
    LET groups == FirstOf(GroupFields, hits)
        operation == OperationOf(hits)
    IN [dataset |-> DatasetOf(hits), operation |-> operation, filters |-> FiltersOf(hits),
        group |-> IF groups = {} THEN "none" ELSE CHOOSE g \in groups : TRUE,
        metric |-> CASE operation = "average" -> "confidence"
                     [] operation = "sum" -> "deal_value_inr"
                     [] OTHER -> "none"]

\* A query that its dataset does not allow, or a question that says nothing, is
\* left to the model.
GeneralPlan(hits) ==
    IF Recognized(hits) /\ ValidQuery(QueryOf(hits)) THEN Analytics(QueryOf(hits))
    ELSE Plan("unsupported", <<>>)

-------------------------------------------------------------------------------
(* plan_question *)

\* Fault: owners are looked for after the intents.
RulesOwnersLast(hits) ==
    LET any(terms) == terms \cap hits # {} IN
    <<<<any({"action"}), Plan("out_of_scope", <<>>)>>,
      <<any({"spurious"}), Plan("spurious_rate", <<>>)>>,
      <<any({"rfp"}) /\ any({"number"}), Plan("count_category", <<"enterprise_rfp">>)>>,
      <<TRUE, GeneralPlan(hits)>>>>

\* The families of questions, in the order in which they are tried.
Rules(hits) ==
    LET any(terms) == terms \cap hits # {} IN
    <<<<any({"action"}), Plan("out_of_scope", <<>>)>>,
      <<any(Elements(ASSIGNEE_ALIASES)), GeneralPlan(hits)>>,
      <<any({"spurious"}), Plan("spurious_rate", <<>>)>>,
      <<any({"thread"}) /\ any({"repeat"}), Plan("threads_with_updates", <<>>)>>,
      <<any({"total"}) /\ any({"value"}) /\ any({"rfp"}),
        Plan("sum_deal_value", <<"enterprise_rfp">>)>>,
      <<any({"triage terms"}) /\ any({"ask"}), Plan("list_triage", <<>>)>>,
      <<any({"priority"}) /\ any({"confidence"}), Plan("list_priority_confidence", <<>>)>>,
      <<any({"gst"}) /\ any({"refund"}), Plan("count_topic", <<>>)>>,
      <<any({"alliance"}) /\ any({"subtype"}), Plan("count_subtypes", <<"alliances">>)>>,
      <<any({"marketing terms"}) /\ any({"spam"}),
        Plan("compare_category_and_skip_reason", <<"marketing">>)>>,
      <<any({"marketing terms"}) /\ any({"rfp"}) /\ any({"number", "compare"}),
        Plan("compare_categories", <<"enterprise_rfp", "marketing">>)>>,
      <<any({"rfp"}) /\ any({"number"}), Plan("count_category", <<"enterprise_rfp">>)>>,
      <<TRUE, GeneralPlan(hits)>>>>

PlanQuestion(question) ==
    LET rules == Rules(HitsOf(question))
        first == CHOOSE i \in DOMAIN rules :
                    rules[i][1] /\ \A j \in 1 .. i - 1 : ~rules[j][1]
    IN rules[first][2]
===============================================================================
