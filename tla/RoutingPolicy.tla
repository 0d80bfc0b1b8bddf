----------------------------- MODULE RoutingPolicy -----------------------------
(***************************************************************************)
(* route_email on the e-mails of one thread, one after the other: what the *)
(* model extracted is corrected from the text, an owner, a priority and a  *)
(* confidence follow from it by rules, and a reply is merged with the task *)
(* that the thread has already.                                            *)
(*                                                                         *)
(* Of a text the model keeps which of the phrases it contains that the     *)
(* code looks for, the amount that it writes out, if any, and the delivery *)
(* times.  Intents, roles and days which no rule tells apart have one      *)
(* representative.  Times are hours.  Company, title and description are   *)
(* carried along by the code, and left out.  Confidence counts thousandths.*)
(*                                                                         *)
(* An operator whose comment begins with "Fault:" is no part of the model. *)
(* It is a faulty version of an operator after it, which shows that a      *)
(* property would notice the fault.                                        *)
(***************************************************************************)
EXTENDS Integers, Sequences, FiniteSets

CONSTANTS
    Email,  \* e-mails with what was extracted from them
    None

-------------------------------------------------------------------------------
(* Data *)

Assignee == {"aarti", "rohit", "meera", "karan", "divya", "triage"}

CategoryOf ==
    [aarti |-> "enterprise_rfp", rohit |-> "smb_enquiry", meera |-> "marketing",
     karan |-> "alliances", divya |-> "finance", triage |-> "triage"]

Category == {CategoryOf[a] : a \in Assignee}
Sales == {"smb_enquiry", "enterprise_rfp"}

Formal == {"formal_rfp", "tender"}
Direct == {"direct_purchase", "demo_request"}
Intent == Formal \cup Direct
            \cup {"finance_invoice", "pr_media", "reseller", "other"}

\* What no rule looks at ("other") is in no group.
GroupOf ==
    [i \in Intent \ {"other"} |->
        CASE i \in Formal -> "enterprise"
          [] i \in Direct -> "sales"
          [] i = "finance_invoice" -> "finance"
          [] i = "pr_media" -> "marketing"
          [] i = "reseller" -> "alliances"]

Phrase == {"media roundtable", "no response deadline", "award nomination",
           "product chahiye", "please send it before", "tomorrow eod",
           "due days ago", "overdue", "immediately", "no rush",
           "range across the threshold", "explicit ambiguity"}

OrNone(S) == S \cup {None}

\* "other" stands for invoice, payment, pipeline and unrelated amounts.
AmountRole == {"deal_budget", "sponsorship_package", "other"}
AmountMention == [value : OrNone(Nat), role : AmountRole, inr : BOOLEAN]

\* "confirmation" stands for the four roles that call for an action.  The cue is
\* what the evidence speaks of.
DeadlineMention ==
    [at : OrNone(Nat), role : {"confirmation", "meeting_preference", "other"},
     cue : {"none", "tomorrow", "board review", "send it before"}]

FieldChange == [action : {"set", "clear", "unchanged"}, value : OrNone(Nat)]

ExtractedEmail ==
    [actionability : {"actionable", "ambiguous", "non_actionable"},
     skip : BOOLEAN,             \* a skip_reason is given
     intents : SUBSET Intent,
     multi : BOOLEAN,            \* multiple_material_asks
     psu : BOOLEAN,              \* is_government_or_psu
     amounts : Seq(AmountMention),
     deadlines : Seq(DeadlineMention),
     urgency : {"explicit_low", "normal", "urgent", "overdue"},
     evidence : BOOLEAN,         \* organization_evidence
     hints : SUBSET Assignee,    \* owner_candidates
     truncated : BOOLEAN,
     route : BOOLEAN,            \* reply_changes of intent or owner_category
     value : FieldChange,        \* reply_changes.deal_value
     due : FieldChange,          \* reply_changes.due_date
     degraded : BOOLEAN,
     received : Nat,
     said : SUBSET Phrase,
     written : OrNone([value : Nat, context : AmountRole \cup {"plain"}]),
     ist : OrNone(Nat),          \* a delivery time in IST
     board : OrNone(Nat),        \* the day of a board review
     within : OrNone(Nat)]       \* hours

ASSUME EmailAssumption == Email \subseteq ExtractedEmail
ASSUME NoneAssumption ==
    None \notin Nat \cup Assignee \cup [value : Nat, context : AmountRole \cup {"plain"}]

Task ==
    [assignee : Assignee, category : Category, priority : {"high", "medium", "low"},
     due : OrNone(Nat), value : OrNone(Nat), confidence : 50 .. 980]

Operation == {"create", "update", "skip", "noop"}

ASSUME NoTaskAssumption == None \notin Task \cup ExtractedEmail

-------------------------------------------------------------------------------
(* _normalize_extraction_policy: the text corrects the model *)

Rescued(e) ==
    /\ e.actionability = "non_actionable"
    /\ \/ ~e.skip /\ "media roundtable" \in e.said
       \/ "award nomination" \in e.said

Actionable(e) == e.actionability # "non_actionable" \/ Rescued(e)

\* Only the nomination's rescue takes the reason back.
SkipReason(e) == e.skip /\ ~Rescued(e)

Intents(e) ==
    LET rescued == e.intents \cup (IF Rescued(e) THEN {"pr_media"} ELSE {})
    IN IF "product chahiye" \in e.said
       THEN (rescued \ {"reseller"}) \cup {"direct_purchase"}
       ELSE rescued

Urgency(e) ==
    IF "due days ago" \in e.said THEN "overdue"
    ELSE IF Rescued(e) /\ ~e.skip /\ "media roundtable" \in e.said
            /\ "no response deadline" \in e.said
    THEN "explicit_low"
    ELSE e.urgency

\* Asks of one owner are no ambiguity, whatever the model says.
MultipleAsks(e) ==
    LET groups == {GroupOf[i] : i \in Intents(e) \ {"other"}}
    IN e.multi /\ Cardinality(groups) # 1

\* _deterministic_amounts: an amount in no telling context counts only where a
\* deal is spoken of.
WrittenAmount(e) ==
    LET deal == Intents(e) \cap (Formal \cup Direct) # {}
    IN IF e.written = None \/ "range across the threshold" \in e.said
          \/ (e.written.context = "plain" /\ ~deal)
       THEN {}
       ELSE {[value |-> e.written.value, inr |-> TRUE,
              role |-> IF e.written.context = "plain" THEN "deal_budget"
                       ELSE e.written.context]}

Amounts(e) ==
    LET known == {<<e.amounts[i].value, e.amounts[i].role>> : i \in DOMAIN e.amounts}
        new == {a \in WrittenAmount(e) : <<a.value, a.role>> \notin known}
    IN IF new = {} THEN e.amounts ELSE Append(e.amounts, CHOOSE a \in new : TRUE)

EndOfDay(h) == 24 * (h \div 24) + 23

IsActionable(d) == d.at # None /\ d.role = "confirmation"

Confirmation(at) == [at |-> at, role |-> "confirmation", cue |-> "none"]

\* A meeting for which something must be ready is a deadline.
Reread(d, e) ==
    LET sendBefore == d.cue = "send it before" \/ "please send it before" \in e.said
    IN IF d.role # "meeting_preference" \/ d.at = None THEN d
       ELSE IF d.cue = "board review"
       THEN [d EXCEPT !.role = "confirmation", !.at = EndOfDay(d.at)]
       ELSE IF sendBefore THEN [d EXCEPT !.role = "confirmation"] ELSE d

\* "Tomorrow EOD" counts from the day of receipt, whatever the model resolved.
WithTomorrow(ds, e) ==
    LET tomorrow == EndOfDay(e.received + 24)
    IN IF "tomorrow eod" \notin e.said THEN ds
       ELSE IF \E i \in DOMAIN ds : ds[i].cue = "tomorrow"
       THEN [i \in DOMAIN ds |-> IF ds[i].cue = "tomorrow"
                                 THEN [Confirmation(tomorrow) EXCEPT !.cue = "tomorrow"]
                                 ELSE ds[i]]
       ELSE Append(ds, Confirmation(tomorrow))

\* Board reviews and "within n hours" count where nothing else does.
WithFallback(ds, e) ==
    IF \E i \in DOMAIN ds : IsActionable(ds[i]) THEN ds
    ELSE IF e.board # None THEN Append(ds, Confirmation(EndOfDay(e.board)))
    ELSE IF e.within # None THEN Append(ds, Confirmation(e.received + e.within))
    ELSE ds

Deadlines(e) ==
    LET reread == [i \in DOMAIN e.deadlines |-> Reread(e.deadlines[i], e)]
        tomorrow == WithTomorrow(reread, e)
    IN WithFallback(IF e.ist = None THEN tomorrow
                    ELSE Append(tomorrow, Confirmation(e.ist)), e)

-------------------------------------------------------------------------------
(* The rules *)

Threshold == 1000000

\* Fault: amounts of any role count.
IsDealAmountOfAnyRole(a) == a.value # None /\ a.inr

IsDealAmount(a) ==
    a.value # None /\ a.role \in {"deal_budget", "sponsorship_package"} /\ a.inr

Last(J) == CHOOSE i \in J : \A j \in J : j <= i

\* _select_value: the last one counts.
SelectValue(e) ==
    LET amounts == Amounts(e)
        deals == {i \in DOMAIN amounts : IsDealAmount(amounts[i])}
    IN IF deals = {} THEN None ELSE amounts[Last(deals)].value

BySize(value) == IF value > Threshold THEN "aarti" ELSE "rohit"

\* _owner: formal requests before finance, finance before marketing, and so on.
Owner(e, value) ==
    IF MultipleAsks(e) THEN "triage"
    ELSE IF Intents(e) \cap Formal # {} THEN "aarti"
    ELSE IF "finance_invoice" \in Intents(e) THEN "divya"
    ELSE IF "pr_media" \in Intents(e) THEN "meera"
    ELSE IF "reseller" \in Intents(e) THEN "karan"
    ELSE IF Intents(e) \cap Direct # {} /\ value # None THEN BySize(value)
    ELSE IF "demo_request" \in Intents(e) THEN "rohit"
    ELSE "triage"

\* Requests that are formal or of finance: the third result of _owner.
HardRule(e) ==
    ~MultipleAsks(e) /\ Intents(e) \cap (Formal \cup {"finance_invoice"}) # {}

Unclear(e) ==
    "range across the threshold" \in e.said \/ "explicit ambiguity" \in e.said

DeadlineAt(e) ==
    LET deadlines == Deadlines(e)
        actionable == {i \in DOMAIN deadlines : IsActionable(deadlines[i])}
    IN IF actionable = {} THEN None ELSE deadlines[Last(actionable)].at

Within72(e, at) == at # None /\ at <= e.received + 72

\* _priority
Priority(e) ==
    IF \/ Within72(e, DeadlineAt(e))
       \/ Urgency(e) = "overdue" \/ "overdue" \in e.said
       \/ Urgency(e) = "urgent" /\ "immediately" \in e.said
    THEN "high"
    ELSE IF Urgency(e) = "explicit_low" \/ "no rush" \in e.said THEN "low"
    ELSE "medium"

AtLeast(n, m) == IF n < m THEN m ELSE n
AtMost(n, m) == IF n > m THEN m ELSE n

\* Fault: no certainty is too high.
BoundedBelow(c, assignee) ==
    IF assignee = "triage" THEN AtMost(AtLeast(c, 300), 540) ELSE AtLeast(c, 50)

\* Fault: what needs a human is bounded as everything else.
BoundedForAll(c, assignee) == AtMost(AtLeast(c, 50), 980)

Bounded(c, assignee) ==
    IF assignee = "triage" THEN AtMost(AtLeast(c, 300), 540)
    ELSE AtMost(AtLeast(c, 50), 980)

\* calculate_confidence
Confidence(e, assignee, hard) ==
    LET amounts == Amounts(e)
        triage == assignee = "triage"
        base ==
            IF triage /\ MultipleAsks(e) THEN 420
            ELSE IF SkipReason(e) THEN 960
            ELSE IF triage THEN 450
            ELSE IF hard THEN 920
            ELSE IF \E i \in DOMAIN amounts : amounts[i].role = "deal_budget" THEN 880
            ELSE IF assignee = "rohit" THEN 800
            ELSE 840
        evidence == Len(amounts) + Len(Deadlines(e)) + (IF e.evidence THEN 1 ELSE 0)
        weighed == base
                     + (IF evidence >= 2 THEN 30 ELSE 0)
                     + (IF assignee \in e.hints THEN 20 ELSE 0)
                     - (IF e.truncated THEN 80 ELSE 0)
                     - (IF MultipleAsks(e) /\ ~triage THEN 180 ELSE 0)
        degraded == IF ~e.degraded THEN weighed
                    ELSE AtMost(weighed - 200, IF hard THEN 650 ELSE 300)
    IN Bounded(degraded, assignee)

-------------------------------------------------------------------------------
(* route_email: a new task, or the prior task with what the reply changes *)

\* What the e-mail says by itself.
Fresh(e) ==
    LET value == IF Unclear(e) THEN None ELSE SelectValue(e)
        owner == IF Unclear(e) THEN "triage" ELSE Owner(e, SelectValue(e))
    IN [assignee |-> owner, value |-> value, hard |-> HardRule(e) /\ ~Unclear(e)]

DayOf(at) == IF at = None THEN None ELSE at \div 24

\* Of the prior task's sales, does the reply speak of another amount?
SalesValueChange(e, task) ==
    LET value == Fresh(e).value
    IN /\ task.category \in Sales
       /\ \/ e.value.action # "unchanged"
          \/ /\ value # None /\ value # task.value
             /\ Intents(e) \cap Direct # {}

\* Fault: a reply that states no amount clears it.
MergedValueForgetting(e, task) ==
    IF e.value.action = "clear" THEN None
    ELSE IF e.value.action = "set" /\ e.value.value # None THEN e.value.value
    ELSE Fresh(e).value

MergedValue(e, task) ==
    IF e.value.action = "clear" THEN None
    ELSE IF e.value.action = "set" /\ e.value.value # None THEN e.value.value
    ELSE IF Fresh(e).value # None THEN Fresh(e).value
    ELSE task.value

\* Fault: an amount reassigns whatever the task is about.
MergedOwnerByAmount(e, task) ==
    LET value == MergedValue(e, task)
    IN IF value # None /\ value # task.value
       THEN [assignee |-> BySize(value), category |-> CategoryOf[BySize(value)]]
       ELSE [assignee |-> task.assignee, category |-> task.category]

\* Fault: the amount changes the owner and not the category.
MergedOwnerKeepingCategory(e, task) ==
    IF SalesValueChange(e, task) /\ MergedValue(e, task) # None
    THEN [assignee |-> BySize(MergedValue(e, task)), category |-> task.category]
    ELSE [assignee |-> task.assignee, category |-> task.category]

\* Owner and category: kept without evidence, by size for sales.
MergedOwner(e, task) ==
    LET fresh == Fresh(e).assignee
        value == MergedValue(e, task)
        size == BySize(value)
    IN IF SalesValueChange(e, task) /\ value # None
       THEN [assignee |-> size, category |-> CategoryOf[size]]
       ELSE IF \/ e.route \/ SalesValueChange(e, task)
               \/ "range across the threshold" \in e.said
       THEN [assignee |-> fresh, category |-> CategoryOf[fresh]]
       ELSE [assignee |-> task.assignee, category |-> task.category]

\* Fault: a reply never changes the priority.
MergedDueOfPrior(e, task) ==
    [due |-> IF DeadlineAt(e) = None THEN task.due ELSE DayOf(DeadlineAt(e)),
     priority |-> task.priority]

\* Due date and priority: kept together when the reply speaks of no date.
MergedDue(e, task) ==
    IF e.due.action = "clear" THEN [due |-> None, priority |-> Priority(e)]
    ELSE IF e.due.action = "set" /\ e.due.value # None
    THEN [due |-> e.due.value, priority |-> Priority(e)]
    ELSE IF DeadlineAt(e) = None
    THEN [due |-> task.due, priority |-> task.priority]
    ELSE [due |-> DayOf(DeadlineAt(e)), priority |-> Priority(e)]

NewTask(e) ==
    LET fresh == Fresh(e)
    IN [assignee |-> fresh.assignee, category |-> CategoryOf[fresh.assignee],
        priority |-> Priority(e), due |-> DayOf(DeadlineAt(e)), value |-> fresh.value,
        confidence |-> Confidence(e, fresh.assignee, fresh.hard)]

\* A reply without intents is no less certain than what it replies to.
Merged(e, task) ==
    LET owner == MergedOwner(e, task)
        due == MergedDue(e, task)
        confidence == Confidence(e, owner.assignee, Fresh(e).hard)
    IN [assignee |-> owner.assignee, category |-> owner.category,
        priority |-> due.priority, due |-> due.due, value |-> MergedValue(e, task),
        confidence |-> IF Intents(e) # {} THEN confidence
                       ELSE AtLeast(confidence, task.confidence)]

-------------------------------------------------------------------------------
(* A thread *)

VARIABLES
    prior,   \* the thread's task as its snapshot has it, or None
    email,   \* an e-mail of the thread that is being routed, or None
    last,    \* the operation of the latest decision, or None
    stated   \* history: amounts that the thread's e-mails state for the deal, since
             \* the task was created

vars == <<prior, email, last, stated>>

Init == prior = None /\ email = None /\ last = None /\ stated = {}

\* An e-mail of the thread comes back from the extractor.
Receive ==
    /\ email = None
    /\ email' \in Email
    /\ last' = None
    /\ UNCHANGED <<prior, stated>>

\* What the e-mail says of the deal's amount, in the model's words, its own or as a
\* change of the task.
StatedAmounts(e) ==
    {a.value : a \in {b \in {e.amounts[i] : i \in DOMAIN e.amounts} :
                         b.inr /\ b.role # "other"}}
      \cup (IF e.written # None /\ e.written.context # "other"
            THEN {e.written.value} ELSE {})
      \cup (IF e.value.action = "set" THEN {e.value.value} \ {None} ELSE {})

\* Nothing to do: a reply that acknowledges, or an e-mail to suppress.
Dismiss ==
    /\ email # None /\ ~Actionable(email)
    /\ last' = IF prior # None /\ ~SkipReason(email) THEN "noop" ELSE "skip"
    /\ email' = None
    /\ UNCHANGED <<prior, stated>>

\* A task is routed, and reconciled.
Route ==
    /\ email # None /\ Actionable(email)
    /\ prior' = IF prior = None THEN NewTask(email) ELSE Merged(email, prior)
    /\ last' = IF prior = None THEN "create" ELSE "update"
    /\ stated' = stated \cup StatedAmounts(email)
    /\ email' = None

\* The task is deleted, and with it the thread's snapshot.
Delete ==
    /\ prior # None /\ email = None
    /\ prior' = None /\ last' = None /\ stated' = {}
    /\ UNCHANGED email

Next == Receive \/ Dismiss \/ Route \/ Delete

Spec == Init /\ [][Next]_vars

-------------------------------------------------------------------------------
(* Properties *)

\* A task comes of the e-mail in this step: a step of Route, and of no other action.
IsRouted == email # None /\ email' = None /\ last' \in {"create", "update"}

\* The types of a thread's task and of what is stated for it.
TypeOK ==
    /\ prior \in OrNone(Task)
    /\ email \in OrNone(Email)
    /\ last \in OrNone(Operation)
    /\ stated \subseteq OrNone(Nat)

\* Whatever replies did to it, a task has its owner's category (ASSIGNEE_CATEGORY):
\* route_email sets the two in five places.
OwnerHasCategory == prior # None => prior.category = CategoryOf[prior.assignee]

\* The amount of a task was stated for its deal by some e-mail of the thread: invoices,
\* payments, pipelines and other currencies never become a deal's value, not even by
\* the detour of a reply (test_finance_amount_never_becomes_deal_value).
ValueWasStated == prior # None => prior.value \in stated \cup {None}

\* "Any email with a stated deadline within 72 hours of received_at is priority high":
\* if the last one that it states is, so is the task, whoever owns it and whatever
\* priority it had before (route_email keeps the prior one in one case).
NearDeadlineIsHigh ==
    [][IsRouted /\ Within72(email, DeadlineAt(email)) => prior'.priority = "high"]_vars

\* A task that needs a human is never routed with confidence (calculate_confidence);
\* a reply without intents may keep the confidence that another owner's task had.
TriageIsUncertain ==
    [][IsRouted /\ prior'.assignee = "triage" /\ (prior = None \/ Intents(email) # {})
       => prior'.confidence <= 540]_vars

\* Neither an amount nor a date nor a change is spoken of.
Silent(e) ==
    /\ StatedAmounts(e) = {} /\ e.written = None /\ ~Unclear(e)
    /\ e.deadlines = <<>> /\ "tomorrow eod" \notin e.said
    /\ e.ist = None /\ e.board = None /\ e.within = None
    /\ ~e.route /\ e.value.action = "unchanged" /\ e.due.action = "unchanged"

\* "Preserve prior fields unless the current message supplies material evidence": a
\* silent reply leaves owner, value, due date and priority of the task as they are.
PriorKept ==
    [][IsRouted /\ prior # None /\ Silent(email) =>
          \A f \in {"assignee", "category", "value", "due", "priority"} :
              prior'[f] = prior[f]]_vars

\* An amount in a reply moves a task between the two owners of sales only; those of
\* marketing, alliances, finance and triage keep theirs unless the reply changes the
\* route or leaves the amount open (sales_value_change).
AmountsMoveSalesOnly ==
    [][IsRouted /\ prior # None /\ prior'.assignee # prior.assignee =>
          \/ email.route \/ "range across the threshold" \in email.said
          \/ prior.category \in Sales]_vars

\* "Government and PSU tenders always go to Aarti, irrespective of deal value."
TendersStayWithAarti ==
    [][/\ IsRouted /\ prior # None /\ prior.assignee = "aarti"
       /\ email.psu /\ "tender" \in email.intents
       => prior'.assignee # "rohit"]_vars
===============================================================================
