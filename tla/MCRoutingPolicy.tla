--------------------------- MODULE MCRoutingPolicy ----------------------------
(***************************************************************************)
(* E-mails for RoutingPolicy: all combinations of what decides the owner,  *)
(* all of what decides the due date and the priority, and texts that       *)
(* correct the model.  Neither half of the rules reads what the other      *)
(* half varies; a thread mixes e-mails of all kinds.                       *)
(***************************************************************************)
EXTENDS Heuristics

Unchanged == [action |-> "unchanged", value |-> None]
Clear == [action |-> "clear", value |-> None]
Set(v) == [action |-> "set", value |-> v]

Plain ==
    [actionability |-> "actionable", skip |-> FALSE, intents |-> {"demo_request"},
     multi |-> FALSE, psu |-> FALSE, amounts |-> <<>>, deadlines |-> <<>>,
     urgency |-> "normal", evidence |-> FALSE, hints |-> {}, truncated |-> FALSE,
     route |-> FALSE, value |-> Unchanged, due |-> Unchanged, degraded |-> FALSE,
     received |-> 0, said |-> {}, written |-> None,
     ist |-> None, board |-> None, within |-> None]

Deal(v) == <<[value |-> v, role |-> "deal_budget", inr |-> TRUE]>>
Invoice(v) == <<[value |-> v, role |-> "other", inr |-> TRUE]>>
Dollars(v) == <<[value |-> v, role |-> "deal_budget", inr |-> FALSE]>>

\* At the threshold, above it, and an amount that is never stated for a deal.
At == 1000000
Above == 1000001
Foreign == 7

Intended ==
    {[Plain EXCEPT !.intents = i, !.psu = "tender" \in i] :
        i \in {{}, {"tender"}, {"direct_purchase"}, {"pr_media", "direct_purchase"},
               {"finance_invoice", "reseller"}}}

Worth ==
    UNION {{[e EXCEPT !.amounts = a] :
                a \in {<<>>, Deal(At), Deal(Above), Invoice(Foreign), Dollars(Foreign)}}
             \cup {[e EXCEPT !.value = v] : v \in {Clear, Set(At), Set(None)}}
             \cup {[e EXCEPT !.amounts = Deal(Above), !.value = Set(At)]} : e \in Intended}

\* The reply changes the route, or leaves the amount or the owner open.
OwnerEmails ==
    Worth
    \cup UNION {{[e EXCEPT !.route = TRUE], [e EXCEPT !.said = {"range across the threshold"}]} :
                   e \in {w \in Worth : w.amounts \in {<<>>, Deal(Above)} /\ w.value # Clear}}
    \cup {[e EXCEPT !.said = {"explicit ambiguity"}] : e \in Intended}

TextEmails ==
    {[Plain EXCEPT !.written = [value |-> Above, context |-> c], !.intents = i, !.multi = TRUE] :
        c \in {"other", "sponsorship_package", "plain"},
        i \in {{"other"}, {"direct_purchase"}, {"pr_media", "formal_rfp"}}}
    \cup
    {[Plain EXCEPT !.actionability = "non_actionable", !.skip = k, !.said = s,
                   !.intents = {"reseller"}] :
        k \in BOOLEAN,
        s \in {{}, {"media roundtable", "no response deadline"}, {"award nomination"},
               {"product chahiye"}}}
    \cup
    {[Plain EXCEPT !.written = [value |-> Foreign, context |-> "other"]],
     [Plain EXCEPT !.said = {"product chahiye"}, !.intents = {"reseller"}],
     [Plain EXCEPT !.skip = TRUE, !.evidence = TRUE, !.amounts = Deal(At)],
     [Plain EXCEPT !.degraded = TRUE, !.intents = {}, !.truncated = TRUE]}

Deadline(at, role, cue) == [at |-> at, role |-> role, cue |-> cue]
Due(at) == Deadline(at, "confirmation", "none")

DueEmails ==
    {[Plain EXCEPT !.deadlines = ds, !.urgency = u] :
        ds \in {<<>>, <<Due(72)>>, <<Due(73)>>, <<Due(72), Due(73)>>,
                <<Due(None), Deadline(1, "other", "none")>>},
        u \in {"explicit_low", "normal"}}
    \cup
    {[Plain EXCEPT !.deadlines = ds, !.due = c] :
        ds \in {<<>>, <<Due(72)>>}, c \in {Clear, Set(3)}}
    \cup
    {[Plain EXCEPT !.urgency = "urgent", !.said = {s}] :
        s \in {"due days ago", "overdue", "immediately", "no rush"}}
    \cup {[Plain EXCEPT !.board = 72]}
    \cup
    {[Plain EXCEPT !.deadlines = ds, !.said = {s}] :
        ds \in {<<>>, <<Deadline(73, "meeting_preference", "board review")>>,
                <<Deadline(73, "meeting_preference", "tomorrow")>>},
        s \in {"tomorrow eod", "please send it before"}}
    \cup
    {[Plain EXCEPT !.ist = i, !.board = b, !.within = w] :
        i \in {None, 73}, b \in {None, 72}, w \in {72}}

\* Texts that the model does not see, or does not answer.
Silence == [subject |-> {}, body |-> <<>>, reply |-> FALSE, daemon |-> FALSE,
            amount |-> None, when |-> None]
Under(mark, words) == [mark |-> mark, angled |-> FALSE, words |-> words]
Quoted(words) == [mark |-> "none", angled |-> TRUE, words |-> words]
Saying(words) == [Silence EXCEPT !.body = <<Under("none", words)>>]
Replying(parts) == [Silence EXCEPT !.body = parts, !.reply = TRUE]

FormalTexts ==
    {Saying({f, d, g}) : f \in {"rfp", "tender"},
        d \in {"psu", "invoice", "co_host"},
        g \in {"immediately", "purchase_order", "also_want"}}

ThanksTexts ==
    {[Replying(<<Under("none", {"thanks"})>> \o below) EXCEPT !.subject = s, !.when = w] :
        s \in {{}, {"award_nomination"}, {"media_roundtable"}, {"tender"}},
        w \in {None, [kind |-> "tomorrow eod", at |-> 24]},
        below \in {<<>>, <<Quoted({"award_nomination"})>>,
                   <<Under("on ... wrote", {"invoice"}), Quoted({"overdue"})>>,
                   <<Under("from", {"forwarded"}), Under("original message", {"rfp"})>>}}
    \cup
    {[Replying(<<Under("none", {"thanks"})>>) EXCEPT
        !.subject = {"award_nomination"} \cup s,
        !.amount = [value |-> Above, context |-> "plain", spelled |-> FALSE]] :
            s \in {{}, {"product_chahiye"}}}

\* Forwarded messages, what is quoted in them, and headers where nothing precedes.
ForwardedTexts ==
    {Replying(<<Under("none", {"forwarded"}), Under("from", {"tender", "invoice"})>> \o below) :
        below \in {<<>>, <<Under("from", {"immediately"})>>,
                   <<Under("on ... wrote", {"also_want"})>>}}
    \cup {Replying(<<Under("from", {"rfp"}), Quoted({"also_want"})>>),
          Replying(<<Under("none", {"quote"}), Quoted({"rfp"})>>)}

SuppressedTexts ==
    {[Saying({"out_of_office"}) EXCEPT !.subject = {"out_of_office"}],
     [Saying({"undeliverable"}) EXCEPT !.daemon = TRUE],
     Saying({"newsletter", "unsubscribe"}), Saying({"sponsor_your_newsletter", "unsubscribe"}),
     Saying({"not_ranking_on_page_one", "pricing_request"}),
     Saying({"we_offer_content_marketing", "for_our_team"})}

OtherTexts ==
    {[Saying({"submit", "demo", "limited"}) EXCEPT !.when = [kind |-> k, at |-> 72]] :
        k \in {"tomorrow", "board review", "ko", "within", "date"}}
    \cup
    {[Saying({"quote", "no_rush"}) EXCEPT
        !.amount = [value |-> Above, context |-> c, spelled |-> s],
        !.when = [kind |-> "within", at |-> 72]] :
            c \in {"plain", "sponsorship_package"}, s \in BOOLEAN}
    \cup {Saying({"product_chahiye", "oem"}), Saying({"oem", "not_a_reseller"}),
          Saying({"overdue", "immediately"}), Silence}

MCText == FormalTexts \cup ThanksTexts \cup ForwardedTexts \cup SuppressedTexts \cup OtherTexts

MCEmail == OwnerEmails \cup TextEmails \cup DueEmails \cup Degraded
===============================================================================
