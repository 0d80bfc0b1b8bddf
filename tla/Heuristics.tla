------------------------------ MODULE Heuristics ------------------------------
(***************************************************************************)
(* What becomes of an e-mail's text without the model: deterministic       *)
(* suppression, which comes before it, and heuristic_extract, which        *)
(* answers in its place.  The result goes to route_email (RoutingPolicy).  *)
(*                                                                         *)
(* A text has words that the code looks for, and Says tells in which of    *)
(* its tables each is found, also where one word is found inside another:  *)
(* "media" in "immediately", "purchase" in "purchase order".  A table is   *)
(* named for the intent that it gives, or for what it signals.  Besides    *)
(* words a text has an amount and a time, at most one of each here, which  *)
(* its writer gives.  A body has parts: what its writer says comes first,  *)
(* and headers or angle brackets mark what is quoted or forwarded.  Parts  *)
(* are long, so that a hint of forwarding is near the next header only.    *)
(* Direction, topics, summary, markup and truncation are left out.         *)
(*                                                                         *)
(* An operator whose comment begins with "Fault:" is no part of the model. *)
(***************************************************************************)
EXTENDS RoutingPolicy, FiniteSetsExt

CONSTANT Text  \* texts of e-mails

Says ==
    [out_of_office |-> {"ooo"}, undeliverable |-> {"bounce"},
     newsletter |-> {"broadcast"}, unsubscribe |-> {"opt out"},
     sponsor_your_newsletter |-> {"signal", "broadcast", "pr_media"},
     for_our_team |-> {"signal"},
     co_host |-> {"signal", "pr_media", "independent"}, also_want |-> {"independent"},
     we_offer_content_marketing |-> {"vendor", "call to action"},
     not_ranking_on_page_one |-> {"vendor"}, pricing_request |-> {"call to action", "purchase"},
     rfp |-> {"formal_rfp"}, tender |-> {"tender"},
     invoice |-> {"finance_invoice"}, overdue |-> {"finance_invoice", "overdue"},
     purchase_order |-> {"finance_invoice", "purchase"},
     immediately |-> {"pr_media", "immediately"},
     award_nomination |-> {"pr_media", "award nomination"},
     media_roundtable |-> {"pr_media", "media roundtable"},
     reseller |-> {"reseller"}, not_a_reseller |-> {"reseller", "no reseller"},
     oem |-> {"alliance"},
     demo |-> {"demo"}, quote |-> {"purchase"},
     product_chahiye |-> {"purchase", "product chahiye"},
     psu |-> {"psu"}, limited |-> {"company"}, submit |-> {"deadline"},
     no_rush |-> {"no rush"}, forwarded |-> {"forward hint"}]

\* A time counts from the receipt; a day means its end.
Time == [kind : {"tomorrow", "tomorrow eod", "board review", "ko", "within", "date"}, at : Nat]
Amount == [value : Nat, context : AmountRole \cup {"plain"}, spelled : BOOLEAN]

\* The header that a part begins with, if any; angled parts have none.
Part ==
    {p \in [mark : {"none", "on ... wrote", "original message", "from"}, angled : BOOLEAN,
            words : SUBSET (DOMAIN Says \cup {"thanks"})] :
        p.angled => p.mark = "none"}

ASSUME TextAssumption ==
    Text \subseteq [subject : SUBSET DOMAIN Says, body : Seq(Part), reply : BOOLEAN,
                    daemon : BOOLEAN, amount : OrNone(Amount), when : OrNone(Time)]

Words(parts) == UNION {p.words : p \in parts}

\* Fault: all that is quoted counts.
LatestReplyWithHistory(t) == Words({t.body[i] : i \in DOMAIN t.body})

\* latest_reply, for replies: what precedes a header, the first of its kind and not of a
\* forwarded message; without one, what is not in angle brackets.
LatestReply(t) ==
    LET parts == t.body
        IsCut(i) ==
            /\ i > 1 /\ parts[i].mark # "none"
            /\ "forwarded" \notin parts[i - 1].words
            /\ \A j \in 1 .. i - 1 : parts[j].mark # parts[i].mark
        cuts == {i \in DOMAIN parts : IsCut(i)}
        kept == IF ~t.reply THEN DOMAIN parts
                ELSE IF cuts # {} THEN 1 .. Min(cuts) - 1
                ELSE {i \in DOMAIN parts : ~parts[i].angled}
    IN Words({parts[i] : i \in kept})

Found(words) == UNION {Says[w] : w \in words \ {"thanks"}}
FoundIn(t) == Found(t.subject \cup LatestReply(t))

\* What route_email finds in the text: these three in the body only (_priority).
SaidIn(t) ==
    LET bodyOnly == {"overdue", "immediately", "no rush"}
        found == (FoundIn(t) \ bodyOnly) \cup (Found(LatestReply(t)) \cap bodyOnly)
    IN (Phrase \cap found)
         \cup IF t.when # None /\ t.when.kind = "tomorrow eod" THEN {"tomorrow eod"} ELSE {}

AtOf(when) == IF when.kind \in {"within", "date"} THEN when.at ELSE EndOfDay(when.at)

-------------------------------------------------------------------------------
(* deterministic_suppression *)

\* Out of office, bounce, newsletter, vendor spam.
Suppressed(t) ==
    LET body == Found(LatestReply(t))
        signal == "signal" \in FoundIn(t)
    IN \/ "ooo" \in Found(t.subject) \cap body /\ ~signal
       \/ t.daemon /\ "bounce" \in FoundIn(t)
       \/ "broadcast" \in FoundIn(t) /\ "opt out" \in body /\ ~signal
       \/ {"vendor", "call to action"} \subseteq body /\ ~signal

\* The whole reply says thanks.
Acknowledges(t) == ~Suppressed(t) /\ LatestReply(t) = {"thanks"}

-------------------------------------------------------------------------------
(* heuristic_extract *)

IntentsIn(t) ==
    LET f == FoundIn(t) IN
    UNION {f \cap {"formal_rfp", "tender", "finance_invoice", "pr_media"},
           {"reseller" : x \in f \cap (IF "no reseller" \in f THEN {"alliance"}
                                       ELSE {"alliance", "reseller"})},
           IF "demo" \in f THEN {"demo_request"}
           ELSE IF "purchase" \in f THEN {"direct_purchase"} ELSE {}}

OwnerOf ==
    [formal_rfp |-> "aarti", tender |-> "aarti", finance_invoice |-> "divya",
     pr_media |-> "meera", reseller |-> "karan", demo_request |-> "rohit",
     direct_purchase |-> "rohit"]

OwnersIn(t) == {OwnerOf[i] : i \in IntentsIn(t)}

\* Fault: decoys count as asks.
MaterialOfAny(t) == Cardinality(OwnersIn(t)) > 1

\* Asks of several owners; inside a formal request only what is independent of it.
Material(t) ==
    /\ Cardinality(OwnersIn(t)) > 1
    /\ "aarti" \in OwnersIn(t) => "independent" \in FoundIn(t)

\* _parse_indian_amounts: what is spelled out is always a budget.
AmountsIn(t) ==
    IF t.amount = None THEN <<>>
    ELSE <<[value |-> t.amount.value, inr |-> TRUE,
            role |-> IF t.amount.spelled \/ t.amount.context = "plain" THEN "deal_budget"
                     ELSE t.amount.context]>>

\* _parse_deadlines: a time counts where the text speaks of a deadline.
DeadlinesIn(t) ==
    IF t.when = None \/ (t.when.kind # "board review" /\ "deadline" \notin FoundIn(t)) THEN <<>>
    ELSE <<[at |-> AtOf(t.when), role |-> "confirmation",
            cue |-> IF t.when.kind \in {"tomorrow", "tomorrow eod"} THEN "tomorrow"
                    ELSE IF t.when.kind = "board review" THEN "board review" ELSE "none"]>>

UrgencyIn(t) ==
    IF DeadlinesIn(t) # <<>> /\ AtOf(t.when) <= 72 THEN "urgent"
    ELSE IF "no rush" \in FoundIn(t) THEN "explicit_low"
    ELSE IF "overdue" \in FoundIn(t) THEN "overdue" ELSE "normal"

-------------------------------------------------------------------------------
(* The e-mail that route_email is given *)

\* An ExtractionResult with its defaults.
Blank(t) ==
    [actionability |-> "ambiguous", skip |-> FALSE, intents |-> {}, multi |-> FALSE,
     psu |-> FALSE, amounts |-> <<>>, deadlines |-> <<>>, urgency |-> "normal",
     evidence |-> FALSE, hints |-> {}, truncated |-> FALSE, route |-> FALSE,
     value |-> [action |-> "unchanged", value |-> None],
     due |-> [action |-> "unchanged", value |-> None],
     degraded |-> TRUE, received |-> 0, said |-> SaidIn(t),
     written |-> IF t.amount = None THEN None
                 ELSE IF t.amount.spelled THEN None
                 ELSE [value |-> t.amount.value, context |-> t.amount.context],
     ist |-> None,
     board |-> IF t.when # None /\ t.when.kind = "board review" THEN t.when.at ELSE None,
     within |-> IF t.when # None /\ t.when.kind = "within" THEN t.when.at ELSE None]

HeuristicExtract(t) ==
    [Blank(t) EXCEPT
        !.actionability = IF Material(t) \/ IntentsIn(t) = {} THEN "ambiguous" ELSE "actionable",
        !.intents = IntentsIn(t), !.multi = Material(t), !.psu = "psu" \in FoundIn(t),
        !.amounts = AmountsIn(t), !.deadlines = DeadlinesIn(t), !.urgency = UrgencyIn(t),
        !.evidence = "company" \in FoundIn(t), !.hints = OwnersIn(t)]

\* With a client, suppressed e-mails are not degraded.
Prepared(t) ==
    IF Suppressed(t) \/ Acknowledges(t)
    THEN {[Blank(t) EXCEPT !.actionability = "non_actionable", !.skip = Suppressed(t),
                           !.degraded = d] : d \in BOOLEAN}
    ELSE {HeuristicExtract(t)}

Degraded == UNION {Prepared(t) : t \in Text}

-------------------------------------------------------------------------------
(* Properties *)

Decoys == UNION {Prepared(t) : t \in {u \in Text :
              /\ FoundIn(u) \cap {"formal_rfp", "tender"} # {}
              /\ "independent" \notin FoundIn(u)
              /\ ~Suppressed(u) /\ LatestReply(u) # {"thanks"}}}

\* "Finance/marketing words inside a formal procurement can be decoys"
\* (heuristic_extract): without the model, a formal request that has no independent
\* ask is Aarti's, whatever else it mentions, through route_email's own count of
\* owner groups and its corrections of the text.
DecoysStayWithAarti ==
    [][IsRouted /\ prior = None /\ email \in Decoys => prior'.assignee = "aarti"]_vars

\* All that the writer says is thanks; the rest is quoted below.
OnlyThanks(t) ==
    /\ ~t.daemon /\ t.body # <<>>
    /\ t.body[1] = [mark |-> "none", angled |-> FALSE, words |-> {"thanks"}]
    /\ \/ Len(t.body) = 1
       \/ t.reply /\ t.body[2].mark # "none"
       \/ t.reply /\ \A i \in 2 .. Len(t.body) : t.body[i].angled

\* Subjects that route_email takes up again.  One that also asks for a product, and names
\* an amount, changes the size of a deal.
Rescuing == {"award_nomination", "media_roundtable"}

RescuedThanks ==
    UNION {Prepared(t) : t \in {u \in Text :
              /\ OnlyThanks(u)
              /\ u.subject \cap Rescuing # {}
              /\ "product_chahiye" \notin u.subject \/ u.amount = None}}
PlainThanks ==
    UNION {Prepared(t) : t \in {u \in Text : OnlyThanks(u) /\ u.subject \cap Rescuing = {}}}

\* "Acknowledgement contains no new actionable facts" (deterministic_suppression): a
\* reply that only thanks is a noop and leaves the thread's task alone, whatever it
\* quotes.  A subject that invites to a roundtable or nominates is taken up again by
\* route_email, and its date counts anew; then only the owner is sure to stay, unless
\* the subject changes the size of a deal too.
ThanksKeepTheTask ==
    [][prior # None /\ email # None /\ email' = None =>
          /\ email \in RescuedThanks => prior'.assignee = prior.assignee
          /\ email \in PlainThanks => prior' = prior /\ last' = "noop"]_vars
===============================================================================
