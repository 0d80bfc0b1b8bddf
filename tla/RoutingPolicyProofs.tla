-------------------------- MODULE RoutingPolicyProofs --------------------------
(***************************************************************************)
(* What the rules promise for any thread and any e-mails: types, owner and *)
(* category, provenance of the amount, and the bound of a triage task's    *)
(* confidence.  The first half says what the corrections of the text       *)
(* return, and which amount is the last.  The end is about e-mails that no *)
(* model has read: which parts of the body count, and which tables their   *)
(* words are found in.                                                     *)
(***************************************************************************)
EXTENDS Heuristics, SequenceTheorems, WellFoundedInduction, TLAPS

\* A set of positions has a last one.
LEMMA LastMember ==
    ASSUME NEW n \in Nat, NEW J \in SUBSET (1 .. n), J # {}
    PROVE  Last(J) \in J
<1> DEFINE T == {n - j : j \in J}
<1>1. T \subseteq Nat /\ T # {}
  <2>1. \A j \in J : n - j \in Nat
    OBVIOUS
  <2> QED
    BY <2>1
<1>2. PICK x \in T : \A y \in T : ~(<<y, x>> \in OpToRel(<, Nat))
  BY <1>1, WFMin, NatLessThanWellFounded
<1>3. \A y \in T : x <= y
  <2> TAKE y \in T
  <2>1. x \in Nat /\ y \in Nat
    BY <1>1
  <2>2. ~(y < x)
    BY <1>2, <2>1 DEF OpToRel
  <2> QED
    BY <2>1, <2>2
<1>4. PICK i \in J : x = n - i
  OBVIOUS
<1>5. \A j \in J : j <= i
  <2> TAKE j \in J
  <2>1. x <= n - j
    BY <1>3
  <2> QED
    BY <1>4, <2>1
<1> QED
  BY <1>5 DEF Last

\* A sequence is a function on its positions.
LEMMA Positions ==
    ASSUME NEW S, NEW s \in Seq(S)
    PROVE  /\ Len(s) \in Nat /\ DOMAIN s = 1 .. Len(s)
           /\ \A i \in DOMAIN s : s[i] \in S
  BY LenProperties

LEMMA AppendElements ==
    ASSUME NEW S, NEW s \in Seq(S), NEW x \in S
    PROVE  /\ Append(s, x) \in Seq(S)
           /\ \A i \in DOMAIN Append(s, x) : Append(s, x)[i] = x \/ \E j \in DOMAIN s : Append(s, x)[i] = s[j]
<1>1. Append(s, x) \in Seq(S) /\ Len(Append(s, x)) = Len(s) + 1
  BY AppendProperties
<1>2. DOMAIN Append(s, x) = 1 .. Len(s) + 1 /\ DOMAIN s = 1 .. Len(s) /\ Len(s) \in Nat
  BY <1>1, LenProperties
<1>3. \A i \in 1 .. Len(s) : Append(s, x)[i] = s[i]
  BY AppendProperties
<1>4. Append(s, x)[Len(s) + 1] = x
  BY AppendProperties
<1>5. ASSUME NEW i \in 1 .. Len(s) + 1
      PROVE  Append(s, x)[i] = x \/ \E j \in DOMAIN s : Append(s, x)[i] = s[j]
  <2>1. CASE i = Len(s) + 1
    BY <2>1, <1>4
  <2>2. CASE i \in 1 .. Len(s)
    BY <2>2, <1>2, <1>3
  <2> QED
    BY <2>1, <2>2, <1>2
<1> QED
  BY <1>1, <1>2, <1>5

-------------------------------------------------------------------------------
(* What the e-mails state *)

\* The amount that the text adds.
LEMMA WrittenAmountIs ==
    ASSUME NEW e, NEW a \in WrittenAmount(e)
    PROVE  /\ e.written # None
           /\ a = [value |-> e.written.value, inr |-> TRUE,
                   role |-> IF e.written.context = "plain" THEN "deal_budget"
                            ELSE e.written.context]
  BY Zenon DEF WrittenAmount

LEMMA WrittenAmountType ==
    ASSUME NEW e \in ExtractedEmail
    PROVE  WrittenAmount(e) \subseteq AmountMention
<1> SUFFICES ASSUME NEW a \in WrittenAmount(e) PROVE a \in AmountMention
  OBVIOUS
<1>1. e.written \in [value : Nat, context : AmountRole \cup {"plain"}]
  <2>1. e.written \in OrNone([value : Nat, context : AmountRole \cup {"plain"}])
    BY DEF ExtractedEmail
  <2> QED
    BY <2>1, WrittenAmountIs DEF OrNone
<1>2. e.written.value \in OrNone(Nat)
  BY <1>1 DEF OrNone
<1>3. (IF e.written.context = "plain" THEN "deal_budget" ELSE e.written.context) \in AmountRole
  BY <1>1 DEF AmountRole
<1> DEFINE role == IF e.written.context = "plain" THEN "deal_budget" ELSE e.written.context
<1>4. a = [value |-> e.written.value, inr |-> TRUE, role |-> role]
  BY WrittenAmountIs, Zenon
<1> HIDE DEF role
<1>5. role \in AmountRole
  BY <1>3 DEF role
<1> QED
  BY <1>2, <1>4, <1>5 DEF AmountMention

LEMMA AmountsType ==
    ASSUME NEW e \in ExtractedEmail
    PROVE  /\ Amounts(e) \in Seq(AmountMention)
           /\ \A i \in DOMAIN Amounts(e) :
                 \/ Amounts(e)[i] \in WrittenAmount(e)
                 \/ \E j \in DOMAIN e.amounts : Amounts(e)[i] = e.amounts[j]
<1> DEFINE known == {<<e.amounts[i].value, e.amounts[i].role>> : i \in DOMAIN e.amounts}
           new == {a \in WrittenAmount(e) : <<a.value, a.role>> \notin known}
<1>1. e.amounts \in Seq(AmountMention)
  BY DEF ExtractedEmail
<1>2. CASE new = {}
  <2>1. Amounts(e) = e.amounts
    BY <1>2 DEF Amounts
  <2> QED
    BY <1>1, <2>1
<1>3. CASE new # {}
  <2>1. PICK a \in new : Amounts(e) = Append(e.amounts, a)
    BY <1>3 DEF Amounts
  <2>2. a \in AmountMention /\ a \in WrittenAmount(e)
    BY WrittenAmountType
  <2> HIDE DEF new, known
  <2> QED
    BY <1>1, <2>1, <2>2, AppendElements
<1> QED
  BY <1>2, <1>3

\* The deal amount that is selected was stated.
LEMMA SelectedIsStated ==
    ASSUME NEW e \in ExtractedEmail
    PROVE  SelectValue(e) \in OrNone(Nat) /\ SelectValue(e) \in StatedAmounts(e) \cup {None}
<1> DEFINE amounts == Amounts(e)
           deals == {i \in DOMAIN amounts : IsDealAmount(amounts[i])}
<1>1. CASE deals = {}
  BY <1>1 DEF SelectValue, OrNone
<1>2. CASE deals # {}
  <2>1. Len(amounts) \in Nat /\ deals \subseteq 1 .. Len(amounts)
    BY AmountsType, Positions
  <2>2. Last(deals) \in deals
    BY <1>2, <2>1, LastMember
  <2>3. PICK i \in DOMAIN amounts : SelectValue(e) = amounts[i].value /\ IsDealAmount(amounts[i])
    BY <1>2, <2>2 DEF SelectValue
  <2>4. amounts[i] \in AmountMention
    BY AmountsType, Positions
  <2>5. SelectValue(e) \in Nat
    BY <2>3, <2>4 DEF AmountMention, OrNone, IsDealAmount
  <2>6. CASE amounts[i] \in WrittenAmount(e)
    <3>1. e.written # None /\ amounts[i].value = e.written.value
      BY <2>6, WrittenAmountIs
    <3>2. e.written.context # "other"
      BY <2>3, <2>6, WrittenAmountIs DEF IsDealAmount
    <3>3. e.written.value \in StatedAmounts(e)
      BY <3>1, <3>2, Zenon DEF StatedAmounts
    <3> QED
      BY <2>3, <2>5, <3>1, <3>3 DEF OrNone
  <2>7. CASE \E j \in DOMAIN e.amounts : amounts[i] = e.amounts[j]
    <3>1. PICK j \in DOMAIN e.amounts : amounts[i] = e.amounts[j]
      BY <2>7
    <3>2. e.amounts[j].inr /\ e.amounts[j].role # "other"
      BY <2>3, <3>1 DEF IsDealAmount
    <3>3. e.amounts[j].value \in StatedAmounts(e)
      BY <3>1, <3>2, Zenon DEF StatedAmounts
    <3> QED
      BY <2>3, <2>5, <3>1, <3>3 DEF OrNone
  <2> QED
    BY <2>5, <2>6, <2>7, AmountsType DEF OrNone
<1> QED
  BY <1>1, <1>2

-------------------------------------------------------------------------------
(* When they are due *)

LEMMA EndOfDayNat == ASSUME NEW h \in Nat PROVE EndOfDay(h) \in Nat
  BY DEF EndOfDay

LEMMA ConfirmationType ==
    ASSUME NEW at \in Nat PROVE Confirmation(at) \in DeadlineMention
  BY DEF Confirmation, DeadlineMention, OrNone

LEMMA RereadType ==
    ASSUME NEW e \in ExtractedEmail, NEW d \in DeadlineMention
    PROVE  Reread(d, e) \in DeadlineMention
<1>1. CASE d.role # "meeting_preference" \/ d.at = None
  BY <1>1 DEF Reread
<1>2. CASE d.role = "meeting_preference" /\ d.at # None
  <2>1. EndOfDay(d.at) \in Nat
    BY <1>2, EndOfDayNat DEF DeadlineMention, OrNone
  <2> QED
    BY <1>2, <2>1 DEF Reread, DeadlineMention, OrNone
<1> QED
  BY <1>1, <1>2

\* Deadlines keep being a sequence of them.
LEMMA DeadlinesType ==
    ASSUME NEW e \in ExtractedEmail
    PROVE  Deadlines(e) \in Seq(DeadlineMention)
<1> DEFINE reread == [i \in DOMAIN e.deadlines |-> Reread(e.deadlines[i], e)]
           tomorrow == WithTomorrow(reread, e)
           delivery == IF e.ist = None THEN tomorrow ELSE Append(tomorrow, Confirmation(e.ist))
<1>1. /\ e.deadlines \in Seq(DeadlineMention) /\ e.received \in Nat
      /\ e.ist \in OrNone(Nat) /\ e.board \in OrNone(Nat) /\ e.within \in OrNone(Nat)
  BY DEF ExtractedEmail
<1>2. reread \in Seq(DeadlineMention)
  <2>1. /\ Len(e.deadlines) \in Nat /\ DOMAIN e.deadlines = 1 .. Len(e.deadlines)
        /\ \A i \in DOMAIN e.deadlines : e.deadlines[i] \in DeadlineMention
    BY <1>1, Positions
  <2>2. \A i \in 1 .. Len(e.deadlines) : Reread(e.deadlines[i], e) \in DeadlineMention
    BY <2>1, RereadType
  <2> QED
    BY <2>1, <2>2, IsASeq
<1>3. tomorrow \in Seq(DeadlineMention)
  <2> HIDE DEF reread
  <2>1. Confirmation(EndOfDay(e.received + 24)) \in DeadlineMention
    BY <1>1, EndOfDayNat, ConfirmationType
  <2>2. [Confirmation(EndOfDay(e.received + 24)) EXCEPT !.cue = "tomorrow"] \in DeadlineMention
    BY <2>1 DEF DeadlineMention
  <2>3. /\ Len(reread) \in Nat /\ DOMAIN reread = 1 .. Len(reread)
        /\ \A i \in DOMAIN reread : reread[i] \in DeadlineMention
    BY <1>2, Positions
  <2> DEFINE moved(i) == IF reread[i].cue = "tomorrow"
                         THEN [Confirmation(EndOfDay(e.received + 24)) EXCEPT !.cue = "tomorrow"]
                         ELSE reread[i]
  <2>4. \A i \in 1 .. Len(reread) : moved(i) \in DeadlineMention
    BY <2>2, <2>3
  <2>5. [i \in 1 .. Len(reread) |-> moved(i)] \in Seq(DeadlineMention)
    <3> HIDE DEF moved
    <3> QED
      BY <2>3, <2>4, IsASeq
  <2>6. Append(reread, Confirmation(EndOfDay(e.received + 24))) \in Seq(DeadlineMention)
    BY <1>2, <2>1, AppendElements
  <2> QED
    BY <1>2, <2>3, <2>5, <2>6 DEF WithTomorrow
<1>4. delivery \in Seq(DeadlineMention)
  <2> HIDE DEF tomorrow
  <2>1. CASE e.ist = None
    BY <1>3, <2>1
  <2>2. CASE e.ist # None
    <3>1. Confirmation(e.ist) \in DeadlineMention
      BY <1>1, <2>2, ConfirmationType DEF OrNone
    <3> QED
      BY <1>3, <2>2, <3>1, AppendElements
  <2> QED
    BY <2>1, <2>2
<1>5. WithFallback(delivery, e) \in Seq(DeadlineMention)
  <2> HIDE DEF delivery
  <2>1. e.board # None => Append(delivery, Confirmation(EndOfDay(e.board))) \in Seq(DeadlineMention)
    BY <1>1, <1>4, EndOfDayNat, ConfirmationType, AppendElements DEF OrNone
  <2>2. e.within # None => Append(delivery, Confirmation(e.received + e.within)) \in Seq(DeadlineMention)
    <3> SUFFICES ASSUME e.within # None
                 PROVE  Append(delivery, Confirmation(e.received + e.within)) \in Seq(DeadlineMention)
      OBVIOUS
    <3>1. e.received + e.within \in Nat
      BY <1>1 DEF OrNone
    <3> QED
      BY <3>1, <1>4, ConfirmationType, AppendElements
  <2> QED
    BY <1>4, <2>1, <2>2 DEF WithFallback
<1> QED
  BY <1>5 DEF Deadlines

LEMMA DeadlineAtType ==
    ASSUME NEW e \in ExtractedEmail
    PROVE  DeadlineAt(e) \in OrNone(Nat) /\ DayOf(DeadlineAt(e)) \in OrNone(Nat)
<1> DEFINE deadlines == Deadlines(e)
           actionable == {i \in DOMAIN deadlines : IsActionable(deadlines[i])}
<1>1. DeadlineAt(e) \in OrNone(Nat)
  <2>1. CASE actionable = {}
    BY <2>1 DEF DeadlineAt, OrNone
  <2>2. CASE actionable # {}
    <3>1. Len(deadlines) \in Nat /\ actionable \subseteq 1 .. Len(deadlines)
      BY DeadlinesType, Positions
    <3>2. Last(actionable) \in actionable
      BY <2>2, <3>1, LastMember
    <3>3. deadlines[Last(actionable)] \in DeadlineMention
      BY <3>2, DeadlinesType, Positions
    <3> QED
      BY <2>2, <3>3 DEF DeadlineAt, DeadlineMention
  <2> QED
    BY <2>1, <2>2
<1>2. DayOf(DeadlineAt(e)) \in OrNone(Nat)
  BY <1>1 DEF DayOf, OrNone
<1> QED
  BY <1>1, <1>2

-------------------------------------------------------------------------------
(* What the rules return *)

LEMMA ConfidenceType ==
    ASSUME NEW e \in ExtractedEmail, NEW a \in Assignee, NEW hard \in BOOLEAN
    PROVE  /\ Confidence(e, a, hard) \in 50 .. 980
           /\ a = "triage" => Confidence(e, a, hard) <= 540
<1>1. PICK c : c \in Int /\ Confidence(e, a, hard) = Bounded(c, a)
  <2> DEFINE triage == a = "triage"
             base ==
               IF triage /\ MultipleAsks(e) THEN 420
               ELSE IF SkipReason(e) THEN 960
               ELSE IF triage THEN 450
               ELSE IF hard THEN 920
               ELSE IF \E i \in DOMAIN Amounts(e) : Amounts(e)[i].role = "deal_budget" THEN 880
               ELSE IF a = "rohit" THEN 800
               ELSE 840
             evidence == Len(Amounts(e)) + Len(Deadlines(e)) + (IF e.evidence THEN 1 ELSE 0)
             weighed == base
                          + (IF evidence >= 2 THEN 30 ELSE 0)
                          + (IF a \in e.hints THEN 20 ELSE 0)
                          - (IF e.truncated THEN 80 ELSE 0)
                          - (IF MultipleAsks(e) /\ ~triage THEN 180 ELSE 0)
             degraded == IF ~e.degraded THEN weighed
                         ELSE AtMost(weighed - 200, IF hard THEN 650 ELSE 300)
  <2>1. base \in Int
    OBVIOUS
  <2>2. weighed \in Int
    <3> HIDE DEF base, evidence
    <3> QED
      BY <2>1
  <2>3. degraded \in Int
    <3> HIDE DEF weighed
    <3> QED
      BY <2>2 DEF AtMost
  <2>4. Confidence(e, a, hard) = Bounded(degraded, a)
    BY Zenon DEF Confidence
  <2> HIDE DEF degraded
  <2> QED
    BY <2>3, <2>4
<1> QED
  BY <1>1 DEF Bounded, AtMost, AtLeast

LEMMA OwnerType ==
    ASSUME NEW e, NEW v PROVE Owner(e, v) \in Assignee
  BY DEF Owner, BySize, Assignee

LEMMA FreshType ==
    ASSUME NEW e \in ExtractedEmail
    PROVE  /\ Fresh(e).assignee \in Assignee
           /\ Fresh(e).value \in OrNone(Nat)
           /\ Fresh(e).value \in StatedAmounts(e) \cup {None}
           /\ Fresh(e).hard \in BOOLEAN
<1>1. Fresh(e).assignee \in Assignee
  BY OwnerType DEF Fresh, Assignee
<1>2. Fresh(e).value \in {None, SelectValue(e)}
  BY DEF Fresh
<1>3. Fresh(e).hard \in BOOLEAN
  BY DEF Fresh, HardRule, Unclear
<1> QED
  BY <1>1, <1>2, <1>3, SelectedIsStated DEF OrNone

LEMMA CategoryType ==
    ASSUME NEW a \in Assignee PROVE CategoryOf[a] \in Category
  BY DEF Category

LEMMA PriorityType == ASSUME NEW e PROVE Priority(e) \in {"high", "medium", "low"}
  BY DEF Priority

LEMMA NewTaskType ==
    ASSUME NEW e \in ExtractedEmail
    PROVE  /\ NewTask(e) \in Task
           /\ NewTask(e).category = CategoryOf[NewTask(e).assignee]
           /\ NewTask(e).value \in StatedAmounts(e) \cup {None}
           /\ NewTask(e).assignee = "triage" => NewTask(e).confidence <= 540
  BY FreshType, ConfidenceType, CategoryType, PriorityType, DeadlineAtType
     DEF NewTask, Task

\* The merged owner is the prior one, the fresh one or by size.
LEMMA MergedOwnerType ==
    ASSUME NEW e \in ExtractedEmail, NEW t \in Task
    PROVE  /\ MergedOwner(e, t).assignee \in Assignee
           /\ MergedOwner(e, t).category \in Category
           /\ t.category = CategoryOf[t.assignee] =>
                MergedOwner(e, t).category = CategoryOf[MergedOwner(e, t).assignee]
<1>1. \A v : BySize(v) \in Assignee
  BY DEF BySize, Assignee
<1>2. t.assignee \in Assignee /\ t.category \in Category
  BY DEF Task
<1> QED
  BY <1>1, <1>2, FreshType, CategoryType DEF MergedOwner

LEMMA MergedValueType ==
    ASSUME NEW e \in ExtractedEmail, NEW t \in Task
    PROVE  /\ MergedValue(e, t) \in OrNone(Nat)
           /\ MergedValue(e, t) \in StatedAmounts(e) \cup {None, t.value}
<1>1. e.value \in FieldChange /\ t.value \in OrNone(Nat)
  BY DEF ExtractedEmail, Task
<1>2. e.value.action = "set" => e.value.value \in StatedAmounts(e) \cup {None}
  BY Zenon DEF StatedAmounts
<1> QED
  BY <1>1, <1>2, FreshType DEF MergedValue, FieldChange, OrNone

LEMMA MergedDueType ==
    ASSUME NEW e \in ExtractedEmail, NEW t \in Task
    PROVE  MergedDue(e, t).due \in OrNone(Nat) /\ MergedDue(e, t).priority \in {"high", "medium", "low"}
<1>1. e.due \in FieldChange /\ t.due \in OrNone(Nat) /\ t.priority \in {"high", "medium", "low"}
  BY DEF ExtractedEmail, Task
<1> QED
  BY <1>1, PriorityType, DeadlineAtType DEF MergedDue, FieldChange, OrNone

LEMMA MergedType ==
    ASSUME NEW e \in ExtractedEmail, NEW t \in Task
    PROVE  /\ Merged(e, t) \in Task
           /\ t.category = CategoryOf[t.assignee] =>
                Merged(e, t).category = CategoryOf[Merged(e, t).assignee]
           /\ Merged(e, t).value \in StatedAmounts(e) \cup {None, t.value}
           /\ Merged(e, t).assignee = "triage" /\ Intents(e) # {} => Merged(e, t).confidence <= 540
<1> DEFINE c == Confidence(e, MergedOwner(e, t).assignee, Fresh(e).hard)
           confidence == IF Intents(e) # {} THEN c ELSE AtLeast(c, t.confidence)
<1>1. c \in 50 .. 980 /\ (MergedOwner(e, t).assignee = "triage" => c <= 540)
  BY MergedOwnerType, FreshType, ConfidenceType
<1>2. t.confidence \in 50 .. 980
  BY DEF Task
<1>3. confidence \in 50 .. 980
  <2> HIDE DEF c
  <2> QED
    BY <1>1, <1>2 DEF AtLeast
<1>4. Merged(e, t) = [assignee |-> MergedOwner(e, t).assignee, category |-> MergedOwner(e, t).category,
                      priority |-> MergedDue(e, t).priority, due |-> MergedDue(e, t).due,
                      value |-> MergedValue(e, t), confidence |-> confidence]
  BY Zenon DEF Merged
<1>5. Intents(e) # {} => confidence = c
  OBVIOUS
<1> HIDE DEF c, confidence
<1>6. Merged(e, t) \in Task
  BY <1>3, <1>4, MergedOwnerType, MergedValueType, MergedDueType DEF Task
<1> QED
  BY <1>1, <1>4, <1>5, <1>6, MergedOwnerType, MergedValueType

-------------------------------------------------------------------------------
(* A thread *)

\* The three invariants are inductive together: a merge keeps the prior task's
\* category and amount.
RInv == TypeOK /\ OwnerHasCategory /\ ValueWasStated

LEMMA InitRInv == Init => RInv
  BY DEF Init, RInv, TypeOK, OwnerHasCategory, ValueWasStated, OrNone

\* An e-mail that is being routed is one of Email, and a prior task is a task.
LEMMA Routed ==
    ASSUME RInv, Route
    PROVE  /\ email \in ExtractedEmail
           /\ prior # None => prior \in Task
           /\ prior' = IF prior = None THEN NewTask(email) ELSE Merged(email, prior)
           /\ prior' \in Task
  BY EmailAssumption, NewTaskType, MergedType DEF RInv, TypeOK, OrNone, Route

LEMMA StatedType ==
    ASSUME NEW e \in ExtractedEmail PROVE StatedAmounts(e) \subseteq OrNone(Nat)
<1> SUFFICES ASSUME NEW v \in StatedAmounts(e) PROVE v \in OrNone(Nat)
  OBVIOUS
<1>1. \/ \E i \in DOMAIN e.amounts : v = e.amounts[i].value
      \/ e.written # None /\ v = e.written.value
      \/ v = e.value.value
  BY Zenon DEF StatedAmounts
<1>2. CASE \E i \in DOMAIN e.amounts : v = e.amounts[i].value
  <2>1. e.amounts \in Seq(AmountMention)
    BY DEF ExtractedEmail
  <2>2. PICK i \in DOMAIN e.amounts : v = e.amounts[i].value
    BY <1>2
  <2>3. e.amounts[i] \in AmountMention
    BY <2>1, Positions
  <2> QED
    BY <2>2, <2>3 DEF AmountMention
<1>3. CASE e.written # None /\ v = e.written.value
  <2>1. e.written \in OrNone([value : Nat, context : AmountRole \cup {"plain"}])
    BY DEF ExtractedEmail
  <2> QED
    BY <1>3, <2>1 DEF OrNone
<1>4. CASE v = e.value.value
  <2>1. e.value \in FieldChange
    BY DEF ExtractedEmail
  <2> QED
    BY <1>4, <2>1 DEF FieldChange
<1> QED
  BY <1>1, <1>2, <1>3, <1>4

LEMMA RouteRInv == RInv /\ Route => RInv'
<1> SUFFICES ASSUME RInv, Route PROVE RInv'
  OBVIOUS
<1>1. TypeOK'
  <2>1. stated' \subseteq OrNone(Nat)
    BY Routed, StatedType DEF RInv, TypeOK, Route
  <2> QED
    BY <2>1, Routed DEF RInv, TypeOK, OrNone, Route, Operation
<1>2. OwnerHasCategory'
  <2>1. CASE prior = None
    BY <2>1, Routed, NewTaskType DEF OwnerHasCategory
  <2>2. CASE prior # None
    BY <2>2, Routed, MergedType DEF RInv, OwnerHasCategory
  <2> QED
    BY <2>1, <2>2
<1>3. ValueWasStated'
  <2>1. stated' = stated \cup StatedAmounts(email)
    BY DEF Route
  <2>2. CASE prior = None
    BY <2>1, <2>2, Routed, NewTaskType DEF ValueWasStated
  <2>3. CASE prior # None
    BY <2>1, <2>3, Routed, MergedType DEF RInv, ValueWasStated
  <2> QED
    BY <2>2, <2>3
<1> QED
  BY <1>1, <1>2, <1>3 DEF RInv

LEMMA NextRInv == RInv /\ [Next]_vars => RInv'
<1> SUFFICES ASSUME RInv, [Next]_vars PROVE RInv'
  OBVIOUS
<1> USE DEF RInv, TypeOK, OwnerHasCategory, ValueWasStated, OrNone
<1>1. CASE Receive
  BY <1>1 DEF Receive
<1>2. CASE Dismiss
  BY <1>2 DEF Dismiss, Operation
<1>3. CASE Route
  BY <1>3, RouteRInv
<1>4. CASE Delete
  BY <1>4 DEF Delete
<1>5. CASE UNCHANGED vars
  BY <1>5 DEF vars
<1> QED
  BY <1>1, <1>2, <1>3, <1>4, <1>5 DEF Next

LEMMA AlwaysRInv == Spec => []RInv
  BY InitRInv, NextRInv, PTL DEF Spec

\* A step after which a task has come of the e-mail is a step of Route.
LEMMA StepIsRoute == ASSUME [Next]_vars, IsRouted PROVE Route
<1>1. CASE Receive
  BY <1>1 DEF Receive, IsRouted
<1>2. CASE Dismiss
  BY <1>2 DEF Dismiss, IsRouted
<1>3. CASE Delete
  BY <1>3 DEF Delete, IsRouted
<1>4. CASE UNCHANGED vars
  BY <1>4 DEF vars, IsRouted
<1> QED
  BY <1>1, <1>2, <1>3, <1>4 DEF Next

\* For any e-mails, in any order and number: route_email makes tasks of the right type,
\* with a confidence between the bounds of calculate_confidence.
THEOREM TypeCorrect == Spec => []TypeOK
<1>1. RInv => TypeOK
  BY DEF RInv
<1> QED
  BY <1>1, AlwaysRInv, PTL

\* For any e-mails, in any order and number: a task has its owner's category.
THEOREM Consistent == Spec => []OwnerHasCategory
<1>1. RInv => OwnerHasCategory
  BY DEF RInv
<1> QED
  BY <1>1, AlwaysRInv, PTL

\* For any e-mails, in any order and number: a task's amount was stated for its deal.
THEOREM Stated == Spec => []ValueWasStated
<1>1. RInv => ValueWasStated
  BY DEF RInv
<1> QED
  BY <1>1, AlwaysRInv, PTL

\* For any e-mails: what needs a human is routed with a confidence of 0.54 at most.
THEOREM Uncertain == Spec => TriageIsUncertain
<1> DEFINE A == IsRouted /\ prior'.assignee = "triage" /\ (prior = None \/ Intents(email) # {})
                => prior'.confidence <= 540
<1>1. RInv /\ [Next]_vars => [A]_vars
  <2> SUFFICES ASSUME RInv, [Next]_vars, IsRouted, prior'.assignee = "triage", prior = None \/ Intents(email) # {}
               PROVE  prior'.confidence <= 540
    OBVIOUS
  <2>. Route
    BY StepIsRoute
  <2>1. CASE prior = None
    BY <2>1, Routed, NewTaskType
  <2>2. CASE prior # None
    BY <2>2, Routed, MergedType
  <2> QED
    BY <2>1, <2>2
<1> QED
  BY <1>1, AlwaysRInv, PTL DEF Spec, TriageIsUncertain

\* For any e-mails: a last deadline within 72 hours makes the task one of high priority.
THEOREM NearIsHigh == Spec => NearDeadlineIsHigh
<1> DEFINE A == IsRouted /\ Within72(email, DeadlineAt(email)) => prior'.priority = "high"
<1>1. RInv /\ [Next]_vars => [A]_vars
  <2> SUFFICES ASSUME RInv, [Next]_vars, IsRouted, Within72(email, DeadlineAt(email))
               PROVE  prior'.priority = "high"
    OBVIOUS
  <2>. Route
    BY StepIsRoute
  <2>1. Priority(email) = "high" /\ DeadlineAt(email) # None
    BY DEF Priority, Within72
  <2>2. CASE prior = None
    BY <2>1, <2>2, Routed DEF NewTask
  <2>3. CASE prior # None
    <3>1. prior'.priority = MergedDue(email, prior).priority
      BY <2>3, Routed DEF Merged
    <3>2. MergedDue(email, prior).priority = Priority(email)
      BY <2>1 DEF MergedDue
    <3> QED
      BY <2>1, <3>1, <3>2
  <2> QED
    BY <2>2, <2>3
<1> QED
  BY <1>1, AlwaysRInv, PTL DEF Spec, NearDeadlineIsHigh

\* For any e-mails: an amount in a reply moves tasks of sales only.
THEOREM SalesOnly == Spec => AmountsMoveSalesOnly
<1> DEFINE A == IsRouted /\ prior # None /\ prior'.assignee # prior.assignee =>
                  \/ email.route \/ "range across the threshold" \in email.said
                  \/ prior.category \in Sales
<1>1. RInv /\ [Next]_vars => [A]_vars
  <2> SUFFICES ASSUME RInv, [Next]_vars, IsRouted, prior # None, prior'.assignee # prior.assignee,
                      ~email.route, "range across the threshold" \notin email.said
               PROVE  prior.category \in Sales
    OBVIOUS
  <2>. Route
    BY StepIsRoute
  <2>1. MergedOwner(email, prior).assignee # prior.assignee
    <3>1. prior' = Merged(email, prior)
      BY Routed
    <3>2. Merged(email, prior).assignee = MergedOwner(email, prior).assignee
      BY DEF Merged
    <3> QED
      BY <3>1, <3>2
  <2>2. SalesValueChange(email, prior)
    BY <2>1 DEF MergedOwner
  <2> QED
    BY <2>2 DEF SalesValueChange
<1> QED
  BY <1>1, AlwaysRInv, PTL DEF Spec, AmountsMoveSalesOnly

\* What a silent e-mail leaves nothing to select: no amount and no deadline.
LEMMA SilentSaysNothing ==
    ASSUME NEW e \in ExtractedEmail, Silent(e)
    PROVE  Fresh(e).value = None /\ DeadlineAt(e) = None
<1>1. Fresh(e).value = None
  BY FreshType DEF Silent
<1>2. Deadlines(e) = <<>>
  <2>1. e.deadlines = <<>>
    BY DEF Silent
  <2>2. [i \in DOMAIN e.deadlines |-> Reread(e.deadlines[i], e)] = <<>>
    BY <2>1
  <2>3. WithTomorrow(<<>>, e) = <<>>
    BY DEF WithTomorrow, Silent
  <2>4. WithFallback(<<>>, e) = <<>>
    BY DEF WithFallback, Silent
  <2> QED
    BY <2>2, <2>3, <2>4 DEF Deadlines, Silent
<1>3. DeadlineAt(e) = None
  BY <1>2 DEF DeadlineAt
<1> QED
  BY <1>1, <1>3

\* For any e-mails: a reply without evidence preserves what the task was.
THEOREM Preserved == Spec => PriorKept
<1> DEFINE A == IsRouted /\ prior # None /\ Silent(email) =>
                  \A f \in {"assignee", "category", "value", "due", "priority"} :
                      prior'[f] = prior[f]
<1>1. RInv /\ [Next]_vars => [A]_vars
  <2> SUFFICES ASSUME RInv, [Next]_vars, IsRouted, prior # None, Silent(email)
               PROVE  \A f \in {"assignee", "category", "value", "due", "priority"} :
                          prior'[f] = prior[f]
    OBVIOUS
  <2>. Route
    BY StepIsRoute
  <2>1. Fresh(email).value = None /\ DeadlineAt(email) = None
    BY Routed, SilentSaysNothing
  <2>2. ~SalesValueChange(email, prior)
    BY <2>1 DEF SalesValueChange, Silent
  <2>3. /\ MergedOwner(email, prior).assignee = prior.assignee
        /\ MergedOwner(email, prior).category = prior.category
    BY <2>2 DEF MergedOwner, Silent, Unclear
  <2>4. MergedValue(email, prior) = prior.value
    BY <2>1 DEF MergedValue, Silent
  <2>5. /\ MergedDue(email, prior).due = prior.due
        /\ MergedDue(email, prior).priority = prior.priority
    BY <2>1 DEF MergedDue, Silent
  <2> QED
    BY <2>3, <2>4, <2>5, Routed DEF Merged
<1> QED
  BY <1>1, AlwaysRInv, PTL DEF Spec, PriorKept

-------------------------------------------------------------------------------
(* Without the model *)

LEMMA SaidInType ==
    ASSUME NEW t
    PROVE  SaidIn(t) \subseteq Phrase
BY DEF SaidIn, Phrase

LEMMA IntentsInType ==
    ASSUME NEW t
    PROVE  IntentsIn(t) \subseteq DOMAIN OwnerOf
<1> DEFINE f == FoundIn(t)
<1>1. f \cap {"formal_rfp", "tender", "finance_invoice", "pr_media"} \subseteq DOMAIN OwnerOf
  BY DEF OwnerOf
<1>2. {"reseller" : x \in f \cap (IF "no reseller" \in f THEN {"alliance"}
                                       ELSE {"alliance", "reseller"})} \subseteq DOMAIN OwnerOf
  BY DEF OwnerOf
<1>3. (IF "demo" \in f THEN {"demo_request"}
           ELSE IF "purchase" \in f THEN {"direct_purchase"} ELSE {}) \subseteq DOMAIN OwnerOf
  BY DEF OwnerOf
<1> QED
  BY <1>1, <1>2, <1>3 DEF IntentsIn

LEMMA OwnersInType ==
    ASSUME NEW t
    PROVE  OwnersIn(t) \subseteq Assignee
<1>1. \A i \in DOMAIN OwnerOf : OwnerOf[i] \in Assignee
  BY DEF OwnerOf, Assignee
<1> QED
  BY <1>1, IntentsInType DEF OwnersIn

LEMMA AmountsInType ==
    ASSUME NEW t \in Text
    PROVE  AmountsIn(t) \in Seq(AmountMention)
<1>1. CASE t.amount = None
  BY <1>1 DEF AmountsIn
<1>2. CASE t.amount # None
  <2>1. t.amount \in Amount
    BY <1>2, TextAssumption DEF OrNone
  <2>2. t.amount.value \in Nat /\ t.amount.context \in AmountRole \cup {"plain"}
    BY <2>1 DEF Amount
  <2> DEFINE a == [value |-> t.amount.value, inr |-> TRUE,
            role |-> IF t.amount.spelled \/ t.amount.context = "plain" THEN "deal_budget"
                     ELSE t.amount.context]
  <2>3. a \in AmountMention
    BY <2>2 DEF AmountMention, AmountRole, OrNone
  <2> QED
    BY <1>2, <2>3 DEF AmountsIn
<1> QED
  BY <1>1, <1>2

LEMMA AtOfType ==
    ASSUME NEW t \in Text, t.when # None
    PROVE  t.when \in Time /\ t.when.at \in Nat /\ AtOf(t.when) \in Nat
<1>1. t.when \in Time
  BY TextAssumption DEF OrNone
<1>2. t.when.at \in Nat
  BY <1>1 DEF Time
<1>3. EndOfDay(t.when.at) \in Nat
  <2>1. \A n \in Nat : n \div 24 \in Nat
    OBVIOUS
  <2>2. 24 * (t.when.at \div 24) + 23 \in Nat
    BY <1>2, <2>1
  <2> QED
    BY <2>2 DEF EndOfDay
<1>4. AtOf(t.when) = t.when.at \/ AtOf(t.when) = EndOfDay(t.when.at)
  BY DEF AtOf
<1> QED
  BY <1>1, <1>2, <1>3, <1>4

LEMMA DeadlinesInType ==
    ASSUME NEW t \in Text
    PROVE  DeadlinesIn(t) \in Seq(DeadlineMention)
<1>1. CASE t.when = None \/ (t.when.kind # "board review" /\ "deadline" \notin FoundIn(t))
  <2>1. DeadlinesIn(t) = <<>>
    BY <1>1, Zenon DEF DeadlinesIn
  <2> QED
    BY <2>1
<1>2. CASE ~(t.when = None \/ (t.when.kind # "board review" /\ "deadline" \notin FoundIn(t)))
  <2> DEFINE c == IF t.when.kind \in {"tomorrow", "tomorrow eod"} THEN "tomorrow"
                  ELSE IF t.when.kind = "board review" THEN "board review" ELSE "none"
             d == [at |-> AtOf(t.when), role |-> "confirmation", cue |-> c]
  <2>1. d \in DeadlineMention
    <3>1. AtOf(t.when) \in OrNone(Nat)
      BY <1>2, AtOfType DEF OrNone
    <3>2. c \in {"none", "tomorrow", "board review", "send it before"}
      OBVIOUS
    <3> HIDE DEF c
    <3> QED
      BY <3>1, <3>2 DEF DeadlineMention
  <2>2. DeadlinesIn(t) = <<d>>
    BY <1>2, Zenon DEF DeadlinesIn
  <2> HIDE DEF d
  <2> QED
    BY <2>1, <2>2
<1> QED
  BY <1>1, <1>2

LEMMA BlankType ==
    ASSUME NEW t \in Text
    PROVE  Blank(t) \in ExtractedEmail
<1> DEFINE written == IF t.amount = None THEN None
                 ELSE IF t.amount.spelled THEN None
                 ELSE [value |-> t.amount.value, context |-> t.amount.context]
<1>1. written \in OrNone([value : Nat, context : AmountRole \cup {"plain"}])
  <2>1. t.amount # None => t.amount \in Amount
    BY TextAssumption DEF OrNone
  <2> QED
    BY <2>1 DEF OrNone, Amount
<1>2. (IF t.when # None /\ t.when.kind = "board review" THEN t.when.at ELSE None) \in OrNone(Nat)
  BY AtOfType DEF OrNone
<1>3. (IF t.when # None /\ t.when.kind = "within" THEN t.when.at ELSE None) \in OrNone(Nat)
  BY AtOfType DEF OrNone
<1>4. [action |-> "unchanged", value |-> None] \in FieldChange
  BY DEF FieldChange, OrNone
<1>5. SaidIn(t) \in SUBSET Phrase
  BY SaidInType
<1>6. {} \in SUBSET Intent /\ {} \in SUBSET Assignee /\ <<>> \in Seq(AmountMention)
      /\ <<>> \in Seq(DeadlineMention) /\ None \in OrNone(Nat)
  BY DEF OrNone
<1> HIDE DEF written
<1> QED
  BY <1>1, <1>2, <1>3, <1>4, <1>5, <1>6 DEF Blank, ExtractedEmail, written

\* What ingest hands to route_email without the model is of the kind that the model
\* gives (heuristic_extract): what is proved for all e-mails is proved for these.
THEOREM PreparedType == \A t \in Text : Prepared(t) \subseteq ExtractedEmail
<1> SUFFICES ASSUME NEW t \in Text PROVE Prepared(t) \subseteq ExtractedEmail
  OBVIOUS
<1>1. Blank(t) \in ExtractedEmail
  BY BlankType
<1>2. HeuristicExtract(t) \in ExtractedEmail
  <2>1. IntentsIn(t) \in SUBSET Intent
    BY IntentsInType DEF OwnerOf, Intent, Formal, Direct
  <2>2. /\ AmountsIn(t) \in Seq(AmountMention) /\ DeadlinesIn(t) \in Seq(DeadlineMention)
        /\ OwnersIn(t) \in SUBSET Assignee
    BY AmountsInType, DeadlinesInType, OwnersInType
  <2>3. Material(t) \in BOOLEAN
    BY DEF Material
  <2>4. UrgencyIn(t) \in {"explicit_low", "normal", "urgent", "overdue"}
    BY DEF UrgencyIn
  <2> DEFINE a == IF Material(t) \/ IntentsIn(t) = {} THEN "ambiguous" ELSE "actionable"
             p == "psu" \in FoundIn(t)
             q == "company" \in FoundIn(t)
  <2>7. HeuristicExtract(t) =
          [Blank(t) EXCEPT !.actionability = a, !.intents = IntentsIn(t), !.multi = Material(t),
                           !.psu = p, !.amounts = AmountsIn(t), !.deadlines = DeadlinesIn(t),
                           !.urgency = UrgencyIn(t), !.evidence = q, !.hints = OwnersIn(t)]
    BY Zenon DEF HeuristicExtract
  <2> HIDE DEF a, p, q
  <2>8. /\ a \in {"actionable", "ambiguous", "non_actionable"}
        /\ p \in BOOLEAN /\ q \in BOOLEAN
    BY DEF a, p, q
  <2>9. PICK e, i, m, am, de, u, h :
          /\ e = Blank(t) /\ i = IntentsIn(t) /\ m = Material(t) /\ am = AmountsIn(t)
          /\ de = DeadlinesIn(t) /\ u = UrgencyIn(t) /\ h = OwnersIn(t)
    OBVIOUS
  <2>10. /\ e \in ExtractedEmail /\ i \in SUBSET Intent /\ m \in BOOLEAN
         /\ am \in Seq(AmountMention) /\ de \in Seq(DeadlineMention)
         /\ u \in {"explicit_low", "normal", "urgent", "overdue"} /\ h \in SUBSET Assignee
    BY <1>1, <2>1, <2>2, <2>3, <2>4, <2>9
  <2>11. [e EXCEPT !.actionability = a, !.intents = i, !.multi = m, !.psu = p,
                   !.amounts = am, !.deadlines = de, !.urgency = u,
                   !.evidence = q, !.hints = h] \in ExtractedEmail
    <3> DEFINE e1 == [e EXCEPT !.actionability = a, !.intents = i, !.multi = m, !.psu = p]
               e2 == [e1 EXCEPT !.amounts = am, !.deadlines = de, !.urgency = u]
               e3 == [e2 EXCEPT !.evidence = q, !.hints = h]
    <3>1. e1 \in ExtractedEmail
      BY <2>8, <2>10 DEF ExtractedEmail
    <3>2. e2 \in ExtractedEmail
      <4> HIDE DEF e1
      <4> QED
        BY <2>10, <3>1 DEF ExtractedEmail
    <3>3. e3 \in ExtractedEmail
      <4> HIDE DEF e2
      <4> QED
        BY <2>8, <2>10, <3>2 DEF ExtractedEmail
    <3> QED
      BY <3>3
  <2> QED
    BY <2>7, <2>9, <2>11
<1>3. \A d \in BOOLEAN :
          [Blank(t) EXCEPT !.actionability = "non_actionable", !.skip = Suppressed(t),
                           !.degraded = d] \in ExtractedEmail
  <2>1. Suppressed(t) \in BOOLEAN
    BY DEF Suppressed
  <2> QED
    BY <1>1, <2>1 DEF ExtractedEmail
<1> QED
  BY <1>2, <1>3 DEF Prepared

LEMMA FirstMember ==
    ASSUME NEW J \in SUBSET Nat, J # {}
    PROVE  Min(J) \in J /\ \A j \in J : Min(J) <= j
<1>1. PICK n \in J : \A j \in J : ~(<<j, n>> \in OpToRel(<, Nat))
  BY WFMin, NatLessThanWellFounded
<1>2. \A j \in J : n <= j
  <2> TAKE j \in J
  <2>1. j \in Nat /\ n \in Nat
    OBVIOUS
  <2>2. ~(j < n)
    BY <1>1, <2>1 DEF OpToRel
  <2> QED
    BY <2>1, <2>2
<1>3. PICK k : k = CHOOSE x \in J : \A j \in J : x <= j
  OBVIOUS
<1>4. k \in J /\ \A j \in J : k <= j
  BY <1>2, <1>3
<1> QED
  BY <1>3, <1>4 DEF Min

\* The only words for these phrases; no word says the last two.
LEMMA SaysWhere ==
    ASSUME NEW w \in DOMAIN Says
    PROVE  /\ "media roundtable" \in Says[w] => w = "media_roundtable"
           /\ "award nomination" \in Says[w] => w = "award_nomination"
           /\ "product chahiye" \in Says[w] => w = "product_chahiye"
           /\ "range across the threshold" \notin Says[w]
           /\ "explicit ambiguity" \notin Says[w]
<1> DEFINE Rare == {"media roundtable", "award nomination", "product chahiye",
                    "range across the threshold", "explicit ambiguity"}
<1>1. \A x \in {"out_of_office", "undeliverable", "newsletter", "unsubscribe",
                "sponsor_your_newsletter", "for_our_team"} :
         Says[x] \cap Rare = {}
  <2>1. /\ Says["out_of_office"] \cap Rare = {}
        /\ Says["undeliverable"] \cap Rare = {}
        /\ Says["newsletter"] \cap Rare = {}
        /\ Says["unsubscribe"] \cap Rare = {}
        /\ Says["sponsor_your_newsletter"] \cap Rare = {}
        /\ Says["for_our_team"] \cap Rare = {}
    BY SMTT(30) DEF Says
  <2> QED
    BY <2>1
<1>2. \A x \in {"co_host", "also_want", "we_offer_content_marketing", "not_ranking_on_page_one",
                "pricing_request", "rfp"} :
         Says[x] \cap Rare = {}
  <2>1. /\ Says["co_host"] \cap Rare = {}
        /\ Says["also_want"] \cap Rare = {}
        /\ Says["we_offer_content_marketing"] \cap Rare = {}
        /\ Says["not_ranking_on_page_one"] \cap Rare = {}
        /\ Says["pricing_request"] \cap Rare = {}
        /\ Says["rfp"] \cap Rare = {}
    BY SMTT(30) DEF Says
  <2> QED
    BY <2>1
<1>3. \A x \in {"tender", "invoice", "overdue", "purchase_order", "immediately", "reseller"} :
         Says[x] \cap Rare = {}
  <2>1. /\ Says["tender"] \cap Rare = {}
        /\ Says["invoice"] \cap Rare = {}
        /\ Says["overdue"] \cap Rare = {}
        /\ Says["purchase_order"] \cap Rare = {}
        /\ Says["immediately"] \cap Rare = {}
        /\ Says["reseller"] \cap Rare = {}
    BY SMTT(30) DEF Says
  <2> QED
    BY <2>1
<1>4. \A x \in {"not_a_reseller", "oem", "demo", "quote", "psu", "limited"} :
         Says[x] \cap Rare = {}
  <2>1. /\ Says["not_a_reseller"] \cap Rare = {}
        /\ Says["oem"] \cap Rare = {}
        /\ Says["demo"] \cap Rare = {}
        /\ Says["quote"] \cap Rare = {}
        /\ Says["psu"] \cap Rare = {}
        /\ Says["limited"] \cap Rare = {}
    BY SMTT(30) DEF Says
  <2> QED
    BY <2>1
<1>5. \A x \in {"submit", "no_rush", "forwarded"} :
         Says[x] \cap Rare = {}
  <2>1. /\ Says["submit"] \cap Rare = {}
        /\ Says["no_rush"] \cap Rare = {}
        /\ Says["forwarded"] \cap Rare = {}
    BY SMTT(30) DEF Says
  <2> QED
    BY <2>1
<1>6. /\ Says["media_roundtable"] \cap Rare = {"media roundtable"}
      /\ Says["award_nomination"] \cap Rare = {"award nomination"}
      /\ Says["product_chahiye"] \cap Rare = {"product chahiye"}
  BY SMTT(30) DEF Says
<1>7. \/ w \in {"media_roundtable", "award_nomination", "product_chahiye"}
      \/ w \in {"out_of_office", "undeliverable", "newsletter", "unsubscribe",
                 "sponsor_your_newsletter", "for_our_team"}
      \/ w \in {"co_host", "also_want", "we_offer_content_marketing", "not_ranking_on_page_one",
                 "pricing_request", "rfp"}
      \/ w \in {"tender", "invoice", "overdue", "purchase_order", "immediately", "reseller"}
      \/ w \in {"not_a_reseller", "oem", "demo", "quote", "psu", "limited"}
      \/ w \in {"submit", "no_rush", "forwarded"}
  BY SMTT(30) DEF Says
<1>8. \/ Says[w] \cap Rare = {}
      \/ w \in {"media_roundtable", "award_nomination", "product_chahiye"}
  <2> HIDE DEF Rare
  <2> QED
    BY <1>1, <1>2, <1>3, <1>4, <1>5, <1>7
<1>9. CASE Says[w] \cap Rare = {}
  BY <1>9
<1>10. CASE w \in {"media_roundtable", "award_nomination", "product_chahiye"}
  <2>1. \E m : /\ Says[w] \cap Rare = {m}
               /\ \/ m = "media roundtable" /\ w = "media_roundtable"
                  \/ m = "award nomination" /\ w = "award_nomination"
                  \/ m = "product chahiye" /\ w = "product_chahiye"
    <3> HIDE DEF Rare
    <3> QED
      BY <1>6, <1>10
  <2>2. \A m, x : Says[w] \cap Rare = {m} /\ x \in Rare /\ x \in Says[w] => x = m
    <3> HIDE DEF Rare
    <3> QED
      OBVIOUS
  <2> QED
    BY <2>1, <2>2
<1> QED
  BY <1>8, <1>9, <1>10

LEMMA TextType ==
    ASSUME NEW t \in Text
    PROVE  /\ t.subject \subseteq DOMAIN Says
           /\ Len(t.body) \in Nat /\ DOMAIN t.body = 1 .. Len(t.body)
           /\ \A i \in DOMAIN t.body :
                 /\ t.body[i].words \subseteq DOMAIN Says \cup {"thanks"}
                 /\ t.body[i].angled => t.body[i].mark = "none"
<1>1. t.subject \subseteq DOMAIN Says /\ t.body \in Seq(Part)
  BY TextAssumption
<1>2. /\ Len(t.body) \in Nat /\ DOMAIN t.body = 1 .. Len(t.body)
      /\ \A i \in DOMAIN t.body : t.body[i] \in Part
  BY <1>1, Positions
<1> QED
  BY <1>1, <1>2 DEF Part

LEMMA ReplyWords ==
    ASSUME NEW t \in Text
    PROVE  LatestReply(t) \subseteq DOMAIN Says \cup {"thanks"}
<1> DEFINE parts == t.body
           IsCut(i) ==
               /\ i > 1 /\ parts[i].mark # "none"
               /\ "forwarded" \notin parts[i - 1].words
               /\ \A j \in 1 .. i - 1 : parts[j].mark # parts[i].mark
           cuts == {i \in DOMAIN parts : IsCut(i)}
           kept == IF ~t.reply THEN DOMAIN parts
                   ELSE IF cuts # {} THEN 1 .. Min(cuts) - 1
                   ELSE {i \in DOMAIN parts : ~parts[i].angled}
<1>1. LatestReply(t) = Words({parts[i] : i \in kept})
  BY Zenon DEF LatestReply
<1>2. kept \subseteq DOMAIN parts
  <2>1. cuts \subseteq 1 .. Len(parts) /\ Len(parts) \in Nat /\ DOMAIN parts = 1 .. Len(parts)
    BY TextType
  <2> HIDE DEF cuts
  <2>2. PICK n : n = Min(cuts)
    OBVIOUS
  <2>3. cuts # {} => n \in cuts
    BY <2>1, <2>2, FirstMember
  <2>4. ASSUME cuts # {} PROVE 1 .. n - 1 \subseteq DOMAIN parts
    <3> HIDE DEF parts
    <3>1. n \in 1 .. Len(parts)
      BY <2>1, <2>3, <2>4
    <3> QED
      BY <2>1, <3>1
  <2>5. cuts # {} => 1 .. Min(cuts) - 1 \subseteq DOMAIN parts
    BY <2>2, <2>4
  <2>6. {i \in DOMAIN parts : ~parts[i].angled} \subseteq DOMAIN parts
    OBVIOUS
  <2> HIDE DEF parts
  <2> QED
    BY <2>5, <2>6
<1> HIDE DEF kept
<1> QED
  BY <1>1, <1>2, TextType DEF Words

\* What a text is found to say is said by one of its words.
LEMMA FoundWhere ==
    ASSUME NEW t \in Text, NEW x \in FoundIn(t)
    PROVE  \E w \in DOMAIN Says : w \in t.subject \cup LatestReply(t) /\ x \in Says[w]
BY ReplyWords, TextType DEF FoundIn, Found

LEMMA SaidWhere ==
    ASSUME NEW t \in Text
    PROVE  /\ \A x \in SaidIn(t) : x = "tomorrow eod" \/ x \in FoundIn(t)
           /\ "range across the threshold" \notin SaidIn(t)
           /\ "explicit ambiguity" \notin SaidIn(t)
<1>1. Found(LatestReply(t)) \subseteq FoundIn(t)
  BY DEF FoundIn, Found
<1>2. \A x \in SaidIn(t) : x = "tomorrow eod" \/ x \in FoundIn(t)
  BY <1>1 DEF SaidIn
<1> QED
  BY <1>2, FoundWhere, SaysWhere

\* Without the model a formal request that has no independent ask is Aarti's,
\* whatever else its text mentions (heuristic_extract and _owner).
THEOREM Decoyed == Spec => DecoysStayWithAarti
<1> DEFINE A == IsRouted /\ prior = None /\ email \in Decoys => prior'.assignee = "aarti"
<1>1. [Next]_vars => [A]_vars
  <2> SUFFICES ASSUME [Next]_vars, IsRouted, prior = None, email \in Decoys
               PROVE  prior'.assignee = "aarti"
    OBVIOUS
  <2>1. PICK u \in Text : /\ email \in Prepared(u)
                          /\ FoundIn(u) \cap {"formal_rfp", "tender"} # {}
                          /\ "independent" \notin FoundIn(u)
                          /\ ~Suppressed(u) /\ LatestReply(u) # {"thanks"}
    BY DEF Decoys
  <2>2. email = HeuristicExtract(u)
    BY <2>1 DEF Prepared, Acknowledges
  <2>3. IntentsIn(u) \cap Formal # {}
    BY <2>1 DEF IntentsIn, Formal
  <2>4. ~Material(u)
    <3>1. "aarti" \in OwnersIn(u)
      BY <2>3 DEF OwnersIn, OwnerOf, Formal
    <3> QED
      BY <2>1, <3>1 DEF Material
  <2>5. email.intents = IntentsIn(u) /\ email.multi = Material(u) /\ email.said = SaidIn(u)
    BY <2>2 DEF HeuristicExtract, Blank
  <2>6. Intents(email) \cap Formal # {}
    BY <2>3, <2>5 DEF Intents, Formal
  <2>7. ~MultipleAsks(email) /\ ~Unclear(email)
    BY <2>4, <2>5, SaidWhere DEF MultipleAsks, Unclear
  <2>8. Fresh(email).assignee = "aarti"
    BY <2>6, <2>7 DEF Fresh, Owner
  <2>9. prior' = NewTask(email)
    BY StepIsRoute DEF Route
  <2> QED
    BY <2>8, <2>9 DEF NewTask
<1> QED
  BY <1>1, PTL DEF Spec, DecoysStayWithAarti

\* Below thanks that are all the writer says, latest_reply keeps nothing.
LEMMA ThanksReply ==
    ASSUME NEW t \in Text, OnlyThanks(t)
    PROVE  LatestReply(t) = {"thanks"} /\ ~Suppressed(t)
<1> DEFINE parts == t.body
           IsCut(i) ==
               /\ i > 1 /\ parts[i].mark # "none"
               /\ "forwarded" \notin parts[i - 1].words
               /\ \A j \in 1 .. i - 1 : parts[j].mark # parts[i].mark
           cuts == {i \in DOMAIN parts : IsCut(i)}
           kept == IF ~t.reply THEN DOMAIN parts
                   ELSE IF cuts # {} THEN 1 .. Min(cuts) - 1
                   ELSE {i \in DOMAIN parts : ~parts[i].angled}
<1>1. LatestReply(t) = Words({parts[i] : i \in kept})
  BY Zenon DEF LatestReply
<1>2. /\ parts[1] = [mark |-> "none", angled |-> FALSE, words |-> {"thanks"}]
      /\ \/ Len(parts) = 1
         \/ t.reply /\ parts[2].mark # "none"
         \/ t.reply /\ \A i \in 2 .. Len(parts) : parts[i].angled
      /\ parts # <<>> /\ ~t.daemon
  BY DEF OnlyThanks
<1>3. /\ Len(parts) \in Nat \ {0} /\ DOMAIN parts = 1 .. Len(parts)
      /\ \A i \in DOMAIN parts : parts[i].angled => parts[i].mark = "none"
  BY <1>2, TextType
<1>4. kept = {1}
  <2>1. CASE Len(parts) = 1
    <3>1. DOMAIN parts = {1} /\ cuts = {}
      BY <1>3, <2>1
    <3> QED
      BY <1>2, <3>1
  <2>2. CASE Len(parts) # 1 /\ t.reply /\ parts[2].mark # "none"
    <3>1. 1 .. 2 - 1 = {1} /\ 2 - 1 = 1
      OBVIOUS
    <3>2. 2 \in DOMAIN parts
      <4> HIDE DEF parts
      <4> QED
        BY <1>3, <2>2
    <3>3. parts[1].mark = "none" /\ parts[1].words = {"thanks"}
      BY <1>2
    <3>4. 2 \in cuts
      BY <2>2, <3>1, <3>2, <3>3
    <3>5. cuts \in SUBSET Nat /\ \A i \in cuts : 2 <= i
      BY <1>3
    <3> HIDE DEF cuts
    <3>6. PICK n : n = Min(cuts)
      OBVIOUS
    <3>7. n \in cuts /\ n <= 2
      BY <3>4, <3>5, <3>6, FirstMember
    <3>8. n = 2
      BY <3>5, <3>7
    <3> QED
      BY <2>2, <3>1, <3>4, <3>6, <3>8
  <2>3. CASE t.reply /\ \A i \in 2 .. Len(parts) : parts[i].angled
    <3>1. cuts = {}
      BY <1>2, <1>3, <2>3
    <3>2. {i \in DOMAIN parts : ~parts[i].angled} = {1}
      BY <1>2, <1>3, <2>3
    <3> QED
      BY <2>3, <3>1, <3>2
  <2> QED
    BY <1>2, <2>1, <2>2, <2>3
<1>5. LatestReply(t) = {"thanks"}
  <2> HIDE DEF kept
  <2>1. {parts[i] : i \in kept} = {parts[1]}
    BY <1>4
  <2>2. Words({parts[1]}) = parts[1].words
    BY DEF Words
  <2>3. parts[1].words = {"thanks"}
    BY <1>2
  <2> HIDE DEF parts
  <2> QED
    BY <1>1, <2>1, <2>2, <2>3
<1>6. Found(LatestReply(t)) = {}
  BY <1>5 DEF Found
<1> QED
  BY <1>2, <1>5, <1>6 DEF Suppressed

\* What such a reply comes to: no fact but what its subject says.
LEMMA ThanksPrepared ==
    ASSUME NEW t \in Text, OnlyThanks(t), NEW e \in Prepared(t)
    PROVE  /\ e.actionability = "non_actionable" /\ ~e.skip /\ e.intents = {}
           /\ ~e.route /\ e.value.action = "unchanged" /\ e.value.value = None
           /\ e.amounts = <<>> /\ (t.amount = None => e.written = None)
           /\ e.said = SaidIn(t)
           /\ \A x \in SaidIn(t) : x = "tomorrow eod" \/ \E w \in t.subject : x \in Says[w]
<1>1. ~Suppressed(t) /\ Acknowledges(t) /\ LatestReply(t) = {"thanks"}
  BY ThanksReply DEF Acknowledges
<1>2. PICK d \in BOOLEAN : e = [Blank(t) EXCEPT !.actionability = "non_actionable",
                                               !.skip = FALSE, !.degraded = d]
  <2>1. PICK d \in BOOLEAN : e = [Blank(t) EXCEPT !.actionability = "non_actionable",
                                                 !.skip = Suppressed(t), !.degraded = d]
    BY <1>1 DEF Prepared
  <2>2. Suppressed(t) = FALSE
    BY <1>1 DEF Suppressed
  <2> QED
    BY <2>1, <2>2
<1>3. "thanks" \notin DOMAIN Says
  BY DEF Says
<1>4. \A x \in SaidIn(t) : x = "tomorrow eod" \/ \E w \in t.subject : x \in Says[w]
  BY <1>1, <1>3, SaidWhere, FoundWhere
<1> QED
  BY <1>2, <1>4 DEF Blank

\* A reply that only thanks leaves the task alone, whatever it quotes; one whose subject
\* invites or nominates keeps the owner (deterministic_suppression, latest_reply and
\* _normalize_extraction_policy).
THEOREM Thanked == Spec => ThanksKeepTheTask
<1> DEFINE A == prior # None /\ email # None /\ email' = None =>
                  /\ email \in RescuedThanks => prior'.assignee = prior.assignee
                  /\ email \in PlainThanks => prior' = prior /\ last' = "noop"
<1>1. RInv /\ [Next]_vars => [A]_vars
  <2> SUFFICES ASSUME RInv, [Next]_vars, prior # None, email # None, email' = None
               PROVE  /\ email \in RescuedThanks => prior'.assignee = prior.assignee
                      /\ email \in PlainThanks => prior' = prior /\ last' = "noop"
    OBVIOUS
  <2>1. Dismiss \/ Route
    BY DEF Next, Receive, Delete, vars
  <2>2. ASSUME email \in PlainThanks PROVE prior' = prior /\ last' = "noop"
    <3>1. PICK t \in Text : /\ OnlyThanks(t) /\ email \in Prepared(t)
                            /\ t.subject \cap Rescuing = {}
      BY <2>2 DEF PlainThanks
    <3>2. ~Rescued(email)
      BY <3>1, ThanksPrepared, SaysWhere, TextType DEF Rescued, Rescuing
    <3>3. ~Actionable(email) /\ ~SkipReason(email)
      BY <3>1, <3>2, ThanksPrepared DEF Actionable, SkipReason
    <3> QED
      BY <2>1, <3>3 DEF Dismiss, Route
  <2>3. ASSUME email \in RescuedThanks, Route PROVE prior'.assignee = prior.assignee
    <3>1. PICK t \in Text : /\ OnlyThanks(t) /\ email \in Prepared(t)
                            /\ "product_chahiye" \notin t.subject \/ t.amount = None
      BY <2>3 DEF RescuedThanks
    <3>2. ~SalesValueChange(email, prior)
      <4>1. CASE "product_chahiye" \notin t.subject
        <5>1. "product chahiye" \notin email.said
          BY <3>1, <4>1, ThanksPrepared, SaysWhere, TextType
        <5>2. Intents(email) \cap Direct = {}
          BY <3>1, <5>1, ThanksPrepared DEF Intents, Direct
        <5> QED
          BY <3>1, <5>2, ThanksPrepared DEF SalesValueChange
      <4>2. CASE t.amount = None
        <5>1. StatedAmounts(email) = {}
          <6>1. email.amounts = <<>> /\ email.written = None /\ email.value.action = "unchanged"
            BY <3>1, <4>2, ThanksPrepared
          <6>2. {email.amounts[i] : i \in DOMAIN email.amounts} = {}
            BY <6>1
          <6> QED
            BY <6>1, <6>2 DEF StatedAmounts
        <5>2. Fresh(email).value = None
          BY <2>3, <5>1, Routed, FreshType
        <5> QED
          BY <3>1, <5>2, ThanksPrepared DEF SalesValueChange
      <4> QED
        BY <3>1, <4>1, <4>2
    <3>3. ~email.route /\ "range across the threshold" \notin email.said
      BY <3>1, ThanksPrepared, SaidWhere
    <3>4. MergedOwner(email, prior).assignee = prior.assignee
      BY <3>2, <3>3 DEF MergedOwner
    <3> QED
      BY <2>3, <3>4, Routed DEF Merged
  <2> QED
    BY <2>1, <2>2, <2>3 DEF Dismiss
<1> QED
  BY <1>1, AlwaysRInv, PTL DEF Spec, ThanksKeepTheTask
===============================================================================
