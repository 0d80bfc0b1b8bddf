------------------------- MODULE GeminiExtractorProofs -------------------------
(***************************************************************************)
(* extract_many makes no more calls than its nested retries explain, and   *)
(* degrades no e-mail that was not asked for alone as often as there are   *)
(* attempts, for any number of e-mails and of retries, whatever the model  *)
(* answers.                                                                *)
(*                                                                         *)
(* CallsBounded is not inductive.  SpentInv says at each place of the      *)
(* nested loops how many calls they can have made so far: an attempt of    *)
(* the batch costs one call for all and the attempts of each e-mail that   *)
(* is had alone, and the split costs the latter once more.                 *)
(***************************************************************************)
EXTENDS GeminiExtractor, FiniteSetTheorems, TLAPS

N == Cardinality(messages)
Attempts == MaxRetries + 1
PerAttempt == 1 + N * Attempts
BeforeSplit == IF N = 1 THEN Attempts ELSE Attempts * PerAttempt

\* Who is asked for at each place.
PlaceInv ==
    /\ messages # {}
    /\ stage = "start" => batch = None /\ single = None /\ alone = {} /\ calls = 0
    /\ stage = "batch" =>
         /\ alone = {}
         /\ batch = None => N = 1 /\ single # None /\ single.asked = messages
         /\ batch # None => N # 1 /\ batch.got \subseteq messages
         /\ batch # None /\ single # None =>
              \E m \in messages \ batch.got : single.asked = {m}
    /\ stage = "alone" =>
         /\ batch = None /\ single # None
         /\ \E m \in alone : single.asked = {m}
    /\ stage = "done" => batch = None /\ single = None

\* What the calls so far can have been spent on.
SpentInv ==
    /\ stage = "batch" /\ batch = None => calls <= single.attempt
    /\ stage = "batch" /\ batch # None /\ single = None =>
         calls <= batch.attempt * PerAttempt
    /\ stage = "batch" /\ batch # None /\ single # None =>
         calls <= batch.attempt * PerAttempt + 1
                    + Cardinality(batch.got) * Attempts + single.attempt
    /\ stage = "alone" =>
         calls <= BeforeSplit + (N - Cardinality(alone)) * Attempts + single.attempt
    /\ stage = "done" => calls <= BeforeSplit + N * Attempts

\* After the split, who was given up was refused in each attempt.
RefusedInv ==
    /\ stage = "alone" =>
         /\ \A m \in (messages \ alone) \ results : refused[m] >= Attempts
         /\ \A m \in single.asked : refused[m] >= single.attempt
    /\ DegradedAfterRetries

IInv == TypeOK /\ PlaceInv /\ SpentInv /\ RefusedInv

-------------------------------------------------------------------------------
(* Arithmetic and sizes *)

LEMMA Products ==
    ASSUME NEW a \in Nat, NEW b \in Nat, NEW c \in Nat
    PROVE  /\ a * b \in Nat
           /\ (a + 1) * b = a * b + b
           /\ a <= c => a * b <= c * b
OBVIOUS

LEMMA Sizes ==
    ASSUME TypeOK
    PROVE  /\ MaxRetries \in Nat /\ Attempts \in Nat /\ Attempts = MaxRetries + 1
           /\ N \in Nat /\ PerAttempt \in Nat /\ BeforeSplit \in Nat
           /\ IsFiniteSet(messages)
           /\ \A S \in SUBSET messages :
                /\ IsFiniteSet(S) /\ Cardinality(S) \in Nat /\ Cardinality(S) <= N
<1>1. IsFiniteSet(messages)
  BY EmailAssumption, FS_Subset DEF TypeOK
<1>2. \A S \in SUBSET messages :
        IsFiniteSet(S) /\ Cardinality(S) \in Nat /\ Cardinality(S) <= N
  BY <1>1, FS_Subset, FS_CardinalityType DEF N
<1>3. N \in Nat
  BY <1>1, FS_CardinalityType DEF N
<1>4. MaxRetries \in Nat /\ Attempts \in Nat /\ Attempts = MaxRetries + 1
  BY RetriesAssumption DEF Attempts
<1>5. PerAttempt \in Nat
  BY <1>3, <1>4, Products DEF PerAttempt
<1>6. BeforeSplit \in Nat
  BY <1>4, <1>5, Products DEF BeforeSplit
<1> QED
  BY <1>1, <1>2, <1>3, <1>4, <1>5, <1>6

\* A set and an element that it lacks.
LEMMA OneMore ==
    ASSUME TypeOK, NEW S \in SUBSET messages, NEW m \in messages \ S
    PROVE  Cardinality(S \cup {m}) = Cardinality(S) + 1
BY Sizes, FS_AddElement

LEMMA OneLess ==
    ASSUME TypeOK, NEW S \in SUBSET messages, NEW m \in S
    PROVE  Cardinality(S \ {m}) = Cardinality(S) - 1
BY Sizes, FS_RemoveElement

LEMMA FirstOfSet ==
    ASSUME NEW S \in SUBSET Email, S # {}
    PROVE  First(S) \in S
<1> DEFINE R == {ss \in Nat \X Nat : ss[1] < ss[2]}
<1>1. IsWellFoundedOn(R, Nat) /\ S \in SUBSET Nat
  BY NatLessThanWellFounded, EmailAssumption DEF OpToRel
<1>2. PICK x \in S : \A y \in S : ~(<<y, x>> \in R)
  BY <1>1, WFMin
<1>3. ASSUME NEW y \in S PROVE x <= y
  <2>1. ~(<<y, x>> \in R) /\ x \in Nat /\ y \in Nat
    BY <1>1, <1>2
  <2>2. ~(y < x)
    BY <2>1
  <2> QED
    BY <2>1, <2>2
<1> QED
  BY <1>3 DEF First

LEMMA ActivateType ==
    ASSUME NEW asked \in SUBSET Email
    PROVE  Activate(asked) \in Activation
BY RetriesAssumption DEF Activate, Activation

LEMMA NoneApart == None \notin Activation
BY RetriesAssumption, NoneAssumption DEF Activation

-------------------------------------------------------------------------------
(* Where a call leads *)

\* What a call of the model itself changes.
LEMMA CallEffect ==
    ASSUME TypeOK, NEW asked \in SUBSET messages, NEW named \in SUBSET asked,
           CallModel(asked, named)
    PROVE  /\ calls' = calls + 1 /\ calls' \in Nat
           /\ answered' \subseteq messages
           /\ refused' \in [Email -> Nat]
           /\ \A m \in Email \ asked : refused'[m] = refused[m]
           /\ \A m \in asked : asked = {m} /\ named = {} => refused'[m] = refused[m] + 1
<1>1. calls' = calls + 1 /\ calls' \in Nat /\ answered' \subseteq messages
  BY DEF CallModel, TypeOK
<1>2. refused' = [m \in Email |-> CASE m \notin asked -> refused[m]
                                    [] asked = {m} /\ named = {} -> refused[m] + 1
                                    [] OTHER -> 0]
  BY DEF CallModel
<1>3. ASSUME NEW m \in Email PROVE refused'[m] \in Nat
  <2>1. refused[m] \in Nat
    BY DEF TypeOK
  <2> QED
    BY <1>2, <2>1
<1>4. refused' \in [Email -> Nat]
  BY <1>2, <1>3
<1>5. \A m \in Email \ asked : refused'[m] = refused[m]
  BY <1>2
<1>6. \A m \in asked : asked = {m} /\ named = {} => refused'[m] = refused[m] + 1
  BY <1>2 DEF TypeOK
<1> QED
  BY <1>1, <1>4, <1>5, <1>6

\* The e-mails in rest are asked for alone; the others have been.
LEMMA AskAloneInv ==
    ASSUME TypeOK, messages # {}, NEW rest \in SUBSET messages, AskAlone(rest),
           UNCHANGED messages, batch' = None, results' \subseteq messages,
           calls' \in Nat, answered' \subseteq messages, refused' \in [Email -> Nat],
           calls' <= BeforeSplit + (N - Cardinality(rest)) * Attempts,
           \A m \in (messages \ rest) \ results' : refused'[m] >= Attempts
    PROVE  IInv'
<1>1. N' = N /\ BeforeSplit' = BeforeSplit /\ Attempts' = Attempts
  BY DEF N, BeforeSplit, PerAttempt, Attempts
<1>2. alone' = rest
  BY DEF AskAlone
<1>3. CASE rest = {}
  <2>1. stage' = "done" /\ single' = None
    BY <1>3 DEF AskAlone
  <2>2. Cardinality(rest) = 0 /\ N - Cardinality(rest) = N
    BY <1>3, Sizes, FS_EmptySet
  <2>3. TypeOK'
    BY <1>2, <2>1 DEF TypeOK
  <2>4. PlaceInv'
    BY <2>1 DEF PlaceInv
  <2>5. SpentInv'
    BY <1>1, <2>1, <2>2 DEF SpentInv
  <2>6. RefusedInv'
    BY <1>3, <2>1 DEF RefusedInv, DegradedAfterRetries, Attempts
  <2> QED
    BY <2>3, <2>4, <2>5, <2>6 DEF IInv
<1>4. CASE rest # {}
  <2> DEFINE m == First(rest)
  <2>1. stage' = "alone" /\ single' = Activate({m})
    BY <1>4 DEF AskAlone
  <2>2. m \in rest /\ m \in Email
    BY <1>4, FirstOfSet DEF TypeOK
  <2> HIDE DEF m
  <2>3. single' \in Activation /\ single'.asked = {m} /\ single'.attempt = 0 /\ single' # None
    BY <2>1, <2>2, ActivateType, NoneApart DEF Activate
  <2>4. TypeOK'
    BY <1>2, <2>1, <2>3 DEF TypeOK
  <2>5. PlaceInv'
    BY <1>2, <2>1, <2>2, <2>3 DEF PlaceInv
  <2>6. (N - Cardinality(rest)) * Attempts \in Nat /\ BeforeSplit \in Nat
    BY Sizes, Products
  <2>7. SpentInv'
    BY <1>1, <1>2, <2>1, <2>3, <2>6 DEF SpentInv
  <2>8. refused'[m] \in Nat
    BY <2>2
  <2>9. RefusedInv'
    <3>1. \A x \in (messages' \ alone') \ results' : refused'[x] >= Attempts'
      BY <1>1, <1>2
    <3>2. \A x \in single'.asked : refused'[x] >= single'.attempt
      BY <2>3, <2>8
    <3> QED
      BY <2>1, <3>1, <3>2 DEF RefusedInv, DegradedAfterRetries
  <2> QED
    BY <2>4, <2>5, <2>7, <2>9 DEF IInv
<1> QED
  BY <1>3, <1>4

\* The split, when the batch's attempts are used up.
LEMMA SplitInv ==
    ASSUME TypeOK, messages # {}, Split, UNCHANGED <<messages, results>>,
           calls' \in Nat, answered' \subseteq messages, refused' \in [Email -> Nat],
           calls' <= BeforeSplit
    PROVE  IInv'
<1>1. AskAlone(messages) /\ batch' = None
  BY DEF Split
<1>2. (N - Cardinality(messages)) * Attempts = 0 /\ BeforeSplit \in Nat
  BY Sizes DEF N
<1> QED
  BY <1>1, <1>2, AskAloneInv DEF TypeOK

\* The batch's attempt fails.
LEMMA BatchFailsInv ==
    ASSUME IInv, stage = "batch", batch # None, BatchAttemptFails, UNCHANGED messages,
           calls' \in Nat, answered' \subseteq messages, refused' \in [Email -> Nat],
           calls' <= batch.attempt * PerAttempt + PerAttempt
    PROVE  IInv'
<1>1. TypeOK /\ PlaceInv /\ messages # {} /\ N # 1 /\ results' = results
  BY DEF IInv, PlaceInv, BatchAttemptFails
<1>2. batch.attempt \in 0 .. MaxRetries
  BY <1>1 DEF TypeOK, Activation
<1> DEFINE k == batch.attempt
<1>3. k \in Nat /\ (k + 1) * PerAttempt = k * PerAttempt + PerAttempt
  BY <1>1, <1>2, Sizes, Products
<1>4. CASE k < MaxRetries
  <2>1. /\ batch' = [Activate(messages) EXCEPT !.attempt = k + 1]
        /\ single' = None /\ stage' = "batch" /\ alone' = {} /\ alone = {}
    BY <1>1, <1>4 DEF BatchAttemptFails, PlaceInv
  <2>2. batch' = [asked |-> messages, attempt |-> k + 1, got |-> {}]
    BY <2>1 DEF Activate
  <2>3. /\ batch' \in Activation /\ batch' # None
        /\ batch'.attempt = k + 1 /\ batch'.got = {}
    BY <1>1, <1>2, <1>4, <2>2, NoneApart, RetriesAssumption DEF Activation, TypeOK
  <2>4. TypeOK'
    BY <1>1, <2>1, <2>3 DEF TypeOK
  <2>5. PlaceInv'
    BY <1>1, <2>1, <2>3 DEF PlaceInv, N
  <2>6. PerAttempt' = PerAttempt /\ calls' <= (k + 1) * PerAttempt
    BY <1>3 DEF PerAttempt, N
  <2>7. SpentInv'
    BY <2>1, <2>3, <2>6 DEF SpentInv
  <2>8. RefusedInv'
    BY <2>1 DEF RefusedInv, DegradedAfterRetries
  <2> QED
    BY <2>4, <2>5, <2>7, <2>8 DEF IInv
<1>5. CASE ~(k < MaxRetries)
  <2>1. Split
    BY <1>5 DEF BatchAttemptFails
  <2>2. k = MaxRetries
    BY <1>2, <1>5, RetriesAssumption
  <2>3. calls' <= BeforeSplit
    BY <1>1, <1>3, <2>2 DEF BeforeSplit, Attempts
  <2> QED
    BY <1>1, <2>1, <2>3, SplitInv
<1> QED
  BY <1>4, <1>5

\* The batch goes on with by_id as got.
LEMMA BatchGoesOnInv ==
    ASSUME IInv, stage = "batch", batch # None, NEW got \in SUBSET messages,
           BatchGoesOn(got), UNCHANGED messages,
           calls' \in Nat, answered' \subseteq messages, refused' \in [Email -> Nat],
           calls' <= batch.attempt * PerAttempt + 1 + Cardinality(got) * Attempts
    PROVE  IInv'
<1>1. TypeOK /\ PlaceInv /\ messages # {} /\ N # 1 /\ alone = {} /\ results \subseteq messages
  BY DEF IInv, PlaceInv, TypeOK
<1>2. batch \in Activation /\ batch.attempt \in 0 .. MaxRetries
  BY <1>1 DEF TypeOK, Activation
<1>3. N' = N /\ BeforeSplit' = BeforeSplit /\ Attempts' = Attempts /\ PerAttempt' = PerAttempt
  BY DEF N, BeforeSplit, PerAttempt, Attempts
<1> DEFINE k == batch.attempt
<1>4. CASE got = messages
  <2>1. /\ results' = messages /\ stage' = "done" /\ batch' = None /\ single' = None
        /\ alone' = alone
    BY <1>1, <1>4 DEF BatchGoesOn, BatchReturns
  <2>2. calls' <= k * PerAttempt + PerAttempt
    <3>1. Cardinality(got) = N /\ PerAttempt = 1 + N * Attempts
      BY <1>4 DEF PerAttempt, N
    <3>2. k * PerAttempt \in Nat /\ N * Attempts \in Nat
      BY <1>1, <1>2, Sizes, Products
    <3> QED
      BY <3>1, <3>2
  <2>3. /\ k \in Nat /\ k <= MaxRetries /\ PerAttempt \in Nat /\ MaxRetries \in Nat
        /\ N * Attempts \in Nat /\ BeforeSplit \in Nat
    BY <1>1, <1>2, Sizes, Products
  <2>4. k * PerAttempt <= MaxRetries * PerAttempt
    BY <2>3, Products
  <2>5. MaxRetries * PerAttempt + PerAttempt = BeforeSplit
    BY <1>1, <2>3, Products DEF BeforeSplit, Attempts
  <2>6. k * PerAttempt \in Nat /\ MaxRetries * PerAttempt \in Nat
    BY <2>3, Products
  <2>7. calls' <= BeforeSplit + N * Attempts
    BY <2>2, <2>3, <2>4, <2>5, <2>6
  <2>8. TypeOK'
    BY <1>1, <2>1 DEF TypeOK
  <2>9. PlaceInv'
    BY <1>1, <2>1 DEF PlaceInv
  <2>10. SpentInv'
    BY <1>3, <2>1, <2>7 DEF SpentInv
  <2>11. RefusedInv'
    BY <2>1 DEF RefusedInv, DegradedAfterRetries
  <2> QED
    BY <2>8, <2>9, <2>10, <2>11 DEF IInv
<1>5. CASE got # messages
  <2> DEFINE m == First(messages \ got)
  <2>1. /\ batch' = [batch EXCEPT !.got = got] /\ single' = Activate({m})
        /\ UNCHANGED <<stage, alone, results>>
    BY <1>5 DEF BatchGoesOn
  <2>2. m \in messages \ got /\ m \in Email
    BY <1>1, <1>5, FirstOfSet DEF TypeOK
  <2> HIDE DEF m
  <2>3. single' \in Activation /\ single'.asked = {m} /\ single'.attempt = 0 /\ single' # None
    BY <2>1, <2>2, ActivateType, NoneApart DEF Activate
  <2>4. /\ batch' \in Activation /\ batch' # None /\ batch'.attempt = k /\ batch'.got = got
    BY <1>1, <1>2, <2>1, NoneApart DEF Activation, TypeOK
  <2>5. TypeOK'
    BY <1>1, <2>1, <2>3, <2>4 DEF TypeOK
  <2>6. PlaceInv'
    BY <1>1, <1>3, <2>1, <2>2, <2>3, <2>4 DEF PlaceInv
  <2>7. k * PerAttempt \in Nat /\ Cardinality(got) * Attempts \in Nat
    BY <1>1, <1>2, Sizes, Products
  <2>8. SpentInv'
    BY <1>3, <2>1, <2>3, <2>4, <2>7 DEF SpentInv
  <2>9. RefusedInv'
    BY <2>1 DEF RefusedInv, DegradedAfterRetries
  <2> QED
    BY <2>5, <2>6, <2>8, <2>9 DEF IInv
<1> QED
  BY <1>4, <1>5

-------------------------------------------------------------------------------
(* Steps *)

LEMMA CallBatchInv == IInv /\ CallBatch => IInv'
<1> SUFFICES ASSUME IInv, CallBatch PROVE IInv'
  OBVIOUS
<1>1. TypeOK /\ PlaceInv /\ batch # None /\ single = None /\ messages' = messages
  BY DEF IInv, CallBatch
<1>2. /\ stage = "batch" /\ messages # {} /\ calls \in Nat
      /\ calls <= batch.attempt * PerAttempt
  BY <1>1 DEF IInv, TypeOK, PlaceInv, SpentInv
<1>3. /\ batch.attempt * PerAttempt \in Nat /\ PerAttempt \in Nat
      /\ PerAttempt = 1 + N * Attempts /\ N * Attempts \in Nat
      /\ \A named \in SUBSET messages : Cardinality(named) * Attempts \in Nat
  <2>1. batch.attempt \in Nat
    BY <1>1 DEF TypeOK, Activation
  <2> QED
    BY <1>1, <2>1, Sizes, Products DEF PerAttempt
<1>4. ASSUME NEW named \in SUBSET messages, CallModel(messages, named), BatchGoesOn(named)
      PROVE  IInv'
  <2>1. /\ calls' = calls + 1 /\ calls' \in Nat /\ answered' \subseteq messages
        /\ refused' \in [Email -> Nat]
    BY <1>1, <1>4, CallEffect
  <2>2. calls' <= batch.attempt * PerAttempt + 1 + Cardinality(named) * Attempts
    BY <1>2, <1>3, <2>1
  <2> QED
    BY <1>1, <1>2, <1>4, <2>1, <2>2, BatchGoesOnInv
<1>5. ASSUME CallModel(messages, {}), BatchAttemptFails
      PROVE  IInv'
  <2>1. /\ calls' = calls + 1 /\ calls' \in Nat /\ answered' \subseteq messages
        /\ refused' \in [Email -> Nat]
    BY <1>1, <1>5, CallEffect
  <2>2. calls' <= batch.attempt * PerAttempt + PerAttempt
    BY <1>2, <1>3, <2>1
  <2> QED
    BY <1>1, <1>2, <1>5, <2>1, <2>2, BatchFailsInv
<1> QED
  BY <1>4, <1>5 DEF CallBatch

\* A call for one e-mail inside an attempt of the batch.
LEMMA CallInBatchInv ==
    ASSUME IInv, CallSingle, single # None, batch # None
    PROVE  IInv'
<1>1. TypeOK /\ PlaceInv /\ messages' = messages
  BY DEF IInv, CallSingle
<1>2. /\ stage = "batch" /\ messages # {} /\ N # 1 /\ batch.got \subseteq messages
      /\ \E m \in messages \ batch.got : single.asked = {m}
  BY <1>1 DEF PlaceInv, TypeOK
<1>3. PICK m \in messages \ batch.got : single.asked = {m}
  BY <1>2
<1> DEFINE spent == batch.attempt * PerAttempt
           had == Cardinality(batch.got)
<1>4. calls <= spent + 1 + had * Attempts + single.attempt
  BY <1>2 DEF IInv, SpentInv
<1>5. /\ batch \in Activation /\ single \in Activation /\ calls \in Nat
      /\ single.attempt \in Nat /\ single.attempt <= MaxRetries /\ batch.attempt \in Nat
      /\ MaxRetries \in Nat
  BY <1>1, RetriesAssumption DEF TypeOK, Activation
<1>6. /\ Cardinality(batch.got \cup {m}) = had + 1 /\ had \in Nat /\ had + 1 <= N
      /\ N \in Nat /\ Attempts \in Nat /\ Attempts = MaxRetries + 1
      /\ PerAttempt = 1 + N * Attempts
  <2>1. Cardinality(batch.got \cup {m}) = had + 1
    BY <1>1, <1>2, <1>3, OneMore
  <2>2. batch.got \cup {m} \in SUBSET messages /\ batch.got \in SUBSET messages
    BY <1>2, <1>3
  <2> QED
    BY <1>1, <2>1, <2>2, Sizes DEF PerAttempt
<1>7. /\ spent \in Nat /\ had * Attempts \in Nat /\ N * Attempts \in Nat
      /\ (had + 1) * Attempts = had * Attempts + Attempts
      /\ (had + 1) * Attempts <= N * Attempts
  <2>1. PerAttempt \in Nat /\ had + 1 \in Nat
    BY <1>1, <1>6, Sizes
  <2> QED
    BY <1>5, <1>6, <2>1, Products
<1> HIDE DEF spent, had
<1>8. ASSUME CallModel(single.asked, single.asked), SingleReturns
      PROVE  IInv'
  <2>1. /\ calls' = calls + 1 /\ calls' \in Nat /\ answered' \subseteq messages
        /\ refused' \in [Email -> Nat]
    BY <1>1, <1>3, <1>8, CallEffect
  <2>2. calls' <= spent + 1 + (had + 1) * Attempts
    BY <1>4, <1>5, <1>6, <1>7, <2>1
  <2>3. BatchGoesOn(batch.got \cup {m}) /\ batch.got \cup {m} \in SUBSET messages
    BY <1>2, <1>3, <1>8 DEF SingleReturns
  <2>4. calls' <= batch.attempt * PerAttempt + 1
                    + Cardinality(batch.got \cup {m}) * Attempts
    BY <1>6, <2>2 DEF spent
  <2> QED
    BY <1>1, <1>2, <2>1, <2>3, <2>4, BatchGoesOnInv
<1>9. ASSUME CallModel(single.asked, {}), SingleAttemptFails
      PROVE  IInv'
  <2>1. /\ calls' = calls + 1 /\ calls' \in Nat /\ answered' \subseteq messages
        /\ refused' \in [Email -> Nat]
    BY <1>1, <1>3, <1>9, CallEffect
  <2>2. CASE single.attempt < MaxRetries
    <3>1. /\ single' = [single EXCEPT !.attempt = single.attempt + 1]
          /\ UNCHANGED <<stage, batch, alone, results>>
      BY <1>9, <2>2 DEF SingleAttemptFails
    <3>2. /\ single' \in Activation /\ single' # None
          /\ single'.attempt = single.attempt + 1 /\ single'.asked = {m}
      BY <1>3, <1>5, <2>2, <3>1, NoneApart DEF Activation
    <3>3. TypeOK'
      BY <1>1, <2>1, <3>1, <3>2 DEF TypeOK
    <3>4. PlaceInv'
      BY <1>1, <1>2, <1>3, <3>1, <3>2 DEF PlaceInv, N
    <3>5. calls' <= spent + 1 + had * Attempts + single'.attempt
      BY <1>4, <1>5, <1>7, <2>1, <3>2
    <3>6. SpentInv'
      BY <1>1, <1>2, <3>1, <3>2, <3>5 DEF SpentInv, spent, had, PerAttempt, Attempts, N
    <3>7. RefusedInv'
      BY <1>2, <3>1 DEF RefusedInv, DegradedAfterRetries
    <3> QED
      BY <3>3, <3>4, <3>6, <3>7 DEF IInv
  <2>3. CASE ~(single.attempt < MaxRetries)
    <3>1. BatchAttemptFails
      BY <1>9, <2>3 DEF SingleAttemptFails, SingleRaises
    <3>2. calls' <= spent + PerAttempt
      BY <1>4, <1>5, <1>6, <1>7, <2>1
    <3> QED
      BY <1>1, <1>2, <2>1, <3>1, <3>2, BatchFailsInv DEF spent
  <2> QED
    BY <2>2, <2>3
<1> QED
  BY <1>8, <1>9 DEF CallSingle

\* A call for one e-mail outside a batch: the only one, or one after the split.
LEMMA CallAloneInv ==
    ASSUME IInv, CallSingle, single # None, batch = None
    PROVE  IInv'
<1>1. TypeOK /\ PlaceInv /\ messages' = messages /\ messages # {}
  BY DEF IInv, PlaceInv, CallSingle
<1>2. /\ single \in Activation /\ calls \in Nat /\ single.attempt \in Nat
      /\ single.attempt <= MaxRetries /\ MaxRetries \in Nat /\ Attempts = MaxRetries + 1
      /\ Attempts \in Nat
  BY <1>1, RetriesAssumption DEF TypeOK, Activation, Attempts
<1>3. stage \in {"batch", "alone"}
  BY <1>1 DEF PlaceInv, TypeOK
<1>4. \E m \in messages : single.asked = {m}
  <2>1. CASE stage = "batch"
    <3>1. Cardinality(messages) = 1 /\ IsFiniteSet(messages) /\ single.asked = messages
      BY <1>1, <2>1, Sizes DEF PlaceInv, N
    <3> QED
      BY <3>1, FS_Singleton
  <2>2. CASE stage = "alone"
    BY <1>1, <2>2 DEF PlaceInv, TypeOK
  <2> QED
    BY <1>3, <2>1, <2>2
<1>5. PICK m \in messages : single.asked = {m}
  BY <1>4
<1>6. m \in Email /\ refused[m] \in Nat
  BY <1>1 DEF TypeOK
<1> DEFINE left == alone \ {m}
<1>7. left \in SUBSET messages /\ alone \in SUBSET messages
  BY <1>1 DEF TypeOK
<1>8. calls + 1 <= BeforeSplit + (N - Cardinality(left)) * Attempts
  <2>1. /\ BeforeSplit \in Nat /\ N \in Nat
        /\ Cardinality(left) \in Nat /\ Cardinality(left) <= N
        /\ Cardinality(alone) \in Nat /\ Cardinality(alone) <= N
    BY <1>1, <1>7, Sizes
  <2>2. CASE stage = "batch"
    <3>1. BeforeSplit = Attempts /\ calls <= single.attempt
      BY <1>1, <2>2 DEF IInv, PlaceInv, SpentInv, BeforeSplit
    <3>2. (N - Cardinality(left)) * Attempts \in Nat
      BY <1>2, <2>1, Products
    <3> QED
      BY <1>2, <3>1, <3>2
  <2>3. CASE stage = "alone"
    <3> DEFINE gone == N - Cardinality(alone)
    <3>1. calls <= BeforeSplit + gone * Attempts + single.attempt
      BY <2>3 DEF IInv, SpentInv
    <3>2. m \in alone
      BY <1>1, <1>5, <2>3 DEF PlaceInv
    <3>3. Cardinality(left) = Cardinality(alone) - 1
      BY <1>1, <1>7, <3>2, OneLess
    <3>4. gone \in Nat /\ N - Cardinality(left) = gone + 1
      BY <2>1, <3>3
    <3> HIDE DEF gone
    <3>5. (gone + 1) * Attempts = gone * Attempts + Attempts /\ gone * Attempts \in Nat
      BY <1>2, <3>4, Products
    <3>6. calls + 1 <= BeforeSplit + (gone + 1) * Attempts
      BY <1>2, <2>1, <3>1, <3>5
    <3> QED
      BY <3>4, <3>6
  <2> QED
    BY <1>3, <2>2, <2>3
<1>9. \A k \in (messages \ left) \ results : k # m => refused[k] >= Attempts
  <2>1. CASE stage = "batch"
    BY <1>1, <1>5, <2>1 DEF PlaceInv
  <2>2. CASE stage = "alone"
    BY <2>2 DEF IInv, RefusedInv
  <2> QED
    BY <1>3, <2>1, <2>2
<1>10. ASSUME CallModel(single.asked, single.asked), SingleReturns
       PROVE  IInv'
  <2>1. /\ calls' = calls + 1 /\ calls' \in Nat /\ answered' \subseteq messages
        /\ refused' \in [Email -> Nat]
        /\ \A k \in Email \ {m} : refused'[k] = refused[k]
    BY <1>1, <1>5, <1>10, CallEffect
  <2>2. results' = results \cup {m} /\ AskAlone(left) /\ batch' = None
    BY <1>5, <1>10 DEF SingleReturns
  <2>3. results' \subseteq messages /\ messages \subseteq Email
    BY <1>1, <2>2 DEF TypeOK
  <2>4. \A k \in (messages \ left) \ results' : refused'[k] >= Attempts
    BY <1>9, <2>1, <2>2, <2>3
  <2>5. calls' <= BeforeSplit + (N - Cardinality(left)) * Attempts
    BY <1>8, <2>1
  <2> QED
    BY <1>1, <1>7, <2>1, <2>2, <2>3, <2>4, <2>5, AskAloneInv
<1>11. ASSUME CallModel(single.asked, {}), SingleAttemptFails
       PROVE  IInv'
  <2>1. /\ calls' = calls + 1 /\ calls' \in Nat /\ answered' \subseteq messages
        /\ refused' \in [Email -> Nat]
        /\ \A k \in Email \ {m} : refused'[k] = refused[k]
        /\ refused'[m] = refused[m] + 1
    BY <1>1, <1>5, <1>11, CallEffect
  <2>2. CASE single.attempt < MaxRetries
    <3>1. /\ single' = [single EXCEPT !.attempt = single.attempt + 1]
          /\ UNCHANGED <<stage, batch, alone, results>>
      BY <1>11, <2>2 DEF SingleAttemptFails
    <3>2. /\ single' \in Activation /\ single' # None
          /\ single'.attempt = single.attempt + 1 /\ single'.asked = {m}
      BY <1>2, <1>5, <2>2, <3>1, NoneApart DEF Activation
    <3>3. TypeOK'
      BY <1>1, <2>1, <3>1, <3>2 DEF TypeOK
    <3>4. PlaceInv'
      BY <1>1, <1>3, <1>5, <3>1, <3>2 DEF PlaceInv, N
    <3>5. /\ Attempts' = Attempts /\ BeforeSplit' = BeforeSplit
          /\ (N - Cardinality(alone))' = N - Cardinality(alone)
      BY <1>1, <3>1 DEF Attempts, BeforeSplit, PerAttempt, N
    <3>6. BeforeSplit + (N - Cardinality(alone)) * Attempts \in Nat
      <4>1. N - Cardinality(alone) \in Nat /\ BeforeSplit \in Nat
        BY <1>1, <1>7, Sizes
      <4> QED
        BY <1>2, <4>1, Products
    <3>7. SpentInv'
      <4>1. CASE stage = "batch"
        <5>1. calls' <= single'.attempt
          BY <1>2, <2>1, <3>2, <4>1 DEF IInv, SpentInv
        <5> QED
          BY <3>1, <4>1, <5>1 DEF SpentInv
      <4>2. CASE stage = "alone"
        <5>1. calls' <= BeforeSplit + (N - Cardinality(alone)) * Attempts + single'.attempt
          BY <1>2, <2>1, <3>2, <3>6, <4>2 DEF IInv, SpentInv
        <5> QED
          BY <3>1, <3>5, <4>2, <5>1 DEF SpentInv
      <4> QED
        BY <1>3, <4>1, <4>2
    <3>8. RefusedInv'
      <4>1. ASSUME stage = "alone"
            PROVE  /\ \A k \in (messages \ alone) \ results : refused'[k] >= Attempts
                   /\ refused'[m] >= single'.attempt
        <5>1. /\ \A k \in (messages \ alone) \ results : refused[k] >= Attempts
              /\ refused[m] >= single.attempt
              /\ m \in alone /\ messages \subseteq Email
          BY <1>1, <1>5, <4>1 DEF IInv, RefusedInv, PlaceInv, TypeOK
        <5> QED
          BY <1>2, <1>6, <2>1, <3>2, <5>1
      <4> QED
        BY <1>1, <1>3, <3>1, <3>2, <3>5, <4>1 DEF RefusedInv, DegradedAfterRetries
    <3> QED
      BY <3>3, <3>4, <3>7, <3>8 DEF IInv
  <2>3. CASE ~(single.attempt < MaxRetries)
    <3>1. SingleRaises /\ single.attempt = MaxRetries
      BY <1>2, <1>11, <2>3 DEF SingleAttemptFails
    <3>2. CASE stage = "batch"
      <4>1. Split /\ results' = results
        BY <3>1, <3>2 DEF SingleRaises
      <4>2. calls' <= BeforeSplit
        BY <1>1, <1>2, <2>1, <3>2 DEF IInv, PlaceInv, SpentInv, BeforeSplit
      <4> QED
        BY <1>1, <2>1, <4>1, <4>2, SplitInv
    <3>3. CASE stage = "alone"
      <4>1. AskAlone(left) /\ batch' = None /\ results' = results
        BY <1>5, <3>1, <3>3 DEF SingleRaises
      <4>2. results' \subseteq messages /\ messages \subseteq Email
        BY <1>1, <4>1 DEF TypeOK
      <4>3. refused'[m] >= Attempts
        BY <1>2, <1>5, <1>6, <2>1, <3>1, <3>3 DEF IInv, RefusedInv
      <4>4. \A k \in (messages \ left) \ results' : refused'[k] >= Attempts
        BY <1>9, <2>1, <4>1, <4>2, <4>3
      <4>5. calls' <= BeforeSplit + (N - Cardinality(left)) * Attempts
        BY <1>8, <2>1
      <4> QED
        BY <1>1, <1>7, <2>1, <4>1, <4>2, <4>4, <4>5, AskAloneInv
    <3> QED
      BY <1>3, <3>2, <3>3
  <2> QED
    BY <2>2, <2>3
<1> QED
  BY <1>10, <1>11 DEF CallSingle

-------------------------------------------------------------------------------
(* The invariant and the properties *)

LEMMA InitIInv == Init => IInv
<1> SUFFICES ASSUME Init PROVE IInv
  OBVIOUS
<1>1. TypeOK
  BY DEF Init, TypeOK
<1>2. /\ messages # {} /\ stage = "start" /\ batch = None /\ single = None /\ alone = {}
      /\ calls = 0
  BY DEF Init
<1>3. PlaceInv
  BY <1>2 DEF PlaceInv
<1>4. SpentInv
  BY <1>2 DEF SpentInv
<1>5. RefusedInv
  BY <1>2 DEF RefusedInv, DegradedAfterRetries
<1> QED
  BY <1>1, <1>3, <1>4, <1>5 DEF IInv

LEMMA StartInv == IInv /\ (NoClient \/ ExtractMany) => IInv'
<1> SUFFICES ASSUME IInv, NoClient \/ ExtractMany PROVE IInv'
  OBVIOUS
<1>1. /\ TypeOK /\ messages # {} /\ batch = None /\ single = None /\ alone = {} /\ calls = 0
      /\ UNCHANGED <<messages, alone, results, calls, answered, refused>>
  BY DEF IInv, PlaceInv, NoClient, ExtractMany
<1>2. N' = N /\ BeforeSplit' = BeforeSplit /\ Attempts' = Attempts /\ PerAttempt' = PerAttempt
  BY <1>1 DEF N, BeforeSplit, PerAttempt, Attempts
<1>3. CASE NoClient
  <2>1. stage' = "done" /\ UNCHANGED <<batch, single>>
    BY <1>3 DEF NoClient
  <2>2. BeforeSplit \in Nat /\ N * Attempts \in Nat
    BY <1>1, Sizes, Products
  <2>3. TypeOK' /\ PlaceInv'
    BY <1>1, <2>1 DEF TypeOK, PlaceInv
  <2>4. SpentInv' /\ RefusedInv'
    BY <1>1, <1>2, <2>1, <2>2 DEF SpentInv, RefusedInv, DegradedAfterRetries
  <2> QED
    BY <2>3, <2>4 DEF IInv
<1>4. CASE ExtractMany
  <2> DEFINE a == Activate(messages)
  <2>1. a \in Activation /\ a # None /\ a.asked = messages /\ a.attempt = 0 /\ a.got = {}
    BY <1>1, ActivateType, NoneApart DEF Activate, TypeOK
  <2>2. /\ stage' = "batch"
        /\ IF N = 1 THEN single' = a /\ batch' = None ELSE batch' = a /\ single' = None
    BY <1>1, <1>4 DEF ExtractMany, N
  <2> HIDE DEF a
  <2>3. TypeOK' /\ PlaceInv'
    BY <1>1, <1>2, <2>1, <2>2 DEF TypeOK, PlaceInv
  <2>4. 0 * PerAttempt = 0 /\ PerAttempt \in Nat
    BY <1>1, Sizes
  <2>5. SpentInv' /\ RefusedInv'
    BY <1>1, <1>2, <2>1, <2>2, <2>4 DEF SpentInv, RefusedInv, DegradedAfterRetries
  <2> QED
    BY <2>3, <2>5 DEF IInv
<1> QED
  BY <1>3, <1>4

LEMMA NextIInv == IInv /\ [Next]_vars => IInv'
<1> SUFFICES ASSUME IInv, [Next]_vars PROVE IInv'
  OBVIOUS
<1>1. CASE NoClient \/ ExtractMany
  BY <1>1, StartInv
<1>2. CASE CallBatch
  BY <1>2, CallBatchInv
<1>3. CASE CallSingle
  BY <1>3, CallInBatchInv, CallAloneInv DEF CallSingle
<1>4. CASE UNCHANGED vars
  BY <1>4 DEF vars, IInv, TypeOK, PlaceInv, SpentInv, RefusedInv, DegradedAfterRetries, N,
              Attempts, PerAttempt, BeforeSplit
<1> QED
  BY <1>1, <1>2, <1>3, <1>4 DEF Next

LEMMA AlwaysIInv == Spec => []IInv
BY InitIInv, NextIInv, PTL DEF Spec

\* extract_many and the activations of _remote_batch keep their types, and no result
\* is of an e-mail that was not asked for.
THEOREM TypeCorrect == Spec => []TypeOK
<1>1. IInv => TypeOK
  BY DEF IInv
<1> QED
  BY <1>1, AlwaysIInv, PTL

\* The retries of _remote_batch nest once and no further: the calls of a wave are
\* bounded by the attempts and the number of its e-mails.
THEOREM Bounded == Spec => []CallsBounded
<1>1. ASSUME IInv PROVE CallsBounded
  <2>1. TypeOK /\ PlaceInv /\ SpentInv
    BY <1>1 DEF IInv
  <2>2. /\ N \in Nat /\ Attempts \in Nat /\ BeforeSplit \in Nat /\ PerAttempt \in Nat
        /\ MaxRetries \in Nat /\ Attempts = MaxRetries + 1 /\ calls \in Nat
        /\ N * Attempts \in Nat /\ PerAttempt = 1 + N * Attempts
    BY <2>1, Sizes, Products DEF TypeOK, PerAttempt
  <2>3. calls <= BeforeSplit + N * Attempts
    <3>1. CASE stage = "start"
      BY <2>1, <2>2, <3>1 DEF PlaceInv
    <3>2. CASE stage = "batch" /\ batch = None
      <4>1. single.attempt <= MaxRetries /\ single.attempt \in Nat
        BY <2>1, <2>2, <3>2 DEF TypeOK, PlaceInv, Activation
      <4>2. BeforeSplit = Attempts /\ calls <= single.attempt
        BY <2>1, <3>2 DEF PlaceInv, SpentInv, BeforeSplit
      <4> QED
        BY <2>2, <4>1, <4>2
    <3>3. CASE stage = "batch" /\ batch # None
      <4> DEFINE k == batch.attempt
                 had == Cardinality(batch.got)
      <4>1. k \in Nat /\ k <= MaxRetries /\ N # 1
        BY <2>1, <2>2, <3>3 DEF TypeOK, PlaceInv, Activation
      <4>2. BeforeSplit = MaxRetries * PerAttempt + PerAttempt
        BY <2>2, <4>1, Products DEF BeforeSplit
      <4>3. k * PerAttempt <= MaxRetries * PerAttempt /\ k * PerAttempt \in Nat
        BY <2>2, <4>1, Products
      <4>4. MaxRetries * PerAttempt \in Nat
        BY <2>2, Products
      <4>5. calls <= k * PerAttempt + PerAttempt
        <5>1. CASE single = None
          BY <2>1, <2>2, <3>3, <4>3, <5>1 DEF SpentInv
        <5>2. CASE single # None
          <6>1. PICK m \in messages \ batch.got : single.asked = {m}
            BY <2>1, <3>3, <5>2 DEF PlaceInv
          <6>2. batch.got \in SUBSET messages /\ batch.got \cup {m} \in SUBSET messages
            BY <2>1, <3>3, <6>1 DEF PlaceInv
          <6>3. had \in Nat /\ had + 1 <= N
            BY <2>1, <6>2, OneMore, Sizes
          <6>4. /\ (had + 1) * Attempts <= N * Attempts /\ had * Attempts \in Nat
                /\ (had + 1) * Attempts = had * Attempts + Attempts
            BY <2>2, <6>3, Products
          <6>5. single.attempt \in Nat /\ single.attempt <= MaxRetries
            BY <2>1, <2>2, <5>2 DEF TypeOK, Activation
          <6>6. calls <= k * PerAttempt + 1 + had * Attempts + single.attempt
            BY <2>1, <3>3, <5>2 DEF SpentInv
          <6> HIDE DEF had, k
          <6> QED
            BY <2>2, <4>3, <6>4, <6>5, <6>6
        <5> QED
          BY <5>1, <5>2
      <4> HIDE DEF k
      <4> QED
        BY <2>2, <4>2, <4>3, <4>4, <4>5
    <3>4. CASE stage = "alone"
      <4> DEFINE gone == N - Cardinality(alone)
      <4>1. PICK m \in alone : single # None /\ single.asked = {m}
        BY <2>1, <3>4 DEF PlaceInv
      <4>2. alone \in SUBSET messages /\ alone \ {m} \in SUBSET messages
        BY <2>1 DEF TypeOK
      <4>3. /\ Cardinality(alone \ {m}) = Cardinality(alone) - 1
            /\ Cardinality(alone \ {m}) \in Nat
            /\ Cardinality(alone) \in Nat /\ Cardinality(alone) <= N
        BY <2>1, <4>2, OneLess, Sizes
      <4>4. gone \in Nat /\ gone + 1 <= N
        BY <2>2, <4>3
      <4>5. single.attempt \in Nat /\ single.attempt <= MaxRetries
        BY <2>1, <2>2, <4>1 DEF TypeOK, Activation
      <4>6. calls <= BeforeSplit + gone * Attempts + single.attempt
        BY <2>1, <3>4 DEF SpentInv
      <4> HIDE DEF gone
      <4>7. /\ (gone + 1) * Attempts <= N * Attempts /\ gone * Attempts \in Nat
            /\ (gone + 1) * Attempts = gone * Attempts + Attempts
        BY <2>2, <4>4, Products
      <4> QED
        BY <2>2, <4>5, <4>6, <4>7
    <3>5. CASE stage = "done"
      BY <2>1, <3>5 DEF SpentInv
    <3> QED
      BY <2>1, <3>1, <3>2, <3>3, <3>4, <3>5 DEF TypeOK
  <2> QED
    BY <2>2, <2>3 DEF CallsBounded, BeforeSplit, PerAttempt, Attempts, N
<1> QED
  BY <1>1, AlwaysIInv, PTL

\* No e-mail is degraded before it was refused alone in all its attempts.
THEOREM Degraded == Spec => []DegradedAfterRetries
<1>1. IInv => DegradedAfterRetries
  BY DEF IInv, RefusedInv
<1> QED
  BY <1>1, AlwaysIInv, PTL

===============================================================================
