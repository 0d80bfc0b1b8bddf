---------------------------- MODULE WorkspaceProofs ----------------------------
(***************************************************************************)
(* What the workspace shows, for any texts, chunk size and number of       *)
(* routes and questions.                                                   *)
(*                                                                         *)
(* Refreshes answer at any time, so what is shown of a batch is right only *)
(* because the last read of a route comes when the server is done with the *)
(* batch (RouteInv) and because no refresh is shown after it (Confirmed).  *)
(* RouteInv follows the one request of the route on the server: it has     *)
(* delivered the first e-mails of the batch, and has the rest of the chunk *)
(* still to do.                                                            *)
(***************************************************************************)
EXTENDS Workspace, SequenceTheorems, TLAPS

\* The place of the last e-mail of a chunk.
End(s, c) == IF c * ChunkSize < Len(s) THEN c * ChunkSize ELSE Len(s)

\* The first k e-mails of a sequence.
First(s, k) == {s[j] : j \in 1 .. k}

\* left holds what comes after the first k e-mails up to the end of a chunk.
IsRest(left, s, k, c) ==
    /\ Len(left) = End(s, c) - k
    /\ \A j \in 1 .. Len(left) : left[j] = s[k + j]

AwaitLabels == {"ingest", "refresh", "between", "last", "last refresh", "final"}

TypeOK ==
    /\ emails \in Seq(Email) /\ text \in Seq(Email)
    /\ upload # None => upload \in Seq(Email)
    /\ batch \in Batch \cup {None}
    /\ routing \in BOOLEAN /\ polling \in BOOLEAN
    /\ route \in [id : Batch \cup {None}, chunk : Nat, at : AwaitLabels]
    /\ sent \in [Batch -> Seq(Email)]
    /\ serving \in SUBSET [id : Batch, chunk : Nat, left : Seq(Email)]
    /\ delivered \in [Batch -> SUBSET Email]
    /\ asking \in Seq(Batch) /\ history \in Seq(Batch)

\* A batch id that was not drawn is unknown to the server and to the dashboard.
NewInv ==
    \A b \in Batch : sent[b] = <<>> =>
        /\ delivered[b] = {}
        /\ \A q \in serving : q.id # b
        /\ b \notin late

\* The server's part in the route on its way.
RouteInv ==
    routing =>
        LET s == sent[route.id] IN
        /\ route.id \in Batch /\ s # <<>>
        /\ route.chunk \in 1 .. NumberOfChunks(s)
        /\ \A q, r \in serving : q.id = route.id /\ r.id = route.id => q = r
        /\ \A q \in serving : q.id = route.id =>
              /\ route.at = "ingest" /\ q.chunk = route.chunk
              /\ \E k \in 0 .. End(s, route.chunk) :
                    delivered[route.id] = First(s, k) /\ IsRest(q.left, s, k, route.chunk)
        /\ route.at # "ingest" => delivered[route.id] = First(s, End(s, route.chunk))
        /\ route.at \in {"last", "last refresh", "final"} => route.chunk = NumberOfChunks(s)
        /\ route.at = "final" => ~polling

\* What is shown while the chat is unlocked stays as it is.
Confirmed ==
    batch # None =>
        /\ ~routing /\ ~polling
        /\ route.at = "final"
        /\ sent[batch] # <<>>
        /\ decisions = ToSet(sent[batch])
        /\ decisions = delivered[batch]
        /\ \A q \in serving : q.id # batch

\* The preview and the results follow the route unless something arrived late.
Preview ==
    /\ routing /\ route.id \notin late =>
        /\ emails = sent[route.id]
        /\ route.at # "ingest" => results = route.chunk
    /\ PreviewIsTheBatch

\* One question is on its way, and of the shown batch when an answer is shown.
Asking ==
    /\ Len(asking) <= 1
    /\ history # <<>> /\ asking # <<>> => asking[1] = batch
    /\ OneStaleAnswerAtMost

IInv == TypeOK /\ NewInv /\ RouteInv /\ Confirmed /\ Preview /\ Asking

-------------------------------------------------------------------------------
(* Types *)

LEMMA TextType ==
    /\ Text \subseteq Seq(Email) /\ Samples \in Seq(Email) /\ <<>> \in Seq(Email)
    /\ <<>> \in Seq(Batch)
BY TextAssumption, EmptySeq

LEMMA InputTypes ==
    ASSUME TypeOK, Inputs
    PROVE  TypeOK'
<1> USE TextType DEF TypeOK, client, input, shown, server, clearRoutedState, SetBatch
<1>1. ASSUME NEW t \in Text, ChangeText(t) \/ Upload(t) PROVE TypeOK'
  BY <1>1 DEF ChangeText, Upload
<1>2. CASE Parse
  BY <1>2 DEF Parse
<1>3. CASE FetchSamples \/ SamplesFail
  BY <1>3 DEF FetchSamples, SamplesFail
<1>4. CASE SamplesArrive
  BY <1>4 DEF SamplesArrive
<1>5. CASE UploadArrives
  BY <1>5 DEF UploadArrives
<1> QED
  BY <1>1, <1>2, <1>3, <1>4, <1>5 DEF Inputs

LEMMA AskTypes ==
    ASSUME TypeOK, Ask \/ Answered \/ NotAnswered
    PROVE  TypeOK'
<1> USE DEF TypeOK, input, shown, server
<1>1. CASE Ask
  BY <1>1 DEF Ask
<1>2. CASE Answered
  <2>1. Tail(asking) \in Seq(Batch) /\ Head(asking) \in Batch
    BY <1>2, HeadTailProperties DEF Answered
  <2> QED
    BY <1>2, <2>1 DEF Answered
<1>3. CASE NotAnswered
  <2>1. Tail(asking) \in Seq(Batch)
    BY <1>3, HeadTailProperties DEF NotAnswered
  <2> QED
    BY <1>3, <2>1 DEF NotAnswered
<1> QED
  BY <1>1, <1>2, <1>3

-------------------------------------------------------------------------------
(* Chunks *)

LEMMA Products ==
    ASSUME NEW a \in Nat, NEW b \in Nat, NEW c \in Nat
    PROVE  /\ a * c \in Nat
           /\ (a + 1) * c = a * c + c
           /\ a <= b => a * c <= b * c
OBVIOUS

LEMMA Quotients ==
    ASSUME NEW a \in Nat, NEW c \in Nat \ {0}
    PROVE  /\ a \div c \in Nat
           /\ (a \div c) * c <= a
           /\ a < (a \div c) * c + c
OBVIOUS

\* The chunks reach the end of the sequence, and all but the last end before it.
LEMMA Chunks ==
    ASSUME NEW s \in Seq(Email), s # <<>>
    PROVE  /\ NumberOfChunks(s) \in Nat \ {0}
           /\ NumberOfChunks(s) * ChunkSize >= Len(s)
           /\ \A c \in Nat : c < NumberOfChunks(s) => c * ChunkSize < Len(s)
<1> DEFINE L == Len(s)  C == ChunkSize  n == (L + C - 1) \div C
<1>1. L \in Nat \ {0} /\ C \in Nat \ {0}
  BY ChunkSizeAssumption, EmptySeq
<1>2. n = NumberOfChunks(s)
  BY DEF NumberOfChunks
<1> HIDE DEF L, C
<1>3. L + C - 1 \in Nat
  BY <1>1
<1>4. n \in Nat /\ n * C <= L + C - 1 /\ L + C - 1 < n * C + C
  BY <1>1, <1>3, Quotients
<1> HIDE DEF n
<1>5. n * C \in Nat /\ 0 * C = 0
  BY <1>1, <1>4, Products
<1>6. n * C >= L
  BY <1>1, <1>4, <1>5
<1>7. n # 0
  BY <1>1, <1>5, <1>6
<1>8. ASSUME NEW c \in Nat, c < n PROVE c * C < L
  <2>1. c + 1 <= n /\ c + 1 \in Nat
    BY <1>4, <1>8
  <2>2. c * C \in Nat /\ (c + 1) * C = c * C + C
    BY <1>1, Products
  <2>3. (c + 1) * C <= n * C
    BY <1>1, <1>4, <2>1, Products
  <2> QED
    BY <1>1, <1>4, <1>5, <2>2, <2>3
<1> QED
  BY <1>2, <1>4, <1>6, <1>7, <1>8 DEF L, C

LEMMA EndType ==
    ASSUME NEW s \in Seq(Email), NEW c \in Nat
    PROVE  End(s, c) \in Nat /\ End(s, c) <= Len(s)
<1>1. c * ChunkSize \in Nat /\ Len(s) \in Nat
  BY Products, ChunkSizeAssumption
<1> QED
  BY <1>1 DEF End

\* A chunk that is sent is the rest after the chunks before it.
LEMMA ChunkIsRest ==
    ASSUME NEW s \in Seq(Email), NEW c \in Nat, c * ChunkSize <= Len(s)
    PROVE  /\ ChunkOf(s, c + 1) \in Seq(Email)
           /\ IsRest(ChunkOf(s, c + 1), s, c * ChunkSize, c + 1)
           /\ c * ChunkSize \in 0 .. End(s, c + 1)
           /\ End(s, c) = c * ChunkSize
<1> DEFINE m == c * ChunkSize  e == End(s, c + 1)
<1>1. m \in Nat /\ Len(s) \in Nat /\ ChunkSize \in Nat /\ (c + 1) * ChunkSize = m + ChunkSize
  BY Products, ChunkSizeAssumption
<1>2. e \in Nat /\ e <= Len(s)
  BY EndType
<1>3. ChunkOf(s, c + 1) = SubSeq(s, m + 1, e)
  <2>1. (c + 1) - 1 = c
    OBVIOUS
  <2> QED
    BY <2>1 DEF ChunkOf, End
<1>4. End(s, c) = m
  BY <1>1 DEF End
<1>5. e = IF m + ChunkSize < Len(s) THEN m + ChunkSize ELSE Len(s)
  BY <1>1 DEF End
<1> HIDE DEF m, e
<1>6. m <= e
  BY <1>1, <1>2, <1>5 DEF m
<1>7. /\ SubSeq(s, m + 1, e) \in Seq(Email)
      /\ Len(SubSeq(s, m + 1, e)) = e - m
      /\ \A j \in 1 .. e - m : SubSeq(s, m + 1, e)[j] = s[m + j]
  <2>1. /\ SubSeq(s, m + 1, e) \in Seq(Email)
        /\ Len(SubSeq(s, m + 1, e)) = IF m + 1 <= e THEN e - (m + 1) + 1 ELSE 0
        /\ \A j \in 1 .. e - (m + 1) + 1 : SubSeq(s, m + 1, e)[j] = s[(m + 1) + j - 1]
    BY <1>1, <1>2, SubSeqProperties
  <2> QED
    BY <1>1, <1>2, <1>6, <2>1
<1>8. IsRest(ChunkOf(s, c + 1), s, m, c + 1)
  BY <1>3, <1>7 DEF IsRest, e
<1>9. m \in 0 .. e
  BY <1>1, <1>2, <1>6
<1> QED
  BY <1>3, <1>4, <1>7, <1>8, <1>9 DEF m, e

LEMMA ChunkType ==
    ASSUME NEW s \in Seq(Email), NEW c \in Nat
    PROVE  ChunkOf(s, c + 1) \in Seq(Email)
<1> DEFINE m == c * ChunkSize  e == End(s, c + 1)
<1>1. m \in Nat /\ Len(s) \in Nat
  BY Products, ChunkSizeAssumption
<1>2. e \in Nat /\ e <= Len(s)
  BY EndType
<1>3. ChunkOf(s, c + 1) = SubSeq(s, m + 1, e)
  <2>1. (c + 1) - 1 = c
    OBVIOUS
  <2> QED
    BY <2>1 DEF ChunkOf, End
<1> HIDE DEF m, e
<1>4. \A i \in m + 1 .. e : s[i] \in Email
  BY <1>1, <1>2, ElementOfSeq
<1>5. m + 1 \in Int /\ e \in Int
  BY <1>1, <1>2
<1>6. SubSeq(s, m + 1, e) \in Seq(Email)
  BY <1>4, <1>5, SubSeqProperties
<1> QED
  BY <1>3, <1>6

-------------------------------------------------------------------------------
(* Types of the route *)

LEMMA ResumeType ==
    ASSUME TypeOK, NEW p, Resume(p)
    PROVE  /\ polling' \in BOOLEAN
           /\ route' \in [id : Batch \cup {None}, chunk : Nat, at : AwaitLabels]
           /\ route'.id = route.id /\ route'.chunk = route.chunk
BY DEF TypeOK, Resume, AwaitLabels

LEMMA SendType ==
    ASSUME TypeOK, NEW b \in Batch, NEW s \in Seq(Email), NEW c \in Nat,
           SendChunk(b, s, c + 1)
    PROVE  serving' \in SUBSET [id : Batch, chunk : Nat, left : Seq(Email)]
BY ChunkType DEF TypeOK, SendChunk

LEMMA Successor ==
    ASSUME NEW c \in Nat
    PROVE  c + 1 \in Nat
OBVIOUS

LEMMA LabelType ==
    ASSUME NEW r \in [id : Batch \cup {None}, chunk : Nat, at : AwaitLabels],
           NEW a \in AwaitLabels, NEW c \in Nat
    PROVE  /\ [r EXCEPT !.at = a] \in [id : Batch \cup {None}, chunk : Nat, at : AwaitLabels]
           /\ [r EXCEPT !.at = a, !.chunk = c]
                \in [id : Batch \cup {None}, chunk : Nat, at : AwaitLabels]
OBVIOUS

LEMMA RouteTypes ==
    ASSUME TypeOK, RouteInv, Routes
    PROVE  TypeOK'
<1> USE TextType DEF TypeOK, client, input, shown, server, SetBatch
<1>1. ASSUME NEW b \in Batch, StartRoute(b) PROVE TypeOK'
  <2>1. serving' \in SUBSET [id : Batch, chunk : Nat, left : Seq(Email)]
    <3>1. SendChunk(b, emails, 0 + 1)
      BY <1>1 DEF StartRoute
    <3> QED
      BY <3>1, SendType
  <2>2. route' \in [id : Batch \cup {None}, chunk : Nat, at : AwaitLabels]
    BY <1>1 DEF StartRoute, AwaitLabels
  <2>3. sent' \in [Batch -> Seq(Email)]
    BY <1>1 DEF StartRoute
  <2> QED
    BY <1>1, <2>1, <2>2, <2>3 DEF StartRoute
<1>2. CASE Poll
  BY <1>2 DEF Poll
<1>3. CASE ChunkDone
  <2>1. route' \in [id : Batch \cup {None}, chunk : Nat, at : AwaitLabels]
    BY <1>3 DEF ChunkDone, AwaitLabels
  <2>2. serving' \subseteq serving
    BY <1>3 DEF ChunkDone
  <2> QED
    BY <1>3, <2>1, <2>2 DEF ChunkDone
<1>4. CASE Proceed
  <2>1. route.id \in Batch /\ route.chunk \in Nat
    BY <1>4 DEF Proceed, RouteInv
  <2>2. route' \in [id : Batch \cup {None}, chunk : Nat, at : AwaitLabels]
    <3>1. /\ [route EXCEPT !.at = "last"] \in [id : Batch \cup {None}, chunk : Nat, at : AwaitLabels]
          /\ [route EXCEPT !.at = "ingest", !.chunk = @ + 1]
               \in [id : Batch \cup {None}, chunk : Nat, at : AwaitLabels]
      <4>1. "last" \in AwaitLabels /\ "ingest" \in AwaitLabels
        BY DEF AwaitLabels
      <4>2. route.chunk + 1 \in Nat
        BY <2>1, Successor
      <4> QED
        BY <4>1, <4>2, LabelType
    <3>2. \/ route' = [route EXCEPT !.at = "last"]
          \/ route' = [route EXCEPT !.at = "ingest", !.chunk = @ + 1]
      BY <1>4 DEF Proceed, NextChunk
    <3> QED
      BY <3>1, <3>2
  <2>3. serving' \in SUBSET [id : Batch, chunk : Nat, left : Seq(Email)]
    BY <1>4, <2>1, SendType DEF Proceed, NextChunk
  <2> QED
    BY <1>4, <2>2, <2>3 DEF Proceed
<1>5. CASE LastRefresh
  <2>1. route' \in [id : Batch \cup {None}, chunk : Nat, at : AwaitLabels]
    BY <1>5 DEF LastRefresh, AwaitLabels
  <2>2. polling' \in BOOLEAN
    BY <1>5 DEF LastRefresh, PollBusy
  <2> QED
    BY <1>5, <2>1, <2>2 DEF LastRefresh
<1>6. CASE Finish
  <2>1. route.id \in Batch
    BY <1>6 DEF Finish, RouteInv
  <2> QED
    BY <1>6, <2>1 DEF Finish
<1>7. CASE RouteFails
  BY <1>7 DEF RouteFails
<1>8. ASSUME NEW p \in polls, PollRead(p) PROVE TypeOK'
  BY <1>8 DEF PollRead
<1>9. ASSUME NEW p \in polls, PollArrives(p) \/ PollFails(p) PROVE TypeOK'
  BY <1>9, ResumeType DEF PollArrives, PollFails
<1>10. ASSUME NEW q \in serving, Serve(q) PROVE TypeOK'
  <2>1. q \in [id : Batch, chunk : Nat, left : Seq(Email)] /\ q.left # <<>>
    BY <1>10 DEF Serve
  <2>2. Head(q.left) \in Email /\ Tail(q.left) \in Seq(Email)
    BY <2>1, HeadTailProperties
  <2>3. [q EXCEPT !.left = Tail(@)] \in [id : Batch, chunk : Nat, left : Seq(Email)]
    BY <2>1, <2>2
  <2>4. delivered' \in [Batch -> SUBSET Email]
    BY <1>10, <2>1, <2>2 DEF Serve
  <2> QED
    BY <1>10, <2>3, <2>4 DEF Serve
<1> QED
  BY <1>1, <1>2, <1>3, <1>4, <1>5, <1>6, <1>7, <1>8, <1>9, <1>10 DEF Routes

-------------------------------------------------------------------------------
(* Steps that leave the route and the server alone *)

RouteSame == UNCHANGED <<routing, route, polling, serving, delivered, sent>>

LEMMA QuietStep ==
    ASSUME IInv, RouteSame,
           late' = late \/ (routing /\ late' = late \cup {route.id}),
           (batch' = batch /\ decisions' = decisions) \/ batch' = None
    PROVE  NewInv' /\ RouteInv' /\ Confirmed'
<1>1. NewInv'
  <2>1. routing => sent[route.id] # <<>> /\ route.id \in Batch
    BY DEF IInv, RouteInv
  <2> QED
    BY <2>1 DEF IInv, NewInv, RouteSame
<1>2. RouteInv'
  <2> QED
    BY DEF IInv, RouteInv, RouteSame
<1>3. Confirmed'
  BY DEF IInv, Confirmed, RouteSame
<1> QED
  BY <1>1, <1>2, <1>3

LEMMA QuietPreview ==
    ASSUME IInv, RouteSame,
           \/ batch' = None /\ (routing => route.id \in late')
           \/ UNCHANGED <<batch, emails, results, late>>
    PROVE  Preview'
BY DEF IInv, Preview, PreviewIsTheBatch, RouteSame

LEMMA BatchAsking ==
    ASSUME TypeOK, Asking, NEW b, SetBatch(b), UNCHANGED asking
    PROVE  Asking'
<1>1. CASE b = batch
  BY <1>1 DEF Asking, SetBatch, OneStaleAnswerAtMost
<1>2. CASE b # batch
  <2>1. history' = <<>> /\ Len(history') = 0
    BY <1>2, EmptySeq DEF SetBatch
  <2> QED
    BY <2>1 DEF Asking, OneStaleAnswerAtMost
<1> QED
  BY <1>1, <1>2

LEMMA SameAsking ==
    ASSUME Asking, UNCHANGED <<batch, history, asking>>
    PROVE  Asking'
BY DEF Asking, OneStaleAnswerAtMost

LEMMA InputSteps ==
    ASSUME IInv, Inputs
    PROVE  IInv'
<1>1. TypeOK'
  BY InputTypes DEF IInv
<1>2. CASE clearRoutedState
  <2>1. RouteSame /\ UNCHANGED asking /\ batch' = None /\ SetBatch(None)
    BY <1>2 DEF Inputs, ChangeText, Upload, Parse, FetchSamples, SamplesArrive, SamplesFail,
                UploadArrives, RouteSame, server, shown, clearRoutedState, SetBatch
  <2>2. /\ late' = late \/ (routing /\ late' = late \cup {route.id})
        /\ (routing => route.id \in late') \/ UNCHANGED <<batch, emails, results, late>>
    BY DEF Inputs, ChangeText, Upload, Parse, FetchSamples, SamplesArrive, SamplesFail,
           UploadArrives, ArrivesLate, input, shown
  <2> QED
    BY <1>1, <2>1, <2>2, QuietStep, QuietPreview, BatchAsking DEF IInv
<1>3. CASE ~clearRoutedState
  <2>1. RouteSame /\ UNCHANGED <<batch, emails, results, late, decisions, history, asking>>
    BY <1>3 DEF Inputs, ChangeText, Upload, Parse, FetchSamples, SamplesArrive, SamplesFail,
                UploadArrives, RouteSame, server, shown, input
  <2> QED
    BY <1>1, <2>1, QuietStep, QuietPreview, SameAsking DEF IInv
<1> QED
  BY <1>2, <1>3

LEMMA OneInSeq ==
    ASSUME NEW S, NEW s \in Seq(S), s # <<>>, Len(s) <= 1
    PROVE  Len(s) = 1 /\ Head(s) = s[1] /\ s[1] \in S /\ Tail(s) = <<>>
<1>1. Len(s) \in Nat /\ Len(s) # 0
  BY EmptySeq, LenProperties
<1>2. Len(s) = 1
  BY <1>1
<1>3. Tail(s) \in Seq(S) /\ Len(Tail(s)) = 0
  BY <1>2, HeadTailProperties
<1>4. Tail(s) = <<>>
  BY <1>3, EmptySeq
<1>5. s[1] \in S
  BY <1>2, ElementOfSeq
<1>6. Head(s) = s[1]
  OBVIOUS
<1> QED
  BY <1>2, <1>4, <1>5, <1>6

LEMMA AskSteps ==
    ASSUME IInv, Ask \/ Answered \/ NotAnswered
    PROVE  IInv'
<1>1. TypeOK /\ TypeOK'
  BY AskTypes DEF IInv
<1>2. RouteSame /\ UNCHANGED <<batch, emails, results, late, decisions>>
  BY DEF Ask, Answered, NotAnswered, RouteSame, server, shown, input
<1>3. asking \in Seq(Batch) /\ history \in Seq(Batch) /\ Asking
  BY DEF IInv, TypeOK
<1>4. Asking'
  <2>1. CASE Ask
    <3>1. asking' = Append(asking, batch) /\ asking = <<>> /\ batch \in Batch
      BY <1>1, <2>1 DEF Ask, TypeOK
    <3>2. Len(asking') = 1 /\ asking'[1] = batch
      BY <1>3, <3>1, AppendProperties, EmptySeq
    <3>3. UNCHANGED <<batch, history>>
      BY <2>1 DEF Ask, shown
    <3> QED
      BY <1>3, <3>2, <3>3 DEF Asking, OneStaleAnswerAtMost
  <2>2. CASE Answered
    <3>1. asking' = Tail(asking) /\ asking # <<>> /\ history' = Append(history, Head(asking))
      BY <2>2 DEF Answered
    <3>2. Len(asking) = 1 /\ Head(asking) = asking[1] /\ asking[1] \in Batch
      BY <1>3, <3>1, OneInSeq DEF Asking
    <3>3. asking' = <<>> /\ Len(asking') = 0
      BY <1>3, <3>1, OneInSeq, EmptySeq DEF Asking
    <3>4. /\ Len(history') = Len(history) + 1
          /\ history'[Len(history) + 1] = asking[1]
          /\ \A i \in 1 .. Len(history) : history'[i] = history[i]
      BY <1>3, <3>1, <3>2, AppendProperties
    <3>5. ASSUME NEW i \in 2 .. Len(history') PROVE history'[i] = batch'
      <4>1. CASE i = Len(history) + 1
        <5>1. history # <<>>
          BY <1>3, <4>1, EmptySeq
        <5> QED
          BY <1>2, <1>3, <3>1, <3>4, <4>1, <5>1 DEF Asking
      <4>2. CASE i # Len(history) + 1
        <5>1. i \in 2 .. Len(history) /\ i \in 1 .. Len(history)
          BY <1>3, <3>4, <4>2, LenProperties
        <5> QED
          BY <1>2, <1>3, <3>4, <5>1 DEF Asking, OneStaleAnswerAtMost
      <4> QED
        BY <4>1, <4>2
    <3> QED
      BY <3>3, <3>5 DEF Asking, OneStaleAnswerAtMost
  <2>3. CASE NotAnswered
    <3>1. asking' = Tail(asking) /\ asking # <<>> /\ UNCHANGED <<batch, history>>
      BY <2>3 DEF NotAnswered, shown
    <3>2. asking' = <<>> /\ Len(asking') = 0
      BY <1>3, <3>1, OneInSeq, EmptySeq DEF Asking
    <3> QED
      BY <1>3, <3>1, <3>2 DEF Asking, OneStaleAnswerAtMost
  <2> QED
    BY <2>1, <2>2, <2>3
<1> QED
  BY <1>1, <1>2, <1>4, QuietStep, QuietPreview DEF IInv

-------------------------------------------------------------------------------
(* Steps of the route and of the server *)

LEMMA FirstType ==
    ASSUME NEW s \in Seq(Email)
    PROVE  /\ First(s, 0) = {}
           /\ \A k \in Nat : First(s, k + 1) = First(s, k) \cup {s[k + 1]}
           /\ First(s, Len(s)) = ToSet(s)
<1>1. First(s, 0) = {}
  BY DEF First
<1>2. ASSUME NEW k \in Nat PROVE First(s, k + 1) = First(s, k) \cup {s[k + 1]}
  <2>1. 1 .. k + 1 = (1 .. k) \cup {k + 1}
    OBVIOUS
  <2> QED
    BY <2>1 DEF First
<1>3. First(s, Len(s)) = ToSet(s)
  BY LenProperties DEF First, ToSet
<1> QED
  BY <1>1, <1>2, <1>3

\* The end of the last chunk is the end of the sequence.
LEMMA LastEnd ==
    ASSUME NEW s \in Seq(Email), s # <<>>
    PROVE  End(s, NumberOfChunks(s)) = Len(s)
<1>1. NumberOfChunks(s) * ChunkSize \in Nat /\ Len(s) \in Nat
  BY Chunks, Products, ChunkSizeAssumption
<1> QED
  BY <1>1, Chunks DEF End

LEMMA StartRouteStep ==
    ASSUME IInv, TypeOK', NEW b \in Batch, StartRoute(b)
    PROVE  IInv'
<1>1. /\ ~routing /\ routing' = TRUE /\ batch' = None
      /\ sent[b] = <<>> /\ sent'[b] = emails /\ emails # <<>> /\ emails' = emails
      /\ \A a \in Batch \ {b} : sent'[a] = sent[a]
      /\ route'.id = b /\ route'.chunk = 1 /\ route'.at = "ingest"
      /\ UNCHANGED <<delivered, late, asking>>
      /\ SetBatch(None)
  BY DEF StartRoute, IInv, TypeOK, Drawn, SetBatch, input
<1> DEFINE q == [id |-> b, chunk |-> 1, left |-> ChunkOf(emails, 1)]
<1>2. serving' = serving \cup {q}
  BY DEF StartRoute, SendChunk
<1>3. /\ delivered[b] = {} /\ b \notin late
      /\ \A r \in serving : r.id # b
  BY <1>1 DEF IInv, NewInv
<1>4. NewInv'
  BY <1>1, <1>2 DEF IInv, NewInv
<1>5. emails \in Seq(Email) /\ 0 * ChunkSize = 0 /\ 0 <= Len(emails) /\ 0 + 1 = 1
  BY LenProperties, ChunkSizeAssumption DEF IInv, TypeOK
<1>6. /\ IsRest(ChunkOf(emails, 1), emails, 0, 1)
      /\ 0 \in 0 .. End(emails, 1)
      /\ First(emails, 0) = {}
  BY <1>5, ChunkIsRest, FirstType
<1>7. 1 \in 1 .. NumberOfChunks(emails)
  BY <1>1, <1>5, Chunks
<1>8. q.id = b /\ q.chunk = 1 /\ q.left = ChunkOf(emails, 1)
  OBVIOUS
<1> HIDE DEF q
<1>9. ASSUME NEW r \in serving', r.id = b
      PROVE  r = q
  BY <1>2, <1>3, <1>9
<1>10. RouteInv'
  <2>1. \E k \in 0 .. End(emails, 1) :
            delivered[b] = First(emails, k) /\ IsRest(q.left, emails, k, 1)
    BY <1>3, <1>6, <1>8
  <2> QED
    BY <1>1, <1>7, <1>8, <1>9, <2>1 DEF RouteInv
<1>11. Confirmed' /\ Preview'
  BY <1>1 DEF Confirmed, Preview, PreviewIsTheBatch
<1>12. Asking'
  BY <1>1, BatchAsking DEF IInv
<1> QED
  BY <1>4, <1>10, <1>11, <1>12 DEF IInv

\* A request that awaits its refresh goes on, or nothing of the route changes.
LEMMA ResumeKinds ==
    ASSUME TypeOK, NEW p, Resume(p)
    PROVE  /\ route'.id = route.id /\ route'.chunk = route.chunk
           /\ \/ UNCHANGED <<route, polling>>
              \/ route.at = "refresh" /\ route'.at = "between"
              \/ route.at = "last refresh" /\ route'.at = "final" /\ polling' = FALSE
BY DEF TypeOK, Resume

LEMMA PollSteps ==
    ASSUME IInv, TypeOK', NEW p,
           Poll \/ PollRead(p) \/ PollArrives(p) \/ PollFails(p)
    PROVE  IInv'
<1>1. CASE Poll \/ PollRead(p)
  <2>1. RouteSame /\ UNCHANGED <<batch, emails, results, late, decisions, history, asking>>
    BY <1>1 DEF Poll, PollRead, RouteSame, server, shown, input
  <2> QED
    BY <2>1, QuietStep, QuietPreview, SameAsking DEF IInv
<1>2. CASE PollArrives(p) \/ PollFails(p)
  <2>1. /\ Resume(p)
        /\ UNCHANGED <<emails, batch, results, history, routing, asking, serving, delivered,
                       sent, late>>
        /\ decisions' = decisions \/ polling
    BY <1>2 DEF PollArrives, PollFails, input, shown, server
  <2>2. /\ route'.id = route.id /\ route'.chunk = route.chunk
        /\ \/ UNCHANGED <<route, polling>>
           \/ route.at = "refresh" /\ route'.at = "between"
           \/ route.at = "last refresh" /\ route'.at = "final" /\ polling' = FALSE
    BY <2>1, ResumeKinds DEF IInv
  <2>3. NewInv'
    BY <2>1 DEF IInv, NewInv
  <2>4. RouteInv'
    <3> SUFFICES ASSUME routing PROVE RouteInv'
      BY <2>1 DEF RouteInv
    <3>1. CASE UNCHANGED <<route, polling>>
      BY <2>1, <3>1 DEF IInv, RouteInv
    <3>2. CASE route.at # "ingest" /\ route'.at = "between"
      BY <2>1, <2>2, <3>2 DEF IInv, RouteInv
    <3>3. CASE route.at = "last refresh" /\ route'.at = "final" /\ polling' = FALSE
      BY <2>1, <2>2, <3>3 DEF IInv, RouteInv
    <3> QED
      BY <2>2, <3>1, <3>2, <3>3
  <2>5. Confirmed'
    BY <2>1, <2>2 DEF IInv, Confirmed
  <2>6. Preview'
    BY <2>1, <2>2 DEF IInv, Preview, PreviewIsTheBatch
  <2> QED
    BY <2>1, <2>3, <2>4, <2>5, <2>6, SameAsking DEF IInv
<1> QED
  BY <1>1, <1>2

LEMMA ChunkDoneStep ==
    ASSUME IInv, TypeOK', ChunkDone
    PROVE  IInv'
<1> DEFINE s == sent[route.id]
<1>1. /\ routing /\ routing' /\ route.at = "ingest"
      /\ route'.id = route.id /\ route'.chunk = route.chunk
      /\ route'.at \in {"between", "refresh"}
      /\ results' = route.chunk
      /\ UNCHANGED <<emails, batch, decisions, history, polling, asking, delivered, sent, late>>
  BY DEF ChunkDone, IInv, TypeOK, input
<1>2. PICK q \in serving : /\ q.id = route.id /\ q.left = <<>>
                          /\ serving' = serving \ {q}
  BY DEF ChunkDone
<1>3. RouteInv /\ s \in Seq(Email) /\ route.chunk \in Nat
  BY <1>1 DEF IInv, TypeOK, RouteInv
<1>4. PICK k \in 0 .. End(s, route.chunk) :
        delivered[route.id] = First(s, k) /\ IsRest(q.left, s, k, route.chunk)
  BY <1>1, <1>2, <1>3 DEF RouteInv
<1>5. k = End(s, route.chunk)
  <2>1. Len(q.left) = 0 /\ End(s, route.chunk) \in Nat
    BY <1>2, <1>3, EmptySeq, EndType
  <2> QED
    BY <1>4, <2>1 DEF IsRest
<1>6. \A r \in serving' : r.id # route.id
  BY <1>1, <1>2, <1>3 DEF RouteInv
<1>7. RouteInv'
  <2> QED
    BY <1>1, <1>3, <1>4, <1>5, <1>6 DEF RouteInv
<1>8. NewInv'
  BY <1>1, <1>2 DEF IInv, NewInv
<1>9. Confirmed'
  BY <1>1 DEF IInv, Confirmed
<1>10. Preview'
  BY <1>1 DEF IInv, Preview, PreviewIsTheBatch, Confirmed
<1> QED
  BY <1>1, <1>7, <1>8, <1>9, <1>10, SameAsking DEF IInv

LEMMA ProceedStep ==
    ASSUME IInv, TypeOK', Proceed
    PROVE  IInv'
<1> DEFINE s == sent[route.id]  c == route.chunk
<1>1. /\ routing /\ routing' /\ route.at = "between"
      /\ UNCHANGED <<emails, batch, decisions, results, history, polling, asking, delivered,
                     sent, late>>
  BY DEF Proceed, input, shown
<1>2. /\ RouteInv /\ s \in Seq(Email) /\ s # <<>> /\ c \in Nat /\ c \in 1 .. NumberOfChunks(s)
      /\ route.id \in Batch
      /\ \A r \in serving : r.id # route.id
      /\ delivered[route.id] = First(s, End(s, c))
  BY <1>1 DEF IInv, TypeOK, RouteInv
<1>3. Confirmed'
  BY <1>1 DEF IInv, Confirmed
<1>4. Asking'
  BY <1>1, SameAsking DEF IInv
<1>5. CASE c = NumberOfChunks(s)
  <2>1. /\ route'.id = route.id /\ route'.chunk = c /\ route'.at = "last"
        /\ serving' = serving
    BY <1>5 DEF Proceed, NextChunk, IInv, TypeOK
  <2>2. RouteInv'
    BY <1>1, <1>2, <1>5, <2>1 DEF RouteInv
  <2>3. NewInv'
    BY <1>1, <2>1 DEF IInv, NewInv
  <2>4. Preview'
    BY <1>1, <2>1 DEF IInv, Preview, PreviewIsTheBatch, Confirmed
  <2> QED
    BY <1>3, <1>4, <2>2, <2>3, <2>4 DEF IInv
<1>6. CASE c # NumberOfChunks(s)
  <2> DEFINE q == [id |-> route.id, chunk |-> c + 1, left |-> ChunkOf(s, c + 1)]
  <2>1. /\ route'.id = route.id /\ route'.chunk = c + 1 /\ route'.at = "ingest"
        /\ serving' = serving \cup {q}
    BY <1>6 DEF Proceed, NextChunk, SendChunk, IInv, TypeOK
  <2>2. c < NumberOfChunks(s) /\ c + 1 \in 1 .. NumberOfChunks(s) /\ c * ChunkSize < Len(s)
        /\ c * ChunkSize \in Nat /\ Len(s) \in Nat
    BY <1>2, <1>6, Chunks, Products, ChunkSizeAssumption
  <2>3. /\ IsRest(ChunkOf(s, c + 1), s, c * ChunkSize, c + 1)
        /\ c * ChunkSize \in 0 .. End(s, c + 1)
        /\ End(s, c) = c * ChunkSize
    BY <1>2, <2>2, ChunkIsRest
  <2>4. q.id = route.id /\ q.chunk = c + 1 /\ q.left = ChunkOf(s, c + 1)
    OBVIOUS
  <2> HIDE DEF q
  <2>5. \A r \in serving' : r.id = route.id => r = q
    BY <1>2, <2>1
  <2>6. \E k \in 0 .. End(s, c + 1) :
            delivered[route.id] = First(s, k) /\ IsRest(q.left, s, k, c + 1)
    BY <1>2, <2>3, <2>4
  <2>7. RouteInv'
    BY <1>1, <1>2, <2>1, <2>2, <2>4, <2>5, <2>6 DEF RouteInv
  <2>8. NewInv'
    BY <1>1, <1>2, <2>1, <2>4 DEF IInv, NewInv
  <2>9. Preview'
    BY <1>1, <2>1 DEF IInv, Preview, PreviewIsTheBatch, Confirmed
  <2> QED
    BY <1>3, <1>4, <2>7, <2>8, <2>9 DEF IInv
<1> QED
  BY <1>5, <1>6

LEMMA LastRefreshStep ==
    ASSUME IInv, TypeOK', LastRefresh
    PROVE  IInv'
<1>1. /\ routing /\ routing' /\ route.at = "last"
      /\ route'.id = route.id /\ route'.chunk = route.chunk
      /\ \/ route'.at = "final" /\ polling' = FALSE
         \/ route'.at = "last refresh"
      /\ UNCHANGED <<emails, batch, decisions, results, history, asking, serving, delivered,
                     sent, late>>
  BY DEF LastRefresh, IInv, TypeOK, input, shown, server
<1>2. RouteInv'
  BY <1>1 DEF IInv, RouteInv
<1>3. NewInv' /\ Confirmed'
  BY <1>1 DEF IInv, NewInv, Confirmed
<1>4. Preview'
  BY <1>1 DEF IInv, Preview, PreviewIsTheBatch, Confirmed
<1> QED
  BY <1>1, <1>2, <1>3, <1>4, SameAsking DEF IInv

LEMMA FinishStep ==
    ASSUME IInv, TypeOK', Finish
    PROVE  IInv'
<1> DEFINE s == sent[route.id]
<1>1. /\ routing /\ route.at = "final" /\ ~routing' /\ batch' = route.id
      /\ decisions' = delivered[route.id] /\ SetBatch(route.id)
      /\ UNCHANGED <<emails, results, route, polling, asking, serving, delivered, sent, late>>
  BY DEF Finish, SetBatch, input, server
<1>2. /\ s \in Seq(Email) /\ s # <<>> /\ ~polling
      /\ route.chunk = NumberOfChunks(s)
      /\ \A q \in serving : q.id # route.id
      /\ delivered[route.id] = First(s, End(s, route.chunk))
  BY <1>1 DEF IInv, TypeOK, RouteInv
<1>3. delivered[route.id] = ToSet(s)
  BY <1>2, LastEnd, FirstType
<1>4. Confirmed'
  BY <1>1, <1>2, <1>3 DEF Confirmed
<1>5. Preview'
  BY <1>1, <1>2 DEF IInv, Preview, PreviewIsTheBatch, NumberOfChunks
<1>6. NewInv' /\ RouteInv'
  BY <1>1 DEF IInv, NewInv, RouteInv
<1> QED
  BY <1>1, <1>4, <1>5, <1>6, BatchAsking DEF IInv

LEMMA RouteFailsStep ==
    ASSUME IInv, TypeOK', RouteFails
    PROVE  IInv'
<1>1. /\ routing /\ ~routing' /\ serving' \subseteq serving
      /\ UNCHANGED <<emails, batch, decisions, results, history, asking, delivered, sent, late>>
  BY DEF RouteFails, input, shown
<1>2. batch = None
  BY <1>1 DEF IInv, Confirmed
<1>3. NewInv' /\ RouteInv' /\ Confirmed'
  BY <1>1, <1>2 DEF IInv, NewInv, RouteInv, Confirmed
<1>4. Preview'
  BY <1>1, <1>2 DEF Preview, PreviewIsTheBatch
<1> QED
  BY <1>1, <1>3, <1>4, SameAsking DEF IInv

\* Of the route on its way one more e-mail is delivered; of any other batch but the
\* one shown the same.
LEMMA ServeStep ==
    ASSUME IInv, TypeOK', NEW q \in serving, Serve(q)
    PROVE  IInv'
<1> DEFINE r == [q EXCEPT !.left = Tail(@)]
<1>1. /\ q \in [id : Batch, chunk : Nat, left : Seq(Email)] /\ q.left # <<>>
      /\ q.id \in Batch /\ q.left \in Seq(Email)
  BY DEF Serve, IInv, TypeOK
<1>2. r.id = q.id /\ r.chunk = q.chunk /\ r.left = Tail(q.left)
  BY <1>1
<1> HIDE DEF r
<1>3. /\ serving' = (serving \ {q}) \cup {r}
      /\ delivered' = [delivered EXCEPT ![q.id] = @ \cup {Head(q.left)}]
      /\ UNCHANGED <<emails, batch, decisions, results, history, routing, route, polling,
                     asking, sent, late>>
  BY DEF Serve, client, input, shown, r
<1>4. /\ \A b \in Batch \ {q.id} : delivered'[b] = delivered[b]
      /\ delivered'[q.id] = delivered[q.id] \cup {Head(q.left)}
  BY <1>1, <1>3 DEF IInv, TypeOK
<1>5. NewInv'
  BY <1>2, <1>3, <1>4 DEF IInv, NewInv
<1>6. Confirmed'
  <2>1. batch # None => batch \in Batch
    BY DEF IInv, TypeOK
  <2> QED
    BY <1>2, <1>3, <1>4, <2>1 DEF IInv, Confirmed
<1>7. CASE routing /\ q.id = route.id
  <2> DEFINE s == sent[route.id]  c == route.chunk
  <2>1. /\ RouteInv /\ s \in Seq(Email) /\ s # <<>> /\ c \in Nat /\ route.id \in Batch
        /\ route.at = "ingest" /\ q.chunk = c
        /\ \A t \in serving : t.id = route.id => t = q
    BY <1>7 DEF IInv, TypeOK, RouteInv
  <2>2. PICK k \in 0 .. End(s, c) : delivered[route.id] = First(s, k) /\ IsRest(q.left, s, k, c)
    BY <1>7, <2>1 DEF RouteInv
  <2>3. /\ End(s, c) \in Nat /\ Len(q.left) \in Nat /\ Len(q.left) # 0
        /\ Len(q.left) = End(s, c) - k /\ k \in Nat
    <3>1. End(s, c) \in Nat
      BY <2>1, EndType
    <3>2. Len(q.left) \in Nat /\ Len(q.left) # 0
      BY <1>1, EmptySeq, LenProperties
    <3>3. Len(q.left) = End(s, c) - k
      BY <2>2 DEF IsRest
    <3>4. k \in Nat
      OBVIOUS
    <3> QED
      BY <3>1, <3>2, <3>3, <3>4
  <2>4. k + 1 \in 0 .. End(s, c) /\ 1 \in 1 .. Len(q.left)
    BY <2>3
  <2>5. /\ Tail(q.left) \in Seq(Email) /\ Len(Tail(q.left)) = Len(q.left) - 1
        /\ \A j \in 1 .. Len(q.left) - 1 : Tail(q.left)[j] = q.left[j + 1]
    BY <1>1, HeadTailProperties
  <2>6. IsRest(Tail(q.left), s, k + 1, c)
    <3>1. Len(Tail(q.left)) = End(s, c) - (k + 1)
      BY <2>3, <2>5
    <3>2. ASSUME NEW j \in 1 .. Len(Tail(q.left)) PROVE Tail(q.left)[j] = s[(k + 1) + j]
      <4>1. j \in 1 .. Len(q.left) - 1 /\ j + 1 \in 1 .. Len(q.left) /\ k + (j + 1) = (k + 1) + j
        BY <2>3, <2>5, <3>2
      <4>2. q.left[j + 1] = s[k + (j + 1)]
        BY <2>2, <4>1 DEF IsRest
      <4> QED
        BY <2>5, <4>1, <4>2
    <3> QED
      BY <3>1, <3>2 DEF IsRest
  <2>7. delivered'[route.id] = First(s, k + 1)
    <3>1. Head(q.left) = s[k + 1]
      BY <2>2, <2>4 DEF IsRest
    <3>2. First(s, k + 1) = First(s, k) \cup {s[k + 1]}
      BY <2>1, <2>3, FirstType
    <3> QED
      BY <1>4, <1>7, <2>2, <3>1, <3>2
  <2>8. \A t \in serving' : t.id = route.id => t = r
    BY <1>3, <2>1
  <2>9. \E i \in 0 .. End(s, c) : delivered'[route.id] = First(s, i) /\ IsRest(r.left, s, i, c)
    BY <1>2, <2>4, <2>6, <2>7
  <2> QED
    <3>1. RouteInv'
      BY <1>2, <1>3, <1>7, <2>1, <2>8, <2>9 DEF RouteInv
    <3> QED
      BY <1>3, <1>5, <1>6, <3>1, SameAsking DEF IInv, Preview, PreviewIsTheBatch
<1>8. CASE ~(routing /\ q.id = route.id)
  <2>1. RouteInv'
    <3> SUFFICES ASSUME routing PROVE RouteInv'
      BY <1>3 DEF RouteInv
    <3>1. q.id # route.id /\ route.id \in Batch
      BY <1>8 DEF IInv, RouteInv
    <3>2. delivered'[route.id] = delivered[route.id]
      BY <1>4, <3>1
    <3>3. \A t \in serving' : t.id = route.id => t \in serving
      BY <1>2, <1>3, <3>1
    <3> QED
      BY <1>3, <3>1, <3>2, <3>3 DEF IInv, RouteInv
  <2> QED
    BY <1>3, <1>5, <1>6, <2>1, SameAsking DEF IInv, Preview, PreviewIsTheBatch
<1> QED
  BY <1>7, <1>8

-------------------------------------------------------------------------------
(* The invariant holds *)

LEMMA InitIInv ==
    ASSUME Init
    PROVE  IInv
<1>1. TypeOK
  BY TextType DEF Init, TypeOK, AwaitLabels
<1>2. NewInv /\ RouteInv /\ Confirmed /\ Preview
  BY DEF Init, NewInv, RouteInv, Confirmed, Preview, PreviewIsTheBatch
<1>3. Asking
  <2>1. Len(history) = 0 /\ Len(asking) = 0
    BY DEF Init
  <2> QED
    BY <2>1 DEF Init, Asking, OneStaleAnswerAtMost
<1> QED
  BY <1>1, <1>2, <1>3 DEF IInv

LEMMA StepIInv ==
    ASSUME IInv, Next
    PROVE  IInv'
<1>1. CASE Routes
  <2>1. TypeOK'
    BY <1>1, RouteTypes DEF IInv
  <2> QED
    BY <1>1, <2>1, StartRouteStep, PollSteps, ChunkDoneStep, ProceedStep, LastRefreshStep,
       FinishStep, RouteFailsStep, ServeStep DEF Routes
<1> QED
  BY <1>1, InputSteps, AskSteps DEF Next

LEMMA StutterIInv ==
    ASSUME IInv, UNCHANGED vars
    PROVE  IInv'
<1>1. TypeOK'
  BY DEF IInv, TypeOK, vars, client, server, input, shown
<1>2. /\ RouteSame
      /\ UNCHANGED <<batch, emails, results, late, decisions, history, asking>>
  BY DEF vars, client, server, input, shown, RouteSame
<1> QED
  BY <1>1, <1>2, QuietStep, QuietPreview, SameAsking DEF IInv

LEMMA AlwaysIInv == Spec => []IInv
<1>1. Init => IInv
  BY InitIInv
<1>2. IInv /\ [Next]_vars => IInv'
  BY StepIInv, StutterIInv
<1> QED
  BY <1>1, <1>2, PTL DEF Spec

-------------------------------------------------------------------------------
(* The theorems *)

\* While the chat is unlocked no route runs, and the decisions shown are those that
\* were delivered of all the e-mails of the batch: for any number of chunks, and
\* whenever refreshes, samples and files arrive (route and refresh of App.tsx).
THEOREM Unlocked == Spec => []UnlockedMeansConfirmed
<1>1. IInv => UnlockedMeansConfirmed
  BY DEF IInv, Confirmed, UnlockedMeansConfirmed
<1> QED
  BY <1>1, AlwaysIInv, PTL

\* The batch of the chat is the previewed one with the results of all its chunks,
\* unless a sample or a file arrived during its route (route and samples of App.tsx).
THEOREM Previewed == Spec => []PreviewIsTheBatch
<1>1. IInv => PreviewIsTheBatch
  BY DEF IInv, Preview
<1> QED
  BY <1>1, AlwaysIInv, PTL

\* Of the answers in the history only the first may be of an earlier batch (ask and
\* the effect on the batch in ChatPanel.tsx).
THEOREM OneStale == Spec => []OneStaleAnswerAtMost
<1>1. IInv => OneStaleAnswerAtMost
  BY DEF IInv, Asking
<1> QED
  BY <1>1, AlwaysIInv, PTL

===============================================================================
