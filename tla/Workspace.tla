------------------------------- MODULE Workspace ------------------------------
(***************************************************************************)
(* The browser's workspace: App.tsx with JsonInput and ChatPanel.  A user  *)
(* loads an inbox by typing, from a file or from the samples, previews it, *)
(* routes it chunk by chunk under a batch id drawn for the route while a   *)
(* timer polls the decisions, and asks questions of the batch.  Fetches    *)
(* and files answer when they like, also after the workspace moved on.     *)
(*                                                                         *)
(* A text is the sequence of e-mails it parses to.  The server delivers    *)
(* the e-mails of a chunk one by one (IngestionRun has it in detail); a    *)
(* request that is cut off may go on there.                                *)
(*                                                                         *)
(* An operator whose comment begins with "Fault:" is no part of the model. *)
(***************************************************************************)
EXTENDS Naturals, Sequences, FiniteSets, SequencesExt

CONSTANTS
    Email,
    Text,       \* what may be typed, uploaded or sampled: sequences of e-mails
    Samples,    \* the text that /api/sample-emails returns
    Batch,      \* ids that route draws (a bound on the number of routes)
    ChunkSize,  \* config.max_ingest_emails
    Questions,  \* questions asked in a behaviour (a bound)
    None

ASSUME TextAssumption == Text \subseteq Seq(Email) /\ Samples \in Text
ASSUME ChunkSizeAssumption == ChunkSize \in Nat \ {0}
ASSUME QuestionsAssumption == Questions \in Nat
ASSUME NoneAssumption == None \notin Batch

VARIABLES
    text, emails, routing,
    batch,      \* the batch that the chat is unlocked for, or None
    decisions,  \* e-mails whose decisions are shown
    results,    \* number of results of chunks shown
    route,      \* the coroutine of the last route
    polling,    \* the variable of that name of the last route's closure
    polls,      \* refreshes in flight: each with its id and what the server answered
    fetching,   \* a fetch of samples is in flight
    upload,     \* the text of a file that is being read, or None
    asking,     \* the batch of each question in flight
    history,    \* the batch of which each answer shown was asked
    asked,      \* number of questions asked
    sent,       \* the e-mails that each batch was routed with
    serving,    \* e-mails still to come of the requests that run on the server
    delivered,  \* e-mails with a delivery of each batch
    late        \* batches during whose route a sample or a file arrived

input == <<text, emails>>
shown == <<batch, decisions, results, history>>
client == <<input, shown, routing, route, polling, polls, fetching, upload, asking, asked>>
server == <<serving, delivered>>
vars == <<client, server, sent, late>>

Drawn == {b \in Batch : sent[b] # <<>>}

-------------------------------------------------------------------------------
(* validateEmails and chunkEmails *)

Valid(t) == t # <<>> /\ IsInjective(t)

\* The chunks of a sequence are its slices of ChunkSize, the last one shorter.
NumberOfChunks(s) == (Len(s) + ChunkSize - 1) \div ChunkSize
ChunkOf(s, i) ==
    SubSeq(s, (i - 1) * ChunkSize + 1,
           IF i * ChunkSize < Len(s) THEN i * ChunkSize ELSE Len(s))

-------------------------------------------------------------------------------
(* The shown state *)

\* setBatch, with the effect of ChatPanel on a new batch.
SetBatch(b) ==
    /\ batch' = b
    /\ history' = IF b = batch THEN history ELSE <<>>

clearRoutedState == results' = 0 /\ decisions' = {} /\ SetBatch(None)

\* A sample or a file that arrives while a route is on its way.
ArrivesLate == late' = IF routing THEN late \cup {route.id} ELSE late

-------------------------------------------------------------------------------
(* Input *)

\* Typing: the input is disabled while routing.
ChangeText(t) ==
    /\ ~routing
    /\ text' = t /\ emails' = <<>>
    /\ clearRoutedState
    /\ UNCHANGED <<routing, route, polling, polls, fetching, upload, asking, asked, server,
                   sent, late>>

\* parse.
Parse ==
    /\ ~routing
    /\ emails' = IF Valid(text) THEN text ELSE <<>>
    /\ clearRoutedState
    /\ UNCHANGED <<text, routing, route, polling, polls, fetching, upload, asking, asked, server,
                   sent, late>>

\* The button is disabled while routing; the answer is not.
FetchSamples ==
    /\ ~routing
    /\ fetching' = TRUE
    /\ UNCHANGED <<input, shown, routing, route, polling, polls, upload, asking, asked, server,
                   sent, late>>

\* Fault: the routed state is left as it is.
SamplesKeepBatch ==
    /\ fetching
    /\ fetching' = FALSE
    /\ text' = Samples /\ emails' = Samples
    /\ ArrivesLate
    /\ UNCHANGED <<shown, routing, route, polling, polls, upload, asking, asked, server, sent>>

\* samples, once its fetch has answered.
SamplesArrive ==
    /\ fetching
    /\ fetching' = FALSE
    /\ text' = Samples /\ emails' = Samples
    /\ clearRoutedState
    /\ ArrivesLate
    /\ UNCHANGED <<routing, route, polling, polls, upload, asking, asked, server, sent>>

SamplesFail ==
    /\ fetching
    /\ fetching' = FALSE
    /\ UNCHANGED <<input, shown, routing, route, polling, polls, upload, asking, asked, server,
                   sent, late>>

\* The handler of the file input keeps the changeText of the render it began in.
Upload(t) ==
    /\ ~routing /\ upload = None
    /\ upload' = t
    /\ UNCHANGED <<input, shown, routing, route, polling, polls, fetching, asking, asked, server,
                   sent, late>>

\* That changeText found no route running.
UploadArrives ==
    /\ upload # None
    /\ upload' = None
    /\ text' = upload /\ emails' = <<>>
    /\ clearRoutedState
    /\ ArrivesLate
    /\ UNCHANGED <<routing, route, polling, polls, fetching, asking, asked, server, sent>>

-------------------------------------------------------------------------------
(* route *)

PollBusy == \E p \in polls : p.id = route.id
NewPoll == [id |-> route.id, seen |-> None]

SendChunk(b, s, i) ==
    serving' = serving \cup {[id |-> b, chunk |-> i, left |-> ChunkOf(s, i)]}

\* route, as far as its first await; the batch id is new.
StartRoute(b) ==
    /\ ~routing /\ emails # <<>> /\ b \notin Drawn
    /\ routing' = TRUE
    /\ SetBatch(None)
    /\ results' = 0 /\ decisions' = {}
    /\ sent' = [sent EXCEPT ![b] = emails]
    /\ route' = [id |-> b, chunk |-> 1, at |-> "ingest"]
    /\ polling' = TRUE
    /\ SendChunk(b, emails, 1)
    /\ UNCHANGED <<input, polls, fetching, upload, asking, asked, delivered, late>>

\* The timer's refresh.
Poll ==
    /\ routing /\ polling /\ ~PollBusy
    /\ polls' = polls \cup {NewPoll}
    /\ UNCHANGED <<input, shown, routing, route, polling, fetching, upload, asking, asked,
                   server, sent, late>>

\* What follows the refresh of a chunk: the next one is sent, or the loop ends and
\* refresh is awaited once more.
NextChunk ==
    LET last == route.chunk = NumberOfChunks(sent[route.id]) IN
    /\ route' = IF last THEN [route EXCEPT !.at = "last"]
                ELSE [route EXCEPT !.at = "ingest", !.chunk = @ + 1]
    /\ IF last THEN UNCHANGED serving
       ELSE SendChunk(route.id, sent[route.id], route.chunk + 1)

\* The answer to a chunk; refresh is awaited, and returns at once when it is busy.
ChunkDone ==
    /\ routing /\ route.at = "ingest"
    /\ \E q \in serving :
        /\ q.id = route.id /\ q.chunk = route.chunk /\ q.left = <<>>
        /\ serving' = serving \ {q}
    /\ results' = route.chunk
    /\ route' = [route EXCEPT !.at = IF PollBusy THEN "between" ELSE "refresh"]
    /\ polls' = IF PollBusy THEN polls ELSE polls \cup {NewPoll}
    /\ UNCHANGED <<input, batch, decisions, history, routing, polling, fetching, upload, asking,
                   asked, delivered, sent, late>>

Proceed ==
    /\ routing /\ route.at = "between"
    /\ NextChunk
    /\ UNCHANGED <<input, shown, routing, polling, polls, fetching, upload, asking, asked,
                   delivered, sent, late>>

\* The refresh after the loop.
LastRefresh ==
    /\ routing /\ route.at = "last"
    /\ route' = [route EXCEPT !.at = IF PollBusy THEN "final" ELSE "last refresh"]
    /\ polls' = IF PollBusy THEN polls ELSE polls \cup {NewPoll}
    /\ polling' = ~PollBusy
    /\ UNCHANGED <<input, shown, routing, fetching, upload, asking, asked, server, sent, late>>

\* The server answers a refresh.
PollRead(p) ==
    /\ p.seen = None
    /\ polls' = (polls \ {p}) \cup {[p EXCEPT !.seen = delivered[p.id]]}
    /\ UNCHANGED <<input, shown, routing, route, polling, fetching, upload, asking, asked,
                   server, sent, late>>

\* What an await of refresh in the route continues with.
Resume(p) ==
    IF p.id = route.id /\ route.at \in {"refresh", "last refresh"}
    THEN /\ route' = [route EXCEPT !.at = IF @ = "refresh" THEN "between" ELSE "final"]
         /\ polling' = (route.at = "refresh")
    ELSE UNCHANGED <<route, polling>>

\* Fault: the answer is shown although polling has ended.
PollArrivesAlways(p) ==
    /\ p.seen # None
    /\ polls' = polls \ {p}
    /\ decisions' = p.seen
    /\ Resume(p)
    /\ UNCHANGED <<input, batch, results, history, routing, fetching, upload, asking, asked,
                   server, sent, late>>

\* The answer arrives: it is shown while its route polls.
PollArrives(p) ==
    /\ p.seen # None
    /\ polls' = polls \ {p}
    /\ decisions' = IF p.id = route.id /\ polling THEN p.seen ELSE decisions
    /\ Resume(p)
    /\ UNCHANGED <<input, batch, results, history, routing, fetching, upload, asking, asked,
                   server, sent, late>>

PollFails(p) ==
    /\ polls' = polls \ {p}
    /\ Resume(p)
    /\ UNCHANGED <<input, shown, routing, fetching, upload, asking, asked, server, sent, late>>

\* The decisions of the whole batch, and the end of the route.  Nothing is delivered
\* to it any more, so that the read and its answer are one step.
Finish ==
    /\ routing /\ route.at = "final"
    /\ decisions' = delivered[route.id]
    /\ SetBatch(route.id)
    /\ routing' = FALSE
    /\ UNCHANGED <<input, results, route, polling, polls, fetching, upload, asking, asked,
                   server, sent, late>>

\* An error of a chunk or of the last read ends the route without a batch.  The
\* server may have given the chunk up, or go on with it.
RouteFails ==
    /\ routing /\ route.at \in {"ingest", "final"}
    /\ \/ UNCHANGED serving
       \/ serving' = {q \in serving : q.id # route.id}
    /\ polling' = FALSE
    /\ routing' = FALSE
    /\ UNCHANGED <<input, shown, route, polls, fetching, upload, asking, asked, delivered, sent,
                   late>>

\* The server delivers the next e-mail of a request.
Serve(q) ==
    /\ q.left # <<>>
    /\ delivered' = [delivered EXCEPT ![q.id] = @ \cup {Head(q.left)}]
    /\ serving' = (serving \ {q}) \cup {[q EXCEPT !.left = Tail(@)]}
    /\ UNCHANGED <<client, sent, late>>

-------------------------------------------------------------------------------
(* ChatPanel *)

\* Fault: a question is sent while another is on its way.
AskWhileBusy ==
    /\ batch # None /\ asked < Questions
    /\ asking' = Append(asking, batch)
    /\ asked' = asked + 1
    /\ UNCHANGED <<input, shown, routing, route, polling, polls, fetching, upload, server, sent,
                   late>>

\* ask, up to its await; it is busy while a question is in flight.
Ask ==
    /\ batch # None /\ asking = <<>> /\ asked < Questions
    /\ asking' = Append(asking, batch)
    /\ asked' = asked + 1
    /\ UNCHANGED <<input, shown, routing, route, polling, polls, fetching, upload, server, sent,
                   late>>

\* The answer joins the history that is there now.
Answered ==
    /\ asking # <<>>
    /\ asking' = Tail(asking)
    /\ history' = Append(history, Head(asking))
    /\ UNCHANGED <<input, batch, decisions, results, routing, route, polling, polls, fetching,
                   upload, asked, server, sent, late>>

NotAnswered ==
    /\ asking # <<>>
    /\ asking' = Tail(asking)
    /\ UNCHANGED <<input, shown, routing, route, polling, polls, fetching, upload, asked, server,
                   sent, late>>

-------------------------------------------------------------------------------
Init ==
    /\ text = <<>> /\ emails = <<>> /\ routing = FALSE
    /\ batch = None /\ decisions = {} /\ results = 0
    /\ route = [id |-> None, chunk |-> 1, at |-> "ingest"]
    /\ polling = FALSE /\ polls = {}
    /\ fetching = FALSE /\ upload = None
    /\ asking = <<>> /\ history = <<>> /\ asked = 0
    /\ sent = [b \in Batch |-> <<>>]
    /\ serving = {} /\ delivered = [b \in Batch |-> {}]
    /\ late = {}

Inputs ==
    \/ \E t \in Text : ChangeText(t) \/ Upload(t)
    \/ Parse \/ FetchSamples \/ SamplesArrive \/ SamplesFail \/ UploadArrives

Routes ==
    \/ \E b \in Batch : StartRoute(b)
    \/ Poll \/ ChunkDone \/ Proceed \/ LastRefresh \/ Finish \/ RouteFails
    \/ \E p \in polls : PollRead(p) \/ PollArrives(p) \/ PollFails(p)
    \/ \E q \in serving : Serve(q)

Next == Inputs \/ Routes \/ Ask \/ Answered \/ NotAnswered

Spec == Init /\ [][Next]_vars

-------------------------------------------------------------------------------
(* Properties *)

\* "Chat unlocks only when every email in this batch has a confirmed outcome"
\* (ChatPanel.tsx) and "Every number below belongs to this routed batch"
\* (OperationsDashboard.tsx): while the chat is unlocked no route runs, and the
\* decisions shown are those of all the e-mails the batch was routed with, whatever
\* refreshes of this and of earlier routes are still on their way.
UnlockedMeansConfirmed ==
    batch # None =>
        /\ ~routing
        /\ decisions = ToSet(sent[batch])
        /\ decisions = delivered[batch]

\* The batch the chat is unlocked for is the one in the preview, and the dashboard
\* has the results of all its chunks, unless a sample or a file arrived during its
\* route, although "Input is locked while this batch is routing" (JsonInput.tsx).
PreviewIsTheBatch ==
    batch # None /\ batch \notin late =>
        /\ emails = sent[batch]
        /\ results = NumberOfChunks(sent[batch])

\* "Current routed batch" stands over each answer: of the answers in the history
\* only the first may have been asked of an earlier batch, one that was on its way
\* when the batch changed.
OneStaleAnswerAtMost ==
    \A i \in 2 .. Len(history) : history[i] = batch
===============================================================================
