---------------------------- MODULE GeminiExtractor ----------------------------
(***************************************************************************)
(* GeminiExtractor.extract_many on the e-mails of a wave: the model is     *)
(* asked for all of them in one call; ids that the answer omits are asked  *)
(* for one by one inside the same attempt; a batch whose attempts are used *)
(* up is split and every e-mail of it is asked for alone; what still has   *)
(* no result is degraded to the heuristic.                                 *)
(*                                                                         *)
(* A wave is never longer than gemini_batch_size (IngestionRun), so there  *)
(* is one chunk.  An answer names some of the e-mails that it was asked    *)
(* for.  Errors of the network, of the service and of the answer's schema  *)
(* are one: the call fails.  Waiting for the limiter and between attempts  *)
(* changes nothing here; RateLimiter models the limiter.                   *)
(*                                                                         *)
(* An operator whose comment begins with "Fault:" is no part of the model. *)
(* It is a faulty version of an operator after it, which shows that a      *)
(* property would notice the fault.                                        *)
(***************************************************************************)
EXTENDS Integers, FiniteSets

CONSTANTS
    Email,       \* numbered in the order of the wave
    MaxRetries,  \* settings.gemini_max_retries
    None

ASSUME EmailAssumption == Email \subseteq Nat /\ IsFiniteSet(Email)
ASSUME RetriesAssumption == MaxRetries \in Nat
ASSUME NoneAssumption == None \notin [asked : SUBSET Email, attempt : Nat, got : SUBSET Email]

VARIABLES
    messages,  \* the e-mails to extract
    stage,     \* start, batch, alone (after the split), done
    batch,     \* the _remote_batch of all of them
    single,    \* the _remote_batch of one e-mail, inside batch or after the split
    alone,     \* e-mails still to be asked for after the split
    results,   \* e-mails that extract_many has a result for
    calls,     \* history: calls of the model
    answered,  \* history: e-mails that some valid answer named
    refused    \* history: for each e-mail, the calls since it was last answered or
               \* asked for with others

vars == <<messages, stage, batch, single, alone, results, calls, answered, refused>>

-------------------------------------------------------------------------------
\* An activation of _remote_batch, in its attempt-th attempt, with by_id so far.
Activation == [asked : SUBSET Email, attempt : 0 .. MaxRetries, got : SUBSET Email]

Activate(asked) == [asked |-> asked, attempt |-> 0, got |-> {}]

First(S) == CHOOSE m \in S : \A n \in S : m <= n

Init ==
    /\ messages \in (SUBSET Email) \ {{}}
    /\ stage = "start"
    /\ batch = None /\ single = None /\ alone = {} /\ results = {}
    /\ calls = 0 /\ answered = {} /\ refused = [m \in Email |-> 0]

\* Without a client every e-mail goes to the heuristic.
NoClient ==
    /\ stage = "start"
    /\ stage' = "done"
    /\ UNCHANGED <<messages, batch, single, alone, results, calls, answered, refused>>

\* The first call asks for all; a batch of one cannot omit in part.
ExtractMany ==
    /\ stage = "start"
    /\ stage' = "batch"
    /\ IF Cardinality(messages) = 1
       THEN single' = Activate(messages) /\ UNCHANGED batch
       ELSE batch' = Activate(messages) /\ UNCHANGED single
    /\ UNCHANGED <<messages, alone, results, calls, answered, refused>>

\* A call that asks for the e-mails in asked; the answer names those in named.
CallModel(asked, named) ==
    /\ calls' = calls + 1
    /\ answered' = answered \cup named
    /\ refused' = [m \in Email |->
                     CASE m \notin asked -> refused[m]
                       [] asked = {m} /\ named = {} -> refused[m] + 1
                       [] OTHER -> 0]

\* The e-mails in rest are asked for one after the other.
AskAlone(rest) ==
    /\ alone' = rest
    /\ IF rest = {} THEN stage' = "done" /\ single' = None
       ELSE stage' = "alone" /\ single' = Activate({First(rest)})

\* Fault: what a failed batch asked for is degraded at once.
SplitIntoNothing ==
    /\ batch' = None /\ single' = None
    /\ stage' = "done"
    /\ UNCHANGED alone

\* The batch raises: its e-mails are asked for alone.
Split == batch' = None /\ AskAlone(messages)

\* The batch returns by_id.
BatchReturns(got) ==
    /\ results' = results \cup got
    /\ stage' = "done"
    /\ batch' = None /\ single' = None
    /\ UNCHANGED alone

\* An exception inside an attempt of the batch: by_id is lost.
BatchAttemptFails ==
    /\ IF batch.attempt < MaxRetries
       THEN /\ batch' = [Activate(messages) EXCEPT !.attempt = batch.attempt + 1]
            /\ single' = None
            /\ UNCHANGED <<stage, alone>>
       ELSE Split
    /\ UNCHANGED results

\* With by_id as got: ask for the next omitted e-mail, or return.
BatchGoesOn(got) ==
    IF got = messages THEN BatchReturns(got)
    ELSE /\ batch' = [batch EXCEPT !.got = got]
         /\ single' = Activate({First(messages \ got)})
         /\ UNCHANGED <<stage, alone, results>>

\* A call for all e-mails of the batch.
CallBatch ==
    /\ batch # None /\ single = None
    /\ \/ \E named \in SUBSET messages :
            /\ CallModel(messages, named)
            /\ BatchGoesOn(named)
       \/ /\ CallModel(messages, {})
          /\ BatchAttemptFails
    /\ UNCHANGED messages

\* The one e-mail is answered.
SingleReturns ==
    IF batch # None THEN BatchGoesOn(batch.got \cup single.asked)
    ELSE /\ results' = results \cup single.asked
         /\ AskAlone(alone \ single.asked)
         /\ UNCHANGED batch

\* The last attempt for one e-mail fails: so does the batch's attempt around it;
\* after the split the e-mail stays without result.
SingleRaises ==
    IF batch # None THEN BatchAttemptFails
    ELSE /\ IF stage = "batch" THEN Split
            ELSE AskAlone(alone \ single.asked) /\ UNCHANGED batch
         /\ UNCHANGED results

\* Fault: one attempt too many.
SingleAttemptFailsLate ==
    IF single.attempt <= MaxRetries
    THEN /\ single' = [single EXCEPT !.attempt = @ + 1]
         /\ UNCHANGED <<stage, batch, alone, results>>
    ELSE SingleRaises

SingleAttemptFails ==
    IF single.attempt < MaxRetries
    THEN /\ single' = [single EXCEPT !.attempt = @ + 1]
         /\ UNCHANGED <<stage, batch, alone, results>>
    ELSE SingleRaises

\* A call for one e-mail; an answer that omits it is an error.
CallSingle ==
    /\ single # None
    /\ \/ CallModel(single.asked, single.asked) /\ SingleReturns
       \/ CallModel(single.asked, {}) /\ SingleAttemptFails
    /\ UNCHANGED messages

Next ==
    \/ NoClient \/ ExtractMany \/ CallBatch \/ CallSingle
    \/ stage = "done" /\ UNCHANGED vars

Spec == Init /\ [][Next]_vars

-------------------------------------------------------------------------------
(* Properties *)

\* The types of the activations and of what they have collected.
TypeOK ==
    /\ messages \in SUBSET Email
    /\ stage \in {"start", "batch", "alone", "done"}
    /\ batch \in Activation \cup {None}
    /\ single \in Activation \cup {None}
    /\ alone \subseteq messages
    /\ results \subseteq messages
    /\ calls \in Nat
    /\ answered \subseteq messages
    /\ refused \in [Email -> Nat]

\* The retries nest, and no further than this: in each attempt one call for all
\* and, for each omitted e-mail, all attempts of its own; then, after the split,
\* these once more (_remote_batch calls itself inside its own attempts).  Every
\* step but the first is a call, so extract_many returns if calls do.
CallsBounded ==
    LET n == Cardinality(messages)  attempts == MaxRetries + 1
    IN calls <= IF n = 1 THEN 2 * attempts
                ELSE attempts * (1 + n * attempts) + n * attempts

\* An e-mail is degraded only after it was asked for alone, in as many calls as
\* there are attempts, and none of them answered (extract_many's fallback).
DegradedAfterRetries ==
    stage = "done" /\ calls > 0 =>
        \A m \in messages \ results : refused[m] >= MaxRetries + 1

\* "Preserve valid batch items and retry only omitted IDs." (_remote_batch): what
\* a valid answer named has a result in the end.
ValidItemsPreserved == stage = "done" => answered \subseteq results
===============================================================================
