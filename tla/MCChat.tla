-------------------------------- MODULE MCChat --------------------------------
(***************************************************************************)
(* An instance of Chat for TLC: a thread t1 with a first message and a     *)
(* reply and a thread t2 of one message; a batch b1 of two runs r1 and r2. *)
(* A is a dated proposal for Aarti, B an undated e-mail for triage.        *)
(* The store changes up to MCMaxChanges times around some of the questions *)
(* of one and two phrases and a comparison of three, and is empty for the  *)
(* others.                                                                 *)
(***************************************************************************)
EXTENDS Chat

CONSTANTS t1, t2, b1, r1, r2

Message1 == [email |-> "e1", thread |-> t1, index |-> 0]
Message2 == [email |-> "e2", thread |-> t1, index |-> 1]
Message3 == [email |-> "e3", thread |-> t2, index |-> 0]
MCMessage == {Message1, Message2, Message3}
MCAboutGst == {Message2}
MCBatchOf == (r1 :> b1) @@ (r2 :> b1)

Text(v) == <<"text", v>>
A == [assignee_id |-> Text("u_aarti"), category |-> Text("enterprise_rfp"),
      priority |-> Text("high"), due_date |-> <<"day", 1>>,
      deal_value_inr |-> <<"num", 5>>, company_name |-> Text("acme"),
      confidence |-> <<"num", 90>>]
B == [assignee_id |-> Text("u_triage"), category |-> Text("triage"),
      priority |-> Text("high"), due_date |-> None, deal_value_inr |-> None,
      company_name |-> None, confidence |-> <<"num", 50>>]
MCContent == {A, B}
MCSymmetry == Permutations(Task)

\* The batch has every run, so that its scope is everything.
MCScope == {[type |-> "batch", id |-> b1], [type |-> "run", id |-> r2]}

MCComparison == {"rfp", "sponsorship", "versus"}
MCQuestion == {{p, q} : p \in Phrase, q \in Phrase} \cup {MCComparison}
MCMaxChanges ==
    [q \in MCQuestion |->
        CASE q = {"tasks"} -> 3
          [] q \in {{"by_category"}, {"average_confidence", "tasks"}, {"rfp", "how_many"},
                    {"flagged_as_spurious"}, {"refund"}, MCComparison,
                    {"sponsorship", "vendor_spam"}} -> 1
          [] q = {"threads", "updated_more_than_once"} -> 2
          [] OTHER -> 0]

Query(dataset, filters) ==
    [dataset |-> dataset, operation |-> "count", filters |-> filters, group |-> "none",
     metric |-> "none"]
MCModelPlan ==
    {Analytics(Query("decisions", {})),
     Analytics(Query("decisions", {Filter("amount_mentions", "in", <<Text("5")>>)})),
     Analytics(Query("current_tasks", {Filter("priority", "neq", Text("low"))})),
     Analytics(Query("events", {Is("category", "triage")})),
     Plan("list_triage", <<>>), Plan("unsupported", <<>>), Plan("out_of_scope", <<>>)}
===============================================================================
