---------------------------- MODULE MCIngestionRun ----------------------------
(***************************************************************************)
(* An instance of IngestionRun for TLC: a thread with a first message and  *)
(* a reply, a second thread, and a third whose message claims the e-mail   *)
(* id of that reply.  One request has e-mails of all three threads, which  *)
(* is one more than a wave takes, one has two e-mails of a thread, and two *)
(* carry one e-mail id with different contents.                            *)
(***************************************************************************)
EXTENDS IngestionRun

CONSTANTS e1, e2, e3

First == [email |-> e1, thread |-> 1, index |-> 0]
Reply == [email |-> e2, thread |-> 1, index |-> 1]
Other == [email |-> e3, thread |-> 2, index |-> 0]
Claim == [email |-> e2, thread |-> 3, index |-> 0]

MCMessage == {First, Reply, Other, Claim}
MCRequest == {{First, Reply, Other}, {First, Other, Claim}, {Reply}}
===============================================================================
