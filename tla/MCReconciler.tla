----------------------------- MODULE MCReconciler -----------------------------
(***************************************************************************)
(* Instances of Reconciler for TLC: a thread t1 with a first message and   *)
(* a reply, and a message on t2 that carries the e-mail id of that reply.  *)
(* MCReplies has two replies on one thread.                                *)
(***************************************************************************)
EXTENDS Reconciler, TLC

CONSTANTS e0, e1, e2, t1, t2, v1

MCMessage == {[email |-> e0, thread |-> t1, index |-> 0],
              [email |-> e1, thread |-> t1, index |-> 1],
              [email |-> e1, thread |-> t2, index |-> 0]}

MCOneThread == {m \in MCMessage : m.thread = t1}

MCReplies == MCOneThread \cup {[email |-> e2, thread |-> t1, index |-> 2]}

MCDefault == [f \in Field |-> v1]

MCSymmetry == Permutations(Worker) \cup Permutations(Deleter) \cup Permutations(IngestTask)
===============================================================================
