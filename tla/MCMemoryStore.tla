---------------------------- MODULE MCMemoryStore -----------------------------
(***************************************************************************)
(* An instance of MemoryStore for TLC: a thread t1 with a first message    *)
(* and a reply, and a message on t2 that carries the e-mail id of that     *)
(* reply.                                                                  *)
(***************************************************************************)
EXTENDS MemoryStore, TLC

CONSTANTS e0, e1, t1, t2

MCMessage == {[email |-> e0, thread |-> t1, index |-> 0],
              [email |-> e1, thread |-> t1, index |-> 1],
              [email |-> e1, thread |-> t2, index |-> 0]}

MCSymmetry == Permutations(Worker) \cup Permutations(IngestTask) \cup Permutations(Lock)
===============================================================================
