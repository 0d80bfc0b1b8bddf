----------------------------- MODULE ThreadLedger -----------------------------
(***************************************************************************)
(* What ingestion promises, without locks, transactions or failures: an    *)
(* e-mail is decided once, for one request, in one step that may also give *)
(* its thread a task if the thread has none; a deletion takes the task     *)
(* away.                                                                   *)
(***************************************************************************)
CONSTANTS
    Run,      \* requests
    Message,  \* e-mails: records with fields email, thread and index
    TaskId

VARIABLES
    ledger,  \* what was decided, and the run credited with it
    owned    \* the tasks that ingestion made and that exist, with their threads

vars == <<ledger, owned>>

Init == ledger = {} /\ owned = {}

Decide(m, r) ==
    /\ \A entry \in ledger :
        /\ entry.msg.email # m.email
        /\ entry.msg.thread = m.thread => entry.msg.index # m.index
    /\ ledger' = ledger \cup {[msg |-> m, run |-> r]}

Keep(m, r) == Decide(m, r) /\ UNCHANGED owned

Give(m, r, x) ==
    /\ Decide(m, r)
    /\ \A o \in owned : o.thread # m.thread /\ o.task # x
    /\ owned' = owned \cup {[task |-> x, thread |-> m.thread]}

Remove(o) == owned' = owned \ {o} /\ UNCHANGED ledger

Next ==
    \/ \E m \in Message, r \in Run : Keep(m, r)
    \/ \E m \in Message, r \in Run, x \in TaskId : Give(m, r, x)
    \/ \E o \in owned : Remove(o)

Spec == Init /\ [][Next]_vars

\* A thread has one task of ingestion at most, and a task one thread.
OneTaskPerThread ==
    \A o, p \in owned : o.thread = p.thread \/ o.task = p.task => o = p

\* An e-mail id, and a place in a thread, is decided once.
DecidedOnce ==
    \A a, b \in ledger :
        \/ a.msg.email = b.msg.email
        \/ a.msg.thread = b.msg.thread /\ a.msg.index = b.msg.index
        => a = b
===============================================================================
