------------------------------ MODULE JobQueue ------------------------------
(***************************************************************************)
(* What the worker queue promises of each job: it is delivered at least    *)
(* once before it is forgotten, retried until the limit of attempts and    *)
(* only then dead-lettered, and a completed job never comes back.          *)
(***************************************************************************)
EXTENDS Naturals

CONSTANT Job

VARIABLES status, tries, limit

Init ==
    /\ status = [j \in Job |-> "new"]
    /\ tries = [j \in Job |-> 0]
    /\ limit \in Nat

\* What one step may do to one job; "out" is with a worker, or waiting for the
\* delay a worker asked for; "lost" fell off the dead-letter list.
Rest(j)     == status'[j] = status[j] /\ tries'[j] = tries[j]
Submit(j)   == status[j] = "new" /\ status'[j] = "queued" /\ tries'[j] = 0
Deliver(j)  == status[j] = "queued" /\ status'[j] = "out" /\ tries'[j] = tries[j] + 1
Complete(j) == status[j] = "out" /\ status'[j] = "done" /\ tries'[j] = tries[j]
Retry(j)    == status[j] = "out" /\ status'[j] = "queued" /\ tries'[j] = tries[j] /\ tries[j] < limit
Bury(j)     == status[j] = "out" /\ status'[j] \in {"dead", "lost"} /\ tries'[j] = tries[j] /\ tries[j] >= limit
Drop(j)     == status[j] = "dead" /\ status'[j] = "lost" /\ tries'[j] = tries[j]
Revive(j)   == status[j] = "dead" /\ status'[j] = "queued" /\ tries'[j] = 0

Move(j) == \/ Rest(j) \/ Submit(j) \/ Deliver(j) \/ Complete(j)
           \/ Retry(j) \/ Bury(j) \/ Drop(j) \/ Revive(j)

Next ==
    \/ /\ \A j \in Job : Move(j)
       /\ UNCHANGED limit
    \/ /\ limit' \in Nat
       /\ UNCHANGED <<status, tries>>

Spec == Init /\ [][Next]_<<status, tries, limit>>

============================================================================
