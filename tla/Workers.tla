------------------------------ MODULE Workers ------------------------------
(***************************************************************************)
(* The job queue of aiops/worker.go: priorities, a visibility timeout,     *)
(* retries, a capped dead-letter list, and the sweeper.  Each operation    *)
(* holds the mutex from its first to its last access and is one step.      *)
(*                                                                         *)
(* A worker is a client of the queue: it asks for a job, works on it while *)
(* time passes, and answers, answers twice, or dies.  Time is what is left *)
(* until a deadline, so that the clock needs no bound.                     *)
(***************************************************************************)
EXTENDS Integers, Sequences, FiniteSets, Functions

CONSTANTS Worker, None,
          Key,         \* idempotency keys; None is no key
          MaxJob,      \* bound on WORKER.ENQUEUE
          MaxAttempts, \* largest maxAtt
          DlqCap,      \* largest cap of the dead-letter list
          Visibility,  \* ticks of a reservation
          MaxOps       \* bound on requeues, reconfigurations, lost answers

Job == 1 .. MaxJob

ASSUME WorkersBounds ==
    /\ MaxJob \in Nat /\ MaxOps \in Nat
    /\ MaxAttempts \in Nat \ {0} /\ DlqCap \in Nat \ {0} /\ Visibility \in Nat \ {0}
    /\ None \notin Worker

VARIABLES
    heap, pend,  \* jobs waiting, jobs reserved or delayed
    dlq,         \* dead-letter list, the oldest first
    att, ttl,    \* per job: Attempts, and ticks left until DeadlineAt
    pri, key,    \* per job: Priority, IdempKey
    ids,         \* idgen
    maxAtt, cap,
    has,         \* per worker: the job it works on, 0 for none
    left,        \* per worker: ticks left of the reservation it answers to
    budget,
    owner,       \* history, per job: whose reservation it is in
    done,        \* history: jobs acknowledged
    mishap       \* history, a set: "stale", an answer to a reservation that
                 \* was no longer the worker's; "revived", a WORKER.REQUEUE

config  == <<maxAtt, cap>>
static  == <<pri, key, ids>>
workers == <<has, left>>
vars    == <<heap, pend, dlq, att, ttl, static, config, workers, budget, owner, done, mishap>>

Live    == heap \cup pend
Spend   == budget > 0 /\ budget' = budget - 1

----------------------------------------------------------------------------
(* Producer and operator *)

\* Slip: reserved jobs are not searched for the key.
SlipEnqueueHeapOnly(p, k) ==
    /\ ids < MaxJob
    /\ k # None => \A j \in heap : key[j] # k
    /\ ids' = ids + 1
    /\ heap' = heap \cup {ids + 1}
    /\ pri' = [pri EXCEPT ![ids + 1] = p] /\ key' = [key EXCEPT ![ids + 1] = k]
    /\ UNCHANGED <<pend, dlq, att, ttl, config, workers, budget, owner, done, mishap>>

\* Enqueue; with the key of a job that waits or is reserved it only answers
\* that job's id.
Enqueue(p, k) ==
    /\ ids < MaxJob
    /\ k # None => \A j \in Live : key[j] # k
    /\ ids' = ids + 1
    /\ heap' = heap \cup {ids + 1}
    /\ pri' = [pri EXCEPT ![ids + 1] = p] /\ key' = [key EXCEPT ![ids + 1] = k]
    /\ UNCHANGED <<pend, dlq, att, ttl, config, workers, budget, owner, done, mishap>>

Requeue(j) ==
    /\ Spend
    /\ \E i \in DOMAIN dlq :
         /\ dlq[i] = j
         /\ dlq' = SubSeq(dlq, 1, i - 1) \o SubSeq(dlq, i + 1, Len(dlq))
    /\ att' = [att EXCEPT ![j] = 0]
    /\ heap' = heap \cup {j}
    /\ mishap' = mishap \cup {"revived"}
    /\ UNCHANGED <<pend, ttl, static, config, workers, owner, done>>

Configure ==
    /\ Spend
    /\ \/ \E n \in 1 .. MaxAttempts :
            maxAtt' = n /\ UNCHANGED cap
       \/ \E n \in 1 .. DlqCap : cap' = n /\ UNCHANGED maxAtt
    /\ UNCHANGED <<heap, pend, dlq, att, ttl, static, workers, owner, done, mishap>>

----------------------------------------------------------------------------
(* Workers *)

\* jobHeap.Less
Before(i, j) == pri[i] > pri[j] \/ (pri[i] = pri[j] /\ i <= j)

Dequeue(w) ==
    /\ has[w] = 0
    /\ \E j \in heap :
         /\ \A i \in heap : Before(j, i)
         /\ heap' = heap \ {j} /\ pend' = pend \cup {j}
         /\ att' = [att EXCEPT ![j] = @ + 1]
         /\ ttl' = [ttl EXCEPT ![j] = Visibility]
         /\ has' = [has EXCEPT ![w] = j] /\ left' = [left EXCEPT ![w] = Visibility]
         /\ owner' = [owner EXCEPT ![j] = w]
    /\ UNCHANGED <<dlq, static, config, budget, done, mishap>>

\* The worker has answered; it does not hear so and will answer again, or not.
Forget(w) ==
    /\ left' = [left EXCEPT ![w] = 0]
    /\ \/ has' = [has EXCEPT ![w] = 0] /\ UNCHANGED budget
       \/ Spend /\ UNCHANGED has

Stale(w) == mishap' = IF has[w] \in pend /\ owner[has[w]] # w
                      THEN mishap \cup {"stale"} ELSE mishap

\* Ack looks at the id only, not at whose reservation it is.
Ack(w) ==
    /\ has[w] # 0
    /\ pend' = pend \ {has[w]}
    /\ done' = IF has[w] \in pend THEN done \cup {has[w]} ELSE done
    /\ owner' = [owner EXCEPT ![has[w]] = IF has[w] \in pend THEN None ELSE @]
    /\ Stale(w) /\ Forget(w)
    /\ UNCHANGED <<heap, dlq, att, ttl, static, config>>

\* The last cap entries.
Trim(s) == IF Len(s) > cap THEN SubSeq(s, Len(s) - cap + 1, Len(s)) ELSE s

\* Slip: the limit is off by one.
SlipSpentLate(j) == att[j] > maxAtt

Spent(j) == att[j] >= maxAtt

\* Slip: the reservation is not taken away when the job goes back at once.
SlipNackKeeps(w, delay) ==
    LET j == has[w] IN
    /\ j # 0
    /\ IF j \in pend
       THEN /\ dlq' = IF Spent(j) THEN Trim(Append(dlq, j)) ELSE dlq
            /\ heap' = IF ~Spent(j) /\ delay = 0 THEN heap \cup {j} ELSE heap
            /\ pend' = IF ~Spent(j) THEN pend ELSE pend \ {j}
            /\ ttl' = IF ~Spent(j) /\ delay > 0 THEN [ttl EXCEPT ![j] = delay] ELSE ttl
            /\ owner' = [owner EXCEPT ![j] = None]
       ELSE UNCHANGED <<dlq, heap, pend, ttl, owner>>
    /\ Stale(w) /\ Forget(w)
    /\ UNCHANGED <<att, static, config, done>>

Nack(w, delay) ==
    LET j == has[w] IN
    /\ j # 0
    /\ IF j \in pend
       THEN /\ dlq' = IF Spent(j) THEN Trim(Append(dlq, j)) ELSE dlq
            /\ heap' = IF ~Spent(j) /\ delay = 0 THEN heap \cup {j} ELSE heap
            /\ pend' = IF ~Spent(j) /\ delay > 0 THEN pend ELSE pend \ {j}
            /\ ttl' = IF ~Spent(j) /\ delay > 0 THEN [ttl EXCEPT ![j] = delay] ELSE ttl
            /\ owner' = [owner EXCEPT ![j] = None]
       ELSE UNCHANGED <<dlq, heap, pend, ttl, owner>>
    /\ Stale(w) /\ Forget(w)
    /\ UNCHANGED <<att, static, config, done>>

Die(w) ==
    /\ has[w] # 0
    /\ has' = [has EXCEPT ![w] = 0] /\ left' = [left EXCEPT ![w] = 0]
    /\ UNCHANGED <<heap, pend, dlq, att, ttl, static, config, budget, owner, done, mishap>>

----------------------------------------------------------------------------
(* The clock and the sweeper *)

Tick ==
    /\ \E j \in pend : ttl[j] > 0
    /\ ttl' = [j \in Job |-> IF ttl[j] > 0 THEN ttl[j] - 1 ELSE 0]
    /\ left' = [w \in Worker |-> IF left[w] > 0 THEN left[w] - 1 ELSE 0]
    /\ UNCHANGED <<heap, pend, dlq, att, static, config, has, budget, owner, done, mishap>>

\* The orders in which a Go map may give the elements of S.
Orders(S) == Bijection(1 .. Cardinality(S), S)

\* Slip: a job goes back before its deadline.
SlipSweepEarly ==
    LET lapsed == {j \in pend : ttl[j] <= 1} IN
    /\ lapsed # {}
    /\ pend' = pend \ lapsed
    /\ heap' = heap \cup {j \in lapsed : ~Spent(j)}
    /\ \E s \in Orders({j \in lapsed : Spent(j)}) : dlq' = Trim(dlq \o s)
    /\ owner' = [j \in Job |-> IF j \in lapsed THEN None ELSE owner[j]]
    /\ UNCHANGED <<att, ttl, static, config, workers, budget, done, mishap>>

\* Slip: delayed retries are left out.
SlipSweepReserved ==
    LET lapsed == {j \in pend : ttl[j] = 0 /\ owner[j] # None} IN
    /\ lapsed # {}
    /\ pend' = pend \ lapsed
    /\ heap' = heap \cup {j \in lapsed : ~Spent(j)}
    /\ \E s \in Orders({j \in lapsed : Spent(j)}) : dlq' = Trim(dlq \o s)
    /\ owner' = [j \in Job |-> IF j \in lapsed THEN None ELSE owner[j]]
    /\ UNCHANGED <<att, ttl, static, config, workers, budget, done, mishap>>

\* sweep: one critical section over all reservations.
Sweep ==
    LET lapsed == {j \in pend : ttl[j] = 0} IN
    /\ lapsed # {}
    /\ pend' = pend \ lapsed
    /\ heap' = heap \cup {j \in lapsed : ~Spent(j)}
    /\ \E s \in Orders({j \in lapsed : Spent(j)}) : dlq' = Trim(dlq \o s)
    /\ owner' = [j \in Job |-> IF j \in lapsed THEN None ELSE owner[j]]
    /\ UNCHANGED <<att, ttl, static, config, workers, budget, done, mishap>>

----------------------------------------------------------------------------
Init ==
    /\ heap = {} /\ pend = {} /\ dlq = <<>>
    /\ att = [j \in Job |-> 0] /\ ttl = [j \in Job |-> 0]
    /\ pri = [j \in Job |-> 0] /\ key = [j \in Job |-> None] /\ ids = 0
    /\ maxAtt = MaxAttempts /\ cap = DlqCap
    /\ has = [w \in Worker |-> 0] /\ left = [w \in Worker |-> 0]
    /\ budget = MaxOps
    /\ owner = [j \in Job |-> None] /\ done = {} /\ mishap = {}

Answer(w) == Ack(w) \/ (\E delay \in {0, 1} : Nack(w, delay)) \/ Die(w)

Next ==
    \/ \E p \in {0, 1}, k \in Key \cup {None} : Enqueue(p, k)
    \/ \E j \in Job : Requeue(j)
    \/ Configure
    \/ \E w \in Worker : Dequeue(w) \/ Answer(w)
    \/ Tick \/ Sweep

Spec == Init /\ [][Next]_vars

\* The clock runs and the sweeper's ticker fires; a worker asks for jobs, and
\* answers or dies.
FairSpec ==
    /\ Spec
    /\ WF_vars(Tick) /\ WF_vars(Sweep)
    /\ \A w \in Worker : WF_vars(Dequeue(w)) /\ WF_vars(Answer(w))

----------------------------------------------------------------------------
(* Properties *)

\* Types; the dead-letter list stays within its cap.
TypeOK ==
    /\ heap \subseteq 1 .. ids /\ pend \subseteq 1 .. ids /\ ids \in 0 .. MaxJob
    /\ dlq \in Seq(1 .. ids) /\ Len(dlq) <= DlqCap
    /\ att \in [Job -> Nat] /\ ttl \in [Job -> Nat]
    /\ maxAtt \in 1 .. MaxAttempts /\ cap \in 1 .. DlqCap
    /\ has \in [Worker -> 0 .. ids] /\ left \in [Worker -> Nat]
    /\ budget \in 0 .. MaxOps
    /\ owner \in [Job -> Worker \cup {None}] /\ done \subseteq 1 .. ids
    /\ mishap \subseteq {"stale", "revived"}

\* A job is in one place: waiting, reserved, dead-lettered once, or done, and
\* after it is done it is nowhere else, whatever was answered late or twice.
OnePlace ==
    /\ heap \cap pend = {} /\ Live \cap Range(dlq) = {}
    /\ done \cap (Live \cup Range(dlq)) = {}
    /\ \A m, n \in DOMAIN dlq : dlq[m] = dlq[n] => m = n

\* While its reservation runs, a worker has its job to itself: it is not given
\* to another, not requeued, not dead-lettered, unless an answer came from
\* a worker whose reservation was over (Ack and Nack do not ask who calls).
ReservationHonoured ==
    "stale" \notin mishap =>
        \A w \in Worker : left[w] > 0 =>
            /\ has[w] \in pend /\ ttl[has[w]] = left[w]
            /\ \A v \in Worker \ {w} : has[v] = has[w] => left[v] = 0

\* Two jobs with one idempotency key are never both waiting or reserved,
\* unless one came back from the dead-letter list.
IdempotentWhileLive ==
    "revived" \notin mishap =>
        \A i, j \in Live : key[i] = key[j] /\ key[i] # None => i = j

\* Every job is settled in the end: acknowledged, dead-lettered or dropped
\* from the full dead-letter list, though workers die with it.
JobsSettle == \A j \in Job : (j \in Live) ~> (j \notin Live)

Status ==
    [j \in Job |-> IF j > ids THEN "new"
                   ELSE IF j \in heap THEN "queued"
                   ELSE IF j \in pend THEN "out"
                   ELSE IF j \in done THEN "done"
                   ELSE IF j \in Range(dlq) THEN "dead"
                   ELSE "lost"]

JQ == INSTANCE JobQueue WITH status <- Status, tries <- att, limit <- maxAtt

\* The queue implements JobQueue: retries up to the limit, dead letters only
\* beyond it, and no way out but an acknowledgement or the full dead-letter list.
Implements == JQ!Spec

============================================================================
