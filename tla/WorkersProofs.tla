---------------------------- MODULE WorkersProofs ----------------------------
(***************************************************************************)
(* For any workers, keys and bounds Workers keeps its types, keeps every   *)
(* job in one place, honours reservations and idempotency keys, and        *)
(* implements JobQueue.                                                    *)
(***************************************************************************)
EXTENDS Workers, FiniteSetTheorems, TLAPS

\* No element occurs twice in a sequence.
Distinct(s) == \A m, n \in DOMAIN s : s[m] = s[n] => m = n

\* Cutting the dead-letter list (Nack, sweep) yields a part of it, within the
\* cap, without new repetitions.
LEMMA TrimFacts ==
    ASSUME NEW T, NEW s \in Seq(T), cap \in Nat \ {0}
    PROVE  /\ Trim(s) \in Seq(T)
           /\ Len(Trim(s)) <= cap
           /\ Range(Trim(s)) \subseteq Range(s)
           /\ Distinct(s) => Distinct(Trim(s))
<1>1. CASE Len(s) > cap
  <2> DEFINE d == Len(s) - cap
  <2>1. d \in Nat /\ d < Len(s) /\ Len(s) \in Nat
    BY <1>1
  <2>2. Trim(s) = SubSeq(s, d + 1, Len(s))
    BY <1>1 DEF Trim
  <2>3. /\ Trim(s) \in Seq(T) /\ Len(Trim(s)) = cap
        /\ \A i \in 1 .. cap : Trim(s)[i] = s[i + d]
    BY <2>1, <2>2
  <2>4. DOMAIN Trim(s) = 1 .. cap /\ DOMAIN s = 1 .. Len(s)
    BY <2>3
  <2>5. \A i \in 1 .. cap : i + d \in DOMAIN s
    BY <2>1, <2>4
  <2> HIDE DEF d
  <2>6. Range(Trim(s)) \subseteq Range(s)
    BY <2>3, <2>4, <2>5 DEF Range
  <2>7. Distinct(s) => Distinct(Trim(s))
    <3> SUFFICES ASSUME Distinct(s), NEW m \in 1 .. cap, NEW n \in 1 .. cap,
                        Trim(s)[m] = Trim(s)[n]
                 PROVE  m = n
      BY <2>4 DEF Distinct
    <3>1. m + d = n + d
      BY <2>3, <2>5 DEF Distinct
    <3> QED BY <2>1, <3>1
  <2> QED BY <2>3, <2>6, <2>7
<1>2. CASE ~(Len(s) > cap)
  BY <1>2 DEF Trim
<1> QED BY <1>1, <1>2

\* Putting a sequence of new elements behind another.
LEMMA ConcatFacts ==
    ASSUME NEW T, NEW s \in Seq(T), NEW t \in Seq(T)
    PROVE  /\ s \o t \in Seq(T)
           /\ Range(s \o t) \subseteq Range(s) \cup Range(t)
           /\ Distinct(s) /\ Distinct(t) /\ Range(s) \cap Range(t) = {} => Distinct(s \o t)
<1> DEFINE u == s \o t
<1>1. /\ u \in Seq(T) /\ Len(u) = Len(s) + Len(t) /\ Len(s) \in Nat /\ Len(t) \in Nat
      /\ DOMAIN u = 1 .. Len(u) /\ DOMAIN s = 1 .. Len(s) /\ DOMAIN t = 1 .. Len(t)
  OBVIOUS
<1>2. \A i \in DOMAIN u : IF i <= Len(s) THEN i \in DOMAIN s /\ u[i] = s[i]
                          ELSE i - Len(s) \in DOMAIN t /\ u[i] = t[i - Len(s)]
  OBVIOUS
<1> HIDE DEF u
<1>3. Range(u) \subseteq Range(s) \cup Range(t)
  BY <1>1, <1>2 DEF Range
<1>4. ASSUME Distinct(s), Distinct(t), Range(s) \cap Range(t) = {},
             NEW m \in DOMAIN u, NEW n \in DOMAIN u, u[m] = u[n]
      PROVE  m = n
  <2>1. CASE m <= Len(s) /\ n <= Len(s)
    BY <1>2, <1>4, <2>1 DEF Distinct
  <2>2. CASE ~(m <= Len(s)) /\ ~(n <= Len(s))
    <3>1. m - Len(s) = n - Len(s)
      BY <1>2, <1>4, <2>2 DEF Distinct
    <3> QED BY <3>1, <1>1
  <2>3. CASE (m <= Len(s)) # (n <= Len(s))
    BY <1>2, <1>4, <2>3 DEF Range
  <2> QED BY <2>1, <2>2, <2>3
<1> QED BY <1>1, <1>3, <1>4 DEF u, Distinct

\* Putting one new element behind a sequence.
LEMMA AppendFacts ==
    ASSUME NEW T, NEW s \in Seq(T), NEW x \in T
    PROVE  /\ Append(s, x) \in Seq(T)
           /\ Range(Append(s, x)) \subseteq Range(s) \cup {x}
           /\ Distinct(s) /\ x \notin Range(s) => Distinct(Append(s, x))
<1> DEFINE u == Append(s, x)
<1>1. /\ u \in Seq(T) /\ Len(s) \in Nat /\ Len(u) = Len(s) + 1
      /\ DOMAIN u = 1 .. Len(s) + 1 /\ DOMAIN s = 1 .. Len(s)
  OBVIOUS
<1>2. \A i \in 1 .. Len(s) + 1 : u[i] = IF i <= Len(s) THEN s[i] ELSE x
  OBVIOUS
<1> HIDE DEF u
<1>3. Range(u) \subseteq Range(s) \cup {x}
  BY <1>1, <1>2 DEF Range
<1>4. Distinct(s) /\ x \notin Range(s) => Distinct(u)
  BY <1>1, <1>2 DEF Range, Distinct
<1> QED BY <1>1, <1>3, <1>4 DEF u

\* Taking one entry out of a list without repetitions (Requeue).
LEMMA RemoveFacts ==
    ASSUME NEW T, NEW s \in Seq(T), NEW i \in DOMAIN s
    PROVE  LET r == SubSeq(s, 1, i - 1) \o SubSeq(s, i + 1, Len(s)) IN
           /\ r \in Seq(T) /\ Len(r) <= Len(s)
           /\ Range(r) \subseteq Range(s)
           /\ Distinct(s) => Distinct(r) /\ Range(r) = Range(s) \ {s[i]}
<1> DEFINE r == SubSeq(s, 1, i - 1) \o SubSeq(s, i + 1, Len(s))
<1>1. /\ r \in Seq(T) /\ Len(r) = Len(s) - 1 /\ Len(s) \in Nat /\ i \in 1 .. Len(s)
      /\ DOMAIN r = 1 .. Len(r) /\ DOMAIN s = 1 .. Len(s)
  OBVIOUS
<1>2. \A m \in 1 .. Len(s) - 1 : r[m] = s[IF m < i THEN m ELSE m + 1]
  BY SMTT(60)
<1> HIDE DEF r
<1>3. \A m \in DOMAIN r : \E n \in DOMAIN s : n # i /\ r[m] = s[n]
  BY <1>1, <1>2
<1>4. \A n \in DOMAIN s : n # i => \E m \in DOMAIN r : r[m] = s[n]
  <2> TAKE n \in DOMAIN s
  <2>1. CASE n < i
    BY <1>1, <1>2, <2>1
  <2>2. CASE n > i
    <3>1. n - 1 \in DOMAIN r /\ ~(n - 1 < i) /\ r[n - 1] = s[n]
      BY <1>1, <1>2, <2>2
    <3> QED BY <3>1
  <2> QED BY <1>1, <2>1, <2>2
<1>5. Distinct(s) => Distinct(r)
  BY <1>1, <1>2 DEF Distinct
<1>6. Range(r) \subseteq Range(s)
  BY <1>3 DEF Range
<1>7. Distinct(s) => Range(r) = Range(s) \ {s[i]}
  BY <1>3, <1>4 DEF Range, Distinct
<1> QED BY <1>1, <1>5, <1>6, <1>7 DEF r

-----------------------------------------------------------------------------
(* Types *)

\* The list of all spent jobs that a sweep appends, in any order.
LEMMA OrdersFacts ==
    ASSUME NEW S, NEW T, S \subseteq T, IsFiniteSet(S), NEW s \in Orders(S)
    PROVE  s \in Seq(T) /\ Range(s) \subseteq S /\ Distinct(s)
<1>1. Cardinality(S) \in Nat
  BY FS_CardinalityType
<1>2. s \in [1 .. Cardinality(S) -> S] /\ \A a, b \in 1 .. Cardinality(S) : s[a] = s[b] => a = b
  BY DEF Orders, Bijection, Injection, Surjection, IsInjective
<1> QED BY <1>1, <1>2 DEF Range, Distinct

\* Jobs in reservation are finitely many.
LEMMA PendFinite == TypeOK => \A S \in SUBSET pend : IsFiniteSet(S)
<1>1. TypeOK => IsFiniteSet(1 .. ids) /\ pend \subseteq 1 .. ids
  BY WorkersBounds, FS_Interval DEF TypeOK
<1> QED BY <1>1, FS_Subset

\* A fresh queue.
LEMMA InitTypeOK == Init => TypeOK
BY WorkersBounds DEF Init, TypeOK, Job

\* Every operation keeps the types, and the dead-letter list within the
\* largest cap.
LEMMA StepTypeOK == TypeOK /\ [Next]_vars => TypeOK'
<1> SUFFICES ASSUME TypeOK, [Next]_vars PROVE TypeOK'
  OBVIOUS
<1> USE WorkersBounds
<1>0. cap \in Nat \ {0} /\ ids \in Nat /\ ids <= MaxJob
  BY DEF TypeOK
<1>1. ASSUME NEW p \in {0, 1}, NEW k \in Key \cup {None}, Enqueue(p, k) PROVE TypeOK'
  <2>1. ids' \in 0 .. MaxJob /\ 1 .. ids \subseteq 1 .. ids' /\ ids + 1 \in 1 .. ids' /\ 0 .. ids \subseteq 0 .. ids'
    BY <1>0, <1>1 DEF Enqueue
  <2>2. dlq' \in Seq(1 .. ids')
    BY <1>1, <2>1 DEF Enqueue, TypeOK
  <2> QED BY <1>1, <2>1, <2>2 DEF Enqueue, TypeOK, config, workers
<1>2. ASSUME NEW j \in Job, Requeue(j) PROVE TypeOK'
  <2>1. PICK i \in DOMAIN dlq :
          dlq[i] = j /\ dlq' = SubSeq(dlq, 1, i - 1) \o SubSeq(dlq, i + 1, Len(dlq))
    BY <1>2 DEF Requeue
  <2>2. dlq \in Seq(1 .. ids) /\ dlq[i] \in 1 .. ids /\ Len(dlq) \in Nat
    BY DEF TypeOK
  <2>3. dlq' \in Seq(1 .. ids) /\ Len(dlq') <= Len(dlq)
    BY <2>1, <2>2, RemoveFacts
  <2>4. Len(dlq') <= DlqCap
    BY <2>2, <2>3 DEF TypeOK
  <2>5. heap' \subseteq 1 .. ids /\ att' \in [Job -> Nat]
    <3>1. heap' = heap \cup {j} /\ att' = [att EXCEPT ![j] = 0]
      BY <1>2 DEF Requeue
    <3> QED BY <2>1, <2>2, <3>1 DEF TypeOK
  <2>8. budget' \in 0 .. MaxOps
    BY <1>2 DEF Requeue, TypeOK, Spend
  <2>6. mishap' \subseteq {"stale", "revived"}
    BY <1>2 DEF Requeue, TypeOK
  <2>7. UNCHANGED <<pend, ttl, ids, maxAtt, cap, has, left, owner, done>>
    BY <1>2 DEF Requeue, static, config, workers
  <2> QED BY <2>3, <2>4, <2>5, <2>6, <2>7, <2>8 DEF TypeOK
<1>3. CASE Configure
  BY <1>3 DEF Configure, TypeOK, static, workers, Spend
<1>4. ASSUME NEW w \in Worker, Dequeue(w) PROVE TypeOK'
  <2>1. PICK j \in heap :
          /\ heap' = heap \ {j} /\ pend' = pend \cup {j}
          /\ att' = [att EXCEPT ![j] = @ + 1] /\ ttl' = [ttl EXCEPT ![j] = Visibility]
          /\ has' = [has EXCEPT ![w] = j] /\ left' = [left EXCEPT ![w] = Visibility]
          /\ owner' = [owner EXCEPT ![j] = w]
    BY <1>4 DEF Dequeue
  <2>2. j \in 1 .. ids
    BY DEF TypeOK
  <2>3. heap' \subseteq 1 .. ids /\ pend' \subseteq 1 .. ids
    BY <2>1, <2>2 DEF TypeOK
  <2>4. att' \in [Job -> Nat] /\ ttl' \in [Job -> Nat]
    <3>1. j \in Job
      BY <1>0, <2>2 DEF Job
    <3>2. att[j] + 1 \in Nat
      BY <3>1 DEF TypeOK
    <3> QED BY <2>1, <3>1, <3>2 DEF TypeOK
  <2>5. has' \in [Worker -> 0 .. ids] /\ left' \in [Worker -> Nat]
    BY <1>0, <2>1, <2>2 DEF TypeOK
  <2>6. owner' \in [Job -> Worker \cup {None}]
    BY <2>1 DEF TypeOK
  <2>7. UNCHANGED <<dlq, ids, maxAtt, cap, budget, done, mishap>>
    BY <1>4 DEF Dequeue, static, config
  <2> QED BY <2>3, <2>4, <2>5, <2>6, <2>7 DEF TypeOK
<1>5. ASSUME NEW w \in Worker, Ack(w) PROVE TypeOK'
  <2>1. /\ has' \in [Worker -> 0 .. ids] /\ left' \in [Worker -> Nat] /\ budget' \in 0 .. MaxOps
    BY <1>5 DEF Ack, Forget, Spend, TypeOK
  <2>2. mishap' \subseteq {"stale", "revived"}
    BY <1>5 DEF Ack, Stale, TypeOK
  <2> QED BY <1>5, <2>1, <2>2 DEF Ack, TypeOK, static, config
<1>6. ASSUME NEW w \in Worker, NEW delay \in {0, 1}, Nack(w, delay) PROVE TypeOK'
  <2>1. /\ has' \in [Worker -> 0 .. ids] /\ left' \in [Worker -> Nat] /\ budget' \in 0 .. MaxOps
    BY <1>6 DEF Nack, Forget, Spend, TypeOK
  <2>2. mishap' \subseteq {"stale", "revived"}
    BY <1>6 DEF Nack, Stale, TypeOK
  <2>3. has[w] \in pend => dlq' \in Seq(1 .. ids) /\ Len(dlq') <= DlqCap
    <3> SUFFICES ASSUME has[w] \in pend PROVE dlq' \in Seq(1 .. ids) /\ Len(dlq') <= DlqCap
      OBVIOUS
    <3>1. Append(dlq, has[w]) \in Seq(1 .. ids)
      BY DEF TypeOK
    <3>2. Trim(Append(dlq, has[w])) \in Seq(1 .. ids) /\ Len(Trim(Append(dlq, has[w]))) <= cap
      BY <3>1, <1>0, TrimFacts
    <3>3. Len(Trim(Append(dlq, has[w]))) <= DlqCap
      BY <3>2 DEF TypeOK
    <3> QED BY <1>6, <3>2, <3>3 DEF Nack, TypeOK
  <2>4. UNCHANGED <<att, ids, maxAtt, cap, done>>
    BY <1>6 DEF Nack, static, config
  <2>5. CASE has[w] \in pend
    <3>1. heap' \subseteq 1 .. ids /\ pend' \subseteq 1 .. ids
      BY <1>6, <2>5 DEF Nack, TypeOK
    <3>2. ttl' \in [Job -> Nat]
      BY <1>6, <2>5 DEF Nack, TypeOK
    <3>3. owner' \in [Job -> Worker \cup {None}]
      BY <1>6, <2>5 DEF Nack, TypeOK
    <3> QED BY <2>1, <2>2, <2>3, <2>4, <2>5, <3>1, <3>2, <3>3 DEF TypeOK
  <2>6. CASE has[w] \notin pend
    <3>1. UNCHANGED <<dlq, heap, pend, ttl, owner>>
      BY <1>6, <2>6 DEF Nack
    <3> QED BY <2>1, <2>2, <2>4, <3>1 DEF TypeOK
  <2> QED BY <2>5, <2>6
<1>7. ASSUME NEW w \in Worker, Die(w) PROVE TypeOK'
  BY <1>7 DEF Die, TypeOK, static, config
<1>8. CASE Tick
  BY <1>8 DEF Tick, TypeOK, static, config
<1>9. CASE Sweep
  <2> DEFINE lapsed == {j \in pend : ttl[j] = 0}
             spent  == {j \in lapsed : Spent(j)}
  <2>1. PICK s \in Orders(spent) : dlq' = Trim(dlq \o s)
    BY <1>9 DEF Sweep
  <2>2. spent \subseteq 1 .. ids /\ IsFiniteSet(spent)
    BY PendFinite DEF TypeOK
  <2> HIDE DEF spent
  <2>3. s \in Seq(1 .. ids)
    BY <2>2, OrdersFacts
  <2>4. dlq \o s \in Seq(1 .. ids)
    BY <2>3, ConcatFacts DEF TypeOK
  <2>5. dlq' \in Seq(1 .. ids) /\ Len(dlq') <= cap
    BY <2>1, <2>4, <1>0, TrimFacts
  <2>6. Len(dlq') <= DlqCap
    BY <2>5 DEF TypeOK
  <2>7. owner' \in [Job -> Worker \cup {None}]
    BY <1>9 DEF Sweep, TypeOK
  <2>8. heap' \subseteq 1 .. ids /\ pend' \subseteq 1 .. ids
    BY <1>9 DEF Sweep, TypeOK
  <2> QED BY <1>9, <2>5, <2>6, <2>7, <2>8 DEF Sweep, TypeOK, static, config, workers
<1>10. CASE UNCHANGED vars
  BY <1>10 DEF vars, TypeOK, static, config, workers
<1> QED BY <1>1, <1>2, <1>3, <1>4, <1>5, <1>6, <1>7, <1>8, <1>9, <1>10 DEF Next, Answer

\* For any workers, keys and bounds the queue keeps its types and its
\* dead-letter list within the cap.
THEOREM TypeCorrect == Spec => []TypeOK
BY InitTypeOK, StepTypeOK, PTL DEF Spec

-----------------------------------------------------------------------------
(* One place *)

\* An empty queue has nothing twice.
LEMMA InitOnePlace == Init => OnePlace
BY DEF Init, OnePlace, Live, Range

\* Every operation moves a job from one place to one other.
LEMMA StepOnePlace == TypeOK /\ OnePlace /\ [Next]_vars => OnePlace'
<1> SUFFICES ASSUME TypeOK, OnePlace, [Next]_vars PROVE OnePlace'
  OBVIOUS
<1> USE WorkersBounds
<1>0. cap \in Nat \ {0} /\ ids \in Nat /\ dlq \in Seq(1 .. ids) /\ Range(dlq) \subseteq 1 .. ids
  BY DEF TypeOK, Range
<1>a. Distinct(dlq)
  BY DEF OnePlace, Distinct
<1>1. ASSUME NEW p \in {0, 1}, NEW k \in Key \cup {None}, Enqueue(p, k) PROVE OnePlace'
  <2>1. ids + 1 \notin 1 .. ids
    BY <1>0
  <2>2. ids + 1 \notin Live \cup Range(dlq) \cup done
    BY <2>1, <1>0 DEF TypeOK, Live
  <2>3. heap' = heap \cup {ids + 1} /\ UNCHANGED <<pend, dlq, done>>
    BY <1>1 DEF Enqueue
  <2> QED BY <2>2, <2>3 DEF OnePlace, Live
<1>2. ASSUME NEW j \in Job, Requeue(j) PROVE OnePlace'
  <2>1. PICK i \in DOMAIN dlq :
          dlq[i] = j /\ dlq' = SubSeq(dlq, 1, i - 1) \o SubSeq(dlq, i + 1, Len(dlq))
    BY <1>2 DEF Requeue
  <2>2. Distinct(dlq') /\ Range(dlq') = Range(dlq) \ {j}
    BY <1>0, <1>a, <2>1, RemoveFacts
  <2>3. j \in Range(dlq)
    BY <2>1 DEF Range
  <2>4. heap' = heap \cup {j} /\ UNCHANGED <<pend, done>>
    BY <1>2 DEF Requeue
  <2> QED BY <2>2, <2>3, <2>4 DEF OnePlace, Live, Distinct
<1>3. ASSUME NEW w \in Worker, Dequeue(w) PROVE OnePlace'
  <2>1. PICK j \in heap : heap' = heap \ {j} /\ pend' = pend \cup {j}
    BY <1>3 DEF Dequeue
  <2>2. UNCHANGED <<dlq, done>>
    BY <1>3 DEF Dequeue
  <2> QED BY <2>1, <2>2 DEF OnePlace, Live
<1>4. ASSUME NEW w \in Worker, Ack(w) PROVE OnePlace'
  BY <1>4 DEF Ack, OnePlace, Live
<1>5. ASSUME NEW w \in Worker, NEW delay \in {0, 1}, Nack(w, delay) PROVE OnePlace'
  <2> DEFINE j == has[w]
  <2>1. CASE j \notin pend
    <3>1. UNCHANGED <<dlq, heap, pend, done>>
      BY <1>5, <2>1 DEF Nack
    <3> QED BY <3>1 DEF OnePlace, Live
  <2>2. CASE j \in pend /\ ~Spent(j)
    <3>1. /\ UNCHANGED <<dlq, done>>
          /\ \/ heap' = heap \cup {j} /\ pend' = pend \ {j}
             \/ heap' = heap /\ pend' = pend
      BY <1>5, <2>2 DEF Nack
    <3> QED BY <2>2, <3>1 DEF OnePlace, Live
  <2>3. CASE j \in pend /\ Spent(j)
    <3>1. heap' = heap /\ pend' = pend \ {j} /\ done' = done /\ dlq' = Trim(Append(dlq, j))
      BY <1>5, <2>3 DEF Nack
    <3>2. j \in 1 .. ids /\ j \notin Range(dlq)
      BY <2>3 DEF OnePlace, Live, TypeOK
    <3>5. /\ Append(dlq, j) \in Seq(1 .. ids) /\ Distinct(Append(dlq, j))
          /\ Range(Append(dlq, j)) \subseteq Range(dlq) \cup {j}
      BY <1>0, <1>a, <3>2, AppendFacts
    <3>6. Range(dlq') \subseteq Range(dlq) \cup {j} /\ Distinct(dlq')
      BY <1>0, <3>1, <3>5, TrimFacts
    <3>7. j \notin heap \cup done
      BY <2>3 DEF OnePlace, Live
    <3> QED BY <3>1, <3>6, <3>7 DEF OnePlace, Live, Distinct
  <2> QED BY <2>1, <2>2, <2>3
<1>6. CASE Sweep
  <2> DEFINE lapsed == {j \in pend : ttl[j] = 0}
             spent  == {j \in lapsed : Spent(j)}
             again  == {j \in lapsed : ~Spent(j)}
  <2>1. /\ pend' = pend \ lapsed /\ heap' = heap \cup again /\ done' = done
        /\ \E s \in Orders(spent) : dlq' = Trim(dlq \o s)
    BY <1>6 DEF Sweep
  <2>2. PICK s \in Orders(spent) : dlq' = Trim(dlq \o s)
    BY <2>1
  <2>3. spent \subseteq 1 .. ids /\ IsFiniteSet(spent)
    BY PendFinite DEF TypeOK
  <2>4. spent \subseteq pend /\ spent \subseteq lapsed /\ lapsed \subseteq pend
        /\ again \subseteq pend /\ again \subseteq lapsed /\ spent \cap again = {}
    OBVIOUS
  <2> HIDE DEF spent, again, lapsed
  <2>5. s \in Seq(1 .. ids) /\ Range(s) \subseteq spent /\ Distinct(s)
    BY <2>3, OrdersFacts
  <2>6. Range(dlq) \cap Range(s) = {}
    BY <2>4, <2>5 DEF OnePlace, Live
  <2>7. dlq \o s \in Seq(1 .. ids) /\ Range(dlq \o s) \subseteq Range(dlq) \cup Range(s) /\ Distinct(dlq \o s)
    BY <1>0, <1>a, <2>5, <2>6, ConcatFacts
  <2>8. Range(dlq') \subseteq Range(dlq) \cup spent /\ Distinct(dlq')
    BY <1>0, <2>2, <2>5, <2>7, TrimFacts
  <2> QED BY <2>1, <2>4, <2>8 DEF OnePlace, Live, Distinct
<1>7. CASE Configure \/ Tick \/ (\E w \in Worker : Die(w)) \/ UNCHANGED vars
  <2>1. UNCHANGED <<heap, pend, dlq, done>>
    BY <1>7 DEF Configure, Tick, Die, vars
  <2> QED BY <2>1 DEF OnePlace, Live
<1> QED BY <1>1, <1>2, <1>3, <1>4, <1>5, <1>6, <1>7 DEF Next, Answer

\* For any workers, keys and bounds a job is never in two places: a completed
\* one is gone for good, also after late and repeated answers.
THEOREM OnePlaceCorrect == Spec => []OnePlace
<1>1. Spec => [](TypeOK /\ OnePlace)
  BY InitTypeOK, StepTypeOK, InitOnePlace, StepOnePlace, PTL DEF Spec
<1> QED BY <1>1, PTL

-----------------------------------------------------------------------------
(* Reservations *)

\* The reservation of w: the job is out, to w, and its deadline is the one w
\* counts down to.  ReservationHonoured does not say to whom a job is out, and
\* without that a second answer could take it away.
Reserved(w) == left[w] > 0 => /\ has[w] \in pend /\ owner[has[w]] = w
                              /\ ttl[has[w]] = left[w]

Reservations == "stale" \notin mishap => \A w \in Worker : Reserved(w)

\* A job is out to one worker only.
LEMMA ReservationsSuffice == TypeOK /\ Reservations => ReservationHonoured
<1>1. TypeOK => \A w \in Worker : left[w] > 0 \/ left[w] = 0
  BY DEF TypeOK
<1> QED BY <1>1 DEF Reservations, Reserved, ReservationHonoured

\* No worker has a job at the start.
LEMMA InitReservations == Init => Reservations
BY DEF Init, Reservations, Reserved

\* The answer of a worker that is not stale touches no job of another: either
\* the job is not out, or it is out to this worker.
LEMMA AnswersOwn ==
    ASSUME NEW w \in Worker, NEW v \in Worker, v # w, Reserved(v), left[v] > 0,
           Stale(w), "stale" \notin mishap'
    PROVE  "stale" \notin mishap /\ has[v] # has[w]
BY DEF Reserved, Stale

\* Dequeue gives out a job no one has, the clock runs alike for the job and
\* its worker, the sweeper takes only what has lapsed, and an answer that is
\* not stale takes only the answering worker's own job.
LEMMA StepReservations == TypeOK /\ OnePlace /\ Reservations /\ [Next]_vars => Reservations'
<1> SUFFICES ASSUME TypeOK, OnePlace, Reservations, [Next]_vars,
                    "stale" \notin mishap', NEW v \in Worker, left'[v] > 0
             PROVE  has'[v] \in pend' /\ owner'[has'[v]] = v /\ ttl'[has'[v]] = left'[v]
  BY DEF Reservations, Reserved
<1> USE WorkersBounds
<1>0. /\ heap \cap pend = {} /\ heap \subseteq Job /\ pend \subseteq Job
      /\ left \in [Worker -> Nat] /\ has \in [Worker -> 0 .. ids]
      /\ ttl \in [Job -> Nat] /\ owner \in [Job -> Worker \cup {None}]
  BY DEF TypeOK, OnePlace, Job
<1>1. ASSUME UNCHANGED <<pend, ttl, has, left, owner>>, mishap \subseteq mishap'
      PROVE  has'[v] \in pend' /\ owner'[has'[v]] = v /\ ttl'[has'[v]] = left'[v]
  BY <1>1 DEF Reservations, Reserved
<1>2. CASE \/ \E p \in {0, 1}, k \in Key \cup {None} : Enqueue(p, k)
           \/ \E j \in Job : Requeue(j)
           \/ Configure \/ UNCHANGED vars
  <2>1. UNCHANGED <<pend, ttl, has, left, owner>> /\ mishap \subseteq mishap'
    BY <1>2 DEF Enqueue, Requeue, Configure, vars, workers
  <2> QED BY <1>1, <2>1
<1>3. ASSUME NEW w \in Worker, Dequeue(w)
      PROVE  has'[v] \in pend' /\ owner'[has'[v]] = v /\ ttl'[has'[v]] = left'[v]
  <2>1. PICK j \in heap :
          /\ pend' = pend \cup {j} /\ ttl' = [ttl EXCEPT ![j] = Visibility]
          /\ has' = [has EXCEPT ![w] = j] /\ left' = [left EXCEPT ![w] = Visibility]
          /\ owner' = [owner EXCEPT ![j] = w]
    BY <1>3 DEF Dequeue
  <2>2. CASE v = w
    BY <1>0, <2>1, <2>2
  <2>3. CASE v # w
    <3>1. mishap' = mishap
      BY <1>3 DEF Dequeue
    <3>2. has'[v] = has[v] /\ left'[v] = left[v] /\ Reserved(v)
      BY <1>0, <2>1, <2>3, <3>1 DEF Reservations
    <3>3. has[v] \in pend /\ owner[has[v]] = v /\ ttl[has[v]] = left[v] /\ has[v] # j
      BY <1>0, <3>2 DEF Reserved
    <3> QED BY <1>0, <2>1, <3>2, <3>3
  <2> QED BY <2>2, <2>3
<1>4. ASSUME NEW w \in Worker, Ack(w) \/ \E delay \in {0, 1} : Nack(w, delay)
      PROVE  has'[v] \in pend' /\ owner'[has'[v]] = v /\ ttl'[has'[v]] = left'[v]
  <2>1. Stale(w) /\ left' = [left EXCEPT ![w] = 0]
        /\ (has' = has \/ has' = [has EXCEPT ![w] = 0])
    BY <1>4 DEF Ack, Nack, Forget
  <2>2. v # w /\ left'[v] = left[v] /\ has'[v] = has[v] /\ left[v] > 0
    BY <1>0, <2>1
  <2>3. "stale" \notin mishap
    BY <2>1 DEF Stale
  <2>4. Reserved(v) /\ has[v] # has[w]
    BY <2>1, <2>2, <2>3, AnswersOwn DEF Reservations
  <2>5. has[v] \in pend /\ owner[has[v]] = v /\ ttl[has[v]] = left[v]
    BY <2>2, <2>4 DEF Reserved
  <2>6. has[v] \in pend' /\ owner'[has[v]] = owner[has[v]] /\ ttl'[has[v]] = ttl[has[v]]
    <3>1. CASE Ack(w)
      BY <1>0, <2>4, <2>5, <3>1 DEF Ack
    <3>2. ASSUME NEW delay \in {0, 1}, Nack(w, delay)
          PROVE  has[v] \in pend' /\ owner'[has[v]] = owner[has[v]] /\ ttl'[has[v]] = ttl[has[v]]
      BY <1>0, <2>4, <2>5, <3>2 DEF Nack
    <3> QED BY <1>4, <3>1, <3>2
  <2> QED BY <2>2, <2>5, <2>6
<1>5. ASSUME NEW w \in Worker, Die(w)
      PROVE  has'[v] \in pend' /\ owner'[has'[v]] = v /\ ttl'[has'[v]] = left'[v]
  BY <1>0, <1>5 DEF Die, Reservations, Reserved
<1>6. CASE Tick
  <2>1. /\ left'[v] = left[v] - 1 /\ left[v] > 0
        /\ UNCHANGED <<pend, has, owner, mishap>>
    BY <1>0, <1>6 DEF Tick
  <2>2. has[v] \in pend /\ owner[has[v]] = v /\ ttl[has[v]] = left[v]
    BY <2>1 DEF Reservations, Reserved
  <2>3. ttl'[has[v]] = ttl[has[v]] - 1
    BY <1>0, <1>6, <2>1, <2>2 DEF Tick
  <2> QED BY <2>1, <2>2, <2>3
<1>7. CASE Sweep
  <2>1. /\ UNCHANGED <<ttl, has, left, mishap>>
        /\ pend' = pend \ {j \in pend : ttl[j] = 0}
        /\ owner' = [j \in Job |-> IF j \in {i \in pend : ttl[i] = 0} THEN None ELSE owner[j]]
    BY <1>7 DEF Sweep, workers
  <2>2. has[v] \in pend /\ owner[has[v]] = v /\ ttl[has[v]] = left[v] /\ ttl[has[v]] # 0
    BY <1>0, <2>1 DEF Reservations, Reserved
  <2> QED BY <1>0, <2>1, <2>2
<1> QED BY <1>2, <1>3, <1>4, <1>5, <1>6, <1>7 DEF Next, Answer

\* For any workers, keys and bounds: as long as no worker answers to
\* a reservation that is over, a worker whose reservation runs has its job to
\* itself, also when others die, answer twice or are swept.
THEOREM ReservationCorrect == Spec => []ReservationHonoured
BY InitTypeOK, StepTypeOK, InitOnePlace, StepOnePlace, InitReservations,
   StepReservations, ReservationsSuffice, PTL DEF Spec

-----------------------------------------------------------------------------
(* Idempotency keys *)

\* Every job has a key or None.
Keyed == key \in [Job -> Key \cup {None}]

\* Only Enqueue writes a key.
LEMMA StepKeyed == TypeOK /\ Keyed /\ [Next]_vars => Keyed'
BY DEF Keyed, TypeOK, Next, Enqueue, Requeue, Configure, Dequeue, Answer, Ack, Nack, Die,
       Tick, Sweep, vars, static

\* Enqueue looks at all live jobs before it adds one, and no other operation
\* but Requeue makes a job live again.
LEMMA StepIdempotent ==
    TypeOK /\ Keyed /\ IdempotentWhileLive /\ [Next]_vars => IdempotentWhileLive'
<1> SUFFICES ASSUME TypeOK, Keyed, IdempotentWhileLive, [Next]_vars, "revived" \notin mishap'
             PROVE  \A i, j \in Live' : key'[i] = key'[j] /\ key'[i] # None => i = j
  BY DEF IdempotentWhileLive
<1>1. ASSUME NEW p \in {0, 1}, NEW k \in Key \cup {None}, Enqueue(p, k)
      PROVE  \A i, j \in Live' : key'[i] = key'[j] /\ key'[i] # None => i = j
  <2>1. /\ Live' = Live \cup {ids + 1} /\ key' = [key EXCEPT ![ids + 1] = k]
        /\ mishap' = mishap /\ (k # None => \A j \in Live : key[j] # k)
    BY <1>1 DEF Enqueue, Live
  <2>2. Live \subseteq Job /\ ids + 1 \in Job /\ ids + 1 \notin Live
    BY <1>1, WorkersBounds DEF TypeOK, Live, Job, Enqueue
  <2>3. key'[ids + 1] = k /\ \A j \in Live : key'[j] = key[j]
    BY <2>1, <2>2 DEF Keyed
  <2> QED BY <2>1, <2>3 DEF IdempotentWhileLive
<1>2. CASE ~ \E p \in {0, 1}, k \in Key \cup {None} : Enqueue(p, k)
  <2>1. ~ \E j \in Job : Requeue(j)
    BY DEF Requeue
  <2>2. key' = key /\ Live' \subseteq Live /\ mishap \subseteq mishap'
    <3>1. CASE Configure \/ Tick \/ UNCHANGED vars \/ \E w \in Worker : Die(w)
      BY <3>1 DEF Configure, Tick, Die, vars, static, Live
    <3>2. CASE \E w \in Worker : Dequeue(w)
      BY <3>2 DEF Dequeue, static, Live
    <3>3. CASE \E w \in Worker : Ack(w)
      BY <3>3 DEF Ack, Stale, static, Live
    <3>4. CASE \E w \in Worker, delay \in {0, 1} : Nack(w, delay)
      BY <3>4 DEF Nack, Stale, static, Live
    <3>5. CASE Sweep
      BY <3>5 DEF Sweep, static, Live
    <3> QED BY <1>2, <2>1, <3>1, <3>2, <3>3, <3>4, <3>5 DEF Next, Answer
  <2> QED BY <2>2 DEF IdempotentWhileLive
<1> QED BY <1>1, <1>2

\* For any workers, keys and bounds: no two live jobs have one idempotency
\* key, until an operator brings one back from the dead-letter list.
THEOREM IdempotentCorrect == Spec => []IdempotentWhileLive
<1>1. Init => Keyed /\ IdempotentWhileLive
  BY DEF Init, Keyed, IdempotentWhileLive, Live
<1> QED BY <1>1, InitTypeOK, StepTypeOK, StepKeyed, StepIdempotent, PTL DEF Spec

-----------------------------------------------------------------------------
(* Refinement *)

\* A step that leaves the sets of jobs and the attempts alone leaves every job
\* where it is.
LEMMA Still ==
    ASSUME UNCHANGED <<heap, pend, dlq, done, ids, att>>
    PROVE  Status' = Status /\ att' = att
BY DEF Status, Range

\* An id not yet given out counts no attempts.
Untried == \A j \in Job : j > ids => att[j] = 0

\* Enqueue finds the attempts of the id it takes at zero: Dequeue and Requeue,
\* the only ones to write them, do so for ids given out earlier.
LEMMA StepUntried == TypeOK /\ Untried /\ [Next]_vars => Untried'
<1> SUFFICES ASSUME TypeOK, Untried, [Next]_vars, NEW j \in Job, j > ids'
             PROVE  att'[j] = 0
  BY DEF Untried
<1> USE WorkersBounds
<1>0. /\ ids \in Nat /\ heap \subseteq 1 .. ids /\ dlq \in Seq(1 .. ids)
      /\ att \in [Job -> Nat] /\ j \in Nat
  BY DEF TypeOK, Job
<1>1. ASSUME NEW p \in {0, 1}, NEW k \in Key \cup {None}, Enqueue(p, k) PROVE att'[j] = 0
  BY <1>0, <1>1 DEF Enqueue, Untried
<1>2. ASSUME NEW i \in Job, Requeue(i) PROVE att'[j] = 0
  BY <1>0, <1>2 DEF Requeue, Untried, static
<1>3. CASE \E w \in Worker : Dequeue(w)
  <2>1. PICK w \in Worker : Dequeue(w)
    BY <1>3
  <2>2. PICK i \in heap : att' = [att EXCEPT ![i] = @ + 1]
    BY <2>1 DEF Dequeue
  <2>3. ids' = ids
    BY <2>1 DEF Dequeue, static
  <2>4. i # j
    BY <1>0, <2>2, <2>3
  <2> QED BY <1>0, <2>2, <2>3, <2>4 DEF Untried
<1>4. CASE UNCHANGED <<att, ids>>
  BY <1>4 DEF Untried
<1>5. CASE \/ Configure \/ Tick \/ Sweep \/ UNCHANGED vars
           \/ \E w \in Worker : Answer(w)
  BY <1>4, <1>5 DEF Configure, Tick, Sweep, Answer, Ack, Nack, Die, vars, static
<1> QED BY <1>1, <1>2, <1>3, <1>5 DEF Next

\* The step of a single operation, seen by JobQueue.
LEMMA StepImplements ==
    TypeOK /\ OnePlace /\ Untried /\ [Next]_vars => [JQ!Next]_<<Status, att, maxAtt>>
<1> SUFFICES ASSUME TypeOK, OnePlace, Untried, [Next]_vars
             PROVE  JQ!Next \/ UNCHANGED <<Status, att, maxAtt>>
  OBVIOUS
<1> USE WorkersBounds
<1>0. /\ ids \in Nat /\ ids <= MaxJob /\ cap \in Nat \ {0} /\ dlq \in Seq(1 .. ids)
      /\ heap \subseteq 1 .. ids /\ pend \subseteq 1 .. ids /\ done \subseteq 1 .. ids
      /\ Range(dlq) \subseteq 1 .. ids
      /\ att \in [Job -> Nat] /\ maxAtt \in Nat
  BY DEF TypeOK, Range
<1>a. /\ heap \cap pend = {} /\ heap \cap Range(dlq) = {} /\ pend \cap Range(dlq) = {}
      /\ done \cap heap = {} /\ done \cap pend = {} /\ done \cap Range(dlq) = {}
  BY DEF OnePlace, Live
<1>b. \A j \in Job :
        Status[j] = IF j > ids THEN "new" ELSE IF j \in heap THEN "queued"
                    ELSE IF j \in pend THEN "out" ELSE IF j \in done THEN "done"
                    ELSE IF j \in Range(dlq) THEN "dead" ELSE "lost"
  BY DEF Status
<1>c. \A j \in Job :
        Status'[j] = IF j > ids' THEN "new" ELSE IF j \in heap' THEN "queued"
                     ELSE IF j \in pend' THEN "out" ELSE IF j \in done' THEN "done"
                     ELSE IF j \in Range(dlq') THEN "dead" ELSE "lost"
  BY DEF Status
<1>d. ASSUME maxAtt' = maxAtt, \A j \in Job : JQ!Move(j) PROVE JQ!Next
  BY <1>d DEF JQ!Next
<1>e. \A j \in 1 .. ids : j \in Job /\ ~(j > ids)
  BY <1>0 DEF Job
<1> USE DEF JQ!Move, JQ!Rest, JQ!Submit, JQ!Deliver, JQ!Complete, JQ!Retry, JQ!Bury, JQ!Drop, JQ!Revive
<1>1. ASSUME NEW p \in {0, 1}, NEW k \in Key \cup {None}, Enqueue(p, k) PROVE JQ!Next
  <2>1. /\ heap' = heap \cup {ids + 1} /\ ids' = ids + 1
        /\ UNCHANGED <<pend, dlq, done, att, maxAtt>>
    BY <1>1 DEF Enqueue, config
  <2>2. ASSUME NEW j \in Job, j # ids + 1 PROVE JQ!Rest(j)
    <3>1. j > ids' <=> j > ids
      BY <1>0, <2>1, <2>2 DEF Job
    <3> QED BY <1>b, <1>c, <2>1, <2>2, <3>1
  <2>3. ASSUME ids + 1 \in Job PROVE JQ!Submit(ids + 1)
    <3>1. ids + 1 > ids /\ ~(ids + 1 > ids')
      BY <1>0, <2>1
    <3>2. att[ids + 1] = 0
      BY <2>3, <3>1 DEF Untried
    <3> QED BY <1>b, <1>c, <2>1, <2>3, <3>1, <3>2
  <2> QED BY <1>d, <2>1, <2>2, <2>3
<1>2. ASSUME NEW i \in Job, Requeue(i) PROVE JQ!Next
  <2>1. PICK n \in DOMAIN dlq :
          dlq[n] = i /\ dlq' = SubSeq(dlq, 1, n - 1) \o SubSeq(dlq, n + 1, Len(dlq))
    BY <1>2 DEF Requeue
  <2>2. Distinct(dlq)
    BY DEF OnePlace, Distinct
  <2>3. Range(dlq') = Range(dlq) \ {i}
    BY <1>0, <2>1, <2>2, RemoveFacts
  <2>4. i \in Range(dlq)
    BY <2>1 DEF Range
  <2>5. /\ heap' = heap \cup {i} /\ att' = [att EXCEPT ![i] = 0]
        /\ UNCHANGED <<pend, done, ids, maxAtt>>
    BY <1>2 DEF Requeue, static, config
  <2>6. ASSUME NEW j \in Job, j # i PROVE JQ!Rest(j)
    BY <1>0, <1>b, <1>c, <2>3, <2>5, <2>6
  <2>7. JQ!Revive(i)
    BY <1>0, <1>a, <1>b, <1>c, <1>e, <2>4, <2>5
  <2> QED BY <1>d, <2>5, <2>6, <2>7
<1>3. CASE Configure
  <2>1. maxAtt' \in Nat
    BY <1>3 DEF Configure, TypeOK
  <2>2. UNCHANGED <<heap, pend, dlq, done, ids, att>>
    BY <1>3 DEF Configure, static
  <2> QED BY <2>1, <2>2, Still DEF JQ!Next
<1>4. ASSUME NEW w \in Worker, Dequeue(w) PROVE JQ!Next
  <2>1. PICK i \in heap : /\ heap' = heap \ {i} /\ pend' = pend \cup {i}
                          /\ att' = [att EXCEPT ![i] = @ + 1]
    BY <1>4 DEF Dequeue
  <2>2. UNCHANGED <<dlq, done, ids, maxAtt>>
    BY <1>4 DEF Dequeue, static, config
  <2>3. i \in Job /\ ~(i > ids)
    BY <1>0, <1>e
  <2>4. ASSUME NEW j \in Job, j # i PROVE JQ!Rest(j)
    BY <1>0, <1>b, <1>c, <2>1, <2>2, <2>4
  <2>5. JQ!Deliver(i)
    BY <1>0, <1>a, <1>b, <1>c, <2>1, <2>2, <2>3
  <2> QED BY <1>d, <2>2, <2>4, <2>5
<1>5. ASSUME NEW w \in Worker, Ack(w) PROVE JQ!Next
  <2> DEFINE i == has[w]
  <2>1. /\ pend' = pend \ {i} /\ done' = (IF i \in pend THEN done \cup {i} ELSE done)
        /\ UNCHANGED <<heap, dlq, ids, att, maxAtt>>
    BY <1>5 DEF Ack, static, config
  <2> HIDE DEF i
  <2>2. ASSUME NEW j \in Job PROVE JQ!Rest(j) \/ JQ!Complete(j)
    <3>1. CASE i \in pend /\ j = i
      BY <1>0, <1>a, <1>b, <1>c, <1>e, <2>1, <3>1
    <3>2. CASE ~(i \in pend /\ j = i)
      BY <1>0, <1>b, <1>c, <2>1, <3>2
    <3> QED BY <3>1, <3>2
  <2> QED BY <1>d, <2>1, <2>2
<1>6. ASSUME NEW w \in Worker, NEW delay \in {0, 1}, Nack(w, delay)
      PROVE  JQ!Next \/ UNCHANGED <<Status, att, maxAtt>>
  <2> DEFINE i == has[w]
  <2>0. UNCHANGED <<att, ids, maxAtt, done>>
    BY <1>6 DEF Nack, static, config
  <2>1. CASE i \notin pend
    <3>1. UNCHANGED <<dlq, heap, pend>>
      BY <1>6, <2>1 DEF Nack
    <3> QED BY <2>0, <3>1, Still
  <2>2. CASE i \in pend /\ ~Spent(i)
    <3>1. /\ UNCHANGED dlq
          /\ \/ heap' = heap \cup {i} /\ pend' = pend \ {i}
             \/ heap' = heap /\ pend' = pend
      BY <1>6, <2>2 DEF Nack
    <3>2. CASE heap' = heap /\ pend' = pend
      BY <2>0, <3>1, <3>2, Still
    <3>3. CASE heap' = heap \cup {i} /\ pend' = pend \ {i}
      <4>1. ASSUME NEW j \in Job, j # i PROVE JQ!Rest(j)
        BY <1>b, <1>c, <2>0, <3>1, <3>3, <4>1
      <4>0. i \in Job /\ att[i] \in Nat /\ ~(att[i] >= maxAtt)
        BY <1>0, <1>e, <2>2 DEF Spent
      <4>2. i \in Job /\ att[i] < maxAtt
        BY <1>0, <4>0
      <4>3. JQ!Retry(i)
        BY <1>0, <1>a, <1>b, <1>c, <1>e, <2>0, <2>2, <3>1, <3>3, <4>2
      <4> QED BY <1>d, <2>0, <4>1, <4>3
    <3> QED BY <3>1, <3>2, <3>3
  <2>3. CASE i \in pend /\ Spent(i)
    <3>1. heap' = heap /\ pend' = pend \ {i} /\ dlq' = Trim(Append(dlq, i))
      BY <1>6, <2>3 DEF Nack
    <3>2. i \in 1 .. ids
      BY <1>0, <2>3
    <3>3. Append(dlq, i) \in Seq(1 .. ids) /\ Range(Append(dlq, i)) \subseteq Range(dlq) \cup {i}
      BY <1>0, <3>2, AppendFacts
    <3>4. Range(dlq') \subseteq Range(dlq) \cup {i}
      BY <1>0, <3>1, <3>3, TrimFacts
    <3>5. ASSUME NEW j \in Job, j # i PROVE JQ!Rest(j) \/ JQ!Drop(j)
      BY <1>a, <1>b, <1>c, <2>0, <3>1, <3>4, <3>5
    <3>6. i \in Job /\ att[i] >= maxAtt
      BY <1>0, <1>e, <2>3 DEF Spent
    <3>7. JQ!Bury(i)
      BY <1>0, <1>a, <1>b, <1>c, <1>e, <2>0, <2>3, <3>1, <3>6
    <3> QED BY <1>d, <2>0, <3>5, <3>7
  <2> QED BY <2>1, <2>2, <2>3
<1>7. CASE Sweep
  <2> DEFINE lapsed == {j \in pend : ttl[j] = 0}
             spent  == {j \in lapsed : Spent(j)}
             again  == {j \in lapsed : ~Spent(j)}
  <2>1. /\ pend' = pend \ lapsed /\ heap' = heap \cup again
        /\ \E s \in Orders(spent) : dlq' = Trim(dlq \o s)
        /\ UNCHANGED <<done, ids, att, maxAtt>>
    BY <1>7 DEF Sweep, static, config
  <2>2. PICK s \in Orders(spent) : dlq' = Trim(dlq \o s)
    BY <2>1
  <2>3. spent \subseteq 1 .. ids /\ IsFiniteSet(spent)
    BY PendFinite DEF TypeOK
  <2>4. /\ \A j \in again : j \in lapsed /\ ~Spent(j)
        /\ \A j \in spent : j \in lapsed /\ Spent(j)
        /\ \A j \in lapsed : j \in pend /\ (j \in again \/ j \in spent)
    OBVIOUS
  <2> HIDE DEF spent, again, lapsed
  <2>5. s \in Seq(1 .. ids) /\ Range(s) \subseteq spent
    BY <2>3, OrdersFacts
  <2>6. dlq \o s \in Seq(1 .. ids) /\ Range(dlq \o s) \subseteq Range(dlq) \cup Range(s)
    BY <1>0, <2>5, ConcatFacts
  <2>7. Range(dlq') \subseteq Range(dlq) \cup spent
    BY <1>0, <2>2, <2>5, <2>6, TrimFacts
  <2>8. ASSUME NEW j \in Job, j \notin lapsed PROVE JQ!Rest(j) \/ JQ!Drop(j)
    BY <1>a, <1>b, <1>c, <2>1, <2>4, <2>7, <2>8
  <2>9. ASSUME NEW j \in again PROVE JQ!Retry(j)
    <3>0. j \in Job /\ ~(j > ids) /\ att[j] \in Nat /\ ~(att[j] >= maxAtt)
      BY <1>0, <1>e, <2>4 DEF Spent
    <3>1. j \in Job /\ ~(j > ids) /\ att[j] < maxAtt
      BY <1>0, <3>0
    <3> QED BY <1>a, <1>b, <1>c, <2>1, <2>4, <3>1
  <2>10. ASSUME NEW j \in spent PROVE JQ!Bury(j)
    <3>1. j \in Job /\ ~(j > ids) /\ att[j] >= maxAtt
      BY <1>0, <1>e, <2>4 DEF Spent
    <3> QED BY <1>a, <1>b, <1>c, <2>1, <2>4, <3>1
  <2> QED BY <1>d, <2>1, <2>4, <2>8, <2>9, <2>10
<1>8. CASE Tick \/ (\E w \in Worker : Die(w)) \/ UNCHANGED vars
  <2>1. UNCHANGED <<heap, pend, dlq, done, ids, att, maxAtt>>
    BY <1>8 DEF Tick, Die, vars, static, config
  <2> QED BY <2>1, Still
<1> QED BY <1>1, <1>2, <1>3, <1>4, <1>5, <1>6, <1>7, <1>8 DEF Next, Answer

\* For any workers, keys and bounds the queue of worker.go implements the
\* abstract queue: delivered before it is forgotten, retried below the limit of
\* attempts, dead-lettered only at it, never back once completed.
THEOREM WorkersImplements == Spec => Implements
<1>1. Init => JQ!Init
  BY WorkersBounds DEF Init, JQ!Init, Status, Job
<1>2. Init => Untried
  BY DEF Init, Untried
<1> QED BY <1>1, <1>2, InitTypeOK, StepTypeOK, InitOnePlace, StepOnePlace,
           StepUntried, StepImplements, PTL
        DEF Spec, Implements, JQ!Spec

==============================================================================
