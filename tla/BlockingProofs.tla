--------------------------- MODULE BlockingProofs ---------------------------
(***************************************************************************)
(* For any clients, keys, commands and number of calls the hub of Blocking *)
(* is consistent, the answers that CLIENT UNBLOCK causes are justified,    *)
(* and a wake is lost only where stray says so.                            *)
(***************************************************************************)
EXTENDS Blocking, FiniteSetTheorems, TLAPS

Waiters == [gen : Nat, full : BOOLEAN, closed : BOOLEAN, external : BOOLEAN, err : BOOLEAN]
Locals  == [woke : BOOLEAN, external : BOOLEAN, errored : BOOLEAN]
Labels  == {"fast", "recheck", "push", "load", "notify", "register", "count", "deadline",
            "wait", "external", "errored", "close", "detach", "uncount", "done"}
Replies == {"none", "value", "nil", "error"}
Reasons == {"TIMEOUT", "ERROR"}
Unblock == [phase : {"mark", "send"}, c : Client, reason : Reasons, w : Client \X Nat]

\* TypeOK in parts, without the count, and with the call of CLIENT UNBLOCK.
DataTypes == /\ command \in Workload /\ items \in [Key -> Nat] /\ budget \in 0 .. MaxCalls
             /\ fired \in [Key -> Nat] /\ notifying \in [Key -> Nat] /\ firedAll \in [Key -> Nat]
HubTypes  == /\ sending \subseteq Client \X Nat
             /\ byKey \in [Key -> SUBSET (Client \X Nat)]
             /\ byClient \in [Client -> SUBSET (Client \X Nat)]
LoopTypes == /\ wt \in [Client -> Waiters] /\ pc \in [Client -> Labels]
             /\ pos \in [Client -> Nat] /\ saw \in [Client -> Locals]
             /\ reply \in [Client -> Replies]
UbTypes   == /\ ub \in Unblock \cup {NoUnblock}
             /\ answered1 \subseteq Client \X Reasons
Types == DataTypes /\ HubTypes /\ LoopTypes /\ UbTypes
GhostTypes == woken \subseteq Client \X Key /\ stray \subseteq Key

\* The parts make up TypeOK.
LEMMA TypesSuffice == Types /\ GhostTypes /\ waiterCount \in Nat => TypeOK
BY DEF Types, GhostTypes, DataTypes, HubTypes, LoopTypes, UbTypes, TypeOK, Waiters, Locals, Labels,
       Replies, Reasons

\* The command of a client.
LEMMA CommandFacts ==
    ASSUME DataTypes, NEW c \in Client
    PROVE  /\ command[c].op \in {"pop", "move", "read", "tail"}
           /\ command[c].keys \in Seq(Key) \ {<<>>} /\ command[c].dst \in Key
           /\ command[c].timed \in BOOLEAN /\ command[c].atomic \in BOOLEAN
           /\ Keys(c) \subseteq Key
BY WorkloadAssumption DEF DataTypes, Keys

\* A send keeps the types of the waiters.
LEMMA SendTypes == ASSUME LoopTypes, NEW W, Send(W) PROVE wt' \in [Client -> Waiters]
<1>1. \A c \in Client : [wt[c] EXCEPT !.full = TRUE] \in Waiters
  BY DEF LoopTypes, Waiters
<1> QED BY <1>1 DEF Send, LoopTypes

\* Notify keeps the types of the index and of the waiters.
LEMMA NotifyTypes ==
    ASSUME HubTypes, LoopTypes, NEW k \in Key, NotifyLocked(k)
    PROVE  byKey' \in [Key -> SUBSET (Client \X Nat)] /\ wt' \in [Client -> Waiters]
<1>1. byKey' \in [Key -> SUBSET (Client \X Nat)]
  BY DEF NotifyLocked, HubTypes
<1>2. wt' = wt \/ \E w \in byKey[k] : Send({w})
  BY DEF NotifyLocked
<1>3. wt' \in [Client -> Waiters]
  BY <1>2, SendTypes DEF LoopTypes
<1> QED BY <1>1, <1>3

\* Taking an item from a key that has one.
LEMMA TakeTypes ==
    ASSUME items \in [Key -> Nat], NEW k, items[k] > 0
    PROVE  [items EXCEPT ![k] = @ - 1] \in [Key -> Nat]
<1>1. CASE k \in Key
  <2>1. items[k] - 1 \in Nat
    BY <1>1
  <2> QED BY <2>1
<1>2. CASE k \notin Key
  BY <1>2
<1> QED BY <1>1, <1>2

\* The end of a try, successful or not.
LEMMA TryTypes ==
    ASSUME LoopTypes, NEW c \in Client
    PROVE  /\ Finish(c, "value") => reply' \in [Client -> Replies] /\ pc' \in [Client -> Labels]
           /\ Miss(c) => pos' \in [Client -> Nat] /\ pc' \in [Client -> Labels]
<1>1. Finish(c, "value") => reply' \in [Client -> Replies] /\ pc' \in [Client -> Labels]
  BY DEF LoopTypes, Finish, Answer, Goto, Labels, Replies
<1>2. Miss(c) => pos' \in [Client -> Nat]
  <2>1. Miss(c) => pos' = [pos EXCEPT ![c] = @ + 1] \/ pos' = [pos EXCEPT ![c] = 1]
    BY DEF Miss
  <2>2. pos \in [Client -> Nat]
    BY DEF LoopTypes
  <2> QED BY <2>1, <2>2
<1>3. Miss(c) => pc' \in [Client -> Labels]
  BY DEF LoopTypes, Miss, Goto, Labels
<1> QED BY <1>1, <1>2, <1>3

\* A fresh server.
LEMMA InitTypes == Init => Types
<1> SUFFICES ASSUME Init PROVE Types
  OBVIOUS
<1>1. DataTypes
  BY CallsAssumption DEF Init, DataTypes
<1>2. HubTypes
  BY DEF Init, HubTypes
<1>3. LoopTypes
  BY DEF Init, LoopTypes, Waiters, Locals, Labels, Replies, Fresh
<1>4. UbTypes
  BY DEF Init, UbTypes
<1> QED BY <1>1, <1>2, <1>3, <1>4 DEF Types

\* The loop of a command.
LEMMA ClientTypes == ASSUME Types, NEW c \in Client, ClientStep(c) PROVE Types'
<1> USE DEF Types, flight, hub, local
<1>0. DataTypes /\ HubTypes /\ LoopTypes /\ UbTypes
  BY DEF Types
<1>a. /\ command[c].dst \in Key /\ Keys(c) \subseteq Key /\ wt[c].gen \in Nat
      /\ wt[c].external \in BOOLEAN /\ wt[c].err \in BOOLEAN
  BY CommandFacts DEF LoopTypes, Waiters
<1>b. /\ wt[c] \in Waiters /\ saw[c] \in Locals /\ pos[c] + 1 \in Nat
  BY DEF LoopTypes
<1>1. CASE TryPop(c)
  <2>1. UbTypes' /\ HubTypes'
    BY <1>0, <1>1 DEF TryPop, UbTypes, HubTypes
  <2>2. DataTypes'
    <3> DEFINE k == command[c].keys[pos[c]]
    <3>1. /\ UNCHANGED items \/ (items[k] > 0 /\ items' = [items EXCEPT ![k] = @ - 1])
          /\ UNCHANGED <<command, fired, notifying, firedAll, budget>>
      BY <1>1 DEF TryPop
    <3> HIDE DEF k
    <3>2. items' \in [Key -> Nat]
      BY <1>0, <3>1, TakeTypes DEF DataTypes
    <3> QED BY <1>0, <3>1, <3>2 DEF DataTypes
  <2>3. LoopTypes'
    BY <1>0, <1>1, TryTypes DEF TryPop, LoopTypes
  <2> QED BY <2>1, <2>2, <2>3
<1>2. CASE TryMove(c)
  <2>1. UbTypes' /\ HubTypes'
    BY <1>0, <1>2 DEF TryMove, UbTypes, HubTypes
  <2>2. DataTypes'
    <3> DEFINE k == command[c].keys[1]
               rest == [items EXCEPT ![k] = @ - 1]
    <3>1. /\ \/ UNCHANGED items
             \/ items[k] > 0 /\ (items' = rest \/ items' = [rest EXCEPT ![command[c].dst] = @ + 1])
          /\ UNCHANGED <<command, fired, notifying, firedAll, budget>>
      BY <1>2 DEF TryMove
    <3> HIDE DEF k
    <3>2. items[k] > 0 => rest \in [Key -> Nat]
      BY <1>0, TakeTypes DEF DataTypes
    <3> HIDE DEF rest
    <3>3. items' \in [Key -> Nat]
      BY <1>0, <3>1, <3>2 DEF DataTypes
    <3> QED BY <1>0, <3>1, <3>3 DEF DataTypes
  <2>3. LoopTypes'
    BY <1>0, <1>2, TryTypes DEF TryMove, LoopTypes, Goto, Labels
  <2> QED BY <2>1, <2>2, <2>3
<1>3. CASE MovePush(c) \/ MoveLoad(c)
  <2>1. UbTypes' /\ HubTypes'
    BY <1>0, <1>3 DEF MovePush, MoveLoad, UbTypes, HubTypes
  <2>2. DataTypes'
    BY <1>0, <1>a, <1>3 DEF MovePush, MoveLoad, DataTypes
  <2>3. LoopTypes'
    BY <1>0, <1>3 DEF MovePush, MoveLoad, LoopTypes, Goto, Finish, Answer, Labels, Replies
  <2> QED BY <2>1, <2>2, <2>3
<1>4. CASE MoveNotify(c)
  <2>1. UbTypes' /\ DataTypes'
    BY <1>0, <1>4 DEF MoveNotify, UbTypes, DataTypes
  <2>2. HubTypes' /\ wt' \in [Client -> Waiters]
    BY <1>0, <1>a, <1>4, NotifyTypes DEF MoveNotify, HubTypes
  <2>3. LoopTypes'
    BY <1>0, <1>4, <2>2, TryTypes DEF MoveNotify, LoopTypes
  <2> QED BY <2>1, <2>2, <2>3
<1>5. CASE TryRead(c) \/ Deadline(c)
  <2>1. UbTypes' /\ HubTypes' /\ DataTypes'
    BY <1>0, <1>5 DEF TryRead, Deadline, UbTypes, HubTypes, DataTypes
  <2>2. LoopTypes'
    BY <1>0, <1>5 DEF TryRead, Deadline, LoopTypes, Goto, Finish, Answer, Labels, Replies
  <2> QED BY <2>1, <2>2
<1>6. CASE Register(c)
  <2>1. UbTypes' /\ DataTypes'
    BY <1>0, <1>6 DEF Register, UbTypes, DataTypes
  <2>2. HubTypes'
    BY <1>0, <1>a, <1>6 DEF Register, RegisterFor, HubTypes
  <2>3. Fresh(wt[c].gen + 1) \in Waiters
    BY <1>a DEF Fresh, Waiters
  <2>4. LoopTypes'
    BY <1>0, <1>6, <2>3 DEF Register, RegisterFor, LoopTypes, Goto, Labels
  <2> QED BY <2>1, <2>2, <2>4
<1>7. CASE Count(c) \/ CancelUncount(c)
  <2>1. UbTypes' /\ DataTypes' /\ HubTypes'
    BY <1>0, <1>7 DEF Count, CancelUncount, UbTypes, DataTypes, HubTypes
  <2>2. LoopTypes'
    BY <1>0, <1>7 DEF Count, CancelUncount, AfterWait, LoopTypes, Goto, Goto, Answer, Labels, Replies
  <2> QED BY <2>1, <2>2
<1>8. CASE Wait(c)
  <2>1. UbTypes' /\ DataTypes' /\ HubTypes'
    BY <1>0, <1>8 DEF Wait, UbTypes, DataTypes, HubTypes
  <2>2. [wt[c] EXCEPT !.full = FALSE] \in Waiters
    BY <1>b DEF Waiters
  <2>3. [saw[c] EXCEPT !.woke = TRUE] \in Locals /\ [saw[c] EXCEPT !.woke = FALSE] \in Locals
    BY <1>b DEF Locals
  <2>4. LoopTypes'
    BY <1>0, <1>8, <2>2, <2>3 DEF Wait, LoopTypes, Goto, Labels
  <2> QED BY <2>1, <2>4
<1>9. CASE ReadExternal(c) \/ ReadErrored(c)
  <2>1. UbTypes' /\ DataTypes' /\ HubTypes'
    BY <1>0, <1>9 DEF ReadExternal, ReadErrored, UbTypes, DataTypes, HubTypes
  <2>2. /\ [saw[c] EXCEPT !.external = wt[c].external] \in Locals
        /\ [saw[c] EXCEPT !.errored = wt[c].err] \in Locals
    BY <1>a, <1>b, Zenon DEF Locals
  <2>3. LoopTypes'
    BY <1>0, <1>9, <2>2 DEF ReadExternal, ReadErrored, LoopTypes, Goto, Labels
  <2> QED BY <2>1, <2>3
<1>10. CASE CancelClose(c)
  <2>1. UbTypes' /\ DataTypes' /\ HubTypes'
    BY <1>0, <1>10 DEF CancelClose, UbTypes, DataTypes, HubTypes
  <2>2. [wt[c] EXCEPT !.closed = TRUE] \in Waiters
    BY <1>b DEF Waiters
  <2>3. LoopTypes'
    BY <1>0, <1>10, <2>2 DEF CancelClose, LoopTypes, Goto, Labels
  <2> QED BY <2>1, <2>3
<1>11. CASE CancelDetach(c)
  <2>1. UbTypes' /\ DataTypes'
    BY <1>0, <1>11 DEF CancelDetach, UbTypes, DataTypes
  <2>2. HubTypes'
    BY <1>0, <1>11 DEF CancelDetach, Detach, HubTypes
  <2>3. LoopTypes'
    BY <1>0, <1>11 DEF CancelDetach, LoopTypes, Goto, Labels
  <2> QED BY <2>1, <2>2, <2>3
<1> QED BY <1>1, <1>2, <1>3, <1>4, <1>5, <1>6, <1>7, <1>8, <1>9, <1>10, <1>11
        DEF ClientStep

\* Writers, their notifications, and CLIENT UNBLOCK.
LEMMA OtherTypes ==
    ASSUME Types, \/ \E k \in Key : Push(k) \/ Del(k)
                  \/ \E src, dst \in Key : Shift(src, dst)
                  \/ \E c \in Client, reason \in Reasons : UnblockCall(c, reason)
                  \/ Deliver
    PROVE  Types'
<1> USE DEF Types, flight, hub, local
<1>0. DataTypes /\ HubTypes /\ LoopTypes /\ UbTypes
  BY DEF Types
<1>1. ASSUME NEW k \in Key, Push(k) PROVE Types'
  BY <1>0, <1>1, CallsAssumption DEF Push, Call, DataTypes, HubTypes, LoopTypes, UbTypes
<1>2. ASSUME NEW k \in Key, Del(k) PROVE Types'
  BY <1>0, <1>2, CallsAssumption DEF Del, Call, DataTypes, HubTypes, LoopTypes, UbTypes
<1>3. ASSUME NEW src \in Key, NEW dst \in Key, Shift(src, dst) PROVE Types'
  <2> DEFINE rest == [items EXCEPT ![src] = @ - 1]
  <2>1. rest \in [Key -> Nat] /\ items' = [rest EXCEPT ![dst] = @ + 1]
    BY <1>0, <1>3, TakeTypes DEF Shift, DataTypes
  <2> HIDE DEF rest
  <2>2. items' \in [Key -> Nat]
    BY <2>1
  <2> QED BY <1>0, <1>3, <2>2, CallsAssumption DEF Shift, Call, DataTypes, HubTypes, LoopTypes, UbTypes
<1>4. ASSUME NEW c \in Client, NEW reason \in Reasons, UnblockCall(c, reason) PROVE Types'
  <2>1. DataTypes'
    BY <1>0, <1>4, CallsAssumption DEF UnblockCall, Call, DataTypes
  <2>2. HubTypes' /\ LoopTypes' /\ answered1' = answered1
    BY <1>0, <1>4 DEF UnblockCall, HubTypes, LoopTypes
  <2>3. ub' \in Unblock \cup {NoUnblock}
    <3>1. CASE byClient[c] = {}
      BY <1>4, <3>1 DEF UnblockCall
    <3>2. CASE byClient[c] # {}
      <4> DEFINE u == CHOOSE w \in byClient[c] : TRUE
      <4>1. u \in Client \X Nat
        BY <1>0, <3>2 DEF HubTypes
      <4>2. ub' = [phase |-> "mark", c |-> c, reason |-> reason, w |-> u]
        BY <1>4, <3>2 DEF UnblockCall
      <4> HIDE DEF u
      <4> QED BY <4>1, <4>2 DEF Unblock
    <3> QED BY <3>1, <3>2
  <2> QED BY <1>0, <2>1, <2>2, <2>3 DEF UbTypes
<1>5. ASSUME NEW k \in Key, NotifyLoad(k) PROVE Types'
  BY <1>0, <1>5 DEF NotifyLoad, DataTypes, HubTypes, LoopTypes, UbTypes
<1>6. ASSUME NEW k \in Key, Notify(k) PROVE Types'
  <2>1. UbTypes' /\ DataTypes'
    BY <1>0, <1>6 DEF Notify, UbTypes, DataTypes
  <2>2. byKey' \in [Key -> SUBSET (Client \X Nat)] /\ wt' \in [Client -> Waiters]
    BY <1>0, <1>6, NotifyTypes DEF Notify
  <2> QED BY <1>0, <1>6, <2>1, <2>2 DEF Notify, HubTypes, LoopTypes
<1>7. ASSUME NEW k \in Key, NotifyAll(k) PROVE Types'
  <2>1. UbTypes' /\ DataTypes' /\ LoopTypes'
    BY <1>0, <1>7 DEF NotifyAll, UbTypes, DataTypes, LoopTypes
  <2>2. HubTypes'
    BY <1>0, <1>7 DEF NotifyAll, HubTypes
  <2> QED BY <2>1, <2>2
<1>8. ASSUME NEW w \in sending, NotifyAllSend(w) PROVE Types'
  <2>1. wt' \in [Client -> Waiters]
    BY <1>0, <1>8, SendTypes DEF NotifyAllSend
  <2> QED BY <1>0, <1>8, <2>1 DEF NotifyAllSend, UbTypes, DataTypes, LoopTypes, HubTypes
<1>9. CASE UnblockMark
  <2>1. ub \in Unblock
    BY <1>0, <1>9 DEF UnblockMark, UbTypes, NoUnblock
  <2>2. ub' \in Unblock \cup {NoUnblock}
    BY <1>9, <2>1 DEF UnblockMark, Unblock
  <2>3. wt' \in [Client -> Waiters]
    <3>1. ub.c \in Client /\ wt[ub.c] \in Waiters
      BY <1>0, <2>1 DEF Unblock, LoopTypes
    <3> DEFINE e == wt[ub.c].err \/ ub.reason = "ERROR"
    <3>2. wt' = wt \/ wt' = [wt EXCEPT ![ub.c] = [@ EXCEPT !.external = TRUE, !.err = e]]
      BY <1>9 DEF UnblockMark
    <3>3. e \in BOOLEAN
      OBVIOUS
    <3> HIDE DEF e
    <3>4. [wt[ub.c] EXCEPT !.external = TRUE, !.err = e] \in Waiters
      BY <3>1, <3>3, Zenon DEF Waiters
    <3> QED BY <1>0, <3>1, <3>2, <3>4 DEF LoopTypes
  <2> QED BY <1>0, <1>9, <2>2, <2>3 DEF UnblockMark, UbTypes, DataTypes, LoopTypes, HubTypes
<1>10. CASE UnblockSend
  <2>1. ub \in Unblock
    BY <1>0, <1>10 DEF UnblockSend, UbTypes, NoUnblock
  <2>2. wt' \in [Client -> Waiters]
    BY <1>0, <1>10, SendTypes DEF UnblockSend
  <2>3. UbTypes'
    BY <1>0, <1>10, <2>1 DEF UnblockSend, UbTypes, Unblock
  <2> QED BY <1>0, <1>10, <2>2, <2>3 DEF UnblockSend, DataTypes, LoopTypes, HubTypes
<1> QED BY <1>1, <1>2, <1>3, <1>4, <1>5, <1>6, <1>7, <1>8, <1>9, <1>10 DEF Deliver

\* Every step keeps the types.
LEMMA StepTypes == Types /\ [Next]_vars => Types'
<1>1. ASSUME Types, UNCHANGED vars PROVE Types'
  BY <1>1 DEF Types, vars, flight, hub, local, DataTypes, HubTypes, LoopTypes, UbTypes
<1> QED BY <1>1, ClientTypes, OtherTypes DEF Next, Reasons

\* What became of a wake is about clients and keys.
LEMMA StepGhost == Types /\ GhostTypes /\ [Next]_vars => GhostTypes'
<1> SUFFICES ASSUME Types, GhostTypes, [Next]_vars PROVE GhostTypes'
  OBVIOUS
<1> USE DEF GhostTypes, ghost, Stray, Looked, Unused
<1>0. DataTypes /\ HubTypes
  BY DEF Types
<1>1. ASSUME NEW k \in Key, NotifyLocked(k) PROVE GhostTypes'
  <2>1. \A w \in byKey[k] : w[1] \in Client
    BY <1>0 DEF HubTypes
  <2>2. ghost' = ghost \/ \E w \in byKey[k] : Wake(w[1], k)
    BY <1>1 DEF NotifyLocked
  <2>3. ASSUME NEW c \in Client, Wake(c, k) PROVE GhostTypes'
    BY <2>3 DEF Wake
  <2> QED BY <2>1, <2>2, <2>3
<1>2. CASE ghost' = ghost
  BY <1>2
<1>3. ASSUME NEW c \in Client, ClientStep(c) PROVE GhostTypes'
  <2>0. command[c].dst \in Key
    BY <1>0, CommandFacts
  <2>1. CASE TryPop(c)
    BY <2>1 DEF TryPop
  <2>2. CASE TryMove(c)
    BY <2>0, <2>2 DEF TryMove
  <2>3. CASE TryRead(c) \/ CancelUncount(c)
    BY <2>3 DEF TryRead, CancelUncount
  <2>4. CASE MoveNotify(c)
    BY <1>1, <2>0, <2>4 DEF MoveNotify
  <2>5. CASE \/ MovePush(c) \/ MoveLoad(c) \/ Register(c) \/ Count(c) \/ Deadline(c) \/ Wait(c)
             \/ ReadExternal(c) \/ ReadErrored(c) \/ CancelClose(c) \/ CancelDetach(c)
    BY <1>2, <2>5 DEF MovePush, MoveLoad, Register, Count, Deadline, Wait, ReadExternal, ReadErrored,
                      CancelClose, CancelDetach
  <2> QED BY <1>3, <2>1, <2>2, <2>3, <2>4, <2>5 DEF ClientStep
<1>4. ASSUME NEW k \in Key, Push(k) \/ Del(k) \/ NotifyLoad(k) \/ NotifyAll(k) PROVE GhostTypes'
  BY <1>4 DEF Push, Del, NotifyLoad, NotifyAll
<1>5. ASSUME NEW k \in Key, Notify(k) PROVE GhostTypes'
  BY <1>1, <1>5 DEF Notify
<1>6. ASSUME NEW src \in Key, NEW dst \in Key, Shift(src, dst) PROVE GhostTypes'
  BY <1>6 DEF Shift
<1>7. CASE \/ \E c \in Client, reason \in {"TIMEOUT", "ERROR"} : UnblockCall(c, reason)
           \/ (\E w \in sending : NotifyAllSend(w)) \/ UnblockMark \/ UnblockSend \/ UNCHANGED vars
  BY <1>2, <1>7 DEF UnblockCall, NotifyAllSend, UnblockMark, UnblockSend, vars
<1> QED BY <1>3, <1>4, <1>5, <1>6, <1>7 DEF Next, Deliver

-----------------------------------------------------------------------------
(* The loop *)

\* The labels at which the client's waiter is open, and at which it is closed.
\* (Within tryLMove, at "push", "load" and "notify", it may be either.)
Open == {"count", "recheck", "deadline", "wait", "external", "errored", "close"}
Shut == {"fast", "register", "detach", "uncount", "done"}

\* The closed flag follows the loop, and a command that has its answer does
\* nothing but cancel its waiter.
Control(c) ==
    /\ pc[c] \in Open => ~wt[c].closed
    /\ pc[c] \in Shut => wt[c].closed
    /\ reply[c] # "none" => pc[c] \in {"close", "detach", "uncount", "done"}

\* What the steps of others leave of a client.
Aside(c) ==
    /\ pc'[c] = pc[c] /\ pos'[c] = pos[c] /\ saw'[c] = saw[c] /\ reply'[c] = reply[c]
    /\ wt'[c].gen = wt[c].gen /\ wt'[c].closed = wt[c].closed
    /\ wt[c].full => wt'[c].full

\* From registering until it has slept a client without a wake is in the set
\* of each of its keys, or about to be sent one.  (SleepersReachable speaks of
\* the last of these labels only.)
Awaits(c) == pc[c] \in {"count", "recheck", "deadline", "wait"} /\ ~wt[c].full
Reachable(c) == Awaits(c) => \A k \in Keys(c) : Waiter(c) \in byKey[k] \cup sending

\* The clients the mirror counts.
Counted == {c \in Client : (InHub(c) /\ pc[c] # "count") \/ pc[c] = "uncount"}
CountExact == IsFiniteSet(Counted) /\ waiterCount = Cardinality(Counted)

\* Flags, and what the loop has read of them, come from CLIENT UNBLOCK: each
\* half of an answer is justified from the moment it is read.
Justified(c) ==
    /\ wt[c].err \/ saw[c].errored => Reached(c, "ERROR")
    /\ wt[c].external /\ ~wt[c].err => Reached(c, "TIMEOUT")
    /\ pc[c] = "errored" /\ saw[c].external /\ ~wt[c].err => Reached(c, "TIMEOUT")
    /\ pc[c] \in {"close", "detach", "uncount"} /\ reply[c] = "none" /\ saw[c].external /\ ~saw[c].errored
         => Reached(c, "TIMEOUT")
    /\ pc[c] \in {"external", "errored", "close", "detach", "uncount"} /\ reply[c] = "none" /\ ~saw[c].woke
         => command[c].timed

\* A wake changes nothing of a waiter but its channel, which it fills.
WakeOnly(c) ==
    /\ wt'[c].gen = wt[c].gen /\ wt'[c].closed = wt[c].closed
    /\ wt'[c].external = wt[c].external /\ wt'[c].err = wt[c].err
    /\ wt[c].full => wt'[c].full

\* The non-blocking send on the waiters of W.
LEMMA SendEffect ==
    ASSUME LoopTypes, NEW W, Send(W), NEW c \in Client
    PROVE  WakeOnly(c) /\ (Waiter(c) \in W => wt'[c].full)
<1>1. wt[c] \in Waiters
  BY DEF LoopTypes
<1>2. wt'[c] = IF Waiter(c) \in W THEN [wt[c] EXCEPT !.full = TRUE] ELSE wt[c]
  BY DEF Send, Waiter
<1> QED BY <1>1, <1>2 DEF WakeOnly, Waiters

\* What Notify takes out of a key's set has a wake, or had one.
LEMMA NotifyEffect ==
    ASSUME HubTypes, LoopTypes, NEW k \in Key, NotifyLocked(k), NEW c \in Client
    PROVE  /\ WakeOnly(c)
           /\ \A j \in Key : /\ byKey'[j] \subseteq byKey[j]
                             /\ Waiter(c) \in byKey[j] \ byKey'[j] => wt'[c].full
<1> DEFINE ready == {w \in byKey[k] : ~Full(w)}
           stale == byKey[k] \ ready
<1>0. Waiter(c) \in stale => wt[c].full
  BY DEF Full, Waiter
<1>1. CASE \E w \in ready : \E seen \in SUBSET stale :
             byKey' = [byKey EXCEPT ![k] = @ \ (seen \cup {w})] /\ Send({w})
  <2>1. PICK w \in ready, seen \in SUBSET stale :
             byKey' = [byKey EXCEPT ![k] = @ \ (seen \cup {w})] /\ Send({w})
    BY <1>1
  <2>2. WakeOnly(c) /\ (Waiter(c) = w => wt'[c].full)
    BY <2>1, SendEffect
  <2> HIDE DEF ready, stale
  <2>3. \A j \in Key : byKey'[j] \subseteq byKey[j]
                       /\ (Waiter(c) \in byKey[j] \ byKey'[j] => Waiter(c) = w \/ Waiter(c) \in stale)
    BY <2>1 DEF HubTypes
  <2> QED BY <1>0, <2>2, <2>3 DEF WakeOnly
<1>2. CASE ready = {} /\ byKey' = [byKey EXCEPT ![k] = {}] /\ wt' = wt
  <2>1. \A j \in Key : byKey'[j] \subseteq byKey[j]
                       /\ (Waiter(c) \in byKey[j] \ byKey'[j] => Waiter(c) \in stale)
    BY <1>2 DEF HubTypes
  <2> QED BY <1>0, <1>2, <2>1 DEF WakeOnly
<1> QED BY <1>1, <1>2 DEF NotifyLocked

\* The flags CLIENT UNBLOCK sets.
LEMMA MarkEffect ==
    ASSUME Types, UnblockMark, NEW c \in Client
    PROVE  /\ wt'[c].gen = wt[c].gen /\ wt'[c].closed = wt[c].closed /\ wt'[c].full = wt[c].full
           /\ \/ wt'[c] = wt[c]
              \/ /\ ub \in Unblock /\ c = ub.c /\ ub' = [ub EXCEPT !.phase = "send"]
                 /\ wt'[c].external /\ (wt'[c].err <=> wt[c].err \/ ub.reason = "ERROR")
<1>1. wt[c] \in Waiters /\ wt \in [Client -> Waiters]
  BY DEF Types, LoopTypes
<1>2. ub \in Unblock
  BY DEF UnblockMark, Types, UbTypes, NoUnblock
<1> DEFINE e == wt[c].err \/ ub.reason = "ERROR"
<1>3. \/ wt'[c] = wt[c]
      \/ /\ c = ub.c /\ ub' = [ub EXCEPT !.phase = "send"]
         /\ wt'[c] = [wt[c] EXCEPT !.external = TRUE, !.err = e]
  BY <1>1 DEF UnblockMark
<1> HIDE DEF e
<1>4. LET v == [wt[c] EXCEPT !.external = TRUE, !.err = e] IN
      /\ v.gen = wt[c].gen /\ v.closed = wt[c].closed /\ v.full = wt[c].full
      /\ v.external = TRUE /\ v.err = e
  BY <1>1 DEF Waiters
<1> QED BY <1>2, <1>3, <1>4 DEF e

\* A step is a step of the client's own, or leaves it where it is.
LEMMA StepAside ==
    ASSUME Types, [Next]_vars, NEW c \in Client
    PROVE  command' = command /\ (ClientStep(c) \/ Aside(c))
<1> USE DEF flight, hub, local
<1>0. HubTypes /\ LoopTypes /\ UbTypes /\ DataTypes
  BY DEF Types
<1>a. ASSUME WakeOnly(c), UNCHANGED <<pc, pos, saw, reply>> PROVE Aside(c)
  BY <1>a DEF WakeOnly, Aside
<1>b. ASSUME UNCHANGED <<wt, pc, pos, saw, reply>> PROVE Aside(c)
  BY <1>b DEF Aside
<1>1. CASE UNCHANGED vars
  BY <1>b, <1>1 DEF vars
<1>2. CASE \/ \E k \in Key : Push(k) \/ Del(k) \/ NotifyLoad(k) \/ NotifyAll(k)
           \/ \E src, dst \in Key : Shift(src, dst)
           \/ \E d \in Client, reason \in {"TIMEOUT", "ERROR"} : UnblockCall(d, reason)
  BY <1>b, <1>2 DEF Push, Del, NotifyLoad, NotifyAll, Shift, UnblockCall
<1>3. CASE \E k \in Key : Notify(k)
  BY <1>0, <1>a, <1>3, NotifyEffect DEF Notify
<1>4. CASE (\E w \in sending : NotifyAllSend(w)) \/ UnblockSend
  BY <1>0, <1>a, <1>4, SendEffect DEF NotifyAllSend, UnblockSend
<1>5. CASE UnblockMark
  <2>1. command' = command /\ UNCHANGED <<pc, pos, saw, reply>>
    BY <1>5 DEF UnblockMark
  <2> QED BY <1>5, <2>1, MarkEffect DEF Aside
<1>6. ASSUME NEW d \in Client, ClientStep(d), d # c PROVE command' = command /\ Aside(c)
  <2>1. command' = command
    BY <1>6 DEF ClientStep, TryPop, TryMove, MovePush, MoveLoad, MoveNotify, TryRead, Register,
         Count, Deadline, Wait, ReadExternal, ReadErrored, CancelClose, CancelDetach, CancelUncount
  <2>2. pc'[c] = pc[c] /\ pos'[c] = pos[c] /\ saw'[c] = saw[c] /\ reply'[c] = reply[c]
    <3> USE <1>0, <1>6 DEF LoopTypes, Goto, Answer
    <3>1. CASE TryPop(d) \/ TryMove(d)
      BY <3>1 DEF TryPop, TryMove, Miss, Finish
    <3>2. CASE MovePush(d) \/ MoveLoad(d) \/ MoveNotify(d) \/ TryRead(d)
      BY <3>2 DEF MovePush, MoveLoad, MoveNotify, TryRead, Finish
    <3>3. CASE Register(d) \/ Count(d) \/ Deadline(d) \/ Wait(d) \/ ReadExternal(d) \/ ReadErrored(d)
      BY <3>3 DEF Register, Count, Deadline, Wait, ReadExternal, ReadErrored
    <3>4. CASE CancelClose(d) \/ CancelDetach(d) \/ CancelUncount(d)
      BY <3>4 DEF CancelClose, CancelDetach, CancelUncount, AfterWait
    <3> QED BY <1>6, <3>1, <3>2, <3>3, <3>4 DEF ClientStep
  <2>3. WakeOnly(c)
    <3>1. CASE MoveNotify(d)
      BY <1>0, <3>1, CommandFacts, NotifyEffect DEF MoveNotify
    <3>2. CASE ~MoveNotify(d)
      <4>1. wt'[c] = wt[c]
        BY <1>0, <1>6, <3>2
           DEF LoopTypes, ClientStep, TryPop, TryMove, MovePush, MoveLoad, TryRead, Register, RegisterFor,
               Count, Deadline, Wait, ReadExternal, ReadErrored, CancelClose, CancelDetach, CancelUncount
      <4> QED BY <4>1 DEF WakeOnly
    <3> QED BY <3>1, <3>2
  <2> QED BY <2>1, <2>2, <2>3 DEF WakeOnly, Aside
<1>7. ASSUME ClientStep(c) PROVE command' = command
  BY <1>7 DEF ClientStep, TryPop, TryMove, MovePush, MoveLoad, MoveNotify, TryRead, Register,
       Count, Deadline, Wait, ReadExternal, ReadErrored, CancelClose, CancelDetach, CancelUncount
<1> QED BY <1>1, <1>2, <1>3, <1>4, <1>5, <1>6, <1>7 DEF Next, Deliver

\* Every loop starts with no waiter and no answer.
LEMMA InitControl == Init => \A c \in Client : Control(c)
BY DEF Init, Control, Open, Shut, Fresh

\* Each label is reached with the waiter open or closed as it should be.
LEMMA StepControl ==
    ASSUME Types, [Next]_vars, NEW c \in Client, Control(c)
    PROVE  Control(c)'
<1> USE DEF flight, hub, local, Open, Shut
<1>0. HubTypes /\ LoopTypes /\ DataTypes /\ wt[c] \in Waiters
  BY DEF Types, LoopTypes
<1>1. CASE Aside(c)
  BY <1>1 DEF Aside, Control
<1>2. CASE TryPop(c) \/ TryMove(c) \/ TryRead(c)
  <2>1. wt' = wt
    BY <1>2 DEF TryPop, TryMove, TryRead
  <2>2. pc[c] \in {"fast", "recheck"} /\ reply[c] = "none"
    BY <1>2 DEF TryPop, TryMove, TryRead, Control
  <2>3. \/ reply' = [reply EXCEPT ![c] = "value"] /\ pc' = [pc EXCEPT ![c] = IF wt[c].closed THEN "done" ELSE "close"]
        \/ reply' = reply /\ pc' = [pc EXCEPT ![c] = "push"]
        \/ reply' = reply /\ pc' = [pc EXCEPT ![c] = IF pc[c] = "fast" THEN "register" ELSE "deadline"]
        \/ reply' = reply /\ pc' = pc
    BY <1>2 DEF TryPop, TryMove, TryRead, Finish, Miss, Goto, Answer
  <2> QED BY <1>0, <2>1, <2>2, <2>3 DEF Control, LoopTypes
<1>3. CASE MovePush(c)
  BY <1>0, <1>3 DEF MovePush, Control, Goto, LoopTypes
<1>4. CASE MoveLoad(c)
  BY <1>0, <1>4 DEF MoveLoad, Control, Goto, Finish, Answer, LoopTypes
<1>5. CASE MoveNotify(c)
  <2>1. WakeOnly(c)
    BY <1>0, <1>5, CommandFacts, NotifyEffect DEF MoveNotify
  <2> QED BY <1>0, <1>5, <2>1 DEF MoveNotify, Control, Goto, Finish, Answer, LoopTypes, WakeOnly
<1>6. CASE Register(c)
  <2>1. wt'[c] = Fresh(wt[c].gen + 1) /\ pc'[c] = "count" /\ reply'[c] = reply[c]
    BY <1>0, <1>6 DEF Register, RegisterFor, Goto, LoopTypes
  <2>2. ~Fresh(wt[c].gen + 1).closed
    BY DEF Fresh
  <2>3. reply[c] = "none"
    BY <1>6 DEF Register, Control
  <2> QED BY <2>1, <2>2, <2>3 DEF Control
<1>7. CASE Count(c) \/ Deadline(c) \/ ReadExternal(c) \/ ReadErrored(c) \/ CancelDetach(c)
  BY <1>0, <1>7 DEF Count, Deadline, ReadExternal, ReadErrored, CancelDetach, Control, Goto, Answer, LoopTypes
<1>8. CASE Wait(c)
  <2>1. wt'[c].closed = wt[c].closed
    BY <1>0, <1>8 DEF Wait, LoopTypes, Waiters
  <2> QED BY <1>0, <1>8, <2>1 DEF Wait, Control, Goto, LoopTypes
<1>9. CASE CancelClose(c)
  <2>1. wt'[c].closed
    BY <1>0, <1>9 DEF CancelClose, LoopTypes, Waiters
  <2> QED BY <1>0, <1>9, <2>1 DEF CancelClose, Control, Goto, LoopTypes
<1>10. CASE CancelUncount(c)
  BY <1>0, <1>10 DEF CancelUncount, AfterWait, Control, Goto, Answer, LoopTypes
<1> QED BY <1>1, <1>2, <1>3, <1>4, <1>5, <1>6, <1>7, <1>8, <1>9, <1>10, StepAside DEF ClientStep

-----------------------------------------------------------------------------
(* The hub *)

\* What a step does to whether a client's waiter is in the hub's maps, and to
\* whether the mirror counts the client.
LEMMA StepInHub ==
    ASSUME Types, [Next]_vars, NEW c \in Client, Control(c)
    PROVE  /\ InHub(c)' <=> (InHub(c) /\ ~CancelDetach(c)) \/ Register(c)
           /\ Register(c) => ~InHub(c) /\ Waiter(c)' = <<c, wt[c].gen + 1>>
           /\ ~Register(c) => Waiter(c)' = Waiter(c)
           /\ CancelDetach(c) => InHub(c)
<1> USE DEF flight, hub, local, Open, Shut
<1>0. HubTypes /\ LoopTypes /\ DataTypes /\ wt[c] \in Waiters /\ wt[c].closed \in BOOLEAN
  BY DEF Types, LoopTypes, Waiters
<1>a. wt'[c] \in Waiters /\ Control(c)'
  BY StepControl, StepTypes DEF Types, LoopTypes
<1>1. CASE Register(c)
  <2>1. wt'[c] = Fresh(wt[c].gen + 1) /\ pc'[c] = "count" /\ pc[c] = "register"
    BY <1>0, <1>1 DEF Register, RegisterFor, Goto, LoopTypes
  <2>2. wt'[c].gen = wt[c].gen + 1 /\ ~wt'[c].closed
    BY <2>1 DEF Fresh
  <2>3. ~CancelDetach(c)
    BY <2>1 DEF CancelDetach
  <2> QED BY <1>1, <2>1, <2>2, <2>3 DEF Control, InHub, Waiter
<1>2. CASE CancelDetach(c)
  <2>1. wt' = wt /\ pc'[c] = "uncount" /\ pc[c] = "detach"
    BY <1>0, <1>2 DEF CancelDetach, Goto, LoopTypes
  <2>2. ~Register(c)
    BY <2>1 DEF Register
  <2> QED BY <1>2, <2>1, <2>2 DEF Control, InHub, Waiter
<1>3. CASE ~Register(c) /\ ~CancelDetach(c)
  <2>1. wt'[c].gen = wt[c].gen
    <3>1. CASE Aside(c)
      BY <3>1 DEF Aside
    <3>2. CASE MoveNotify(c)
      BY <1>0, <3>2, CommandFacts, NotifyEffect DEF MoveNotify, WakeOnly
    <3>3. CASE Wait(c) \/ CancelClose(c)
      BY <1>0, <3>3 DEF Wait, CancelClose, LoopTypes, Waiters
    <3>4. CASE wt' = wt
      BY <3>4
    <3> QED BY <1>3, <3>1, <3>2, <3>3, <3>4, StepAside
            DEF ClientStep, TryPop, TryMove, MovePush, MoveLoad, TryRead,
                Count, Deadline, ReadExternal, ReadErrored, CancelUncount
  <2>2. InHub(c)' <=> InHub(c)
    <3>1. CASE Aside(c)
      BY <1>a, <1>0, <3>1 DEF Aside, InHub
    <3>2. CASE MoveNotify(c)
      <4>1. wt'[c].closed = wt[c].closed
        BY <1>0, <3>2, CommandFacts, NotifyEffect DEF MoveNotify, WakeOnly
      <4>2. pc[c] # "detach" /\ pc'[c] # "detach"
        BY <1>0, <3>2 DEF MoveNotify, Finish, Goto, LoopTypes
      <4> QED BY <4>1, <4>2 DEF InHub
    <3>3. CASE Wait(c)
      <4>1. pc[c] = "wait" /\ pc'[c] = "external"
        BY <1>0, <3>3 DEF Wait, Goto, LoopTypes
      <4> QED BY <1>a, <4>1 DEF Control, InHub
    <3>4. CASE CancelClose(c)
      <4>1. pc[c] = "close" /\ pc'[c] = "detach"
        BY <1>0, <3>4 DEF CancelClose, Goto, LoopTypes
      <4> QED BY <1>a, <4>1 DEF Control, InHub
    <3>5. CASE wt' = wt /\ pc[c] # "detach" /\ pc'[c] # "detach"
      BY <3>5 DEF InHub
    <3>6. CASE \/ TryPop(c) \/ TryMove(c) \/ TryRead(c)
      BY <1>0, <3>5, <3>6 DEF TryPop, TryMove, TryRead, Finish, Miss, Goto, LoopTypes
    <3>7. CASE \/ MovePush(c) \/ MoveLoad(c) \/ Count(c) \/ Deadline(c)
               \/ ReadExternal(c) \/ ReadErrored(c) \/ CancelUncount(c)
      BY <1>0, <3>5, <3>7 DEF MovePush, MoveLoad, Count, Deadline, ReadExternal,
                              ReadErrored, CancelUncount, AfterWait, Finish, Goto, LoopTypes
    <3> QED BY <1>3, <3>1, <3>2, <3>3, <3>4, <3>6, <3>7, StepAside DEF ClientStep
  <2> QED BY <1>3, <2>1, <2>2 DEF Waiter
<1> QED BY <1>1, <1>2, <1>3

\* RegisterFor and Cancel alone write the index by client, each for its own.
LEMMA StepByClient ==
    ASSUME Types, [Next]_vars, NEW c \in Client
    PROVE  /\ Register(c) => byClient'[c] = byClient[c] \cup {<<c, wt[c].gen + 1>>}
           /\ CancelDetach(c) => byClient'[c] = byClient[c] \ {Waiter(c)}
           /\ ~Register(c) /\ ~CancelDetach(c) => byClient'[c] = byClient[c]
<1> USE DEF hub
<1>0. byClient \in [Client -> SUBSET (Client \X Nat)]
  BY DEF Types, HubTypes
<1>1. CASE Register(c)
  <2>1. ~CancelDetach(c)
    BY <1>1 DEF Register, CancelDetach
  <2> QED BY <1>0, <1>1, <2>1 DEF Register, RegisterFor
<1>2. CASE CancelDetach(c)
  <2>1. ~Register(c)
    BY <1>2 DEF Register, CancelDetach
  <2> QED BY <1>0, <1>2, <2>1 DEF CancelDetach, Detach
<1>3. CASE ~Register(c) /\ ~CancelDetach(c)
  <2>1. ASSUME NEW d \in Client, d # c, Register(d) \/ CancelDetach(d) PROVE byClient'[c] = byClient[c]
    BY <1>0, <2>1 DEF Register, RegisterFor, CancelDetach, Detach
  <2>2. ASSUME NEW d \in Client, ClientStep(d), ~Register(d), ~CancelDetach(d) PROVE byClient' = byClient
    BY <2>2 DEF ClientStep, TryPop, TryMove, MovePush, MoveLoad, MoveNotify, TryRead,
         Count, Deadline, Wait, ReadExternal, ReadErrored, CancelClose, CancelUncount
  <2>3. ASSUME ~ \E d \in Client : ClientStep(d) PROVE byClient' = byClient
    <3>1. CASE Deliver
      BY <3>1 DEF Deliver, NotifyLoad, Notify, NotifyAll, NotifyAllSend, UnblockMark, UnblockSend
    <3>2. CASE ~Deliver
      BY <2>3, <3>2 DEF Next, vars, Push, Del, Shift, UnblockCall
    <3> QED BY <3>1, <3>2
  <2> QED BY <1>3, <2>1, <2>2, <2>3
<1> QED BY <1>1, <1>2, <1>3

\* Nothing enters a key's set but a waiter RegisterFor puts there, and Cancel
\* takes its own out of every key of the command.
LEMMA StepByKey ==
    ASSUME Types, [Next]_vars, NEW k \in Key, NEW w \in byKey'[k]
    PROVE  \/ w \in byKey[k] /\ \A c \in Client : CancelDetach(c) /\ k \in Keys(c) => w # Waiter(c)
           \/ \E c \in Client : Register(c) /\ k \in Keys(c) /\ w = <<c, wt[c].gen + 1>>
<1> USE DEF hub
<1>0. HubTypes /\ LoopTypes /\ DataTypes /\ byKey \in [Key -> SUBSET (Client \X Nat)]
  BY DEF Types, HubTypes
<1>1. ASSUME NEW d \in Client, Register(d)
      PROVE  (\E c \in Client : Register(c) /\ k \in Keys(c) /\ w = <<c, wt[c].gen + 1>>)
             \/ (w \in byKey[k] /\ \A c \in Client : ~CancelDetach(c))
  <2>1. \A c \in Client : ~CancelDetach(c)
    <3> SUFFICES ASSUME NEW c \in Client, CancelDetach(c) PROVE FALSE
      OBVIOUS
    <3>1. pc[d] = "register" /\ pc'[d] = "count" /\ pc[c] = "detach"
      BY <1>0, <1>1 DEF Register, CancelDetach, Goto, LoopTypes
    <3>2. pc'[d] = pc[d]
      BY <1>0, <3>1 DEF CancelDetach, Goto, LoopTypes
    <3> QED BY <3>1, <3>2
  <2>2. byKey'[k] = IF k \in Keys(d) THEN byKey[k] \cup {<<d, wt[d].gen + 1>>} ELSE byKey[k]
    BY <1>1 DEF Register, RegisterFor
  <2> QED BY <1>1, <2>1, <2>2
<1>2. ASSUME NEW d \in Client, CancelDetach(d)
      PROVE  w \in byKey[k] /\ \A c \in Client : CancelDetach(c) /\ k \in Keys(c) => w # Waiter(c)
  <2>1. ASSUME NEW c \in Client, CancelDetach(c), k \in Keys(c) PROVE w # Waiter(c)
    BY <2>1 DEF CancelDetach, Detach
  <2> QED BY <1>2, <2>1 DEF CancelDetach, Detach
<1>3. ASSUME byKey'[k] \subseteq byKey[k], ~ \E d \in Client : CancelDetach(d)
      PROVE  w \in byKey[k] /\ \A c \in Client : CancelDetach(c) /\ k \in Keys(c) => w # Waiter(c)
  BY <1>3
<1>4. ASSUME ~(\E d \in Client : CancelDetach(d)), ~(\E d \in Client : Register(d))
      PROVE  byKey'[k] \subseteq byKey[k]
  <2>1. ASSUME NEW d \in Client, ClientStep(d) PROVE byKey'[k] \subseteq byKey[k]
    <3>1. CASE MoveNotify(d)
      BY <1>0, <3>1, CommandFacts, NotifyEffect DEF MoveNotify
    <3>2. CASE ~MoveNotify(d)
      BY <1>4, <2>1, <3>2 DEF ClientStep, TryPop, TryMove, MovePush, MoveLoad, TryRead,
         Count, Deadline, Wait, ReadExternal, ReadErrored, CancelClose, CancelUncount
    <3> QED BY <3>1, <3>2
  <2>2. ASSUME NEW j \in Key, Notify(j) PROVE byKey'[k] \subseteq byKey[k]
    BY <1>0, <2>2 DEF Notify, NotifyLocked
  <2>3. ASSUME NEW j \in Key, NotifyAll(j) PROVE byKey'[k] \subseteq byKey[k]
    BY <1>0, <2>3 DEF NotifyAll
  <2>4. CASE byKey' = byKey
    BY <2>4
  <2> QED BY <2>1, <2>2, <2>3, <2>4
          DEF Next, vars, Deliver, Push, Del, Shift, UnblockCall, NotifyLoad, NotifyAllSend, UnblockMark, UnblockSend
<1> QED BY <1>1, <1>2, <1>3, <1>4

\* The maps are empty at the start.
LEMMA InitNoLeak == Init => NoLeakedWaiter
BY DEF Init, NoLeakedWaiter, InHub, Fresh

\* RegisterFor finds nothing of the client in the hub, and Cancel leaves
\* nothing of it.
LEMMA StepNoLeak ==
    ASSUME Types, [Next]_vars, \A c \in Client : Control(c), NoLeakedWaiter
    PROVE  NoLeakedWaiter'
<1>0. byKey' \in [Key -> SUBSET (Client \X Nat)] /\ byClient \in [Client -> SUBSET (Client \X Nat)]
  BY StepTypes DEF Types, HubTypes
<1>1. ASSUME NEW c \in Client
      PROVE  byClient'[c] = IF InHub(c)' THEN {Waiter(c)'} ELSE {}
  <2>1. byClient[c] = IF InHub(c) THEN {Waiter(c)} ELSE {}
    BY DEF NoLeakedWaiter
  <2>2. CASE Register(c)
    BY <2>1, <2>2, StepInHub, StepByClient
  <2>3. CASE CancelDetach(c)
    <3>1. ~Register(c)
      BY <2>3 DEF CancelDetach, Register
    <3> QED BY <2>1, <2>3, <3>1, StepInHub, StepByClient
  <2>4. CASE ~Register(c) /\ ~CancelDetach(c)
    BY <2>1, <2>4, StepInHub, StepByClient
  <2> QED BY <2>2, <2>3, <2>4
<1>2. ASSUME NEW k \in Key, NEW w \in byKey'[k]
      PROVE  w \in byClient'[w[1]] /\ k \in Keys(w[1])'
  <2>0. w[1] \in Client /\ command' = command
    BY <1>0, <1>2, StepAside
  <2>1. CASE w \in byKey[k] /\ \A c \in Client : CancelDetach(c) /\ k \in Keys(c) => w # Waiter(c)
    <3>1. w \in byClient[w[1]] /\ k \in Keys(w[1])
      BY <2>1 DEF NoLeakedWaiter
    <3>2. w = Waiter(w[1])
      <4>1. byClient[w[1]] = IF InHub(w[1]) THEN {Waiter(w[1])} ELSE {}
        BY <2>0 DEF NoLeakedWaiter
      <4> QED BY <3>1, <4>1
    <3>3. ~CancelDetach(w[1])
      BY <2>0, <2>1, <3>1, <3>2
    <3>4. w \in byClient'[w[1]]
      BY <2>0, <3>1, <3>3, StepByClient
    <3> QED BY <2>0, <3>1, <3>4 DEF Keys
  <2>2. ASSUME NEW c \in Client, Register(c), k \in Keys(c), w = <<c, wt[c].gen + 1>>
        PROVE  w \in byClient'[w[1]] /\ k \in Keys(w[1])'
    BY <2>0, <2>2, StepByClient DEF Keys
  <2> QED BY <1>2, <2>1, <2>2, StepByKey
<1>3. \A c \in Client : (byClient[c] = IF InHub(c) THEN {Waiter(c)} ELSE {})'
  BY <1>1
<1> QED BY <1>2, <1>3 DEF NoLeakedWaiter

\* A waiter leaves a key's set, or the hands of NotifyAll, with a wake.
LEMMA StepKept ==
    ASSUME Types, [Next]_vars, NEW c \in Client, NEW k \in Key,
           Waiter(c) \in byKey[k] \cup sending, ~CancelDetach(c)
    PROVE  Waiter(c) \in byKey'[k] \cup sending' \/ wt'[c].full
<1> USE DEF flight, hub
<1>0. HubTypes /\ LoopTypes /\ DataTypes /\ byKey \in [Key -> SUBSET (Client \X Nat)]
  BY DEF Types, HubTypes
<1>1. ASSUME NEW j \in Key, NotifyLocked(j), sending' = sending
      PROVE  Waiter(c) \in byKey'[k] \cup sending' \/ wt'[c].full
  BY <1>0, <1>1, NotifyEffect
<1>2. ASSUME NEW d \in Client, ClientStep(d)
      PROVE  Waiter(c) \in byKey'[k] \cup sending' \/ wt'[c].full
  <2>1. CASE MoveNotify(d)
    <3>1. sending' = sending /\ NotifyLocked(command[d].dst) /\ command[d].dst \in Key
      BY <1>0, <2>1, CommandFacts DEF MoveNotify
    <3> QED BY <1>1, <3>1
  <2>2. CASE Register(d)
    BY <2>2 DEF Register, RegisterFor
  <2>3. CASE CancelDetach(d)
    <3>1. Waiter(c) # Waiter(d)
      BY <2>3 DEF Waiter
    <3> QED BY <2>3, <3>1 DEF CancelDetach, Detach
  <2>4. ASSUME ~MoveNotify(d), ~Register(d), ~CancelDetach(d) PROVE byKey' = byKey /\ sending' = sending
    BY <1>2, <2>4 DEF ClientStep, TryPop, TryMove, MovePush, MoveLoad, TryRead,
         Count, Deadline, Wait, ReadExternal, ReadErrored, CancelClose, CancelUncount
  <2> QED BY <2>1, <2>2, <2>3, <2>4
<1>3. ASSUME NEW j \in Key, Notify(j)
      PROVE  Waiter(c) \in byKey'[k] \cup sending' \/ wt'[c].full
  BY <1>1, <1>3 DEF Notify
<1>4. ASSUME NEW j \in Key, NotifyAll(j)
      PROVE  Waiter(c) \in byKey'[k] \cup sending' \/ wt'[c].full
  BY <1>0, <1>4 DEF NotifyAll
<1>5. ASSUME NEW w \in sending, NotifyAllSend(w)
      PROVE  Waiter(c) \in byKey'[k] \cup sending' \/ wt'[c].full
  <2>1. byKey' = byKey /\ sending' = sending \ {w} /\ (Waiter(c) = w => wt'[c].full)
    BY <1>0, <1>5, SendEffect DEF NotifyAllSend
  <2> QED BY <2>1
<1>6. CASE byKey' = byKey /\ sending' = sending
  BY <1>6
<1>7. CASE ~(\E d \in Client : ClientStep(d)) /\ ~Deliver
  BY <1>6, <1>7 DEF Next, vars, Push, Del, Shift, UnblockCall
<1>8. CASE Deliver
  BY <1>3, <1>4, <1>5, <1>6, <1>8 DEF Deliver, NotifyLoad, UnblockMark, UnblockSend
<1> QED BY <1>2, <1>7, <1>8

\* Nobody awaits a wake at the start.
LEMMA InitReachable == Init => \A c \in Client : Reachable(c)
BY DEF Init, Reachable, Awaits

\* The client comes to await a wake by registering, and only then.
LEMMA StepAwaits ==
    ASSUME Types, [Next]_vars, NEW c \in Client, Awaits(c)', ~Register(c)
    PROVE  Awaits(c) /\ ~CancelDetach(c)
<1> USE DEF flight, hub, local
<1>0. LoopTypes /\ wt[c] \in Waiters
  BY DEF Types, LoopTypes
<1>1. CASE Aside(c)
  <2>1. Awaits(c)
    BY <1>1 DEF Aside, Awaits
  <2>2. ~CancelDetach(c)
    BY <2>1 DEF Awaits, CancelDetach
  <2> QED BY <2>1, <2>2
<1>2. CASE TryPop(c) \/ TryMove(c) \/ TryRead(c)
  <2>1. wt' = wt /\ (pc'[c] \in {"recheck", "deadline"} => pc[c] = "recheck")
    BY <1>0, <1>2 DEF TryPop, TryMove, TryRead, Finish, Miss, Goto, LoopTypes
  <2>2. pc'[c] \in {"fast", "recheck", "done", "close", "push", "register", "deadline"}
        /\ pc[c] \in {"fast", "recheck"}
    BY <1>0, <1>2 DEF TryPop, TryMove, TryRead, Finish, Miss, Goto, LoopTypes
  <2> QED BY <2>1, <2>2 DEF Awaits, CancelDetach
<1>3. CASE Count(c) \/ Deadline(c)
  BY <1>0, <1>3 DEF Count, Deadline, Goto, Awaits, CancelDetach, LoopTypes
<1>4. CASE \/ MovePush(c) \/ MoveLoad(c) \/ MoveNotify(c) \/ Wait(c) \/ ReadExternal(c) \/ ReadErrored(c)
           \/ CancelClose(c) \/ CancelDetach(c) \/ CancelUncount(c)
  <2>1. pc'[c] \notin {"count", "recheck", "deadline", "wait"}
    BY <1>0, <1>4 DEF MovePush, MoveLoad, MoveNotify, Wait, ReadExternal, ReadErrored,
                      CancelClose, CancelDetach, CancelUncount, AfterWait, Finish, Goto, LoopTypes
  <2> QED BY <2>1 DEF Awaits
<1> QED BY <1>1, <1>2, <1>3, <1>4, StepAside DEF ClientStep

\* A client that awaits a wake can be reached from each of its keys.
LEMMA StepReachable ==
    ASSUME Types, [Next]_vars, NEW c \in Client, Control(c), Reachable(c)
    PROVE  Reachable(c)'
<1> SUFFICES ASSUME Awaits(c)', NEW k \in Keys(c)
             PROVE  Waiter(c)' \in byKey'[k] \cup sending'
  <2>1. Keys(c)' = Keys(c)
    BY StepAside DEF Keys
  <2> QED BY <2>1 DEF Reachable
<1>0. k \in Key
  BY CommandFacts DEF Types
<1>1. CASE Register(c)
  <2>1. <<c, wt[c].gen + 1>> \in byKey'[k]
    BY <1>0, <1>1 DEF Register, RegisterFor
  <2> QED BY <1>1, <2>1, StepInHub
<1>2. CASE ~Register(c)
  <2>1. Awaits(c) /\ ~CancelDetach(c) /\ ~wt'[c].full
    BY <1>2, StepAwaits DEF Awaits
  <2>2. Waiter(c)' = Waiter(c)
    BY <1>2, StepInHub
  <2> QED BY <1>0, <2>1, <2>2, StepKept DEF Reachable
<1> QED BY <1>1, <1>2

-----------------------------------------------------------------------------
(* The mirror of the waiter count *)

\* A client enters the count with its own increment and leaves it with its own
\* decrement.
LEMMA StepCounted ==
    ASSUME Types, [Next]_vars, NEW c \in Client, Control(c)
    PROVE  /\ Count(c) => c \notin Counted /\ c \in Counted'
           /\ CancelUncount(c) => c \in Counted /\ c \notin Counted'
           /\ ~Count(c) /\ ~CancelUncount(c) => (c \in Counted' <=> c \in Counted)
<1> USE DEF flight, hub, local, Open, Shut
<1>0. LoopTypes /\ wt[c] \in Waiters
  BY DEF Types, LoopTypes
<1>a. Control(c)' /\ (c \in Counted <=> (InHub(c) /\ pc[c] # "count") \/ pc[c] = "uncount")
      /\ (c \in Counted' <=> (InHub(c)' /\ pc'[c] # "count") \/ pc'[c] = "uncount")
  BY StepControl DEF Counted
<1>1. CASE Count(c)
  <2>1. pc[c] = "count" /\ pc'[c] = "recheck"
    BY <1>0, <1>1 DEF Count, Goto, LoopTypes
  <2>2. ~CancelUncount(c) /\ InHub(c)'
    BY <1>a, <2>1 DEF CancelUncount, Control, InHub
  <2> QED BY <1>1, <1>a, <2>1, <2>2
<1>2. CASE CancelUncount(c)
  <2>1. pc[c] = "uncount" /\ pc'[c] \in {"done", "register"}
    BY <1>0, <1>2 DEF CancelUncount, AfterWait, Goto, LoopTypes
  <2>2. ~Count(c) /\ ~InHub(c)'
    BY <1>a, <2>1 DEF Count, Control, InHub
  <2> QED BY <1>2, <1>a, <2>1, <2>2
<1>3. CASE Register(c)
  <2>1. pc[c] = "register" /\ pc'[c] = "count" /\ ~InHub(c)
    BY <1>0, <1>3, StepInHub DEF Register, Goto, LoopTypes
  <2> QED BY <1>a, <2>1 DEF Count, CancelUncount
<1>4. CASE CancelDetach(c)
  <2>1. pc[c] = "detach" /\ pc'[c] = "uncount" /\ InHub(c)
    BY <1>0, <1>4, StepInHub DEF CancelDetach, Goto, LoopTypes
  <2> QED BY <1>a, <2>1 DEF Count, CancelUncount
<1>5. CASE ~Count(c) /\ ~CancelUncount(c) /\ ~Register(c) /\ ~CancelDetach(c)
  <2>1. InHub(c)' <=> InHub(c)
    BY <1>5, StepInHub
  <2>2. CASE Aside(c)
    BY <1>5, <1>a, <2>1, <2>2 DEF Aside
  <2>3. ASSUME ClientStep(c) PROVE pc[c] \notin {"count", "uncount"} /\ pc'[c] \notin {"count", "uncount"}
    <3>1. CASE TryPop(c) \/ TryMove(c) \/ TryRead(c)
      BY <1>0, <3>1 DEF TryPop, TryMove, TryRead, Finish, Miss, Goto, LoopTypes
    <3>2. CASE \/ MovePush(c) \/ MoveLoad(c) \/ MoveNotify(c) \/ Deadline(c) \/ Wait(c)
               \/ ReadExternal(c) \/ ReadErrored(c) \/ CancelClose(c)
      BY <1>0, <3>2 DEF MovePush, MoveLoad, MoveNotify, Deadline, Wait, ReadExternal, ReadErrored,
                        CancelClose, Finish, Goto, LoopTypes
    <3> QED BY <1>5, <2>3, <3>1, <3>2 DEF ClientStep
  <2> QED BY <1>5, <1>a, <2>1, <2>2, <2>3, StepAside
<1> QED BY <1>1, <1>2, <1>3, <1>4, <1>5

\* Nobody is counted at the start.
LEMMA InitCount == Init => CountExact
<1> SUFFICES ASSUME Init PROVE CountExact
  OBVIOUS
<1>1. Counted = {}
  BY DEF Init, Counted, InHub, Fresh
<1> QED BY <1>1, FS_EmptySet DEF Init, CountExact

\* Two clients do not step at once.
LEMMA OneCounts ==
    ASSUME Types, NEW c \in Client, NEW d \in Client,
           Count(c) \/ CancelUncount(c), Count(d) \/ CancelUncount(d)
    PROVE  c = d
<1> SUFFICES ASSUME c # d PROVE FALSE
  OBVIOUS
<1>1. pc \in [Client -> Labels]
  BY DEF Types, LoopTypes
<1>2. pc'[c] # pc[c]
  BY <1>1 DEF Count, CancelUncount, AfterWait, Goto
<1>3. pc'[c] = pc[c]
  BY <1>1 DEF Count, CancelUncount, AfterWait, Goto
<1> QED BY <1>2, <1>3

\* The mirror is the number of clients between its increment and decrement,
\* whoever else is between which steps.
LEMMA StepCount ==
    ASSUME Types, [Next]_vars, \A c \in Client : Control(c), CountExact
    PROVE  CountExact'
<1>0. Counted \subseteq Client /\ Counted' \subseteq Client
  BY DEF Counted
<1>1. ASSUME NEW c \in Client, Count(c) PROVE CountExact'
  <2>1. c \notin Counted /\ \A d \in Client : d \in Counted' <=> d = c \/ d \in Counted
    BY <1>1, StepCounted, OneCounts
  <2>2. Counted' = Counted \cup {c} /\ waiterCount' = waiterCount + 1
    BY <1>0, <1>1, <2>1 DEF Count
  <2> QED BY <2>1, <2>2, FS_AddElement DEF CountExact
<1>2. ASSUME NEW c \in Client, CancelUncount(c) PROVE CountExact'
  <2>1. c \in Counted /\ \A d \in Client : d \in Counted' <=> d # c /\ d \in Counted
    BY <1>2, StepCounted, OneCounts
  <2>2. Counted' = Counted \ {c} /\ waiterCount' = waiterCount - 1
    BY <1>0, <1>2, <2>1 DEF CancelUncount
  <2> QED BY <2>1, <2>2, FS_RemoveElement DEF CountExact
<1>3. CASE \A c \in Client : ~Count(c) /\ ~CancelUncount(c)
  <2>1. Counted' = Counted
    BY <1>0, <1>3, StepCounted
  <2>2. waiterCount' = waiterCount
    <3> USE DEF hub
    <3>1. CASE Deliver
      BY <3>1 DEF Deliver, NotifyLoad, Notify, NotifyAll, NotifyAllSend, UnblockMark, UnblockSend
    <3>2. ASSUME NEW d \in Client, ClientStep(d) PROVE waiterCount' = waiterCount
      BY <1>3, <3>2 DEF ClientStep, TryPop, TryMove, MovePush, MoveLoad, MoveNotify, TryRead, Register,
           Deadline, Wait, ReadExternal, ReadErrored, CancelClose, CancelDetach
    <3>3. CASE ~Deliver /\ ~(\E d \in Client : ClientStep(d))
      BY <3>3 DEF Next, vars, Push, Del, Shift, UnblockCall
    <3> QED BY <3>1, <3>2, <3>3
  <2> QED BY <2>1, <2>2 DEF CountExact
<1> QED BY <1>1, <1>2, <1>3

-----------------------------------------------------------------------------
(* The hub is consistent *)

\* The inductive invariant of the hub.
HubInv ==
    /\ Types /\ GhostTypes /\ NoLeakedWaiter /\ CountExact
    /\ \A c \in Client : Control(c) /\ Reachable(c)

\* The invariant of the hub holds at the start, ...
LEMMA InitHub == Init => HubInv
<1>1. Init => GhostTypes
  BY DEF Init, GhostTypes
<1> QED BY <1>1, InitTypes, InitNoLeak, InitCount, InitControl, InitReachable DEF HubInv

\* ... and every step keeps it.
LEMMA StepHub == HubInv /\ [Next]_vars => HubInv'
BY StepTypes, StepGhost, StepNoLeak, StepCount, StepControl, StepReachable DEF HubInv

\* Where the parts of the invariant meet: a sleeper awaits a wake, and is
\* counted.
LEMMA HubSuffices == HubInv => HubConsistent
<1> SUFFICES ASSUME HubInv PROVE HubConsistent
  OBVIOUS
<1>1. waiterCount \in Nat /\ IsFiniteSet(Counted) /\ waiterCount = Cardinality(Counted)
  BY FS_CardinalityType DEF HubInv, CountExact
<1>2. TypeOK
  BY <1>1, TypesSuffice DEF HubInv
<1>3. SleepersReachable
  BY DEF HubInv, SleepersReachable, Reachable, Awaits, Parked
<1>4. ASSUME NEW c \in Client, Parked(c) PROVE waiterCount > 0
  <2>1. c \in Counted
    BY <1>4 DEF HubInv, Control, Open, Parked, Counted, InHub
  <2>2. Counted # {}
    BY <2>1
  <2> QED BY <1>1, <2>2, FS_EmptySet
<1>5. FastPathSound
  BY <1>1, <1>4 DEF FastPathSound, Counted
<1> QED BY <1>2, <1>3, <1>5 DEF HubConsistent, HubInv

\* For any clients, keys and commands, and whoever is between which two steps
\* of RegisterFor, Notify, NotifyAll, Wait and Cancel: no waiter is left behind
\* in the hub, every sleeper can be reached from each of its keys, and the count
\* that lets Notify skip the mutex is not behind.
THEOREM HubCorrect == Spec => []HubConsistent
BY InitHub, StepHub, HubSuffices, PTL DEF Spec

-----------------------------------------------------------------------------
(* CLIENT UNBLOCK *)

\* Once a call has set the flags of a waiter of c, it has for ever: the call
\* goes on to answer 1.
LEMMA ReachedStays ==
    ASSUME Types, [Next]_vars, NEW c \in Client, NEW reason \in Reasons, Reached(c, reason)
    PROVE  Reached(c, reason)'
<1> USE DEF flight, hub, local
<1>1. CASE UnblockSend
  BY <1>1 DEF UnblockSend, Reached
<1>2. CASE UnblockMark
  <2>1. answered1' = answered1 /\ ub.phase # "send"
    BY <1>2 DEF UnblockMark
  <2> QED BY <2>1 DEF Reached
<1>3. ASSUME NEW d \in Client, NEW r \in {"TIMEOUT", "ERROR"}, UnblockCall(d, r) PROVE Reached(c, reason)'
  <2>1. answered1' = answered1 /\ ub.phase # "send"
    BY <1>3 DEF UnblockCall, NoUnblock
  <2> QED BY <2>1 DEF Reached
<1>4. CASE UNCHANGED <<ub, answered1>>
  BY <1>4 DEF Reached
<1>5. ASSUME NEW d \in Client, ClientStep(d) PROVE UNCHANGED <<ub, answered1>>
  BY <1>5 DEF ClientStep, TryPop, TryMove, MovePush, MoveLoad, MoveNotify, TryRead, Register,
         Count, Deadline, Wait, ReadExternal, ReadErrored, CancelClose, CancelDetach, CancelUncount
<1>6. CASE Deliver /\ ~UnblockSend /\ ~UnblockMark
  <2>1. UNCHANGED <<ub, answered1>>
    BY <1>6 DEF Deliver, NotifyLoad, Notify, NotifyAll, NotifyAllSend
  <2> QED BY <1>4, <2>1
<1>7. CASE (\E k \in Key : Push(k) \/ Del(k)) \/ (\E src, dst \in Key : Shift(src, dst)) \/ UNCHANGED vars
  <2>1. UNCHANGED <<ub, answered1>>
    BY <1>7 DEF vars, Push, Del, Shift
  <2> QED BY <1>4, <2>1
<1> QED BY <1>1, <1>2, <1>3, <1>4, <1>5, <1>6, <1>7 DEF Next

\* The flags of a waiter, and what the loop has read of them, after a step
\* that is not the client's own.
LEMMA AsideFlags ==
    ASSUME Types, [Next]_vars, NEW c \in Client, Aside(c), ~ClientStep(c)
    PROVE  \/ wt'[c].external = wt[c].external /\ wt'[c].err = wt[c].err
           \/ /\ wt'[c].external
              /\ \/ wt'[c].err /\ Reached(c, "ERROR")'
                 \/ (wt'[c].err <=> wt[c].err) /\ Reached(c, "TIMEOUT")'
<1> USE DEF flight, hub, local
<1>0. HubTypes /\ LoopTypes /\ DataTypes
  BY DEF Types
<1>1. CASE UnblockMark
  <2>1. CASE wt'[c] = wt[c]
    BY <2>1
  <2>2. CASE wt'[c] # wt[c]
    <3>1. /\ ub \in Unblock /\ c = ub.c /\ ub' = [ub EXCEPT !.phase = "send"]
          /\ wt'[c].external /\ (wt'[c].err <=> wt[c].err \/ ub.reason = "ERROR")
      BY <1>1, <2>2, MarkEffect
    <3>2. ub'.phase = "send" /\ ub'.c = c /\ ub'.reason = ub.reason
      BY <3>1 DEF Unblock
    <3>3. (ub.reason = "ERROR" => Reached(c, "ERROR")') /\ (ub.reason = "TIMEOUT" => Reached(c, "TIMEOUT")')
      BY <3>2 DEF Reached
    <3>4. ub.reason \in {"TIMEOUT", "ERROR"}
      BY <3>1 DEF Unblock, Reasons
    <3>5. CASE ub.reason = "ERROR"
      BY <3>1, <3>3, <3>5
    <3>6. CASE ub.reason = "TIMEOUT"
      BY <3>1, <3>3, <3>6
    <3> QED BY <3>4, <3>5, <3>6
  <2> QED BY <2>1, <2>2
<1>2. ASSUME WakeOnly(c) PROVE wt'[c].external = wt[c].external /\ wt'[c].err = wt[c].err
  BY <1>2 DEF WakeOnly
<1>3. CASE (\E k \in Key : Notify(k)) \/ (\E w \in sending : NotifyAllSend(w)) \/ UnblockSend
  BY <1>0, <1>2, <1>3, NotifyEffect, SendEffect DEF Notify, NotifyAllSend, UnblockSend
<1>4. ASSUME NEW d \in Client, ClientStep(d) PROVE WakeOnly(c)
  <2>0. d # c
    BY <1>4
  <2>1. CASE MoveNotify(d)
    BY <1>0, <2>1, CommandFacts, NotifyEffect DEF MoveNotify
  <2>2. CASE ~MoveNotify(d)
    <3>1. wt'[c] = wt[c]
      BY <1>0, <1>4, <2>0, <2>2
         DEF LoopTypes, ClientStep, TryPop, TryMove, MovePush, MoveLoad, TryRead, Register, RegisterFor,
             Count, Deadline, Wait, ReadExternal, ReadErrored, CancelClose, CancelDetach, CancelUncount
    <3> QED BY <3>1 DEF WakeOnly
  <2> QED BY <2>1, <2>2
<1>5. ASSUME \/ \E k \in Key : Push(k) \/ Del(k) \/ NotifyLoad(k) \/ NotifyAll(k)
             \/ \E src, dst \in Key : Shift(src, dst)
             \/ \E d \in Client, reason \in {"TIMEOUT", "ERROR"} : UnblockCall(d, reason)
             \/ UNCHANGED vars
      PROVE  wt' = wt
  BY <1>5 DEF Push, Del, NotifyLoad, NotifyAll, Shift, UnblockCall, vars
<1> QED BY <1>1, <1>2, <1>3, <1>4, <1>5 DEF Next, Deliver

\* An answer, with the reason it has.
ReplyJustified(c) ==
    /\ reply[c] = "error" => Reached(c, "ERROR")
    /\ reply[c] = "nil" /\ ~command[c].timed => Reached(c, "TIMEOUT")

\* No flag is set and nothing is answered at the start.
LEMMA InitJustified == Init => \A c \in Client : Justified(c) /\ ReplyJustified(c)
BY DEF Init, Justified, ReplyJustified, Fresh

\* Each read of a flag, and each answer given for it, is justified.
LEMMA StepJustified ==
    ASSUME Types, [Next]_vars, NEW c \in Client, Control(c), Justified(c), ReplyJustified(c)
    PROVE  Justified(c)' /\ ReplyJustified(c)'
<1> USE DEF flight, hub, local, Open, Shut
<1>0. /\ LoopTypes /\ HubTypes /\ DataTypes /\ wt[c] \in Waiters /\ saw[c] \in Locals
      /\ reply[c] \in Replies /\ command' = command
  BY StepAside DEF Types, LoopTypes
<1>a. /\ Reached(c, "ERROR") => Reached(c, "ERROR")'
      /\ Reached(c, "TIMEOUT") => Reached(c, "TIMEOUT")'
  BY ReachedStays DEF Reasons
<1>b. /\ wt[c].err \in BOOLEAN /\ wt[c].external \in BOOLEAN
      /\ saw[c].woke \in BOOLEAN /\ saw[c].external \in BOOLEAN /\ saw[c].errored \in BOOLEAN
  BY <1>0 DEF Waiters, Locals
<1>1. CASE ~ClientStep(c)
  <2>1. Aside(c)
    BY <1>1, StepAside
  <2>2. /\ pc'[c] = pc[c] /\ saw'[c] = saw[c] /\ reply'[c] = reply[c]
    BY <2>1 DEF Aside
  <2>3. CASE wt'[c].external = wt[c].external /\ wt'[c].err = wt[c].err
    BY <1>0, <1>a, <2>2, <2>3 DEF Justified, ReplyJustified
  <2>4. CASE wt'[c].external /\ wt'[c].err /\ Reached(c, "ERROR")'
    BY <1>0, <1>a, <2>2, <2>4 DEF Justified, ReplyJustified
  <2>5. CASE wt'[c].external /\ (wt'[c].err <=> wt[c].err) /\ Reached(c, "TIMEOUT")'
    BY <1>0, <1>a, <2>2, <2>5 DEF Justified, ReplyJustified
  <2> QED BY <1>1, <2>1, <2>3, <2>4, <2>5, AsideFlags
<1>2. ASSUME wt'[c].external = wt[c].external, wt'[c].err = wt[c].err, saw'[c] = saw[c], reply'[c] = reply[c],
             pc'[c] \notin {"external", "errored", "close", "detach", "uncount"}
      PROVE  Justified(c)' /\ ReplyJustified(c)'
  BY <1>0, <1>a, <1>2 DEF Justified, ReplyJustified
<1>3. ASSUME wt'[c].external = wt[c].external, wt'[c].err = wt[c].err, saw'[c] = saw[c], reply'[c] = "value",
             pc'[c] \in {"close", "done"}
      PROVE  Justified(c)' /\ ReplyJustified(c)'
  BY <1>0, <1>a, <1>3 DEF Justified, ReplyJustified
<1>4. CASE TryPop(c) \/ TryMove(c) \/ TryRead(c)
  <2>1. wt' = wt /\ saw' = saw
    BY <1>4 DEF TryPop, TryMove, TryRead
  <2>2. \/ reply'[c] = "value" /\ pc'[c] \in {"close", "done"}
        \/ reply' = reply /\ pc'[c] \in {"push", "register", "deadline", "fast", "recheck"}
    BY <1>0, <1>4 DEF TryPop, TryMove, TryRead, Finish, Miss, Goto, Answer, LoopTypes
  <2> QED BY <1>2, <1>3, <2>1, <2>2
<1>5. CASE MovePush(c) \/ MoveLoad(c)
  <2>1. wt' = wt /\ saw' = saw
    BY <1>5 DEF MovePush, MoveLoad
  <2>2. \/ reply'[c] = "value" /\ pc'[c] \in {"close", "done"}
        \/ reply' = reply /\ pc'[c] \in {"load", "notify"}
    BY <1>0, <1>5 DEF MovePush, MoveLoad, Finish, Goto, Answer, LoopTypes
  <2> QED BY <1>2, <1>3, <2>1, <2>2
<1>6. CASE MoveNotify(c)
  <2>1. WakeOnly(c)
    BY <1>0, <1>6, CommandFacts, NotifyEffect DEF MoveNotify
  <2>2. saw' = saw /\ reply'[c] = "value" /\ pc'[c] \in {"close", "done"}
    BY <1>0, <1>6 DEF MoveNotify, Finish, Goto, Answer, LoopTypes
  <2> QED BY <1>3, <2>1, <2>2 DEF WakeOnly
<1>7. CASE Register(c)
  <2>1. wt'[c] = Fresh(wt[c].gen + 1) /\ pc'[c] = "count" /\ saw' = saw /\ reply' = reply
    BY <1>0, <1>7 DEF Register, RegisterFor, Goto, LoopTypes
  <2>2. ~wt'[c].external /\ ~wt'[c].err
    BY <2>1 DEF Fresh
  <2> QED BY <1>0, <1>a, <2>1, <2>2 DEF Justified, ReplyJustified
<1>8. CASE Count(c)
  BY <1>0, <1>2, <1>8 DEF Count, Goto, LoopTypes
<1>9. CASE Deadline(c)
  <2>1. wt' = wt /\ saw' = saw
    BY <1>9 DEF Deadline
  <2>2. CASE pc'[c] = "wait" /\ reply' = reply
    BY <1>2, <2>1, <2>2
  <2>3. CASE command[c].timed /\ pc'[c] = "close" /\ reply'[c] = "nil"
    BY <1>0, <1>a, <2>1, <2>3 DEF Justified, ReplyJustified
  <2> QED BY <1>0, <1>9, <2>2, <2>3 DEF Deadline, Goto, Answer, LoopTypes
<1>10. CASE Wait(c)
  <2>1. wt'[c].external = wt[c].external /\ wt'[c].err = wt[c].err
    BY <1>0, <1>10 DEF Wait, LoopTypes, Waiters
  <2>2. /\ pc[c] = "wait" /\ pc'[c] = "external" /\ reply' = reply
        /\ saw'[c].errored = saw[c].errored /\ (saw'[c].woke \/ command[c].timed)
    BY <1>0, <1>10 DEF Wait, Goto, LoopTypes, Locals
  <2> QED BY <1>0, <1>a, <2>1, <2>2 DEF Justified, ReplyJustified
<1>11. CASE ReadExternal(c)
  <2>1. /\ wt' = wt /\ reply' = reply /\ pc[c] = "external" /\ pc'[c] = "errored"
        /\ saw'[c].external = wt[c].external /\ saw'[c].errored = saw[c].errored
        /\ saw'[c].woke = saw[c].woke
    BY <1>0, <1>11 DEF ReadExternal, Goto, LoopTypes, Locals
  <2> QED BY <1>0, <1>a, <2>1 DEF Justified, ReplyJustified
<1>12. CASE ReadErrored(c)
  <2>1. /\ wt' = wt /\ reply' = reply /\ pc[c] = "errored" /\ pc'[c] = "close"
        /\ saw'[c].external = saw[c].external /\ saw'[c].errored = wt[c].err
        /\ saw'[c].woke = saw[c].woke
    BY <1>0, <1>12 DEF ReadErrored, Goto, LoopTypes, Locals
  <2> QED BY <1>0, <1>a, <2>1 DEF Justified, ReplyJustified
<1>13. CASE CancelClose(c) \/ CancelDetach(c)
  <2>1. wt'[c].external = wt[c].external /\ wt'[c].err = wt[c].err
    BY <1>0, <1>13 DEF CancelClose, CancelDetach, LoopTypes, Waiters
  <2>2. saw' = saw /\ reply' = reply /\ pc[c] \in {"close", "detach"} /\ pc'[c] \in {"detach", "uncount"}
    BY <1>0, <1>13 DEF CancelClose, CancelDetach, Goto, LoopTypes
  <2> QED BY <1>0, <1>a, <2>1, <2>2 DEF Justified, ReplyJustified
<1>14. CASE CancelUncount(c)
  <2>1. wt' = wt /\ saw' = saw /\ pc[c] = "uncount" /\ pc'[c] \in {"done", "register"}
    BY <1>0, <1>14 DEF CancelUncount, AfterWait, Goto, LoopTypes
  <2>2. \/ reply'[c] = reply[c]
        \/ reply[c] = "none" /\ ~saw[c].woke /\ reply'[c] = "nil"
        \/ reply[c] = "none" /\ saw[c].external /\ saw[c].errored /\ reply'[c] = "error"
        \/ reply[c] = "none" /\ saw[c].external /\ ~saw[c].errored /\ reply'[c] = "nil"
    BY <1>0, <1>14 DEF CancelUncount, AfterWait, Answer, LoopTypes
  <2>3. ReplyJustified(c)'
    BY <1>0, <1>a, <2>1, <2>2 DEF Justified, ReplyJustified
  <2>4. Justified(c)'
    BY <1>0, <1>a, <2>1 DEF Justified
  <2> QED BY <2>3, <2>4
<1> QED BY <1>1, <1>4, <1>5, <1>6, <1>7, <1>8, <1>9, <1>10, <1>11, <1>12, <1>13, <1>14 DEF ClientStep

\* For any clients, keys and commands: a command without a timeout answers nil,
\* and any command an error, only because CLIENT UNBLOCK with that reason reached
\* it, although the two flags are read one after the other while calls arrive.
THEOREM RepliesCorrect == Spec => []UnblockRepliesJustified
<1> DEFINE Inv == Types /\ \A c \in Client : Control(c) /\ Justified(c) /\ ReplyJustified(c)
<1>1. Init => Inv
  BY InitTypes, InitControl, InitJustified
<1>2. Inv /\ [Next]_vars => Inv'
  BY StepTypes, StepControl, StepJustified
<1>3. Inv => UnblockRepliesJustified
  BY DEF ReplyJustified, UnblockRepliesJustified
<1> QED BY <1>1, <1>2, <1>3, PTL DEF Spec

-----------------------------------------------------------------------------
(* No wake is lost *)

\* A pass over the keys begins at the first; XREAD tries them all at once.
FromFirst(c) ==
    /\ command[c].op \in {"read", "tail"} => pos[c] = 1
    /\ pc[c] \in {"register", "count", "deadline", "wait", "external", "errored"} => pos[c] = 1
    /\ pc[c] \in {"close", "detach", "uncount"} /\ reply[c] = "none" => pos[c] = 1

\* The client has tried k since it registered.
Passed(c, k) ==
    \/ pc[c] \in {"deadline", "wait"}
    \/ /\ pc[c] = "recheck" /\ command[c].op = "pop"
       /\ \E i \in DOMAIN command[c].keys : i < pos[c] /\ command[c].keys[i] = k

\* A client that may yet try its keys, or has still to give up its wakes.
Holds(c) ==
    \/ pc[c] \in Open \cup {"register", "detach", "uncount"}
    \/ pc[c] \in {"push", "load", "notify"} /\ ~wt[c].closed

\* A client was woken for keys it waits for, and has a wake in its channel if
\* it has tried them.
WokenSound(c) ==
    \A k \in Key : <<c, k>> \in woken =>
        k \in Keys(c) /\ Holds(c) /\ (Awaits(c) => ~Passed(c, k))

\* Who has a wake for k: the clients woken for it, and those that have pushed
\* to it and not yet notified.
Bringing(k) ==
    {t \in Client \X {"woken", "moving"} :
        \/ t[2] = "woken" /\ <<t[1], k>> \in woken
        \/ t[2] = "moving" /\ pc[t[1]] \in {"load", "notify"} /\ command[t[1]].dst = k}

\* The client has found k empty and has no wake, nor is about to be sent one by
\* NotifyAll.
Missed(c, k) ==
    /\ k \in Keys(c) /\ command[c].op # "tail"
    /\ Awaits(c) /\ Passed(c, k) /\ Waiter(c) \notin sending

\* While a client that has found k empty has no wake, each item of k has one.
Balance(k) ==
    k \notin stray /\ (\E c \in Client : Missed(c, k)) =>
        items[k] <= fired[k] + notifying[k] + Cardinality(Bringing(k))

\* Nobody has been woken at the start, or has tried a key.
LEMMA InitWakes ==
    Init => /\ \A c \in Client : FromFirst(c) /\ WokenSound(c)
            /\ \A k \in Key : Balance(k)
BY DEF Init, FromFirst, WokenSound, Balance, Missed, Awaits

\* A pass ends at the first key again.
LEMMA StepFromFirst ==
    ASSUME Types, [Next]_vars, NEW c \in Client, Control(c), FromFirst(c)
    PROVE  FromFirst(c)'
<1> USE DEF flight, hub, local
<1>0. /\ pc \in [Client -> Labels] /\ pos \in [Client -> Nat] /\ reply \in [Client -> Replies]
      /\ command' = command
  BY StepAside DEF Types, LoopTypes
<1>1. CASE Aside(c)
  BY <1>0, <1>1 DEF Aside, FromFirst
<1>2. CASE TryPop(c) \/ TryMove(c)
  <2>1. \/ reply'[c] = "value" /\ pc'[c] \in {"close", "done"}
        \/ pc'[c] = "push"
        \/ pc'[c] \in {"register", "deadline"} /\ pos'[c] = 1
        \/ pc'[c] \in {"fast", "recheck"}
    BY <1>0, <1>2 DEF TryPop, TryMove, Finish, Miss, Goto, Answer
  <2>2. command[c].op \notin {"read", "tail"}
    BY <1>2 DEF TryPop, TryMove
  <2> QED BY <1>0, <2>1, <2>2 DEF FromFirst
<1>3. CASE TryRead(c)
  BY <1>0, <1>3 DEF TryRead, FromFirst
<1>4. CASE MovePush(c) \/ MoveLoad(c) \/ MoveNotify(c)
  <2>1. pos' = pos /\ (pc'[c] \in {"load", "notify"} \/ (pc'[c] \in {"close", "done"} /\ reply'[c] = "value"))
    BY <1>0, <1>4 DEF MovePush, MoveLoad, MoveNotify, Finish, Goto, Answer
  <2> QED BY <1>0, <2>1 DEF FromFirst
<1>5. CASE Register(c) \/ Count(c) \/ Deadline(c) \/ Wait(c) \/ ReadExternal(c) \/ ReadErrored(c)
  <2>1. pos' = pos /\ (pc'[c] = "recheck" \/ pos[c] = 1)
    BY <1>0, <1>5 DEF Register, Count, Deadline, Wait, ReadExternal, ReadErrored, Goto, FromFirst
  <2> QED BY <1>0, <2>1 DEF FromFirst
<1>6. CASE CancelClose(c) \/ CancelDetach(c)
  BY <1>0, <1>6 DEF CancelClose, CancelDetach, Goto, FromFirst
<1>7. CASE CancelUncount(c)
  <2>1. pos' = pos /\ (pc'[c] = "done" \/ (pc'[c] = "register" /\ reply[c] = "none" /\ pc[c] = "uncount"))
    BY <1>0, <1>7 DEF CancelUncount, AfterWait, Goto
  <2> QED BY <1>0, <2>1 DEF FromFirst
<1> QED BY <1>1, <1>2, <1>3, <1>4, <1>5, <1>6, <1>7, StepAside DEF ClientStep

\* A client whose waiter is in the hub may be woken.
LEMMA HubHolds ==
    ASSUME LoopTypes, NEW c \in Client, Control(c), InHub(c)
    PROVE  Holds(c)
BY DEF LoopTypes, Labels, Control, Open, Shut, InHub, Holds

\* A client gives its wakes up when its command is over, and not before.
LEMMA StepHolds ==
    ASSUME Types, [Next]_vars, NEW c \in Client, Control(c), Holds(c)
    PROVE  Holds(c)' \/ (CancelUncount(c) /\ pc'[c] = "done")
<1> USE DEF flight, hub, local
<1>0. /\ pc \in [Client -> Labels] /\ DataTypes /\ HubTypes /\ LoopTypes
  BY DEF Types, LoopTypes
<1>1. CASE Aside(c)
  BY <1>1 DEF Aside, Holds
<1>2. CASE TryPop(c) \/ TryMove(c) \/ TryRead(c)
  <2>1. pc[c] \in {"fast", "recheck"} /\ wt' = wt
    BY <1>2 DEF TryPop, TryMove, TryRead
  <2>2. pc[c] = "recheck" /\ ~wt[c].closed
    BY <2>1 DEF Holds, Control, Open
  <2>3. pc'[c] \in {"close", "push", "recheck", "deadline"}
    BY <1>0, <1>2, <2>2 DEF TryPop, TryMove, TryRead, Finish, Miss, Goto
  <2> QED BY <2>1, <2>2, <2>3 DEF Holds, Open
<1>3. CASE MovePush(c) \/ MoveLoad(c) \/ MoveNotify(c)
  <2>1. wt'[c].closed = wt[c].closed
    <3>1. CASE MoveNotify(c)
      BY <1>0, <3>1, CommandFacts, NotifyEffect DEF MoveNotify, WakeOnly
    <3>2. CASE MovePush(c) \/ MoveLoad(c)
      BY <3>2 DEF MovePush, MoveLoad
    <3> QED BY <1>3, <3>1, <3>2
  <2>2. ~wt[c].closed
    BY <1>3 DEF MovePush, MoveLoad, MoveNotify, Holds, Open
  <2>3. pc'[c] \in {"load", "notify", "close"}
    BY <1>0, <1>3, <2>2 DEF MovePush, MoveLoad, MoveNotify, Finish, Goto
  <2> QED BY <2>1, <2>2, <2>3 DEF Holds, Open
<1>4. CASE \/ Register(c) \/ Count(c) \/ Deadline(c) \/ Wait(c) \/ ReadExternal(c) \/ ReadErrored(c)
           \/ CancelClose(c) \/ CancelDetach(c)
  <2>1. pc'[c] \in Open \cup {"detach", "uncount"}
    BY <1>0, <1>4 DEF Register, Count, Deadline, Wait, ReadExternal, ReadErrored, CancelClose,
                      CancelDetach, Goto, Open
  <2> QED BY <2>1 DEF Holds
<1>5. CASE CancelUncount(c)
  <2>1. pc'[c] \in {"register", "done"}
    BY <1>0, <1>5 DEF CancelUncount, AfterWait, Goto
  <2> QED BY <1>5, <2>1 DEF Holds
<1> QED BY <1>1, <1>2, <1>3, <1>4, <1>5, StepAside DEF ClientStep

\* A client passes a key by when it finds it empty, and then keeps no wake for
\* it; XREAD from the tail passes all by.
LEMMA StepPassed ==
    ASSUME Types, [Next]_vars, NEW c \in Client, FromFirst(c), NEW k \in Keys(c),
           Awaits(c)', Passed(c, k)'
    PROVE  \/ Awaits(c) /\ Passed(c, k)
           \/ <<c, k>> \notin woken' /\ (command[c].op = "tail" \/ items'[k] = 0)
<1> USE DEF flight, hub, local
<1>a. DataTypes /\ LoopTypes /\ command' = command
  BY StepAside DEF Types
<1>b. k \in Key /\ command[c].keys \in Seq(Key)
  BY <1>a, CommandFacts
<1>0. /\ pc \in [Client -> Labels] /\ pos \in [Client -> Nat] /\ command' = command /\ DataTypes
      /\ k \in Key /\ items \in [Key -> Nat]
      /\ command[c].keys \in Seq(Key) /\ DOMAIN command[c].keys = 1 .. Len(command[c].keys)
  BY <1>a, <1>b DEF LoopTypes, DataTypes
<1>1. CASE Aside(c)
  BY <1>0, <1>1 DEF Aside, Awaits, Passed
<1>2. CASE TryPop(c)
  <2> DEFINE j == command[c].keys[pos[c]]
  <2>0. pc'[c] \in {"recheck", "deadline", "wait"}
    BY DEF Passed
  <2>1. /\ items[j] = 0 /\ Miss(c) /\ items' = items /\ wt' = wt /\ command[c].op = "pop"
        /\ woken' = woken \ ({c} \X {j})
    BY <1>0, <1>2, <2>0 DEF TryPop, Finish, Goto, Looked
  <2>2. pc[c] = "recheck"
    BY <1>0, <1>2, <2>0, <2>1 DEF TryPop, Miss, Goto
  <2>3. CASE k = j
    BY <1>0, <2>1, <2>3
  <2>4. CASE k # j
    <3>1. Awaits(c)
      BY <2>1, <2>2 DEF Awaits
    <3>2. PICK i \in DOMAIN command[c].keys : command[c].keys[i] = k
      BY DEF Keys
    <3>3. CASE pos[c] < Len(command[c].keys)
      <4>1. pc'[c] = "recheck" /\ pos'[c] = pos[c] + 1
        BY <1>0, <2>1, <2>2, <3>3 DEF Miss
      <4>2. PICK n \in DOMAIN command[c].keys : n < pos[c] + 1 /\ command[c].keys[n] = k
        BY <1>0, <4>1 DEF Passed
      <4>3. n # pos[c]
        BY <2>4, <4>2
      <4>4. n < pos[c]
        BY <1>0, <4>2, <4>3
      <4> QED BY <2>1, <2>2, <3>1, <4>2, <4>4 DEF Passed
    <3>4. CASE ~(pos[c] < Len(command[c].keys))
      <4>1. i # pos[c]
        BY <2>4, <3>2
      <4>2. i < pos[c]
        BY <1>0, <3>2, <3>4, <4>1
      <4> QED BY <2>1, <2>2, <3>1, <3>2, <4>2 DEF Passed
    <3> QED BY <3>3, <3>4
  <2> QED BY <2>3, <2>4
<1>3. CASE TryMove(c)
  <2> DEFINE j == command[c].keys[1]
  <2>1. pc'[c] = "recheck" \/ pc'[c] = "deadline"
    BY <1>0, <1>3 DEF TryMove, Finish, Miss, Goto, Passed
  <2>2. items[j] = 0 /\ items' = items /\ woken' = woken \ ({c} \X {j}) /\ command[c].op = "move"
    BY <1>0, <1>3, <2>1 DEF TryMove, Finish, Goto, Looked
  <2>3. Len(command[c].keys) = 1
    BY <1>0, <2>2, WorkloadAssumption DEF DataTypes
  <2>4. k = j
    BY <1>0, <2>3 DEF Keys
  <2> QED BY <2>2, <2>4
<1>4. CASE TryRead(c)
  <2>1. pc'[c] # "close" /\ pc'[c] # "done"
    BY DEF Passed
  <2>2. /\ ~(command[c].op = "read" /\ \E j \in Keys(c) : items[j] > 0)
        /\ items' = items /\ woken' = woken \ ({c} \X Key)
    BY <1>0, <1>4, <2>1 DEF TryRead, Finish, Goto, Looked
  <2>3. command[c].op \in {"read", "tail"} /\ items[k] \in Nat
    BY <1>0, <1>4 DEF TryRead
  <2> QED BY <1>0, <2>2, <2>3
<1>5. CASE Deadline(c)
  BY <1>0, <1>5 DEF Deadline, Goto, Awaits, Passed
<1>6. CASE Count(c)
  <2>1. pc[c] = "count" /\ pc'[c] = "recheck" /\ pos' = pos
    BY <1>0, <1>6 DEF Count, Goto
  <2>2. pos[c] = 1
    BY <2>1 DEF FromFirst
  <2> QED BY <1>0, <2>1, <2>2 DEF Passed
<1>7. CASE \/ MovePush(c) \/ MoveLoad(c) \/ MoveNotify(c) \/ Register(c) \/ Wait(c) \/ ReadExternal(c)
           \/ ReadErrored(c) \/ CancelClose(c) \/ CancelDetach(c) \/ CancelUncount(c)
  <2>1. pc'[c] \notin {"recheck", "deadline", "wait"}
    BY <1>0, <1>7 DEF MovePush, MoveLoad, MoveNotify, Register, Wait, ReadExternal, ReadErrored,
                      CancelClose, CancelDetach, CancelUncount, AfterWait, Finish, Goto
  <2> QED BY <2>1 DEF Passed
<1> QED BY <1>1, <1>2, <1>3, <1>4, <1>5, <1>6, <1>7, StepAside DEF ClientStep

\* At most two wakes of a client are for k.
LEMMA BringersFinite ==
    ASSUME NEW S, S \subseteq Client \X {"woken", "moving"}
    PROVE  IsFiniteSet(S) /\ Cardinality(S) \in Nat
<1>1. IsFiniteSet({"woken", "moving"})
  <2>1. IsFiniteSet({"woken"}) /\ IsFiniteSet({"moving"})
    BY FS_Singleton
  <2>2. IsFiniteSet({"woken"} \cup {"moving"})
    BY <2>1, FS_Union
  <2>3. {"woken"} \cup {"moving"} = {"woken", "moving"}
    OBVIOUS
  <2> QED BY <2>2, <2>3
<1>2. IsFiniteSet(Client \X {"woken", "moving"})
  BY <1>1, ClientAssumption, FS_Product
<1> QED BY <1>2, FS_Subset, FS_CardinalityType

\* A set that loses one element has room for another.
LEMMA LoseOne ==
    ASSUME NEW S, NEW T, NEW e, IsFiniteSet(S), IsFiniteSet(T), S \ {e} \subseteq T
    PROVE  Cardinality(S) <= Cardinality(T) + 1
<1>1. Cardinality(S \ {e}) = IF e \in S THEN Cardinality(S) - 1 ELSE Cardinality(S)
  BY FS_RemoveElement
<1>2. Cardinality(S \ {e}) <= Cardinality(T)
  BY FS_Subset
<1> QED BY <1>1, <1>2, FS_CardinalityType

LEMMA GainOne ==
    ASSUME NEW S, NEW T, NEW f, IsFiniteSet(S), IsFiniteSet(T), S \cup {f} \subseteq T, f \notin S
    PROVE  Cardinality(S) + 1 <= Cardinality(T)
<1>1. Cardinality(S \cup {f}) = Cardinality(S) + 1
  BY FS_AddElement
<1> QED BY <1>1, FS_Subset

LEMMA SwapOne ==
    ASSUME NEW S, NEW T, NEW e, NEW f, IsFiniteSet(S), IsFiniteSet(T),
           (S \ {e}) \cup {f} \subseteq T, f \notin S
    PROVE  Cardinality(S) <= Cardinality(T)
<1>1. IsFiniteSet(S \ {e}) /\ Cardinality(S \ {e}) = IF e \in S THEN Cardinality(S) - 1 ELSE Cardinality(S)
  BY FS_RemoveElement
<1>2. Cardinality(S \ {e}) + 1 <= Cardinality(T)
  BY <1>1, GainOne
<1> QED BY <1>1, <1>2, FS_CardinalityType

\* Notify wakes a client of the key's set, and it has then a wake in its channel.
LEMMA NotifyWakes ==
    ASSUME HubTypes, LoopTypes, NoLeakedWaiter, NEW k \in Key, NotifyLocked(k),
           NEW p, p \in woken', p \notin woken
    PROVE  \E c \in Client : p = <<c, k>> /\ k \in Keys(c) /\ InHub(c) /\ wt'[c].full
<1>1. PICK w \in byKey[k] : Send({w}) /\ p = <<w[1], k>>
  BY DEF NotifyLocked, Wake, ghost
<1> DEFINE c == w[1]
<1>2. c \in Client /\ w \in byClient[c] /\ k \in Keys(c)
  BY <1>1 DEF HubTypes, NoLeakedWaiter
<1>3. byClient[c] = IF InHub(c) THEN {Waiter(c)} ELSE {}
  BY <1>2 DEF NoLeakedWaiter
<1>4. InHub(c) /\ w = Waiter(c)
  BY <1>2, <1>3
<1>5. wt'[c].full
  BY <1>1, <1>2, <1>4, SendEffect
<1> QED BY <1>1, <1>2, <1>4, <1>5

\* A client comes by a wake through Notify alone.
LEMMA StepWoken ==
    ASSUME Types, [Next]_vars, NoLeakedWaiter, NEW c \in Client, NEW k \in Key,
           <<c, k>> \in woken', <<c, k>> \notin woken
    PROVE  k \in Keys(c) /\ InHub(c) /\ wt'[c].full
<1>0. HubTypes /\ LoopTypes /\ DataTypes
  BY DEF Types
<1>1. ASSUME NEW j \in Key, NotifyLocked(j)
      PROVE  k \in Keys(c) /\ InHub(c) /\ wt'[c].full
  BY <1>0, <1>1, NotifyWakes
<1>2. ASSUME NEW d \in Client, ClientStep(d)
      PROVE  k \in Keys(c) /\ InHub(c) /\ wt'[c].full
  <2>1. CASE MoveNotify(d)
    BY <1>0, <1>1, <2>1, CommandFacts DEF MoveNotify
  <2>2. CASE ~MoveNotify(d)
    BY <1>2, <2>2 DEF ghost, Looked, ClientStep, TryPop, TryMove, MovePush, MoveLoad, TryRead, Register,
         Count, Deadline, Wait, ReadExternal, ReadErrored, CancelClose, CancelDetach, CancelUncount
  <2> QED BY <2>1, <2>2
<1>3. ASSUME NEW j \in Key, Notify(j) PROVE k \in Keys(c) /\ InHub(c) /\ wt'[c].full
  BY <1>1, <1>3 DEF Notify
<1>4. ~(woken' = woken)
  OBVIOUS
<1>5. CASE Deliver
  BY <1>3, <1>4, <1>5 DEF ghost, Deliver, NotifyLoad, NotifyAll, NotifyAllSend, UnblockMark, UnblockSend
<1>6. CASE ~Deliver /\ ~(\E d \in Client : ClientStep(d))
  BY <1>4, <1>6 DEF ghost, vars, Next, Push, Del, Shift, UnblockCall
<1> QED BY <1>2, <1>5, <1>6

\* A client keeps a wake while it may try the key, and no longer.
LEMMA StepWokenSound ==
    ASSUME Types, [Next]_vars, NoLeakedWaiter, NEW c \in Client, Control(c), FromFirst(c), WokenSound(c)
    PROVE  WokenSound(c)'
<1> SUFFICES ASSUME NEW k \in Key, <<c, k>> \in woken'
             PROVE  (k \in Keys(c) /\ Holds(c) /\ (Awaits(c) => ~Passed(c, k)))'
  BY DEF WokenSound
<1>1. k \in Keys(c) /\ Holds(c) /\ (<<c, k>> \in woken \/ wt'[c].full)
  BY StepWoken, HubHolds DEF WokenSound, Types
<1>2. k \in Keys(c)'
  BY <1>1, StepAside DEF Keys
<1>3. ~(CancelUncount(c) /\ pc'[c] = "done")
  BY DEF CancelUncount, Looked
<1>4. Holds(c)'
  BY <1>1, <1>3, StepHolds
<1>5. ASSUME Awaits(c)', Passed(c, k)' PROVE FALSE
  <2>1. <<c, k>> \in woken
    BY <1>1, <1>5 DEF Awaits
  <2>2. ~(Awaits(c) /\ Passed(c, k))
    BY <2>1 DEF WokenSound
  <2> QED BY <1>1, <1>5, <2>2, StepPassed
<1> QED BY <1>2, <1>4, <1>5

\* A key stays astray until it is empty.
LEMMA StepStray ==
    ASSUME Types, [Next]_vars, NEW k \in Key, k \in stray
    PROVE  k \in stray' \/ items'[k] = 0
<1> USE DEF ghost
<1>0. items'[k] \in Nat
  BY StepTypes DEF Types, DataTypes
<1>a. ASSUME NEW K, Stray(K) PROVE k \in stray' \/ items'[k] = 0
  BY <1>0, <1>a DEF Stray
<1>b. ASSUME NEW j \in Key, NotifyLocked(j) PROVE k \in stray'
  BY <1>b DEF NotifyLocked, Wake
<1>1. ASSUME NEW d \in Client, ClientStep(d) PROVE k \in stray' \/ items'[k] = 0
  <2>1. CASE TryPop(d) \/ TryMove(d)
    <3>1. (\E K : Stray(K)) \/ stray' = stray
      BY <2>1 DEF TryPop, TryMove
    <3> QED BY <1>a, <3>1
  <2>2. CASE MoveNotify(d)
    <3>1. command[d].dst \in Key
      BY CommandFacts DEF Types
    <3> QED BY <1>b, <2>2, <3>1 DEF MoveNotify
  <2>3. CASE TryRead(d) \/ CancelUncount(d)
    BY <2>3 DEF TryRead, CancelUncount
  <2>4. CASE \/ MovePush(d) \/ MoveLoad(d) \/ Register(d) \/ Count(d) \/ Deadline(d) \/ Wait(d)
             \/ ReadExternal(d) \/ ReadErrored(d) \/ CancelClose(d) \/ CancelDetach(d)
    BY <2>4 DEF MovePush, MoveLoad, Register, Count, Deadline, Wait, ReadExternal, ReadErrored,
                CancelClose, CancelDetach
  <2> QED BY <1>1, <2>1, <2>2, <2>3, <2>4 DEF ClientStep
<1>2. ASSUME NEW j \in Key, NEW i \in Key, Del(j) \/ Shift(i, j) PROVE k \in stray' \/ items'[k] = 0
  BY <1>a, <1>2 DEF Del, Shift
<1>3. ASSUME NEW j \in Key, Notify(j) PROVE k \in stray'
  BY <1>b, <1>3 DEF Notify
<1>4. CASE stray' = stray
  BY <1>4
<1>5. CASE Deliver
  BY <1>3, <1>4, <1>5 DEF Deliver, NotifyLoad, NotifyAll, NotifyAllSend, UnblockMark, UnblockSend
<1>6. CASE ~Deliver /\ ~(\E d \in Client : ClientStep(d))
  BY <1>2, <1>4, <1>6 DEF vars, Next, Push, UnblockCall
<1> QED BY <1>1, <1>5, <1>6

\* What NotifyAll has taken of a key's set it sends to before it forgets it.
LEMMA StepSending ==
    ASSUME Types, [Next]_vars, NEW c \in Client, Waiter(c) \in sending
    PROVE  Waiter(c) \in sending' \/ wt'[c].full
<1> USE DEF flight
<1>0. HubTypes /\ LoopTypes
  BY DEF Types
<1>1. ASSUME NEW w \in sending, NotifyAllSend(w) PROVE Waiter(c) \in sending' \/ wt'[c].full
  <2>1. sending' = sending \ {w} /\ (Waiter(c) = w => wt'[c].full)
    BY <1>0, <1>1, SendEffect DEF NotifyAllSend
  <2> QED BY <2>1
<1>2. ASSUME NEW d \in Client, ClientStep(d) PROVE sending' = sending
  BY <1>2 DEF ClientStep, TryPop, TryMove, MovePush, MoveLoad, MoveNotify, TryRead, Register,
         Count, Deadline, Wait, ReadExternal, ReadErrored, CancelClose, CancelDetach, CancelUncount
<1>3. CASE Deliver
  BY <1>1, <1>3 DEF Deliver, NotifyLoad, Notify, NotifyAll, UnblockMark, UnblockSend
<1>4. CASE ~Deliver /\ ~(\E d \in Client : ClientStep(d))
  BY <1>4 DEF vars, Next, Push, Del, Shift, UnblockCall
<1> QED BY <1>2, <1>3, <1>4

\* A client that has missed k did before the step, and can be reached from k,
\* unless the step empties k.
LEMMA StepMissed ==
    ASSUME HubInv, [Next]_vars, NEW c \in Client, FromFirst(c), NEW k \in Key,
           Missed(c, k)', items'[k] # 0
    PROVE  Missed(c, k) /\ Waiter(c) \in byKey[k] /\ ~wt[c].full /\ waiterCount # 0
<1>0. Types /\ LoopTypes /\ Control(c) /\ Reachable(c) /\ CountExact /\ command' = command
  BY StepAside DEF HubInv, Types
<1>1. k \in Keys(c) /\ command[c].op # "tail" /\ Awaits(c)' /\ Passed(c, k)' /\ Waiter(c)' \notin sending'
  BY <1>0 DEF Missed, Keys
<1>2. Awaits(c) /\ Passed(c, k)
  BY <1>0, <1>1, StepPassed
<1>3. pc[c] \in {"recheck", "deadline", "wait"} /\ ~wt[c].full
  BY <1>2 DEF Passed, Awaits
<1>4. Waiter(c)' = Waiter(c)
  <2>1. ~Register(c)
    BY <1>3 DEF Register
  <2> QED BY <1>0, <2>1, StepInHub
<1>5. Waiter(c) \notin sending
  BY <1>0, <1>1, <1>4, StepSending DEF Awaits
<1>6. Waiter(c) \in byKey[k]
  BY <1>0, <1>1, <1>2, <1>5 DEF Reachable
<1>7. waiterCount # 0
  <2>1. c \in Counted
    BY <1>0, <1>3 DEF Control, Open, Counted, InHub
  <2> QED BY <1>0, <2>1, FS_EmptySet DEF CountExact
<1> QED BY <1>1, <1>2, <1>3, <1>5, <1>6, <1>7 DEF Missed

\* What has to be kept of Balance, for a client that has missed k.
Balanced(k) == items[k] <= fired[k] + notifying[k] + Cardinality(Bringing(k))

\* A step may take an item with a wake, or add a wake with an item.
LEMMA BalanceArithmetic ==
    ASSUME Types, Types', NEW k \in Key, Balanced(k),
           NEW e, NEW f,
           LET was == fired[k] + notifying[k]
               is  == fired'[k] + notifying'[k]
           IN  \/ Bringing(k) \subseteq Bringing(k)' /\ items'[k] + was <= items[k] + is
               \/ Bringing(k) \ {e} \subseteq Bringing(k)' /\ items'[k] + 1 + was <= items[k] + is
               \/ /\ f \notin Bringing(k) /\ Bringing(k) \cup {f} \subseteq Bringing(k)'
                  /\ items'[k] + was <= items[k] + is + 1
               \/ /\ f \notin Bringing(k) /\ (Bringing(k) \ {e}) \cup {f} \subseteq Bringing(k)'
                  /\ items'[k] + was <= items[k] + is
    PROVE  Balanced(k)'
<1> DEFINE S == Bringing(k)
           T == Bringing(k)'
<1>1. /\ items[k] \in Nat /\ fired[k] \in Nat /\ notifying[k] \in Nat
      /\ items'[k] \in Nat /\ fired'[k] \in Nat /\ notifying'[k] \in Nat
  BY DEF Types, DataTypes
<1>2. S \subseteq Client \X {"woken", "moving"} /\ T \subseteq Client \X {"woken", "moving"}
  BY DEF Bringing
<1> HIDE DEF S, T
<1>3. IsFiniteSet(S) /\ Cardinality(S) \in Nat /\ IsFiniteSet(T) /\ Cardinality(T) \in Nat
  BY <1>2, BringersFinite
<1>4. S \subseteq T => Cardinality(S) <= Cardinality(T)
  BY <1>3, FS_Subset
<1>5. S \ {e} \subseteq T => Cardinality(S) <= Cardinality(T) + 1
  BY <1>3, LoseOne
<1>6. S \cup {f} \subseteq T /\ f \notin S => Cardinality(S) + 1 <= Cardinality(T)
  BY <1>3, GainOne
<1>7. (S \ {e}) \cup {f} \subseteq T /\ f \notin S => Cardinality(S) <= Cardinality(T)
  BY <1>3, SwapOne
<1>8. items[k] <= fired[k] + notifying[k] + Cardinality(S)
  BY DEF Balanced, S
<1>9. items'[k] <= fired'[k] + notifying'[k] + Cardinality(T)
  BY <1>1, <1>3, <1>4, <1>5, <1>6, <1>7, <1>8 DEF S, T
<1> QED BY <1>9 DEF Balanced, T

\* Of the wakes for k a step of d can only take its own.
LEMMA BringingKept ==
    ASSUME Types, NEW d \in Client, NEW k \in Key, NEW l \in Labels, Goto(d, l), command' = command,
           \A c \in Client : c # d /\ <<c, k>> \in woken => <<c, k>> \in woken'
    PROVE  /\ Bringing(k) \ {<<d, "woken">>, <<d, "moving">>} \subseteq Bringing(k)'
           /\ (<<d, k>> \in woken => <<d, k>> \in woken') /\ <<d, "woken">> \in Bringing(k)
                => <<d, "woken">> \in Bringing(k)'
           /\ <<d, "moving">> \in Bringing(k)
                => pc[d] \in {"load", "notify"} /\ command[d].dst = k
           /\ l \in {"load", "notify"} /\ command[d].dst = k => <<d, "moving">> \in Bringing(k)'
<1>1. pc' = [pc EXCEPT ![d] = l] /\ pc \in [Client -> Labels]
  BY DEF Goto, Types, LoopTypes
<1>2. pc'[d] = l /\ \A e \in Client : e # d => pc'[e] = pc[e]
  BY <1>1
<1>3. ASSUME NEW t \in Bringing(k), t # <<d, "woken">>, t # <<d, "moving">>
      PROVE  t \in Bringing(k)'
  <2>1. t \in Client \X {"woken", "moving"} /\ t = <<t[1], t[2]>> /\ t[1] \in Client
    BY <1>3 DEF Bringing
  <2>2. t[1] # d
    BY <1>3, <2>1 DEF Bringing
  <2> QED BY <1>2, <1>3, <2>1, <2>2 DEF Bringing
<1>4. (<<d, k>> \in woken => <<d, k>> \in woken') /\ <<d, "woken">> \in Bringing(k)
                => <<d, "woken">> \in Bringing(k)'
  BY DEF Bringing
<1>5. <<d, "moving">> \in Bringing(k) => pc[d] \in {"load", "notify"} /\ command[d].dst = k
  BY DEF Bringing
<1>6. l \in {"load", "notify"} /\ command[d].dst = k => <<d, "moving">> \in Bringing(k)'
  BY <1>2 DEF Bringing
<1> QED BY <1>3, <1>4, <1>5, <1>6

\* Notify(k) hands a wake to a client that has none yet.
LEMMA NotifyBrings ==
    ASSUME HubTypes, NEW k \in Key, NEW j \in Key, NotifyLocked(j),
           NEW w \in byKey[k], ~Full(w), k \notin stray', items[k] \in Nat, items[k] # 0
    PROVE  /\ woken \subseteq woken'
           /\ j = k => \E c \in Client : <<c, k>> \notin woken /\ <<c, k>> \in woken'
<1>1. woken \subseteq woken'
  BY DEF NotifyLocked, Wake, ghost
<1>2. ASSUME j = k PROVE \E c \in Client : <<c, k>> \notin woken /\ <<c, k>> \in woken'
  <2>1. PICK v \in byKey[k] : Wake(v[1], k)
    BY <1>2 DEF NotifyLocked
  <2>2. v[1] \in Client /\ items[k] > 0
    BY DEF HubTypes
  <2> QED BY <2>1, <2>2 DEF Wake
<1> QED BY <1>1, <1>2

\* Every step of a client pays for the items it brings, and takes no more wakes
\* than items.
LEMMA ClientBalance ==
    ASSUME Types, Types', command' = command, NEW d \in Client, ClientStep(d), NEW k \in Key,
           Balanced(k), k \notin stray', items'[k] # 0, waiterCount # 0, NEW w \in byKey[k], ~Full(w)
    PROVE  Balanced(k)'
<1> USE DEF flight, hub, local, ghost
<1> DEFINE woke == <<d, "woken">>
           moving == <<d, "moving">>
           S == Bringing(k)
           T == Bringing(k)'
<1>0. /\ DataTypes /\ HubTypes /\ LoopTypes /\ items \in [Key -> Nat] /\ items' \in [Key -> Nat]
      /\ fired[k] \in Nat /\ notifying[k] \in Nat
      /\ command[d].dst \in Key
  BY CommandFacts DEF Types, DataTypes
<1>a. ASSUME \E l \in Labels : Goto(d, l), pc[d] \notin {"load", "notify"},
             \A c \in Client : c # d /\ <<c, k>> \in woken => <<c, k>> \in woken'
      PROVE  /\ S \ {woke} \subseteq T
             /\ (<<d, k>> \in woken => <<d, k>> \in woken') => S \subseteq T
  <2>1. PICK l \in Labels : Goto(d, l)
    BY <1>a
  <2>2. moving \notin S
    BY <1>a DEF Bringing
  <2>3. /\ S \ {woke, moving} \subseteq T
        /\ (<<d, k>> \in woken => <<d, k>> \in woken') /\ woke \in S => woke \in T
    BY <1>a, <2>1, BringingKept
  <2> HIDE DEF S, T, woke, moving
  <2> QED BY <2>2, <2>3
<1>b. ASSUME S \subseteq T, items'[k] <= items[k], UNCHANGED flight PROVE Balanced(k)'
  BY <1>0, <1>b, BalanceArithmetic
<1>c. ASSUME S \ {woke} \subseteq T, items'[k] + 1 <= items[k], UNCHANGED flight PROVE Balanced(k)'
  BY <1>0, <1>c, BalanceArithmetic
<1> HIDE DEF S, T, woke, moving
\* A key that the client has tried: it took an item, or found none.
<1>d. ASSUME NEW j, Looked(d, {j}), \E l \in Labels : Goto(d, l), UNCHANGED flight,
             pc[d] \in {"fast", "recheck"},
             items'[k] <= items[k], j = k => items'[k] + 1 <= items[k]
      PROVE  Balanced(k)'
  <2>1. \A c \in Client : c # d \/ k # j => (<<c, k>> \in woken => <<c, k>> \in woken')
    BY <1>d DEF Looked
  <2>2. S \ {woke} \subseteq T /\ (k # j => S \subseteq T)
    BY <1>a, <1>d, <2>1
  <2> QED BY <1>b, <1>c, <1>d, <2>2
<1>e. pc' = pc => Goto(d, pc[d]) /\ pc[d] \in Labels
  BY <1>0 DEF LoopTypes, Goto
<1>1. CASE TryPop(d)
  <2> DEFINE j == command[d].keys[pos[d]]
  <2>0. pc[d] \in {"fast", "recheck"} /\ Looked(d, {j}) /\ UNCHANGED flight
    BY <1>1 DEF TryPop
  <2>1. \E l \in Labels : Goto(d, l)
    <3>1. pc' = pc \/ (\E l \in {"done", "close", "push", "register", "deadline"} : Goto(d, l))
      BY <1>1 DEF TryPop, Finish, Miss
    <3> QED BY <1>e, <3>1 DEF Labels
  <2> HIDE DEF j
  <2>2. \/ items[j] > 0 /\ items' = [items EXCEPT ![j] = @ - 1]
        \/ items[j] = 0 /\ items' = items
    BY <1>1 DEF TryPop, j
  <2>3. items'[k] <= items[k] /\ (j = k => items'[k] + 1 <= items[k])
    BY <1>0, <2>2
  <2> QED BY <1>d, <2>0, <2>1, <2>3
<1>2. CASE TryMove(d)
  <2> DEFINE j == command[d].keys[1]
             i == command[d].dst
  <2>0. pc[d] \in {"fast", "recheck"} /\ Looked(d, {j}) /\ UNCHANGED flight
    BY <1>2 DEF TryMove
  <2>1. \E l \in Labels : Goto(d, l)
    <3>1. pc' = pc \/ (\E l \in {"done", "close", "push", "register", "deadline"} : Goto(d, l))
      BY <1>2 DEF TryMove, Finish, Miss
    <3> QED BY <1>e, <3>1 DEF Labels
  <2>2. j \in Key
    <3>1. command[d].keys \in Seq(Key) \ {<<>>}
      BY <1>0, CommandFacts
    <3> QED BY <3>1
  <2>3. items'[k] <= items[k] /\ (j = k => items'[k] + 1 <= items[k])
    <3>1. CASE items' = [[items EXCEPT ![j] = @ - 1] EXCEPT ![i] = @ + 1] /\ Stray({i})
      <4>1. i # k
        BY <1>0, <3>1 DEF Stray
      <4> QED BY <1>0, <2>2, <3>1, <4>1
    <3>2. CASE items' = [items EXCEPT ![j] = @ - 1]
      BY <1>0, <2>2, <3>2
    <3>3. CASE items' = items /\ items[j] = 0
      BY <1>0, <3>3
    <3> QED BY <1>2, <3>1, <3>2, <3>3 DEF TryMove
  <2> QED BY <1>d, <2>0, <2>1, <2>2, <2>3
\* The push, with the wake that the same goroutine owes for it.
<1>3. CASE MovePush(d)
  <2>1. pc[d] = "push" /\ Goto(d, "load") /\ woken' = woken /\ UNCHANGED flight
        /\ items' = [items EXCEPT ![command[d].dst] = @ + 1]
    BY <1>3 DEF MovePush
  <2>2. S \subseteq T
    BY <1>a, <2>1 DEF Labels
  <2>3. CASE command[d].dst = k
    <3>1. moving \notin S /\ moving \in T
      <4>1. "load" \in Labels /\ \A c \in Client : c # d /\ <<c, k>> \in woken => <<c, k>> \in woken'
        BY <2>1 DEF Labels
      <4>2. (moving \in S => pc[d] \in {"load", "notify"}) /\ moving \in T
        BY <2>1, <2>3, <4>1, BringingKept DEF S, T, moving
      <4> QED BY <2>1, <4>2
    <3>2. items'[k] = items[k] + 1 /\ items[k] \in Nat /\ UNCHANGED <<fired, notifying>>
      BY <1>0, <2>1, <2>3
    <3>3. items'[k] + (fired[k] + notifying[k]) <= items[k] + (fired'[k] + notifying'[k]) + 1
      BY <1>0, <3>2
    <3>4. S \cup {moving} \subseteq T
      BY <2>2, <3>1
    <3> QED BY <3>1, <3>3, <3>4, BalanceArithmetic DEF S, T
  <2>4. CASE command[d].dst # k
    <3>1. items'[k] <= items[k]
      BY <1>0, <2>1, <2>4
    <3> QED BY <1>b, <2>1, <2>2, <3>1
  <2> QED BY <2>3, <2>4
<1>4. CASE MoveLoad(d)
  <2>1. Goto(d, "notify") /\ woken' = woken /\ UNCHANGED flight /\ items' = items
    BY <1>4 DEF MoveLoad
  <2>2. /\ S \ {woke, moving} \subseteq T /\ (woke \in S => woke \in T)
        /\ moving \in S => command[d].dst = k
        /\ command[d].dst = k => moving \in T
    <3>1. "notify" \in Labels /\ \A c \in Client : <<c, k>> \in woken => <<c, k>> \in woken'
      BY <2>1 DEF Labels
    <3> QED BY <2>1, <3>1, BringingKept DEF S, T, woke, moving
  <2>3. S \subseteq T
    BY <2>2
  <2> QED BY <1>0, <1>b, <2>1, <2>3
\* Its notification, which hands the wake on.
<1>5. CASE MoveNotify(d)
  <2> DEFINE j == command[d].dst
  <2>1. NotifyLocked(j) /\ (\E l \in Labels : Goto(d, l)) /\ items' = items /\ UNCHANGED flight
    BY <1>5 DEF MoveNotify, Finish, Labels
  <2>2. woken \subseteq woken' /\ (j = k => \E c \in Client : <<c, k>> \notin woken /\ <<c, k>> \in woken')
    BY <1>0, <2>1, NotifyBrings
  <2>3. /\ S \ {woke, moving} \subseteq T /\ (woke \in S => woke \in T)
        /\ moving \in S => j = k
    <3>1. PICK l \in Labels : Goto(d, l)
      BY <2>1
    <3>2. \A c \in Client : <<c, k>> \in woken => <<c, k>> \in woken'
      BY <2>2
    <3> QED BY <3>1, <3>2, BringingKept DEF S, T, woke, moving
  <2>4. CASE j = k
    <3>1. PICK c \in Client : <<c, k>> \notin woken /\ <<c, k>> \in woken'
      BY <2>2, <2>4
    <3>2. <<c, "woken">> \notin S /\ <<c, "woken">> \in T
      BY <3>1 DEF S, T, Bringing
    <3>3. (S \ {moving}) \cup {<<c, "woken">>} \subseteq T
      BY <2>3, <3>2
    <3>4. items'[k] + (fired[k] + notifying[k]) <= items[k] + (fired'[k] + notifying'[k])
      BY <1>0, <2>1
    <3> QED BY <3>2, <3>3, <3>4, BalanceArithmetic DEF S, T
  <2>5. CASE j # k
    <3>1. S \subseteq T
      BY <2>3, <2>5
    <3> QED BY <1>0, <1>b, <2>1, <3>1
  <2> QED BY <2>4, <2>5
\* A client that leaves with a wake takes none from an item that has no other.
<1>6. CASE TryRead(d) \/ CancelUncount(d)
  <2>1. pc[d] \notin {"load", "notify"} /\ (\E l \in Labels : Goto(d, l)) /\ items' = items /\ UNCHANGED flight
    BY <1>6 DEF TryRead, CancelUncount, AfterWait, Finish, Labels
  <2>2. woken' = woken \/ (woken' = woken \ ({d} \X Key) /\ stray' = stray \cup Unused(d))
    BY <1>6 DEF TryRead, CancelUncount, Looked
  <2>3. woken' = woken \/ <<d, k>> \notin woken
    BY <1>0, <2>1, <2>2 DEF Unused
  <2>4. \A c \in Client : <<c, k>> \in woken => <<c, k>> \in woken'
    BY <2>2, <2>3
  <2>5. S \subseteq T
    BY <1>a, <2>1, <2>4
  <2> QED BY <1>0, <1>b, <2>1, <2>5
<1>7. CASE \/ Register(d) \/ Count(d) \/ Deadline(d) \/ Wait(d) \/ ReadExternal(d) \/ ReadErrored(d)
           \/ CancelClose(d) \/ CancelDetach(d)
  <2>1. /\ pc[d] \notin {"load", "notify"} /\ (\E l \in Labels : Goto(d, l))
        /\ items' = items /\ woken' = woken /\ UNCHANGED flight
    BY <1>7 DEF Register, Count, Deadline, Wait, ReadExternal, ReadErrored, CancelClose, CancelDetach, Labels
  <2>2. S \subseteq T
    BY <1>a, <2>1
  <2> QED BY <1>0, <1>b, <2>1, <2>2
<1> QED BY <1>1, <1>2, <1>3, <1>4, <1>5, <1>6, <1>7 DEF ClientStep

\* So do the steps of the others.
LEMMA OtherBalance ==
    ASSUME Types, Types', [Next]_vars, \A d \in Client : ~ClientStep(d), NEW k \in Key,
           Balanced(k), k \notin stray', items'[k] # 0, waiterCount # 0, NEW w \in byKey[k], ~Full(w)
    PROVE  Balanced(k)'
<1> USE DEF flight, hub, local, ghost
<1> DEFINE S == Bringing(k)
           T == Bringing(k)'
<1>0. /\ DataTypes /\ HubTypes /\ items \in [Key -> Nat] /\ items' \in [Key -> Nat]
      /\ fired \in [Key -> Nat] /\ notifying \in [Key -> Nat]
      /\ fired' \in [Key -> Nat] /\ notifying' \in [Key -> Nat]
  BY DEF Types, DataTypes
<1>a. ASSUME UNCHANGED <<pc, command>>, woken \subseteq woken' PROVE S \subseteq T
  BY <1>a DEF Bringing
<1>b. ASSUME S \subseteq T, items'[k] + (fired[k] + notifying[k]) <= items[k] + (fired'[k] + notifying'[k])
      PROVE  Balanced(k)'
  BY <1>b, BalanceArithmetic
<1> HIDE DEF S, T
<1>1. ASSUME NEW j \in Key, Push(j) \/ Del(j) \/ NotifyLoad(j) PROVE Balanced(k)'
  <2>1. S \subseteq T
    BY <1>a, <1>1 DEF Push, Del, NotifyLoad
  <2>2. items'[k] + (fired[k] + notifying[k]) <= items[k] + (fired'[k] + notifying'[k])
    <3>1. CASE Push(j)
      BY <1>0, <3>1 DEF Push
    <3>2. CASE Del(j)
      BY <1>0, <3>2 DEF Del
    <3>3. CASE NotifyLoad(j)
      BY <1>0, <3>3 DEF NotifyLoad
    <3> QED BY <1>1, <3>1, <3>2, <3>3
  <2> QED BY <1>b, <2>1, <2>2
<1>2. ASSUME NEW i \in Key, NEW j \in Key, Shift(i, j) PROVE Balanced(k)'
  <2>1. S \subseteq T
    BY <1>a, <1>2 DEF Shift
  <2>2. j # k
    BY <1>0, <1>2 DEF Shift, Stray
  <2>3. items'[k] + (fired[k] + notifying[k]) <= items[k] + (fired'[k] + notifying'[k])
    BY <1>0, <1>2, <2>2 DEF Shift
  <2> QED BY <1>b, <2>1, <2>3
<1>3. ASSUME NEW j \in Key, Notify(j) PROVE Balanced(k)'
  <2>1. /\ NotifyLocked(j) /\ UNCHANGED <<pc, command, items, fired>>
        /\ notifying[j] > 0 /\ notifying' = [notifying EXCEPT ![j] = @ - 1]
    BY <1>3 DEF Notify
  <2>2. woken \subseteq woken' /\ (j = k => \E c \in Client : <<c, k>> \notin woken /\ <<c, k>> \in woken')
    BY <1>0, <2>1, NotifyBrings
  <2>3. S \subseteq T
    BY <1>a, <2>1, <2>2
  <2>4. CASE j = k
    <3>1. PICK c \in Client : <<c, k>> \notin woken /\ <<c, k>> \in woken'
      BY <2>2, <2>4
    <3>2. <<c, "woken">> \notin S /\ <<c, "woken">> \in T
      BY <3>1 DEF S, T, Bringing
    <3>3. S \cup {<<c, "woken">>} \subseteq T
      BY <2>3, <3>2
    <3>4. items'[k] + (fired[k] + notifying[k]) <= items[k] + (fired'[k] + notifying'[k]) + 1
      BY <1>0, <2>1, <2>4
    <3> QED BY <3>2, <3>3, <3>4, BalanceArithmetic DEF S, T
  <2>5. CASE j # k
    <3>1. items'[k] + (fired[k] + notifying[k]) <= items[k] + (fired'[k] + notifying'[k])
      BY <1>0, <2>1, <2>5
    <3> QED BY <1>b, <2>3, <3>1
  <2> QED BY <2>4, <2>5
<1>4. CASE UNCHANGED <<pc, command, items, fired, notifying, woken>>
  BY <1>0, <1>4, <1>a, <1>b
<1>5. CASE Deliver
  <2>1. ASSUME NEW j \in Key, NotifyAll(j) PROVE Balanced(k)'
    BY <1>4, <2>1 DEF NotifyAll
  <2>2. ASSUME (\E v \in sending : NotifyAllSend(v)) \/ UnblockMark \/ UnblockSend PROVE Balanced(k)'
    BY <1>4, <2>2 DEF NotifyAllSend, UnblockMark, UnblockSend
  <2> QED BY <1>1, <1>3, <1>5, <2>1, <2>2 DEF Deliver
<1>6. CASE ~Deliver /\ ~(\E j \in Key : Push(j) \/ Del(j)) /\ ~(\E i, j \in Key : Shift(i, j))
  BY <1>4, <1>6 DEF vars, Next, UnblockCall
<1> QED BY <1>1, <1>2, <1>5, <1>6

\* While someone who has missed k can be reached, its items have their wakes.
LEMMA StepBalance ==
    ASSUME HubInv, [Next]_vars, \A c \in Client : FromFirst(c), NEW k \in Key, Balance(k)
    PROVE  Balance(k)'
<1> SUFFICES ASSUME k \notin stray', NEW c \in Client, Missed(c, k)' PROVE Balanced(k)'
  BY DEF Balance, Balanced
<1>0. Types /\ Types' /\ command' = command
  BY StepAside, StepTypes DEF HubInv
<1>1. CASE items'[k] = 0
  <2>1. /\ fired'[k] \in Nat /\ notifying'[k] \in Nat
        /\ Bringing(k)' \subseteq Client \X {"woken", "moving"}
    BY <1>0 DEF Types, DataTypes, Bringing
  <2> QED BY <1>1, <2>1, BringersFinite DEF Balanced
<1>2. CASE items'[k] # 0
  <2>1. Missed(c, k) /\ Waiter(c) \in byKey[k] /\ ~wt[c].full /\ waiterCount # 0
    BY <1>2, StepMissed
  <2>2. k \notin stray
    BY <1>0, <1>2, StepStray
  <2>3. Balanced(k) /\ ~Full(Waiter(c))
    BY <2>1, <2>2 DEF Balance, Balanced, Full, Waiter
  <2> QED BY <1>0, <1>2, <2>1, <2>3, ClientBalance, OtherBalance
<1> QED BY <1>1, <1>2

-----------------------------------------------------------------------------
\* The inductive invariant of the wakes.
WakeInv ==
    /\ HubInv
    /\ \A c \in Client : FromFirst(c) /\ WokenSound(c)
    /\ \A k \in Key : Balance(k)

LEMMA StepWakes == WakeInv /\ [Next]_vars => WakeInv'
BY StepHub, StepFromFirst, StepWokenSound, StepBalance DEF WakeInv, HubInv

\* Where everyone sleeps nobody has a wake.
LEMMA WakesSuffice == WakeInv => NoSleeperNextToItem
<1> SUFFICES ASSUME WakeInv, Quiet, NEW c \in Client, Parked(c), command[c].op # "tail",
                    NEW k \in Keys(c), items[k] > 0, k \notin stray
             PROVE  FALSE
  BY DEF NoSleeperNextToItem
<1>0. k \in Key /\ items[k] \in Nat
  <2>1. DataTypes
    BY DEF WakeInv, HubInv, Types
  <2>2. k \in Key
    BY <2>1, CommandFacts
  <2> QED BY <2>1, <2>2 DEF DataTypes
<1>1. Bringing(k) = {}
  <2> SUFFICES ASSUME NEW t \in Bringing(k) PROVE FALSE
    OBVIOUS
  <2>1. t[1] \in Client
    BY DEF Bringing
  <2>2. Parked(t[1]) \/ pc[t[1]] = "done"
    BY <2>1 DEF Quiet
  <2>3. <<t[1], k>> \in woken
    BY <2>2 DEF Bringing, Parked
  <2>4. Holds(t[1]) /\ (Awaits(t[1]) => ~Passed(t[1], k))
    BY <1>0, <2>1, <2>3 DEF WakeInv, WokenSound
  <2> QED BY <2>2, <2>4 DEF Parked, Awaits, Passed, Holds, Open
<1>2. Missed(c, k)
  BY DEF Missed, Parked, Awaits, Passed, Quiet
<1>3. items[k] <= fired[k] + notifying[k] + Cardinality(Bringing(k))
  BY <1>0, <1>2 DEF WakeInv, Balance
<1>4. fired[k] = 0 /\ notifying[k] = 0 /\ Cardinality(Bringing(k)) = 0
  BY <1>0, <1>1, FS_EmptySet DEF Quiet
<1> QED BY <1>0, <1>3, <1>4

\* For any clients, keys, commands and number of calls, any number of clients on
\* one key: when everything has settled, a client sleeps next to an item only if
\* a wake went astray since the key was last empty, that is, if the code fired no
\* event for an item, if Notify sent the wake to a client it had woken already,
\* or if the client that had it gave it up without having tried the key.  Misses,
\* registering, counting, the re-check, the drop of waiters with a full channel
\* and the lock-free load lose none between them.
THEOREM NoLostWake == Spec => []NoSleeperNextToItem
<1>1. Init => WakeInv
  BY InitHub, InitWakes DEF WakeInv
<1> QED BY <1>1, StepWakes, WakesSuffice, PTL DEF Spec

=============================================================================
