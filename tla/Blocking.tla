------------------------------ MODULE Blocking ------------------------------
(***************************************************************************)
(* Blocking commands (BLPOP, BRPOP, BLMOVE, BZPOPMIN, BLMPOP, XREAD BLOCK) *)
(* and the hub that wakes them: blocking/waiters.go, the loops of          *)
(* resp/commands_block.go, and the store notifier of engine/engine.go.     *)
(*                                                                         *)
(* Each client is a connection goroutine that runs one blocking command.   *)
(* A step of a client is one critical section (a shard lock, the hub's     *)
(* mutex, a waiter's mutex) or one atomic operation.  Writers run on other *)
(* connections: a write releases its shard lock before it notifies, so a   *)
(* notification is in flight (fired, notifying) between the two.           *)
(*                                                                         *)
(* A value is abstracted to a count: items[k] is the length of a list, or  *)
(* the number of entries ever added to a stream.  A waiter object is       *)
(* <<c, g>>, the g-th one client c has made; wt[c] holds the fields of the *)
(* current one.                                                            *)
(***************************************************************************)
EXTENDS Integers, Sequences, FiniteSets

CONSTANTS Client,       \* connections that run a blocking command
          Key,
          Workload,     \* the commands the clients may run
          Calls,        \* what other connections do: "push" (and stream appends),
                        \* "del" (and expiry), "shift" (RPOPLPUSH), "unblock"
          MaxCalls      \* bound on their calls

\* op:     "pop" consumes an item of the first non-empty key;
\*         "move" is BLMOVE;
\*         "read" is XREAD BLOCK from an explicit id, "tail" from "$".
\* timed:  the timeout is not zero.
\* atomic: BLMOVE with the geometry tryLMove hands to RPopLPush.
ASSUME WorkloadAssumption ==
    /\ Workload \subseteq [Client -> [op : {"pop", "move", "read", "tail"},
                                      keys : Seq(Key) \ {<<>>}, dst : Key,
                                      timed : BOOLEAN, atomic : BOOLEAN]]
    /\ \A cmd \in Workload, c \in Client : cmd[c].op = "move" => Len(cmd[c].keys) = 1
ASSUME ClientAssumption == IsFiniteSet(Client)
ASSUME CallsAssumption ==
    Calls \subseteq {"push", "del", "shift", "unblock"} /\ MaxCalls \in Nat

VARIABLES
    command,      \* the command each client runs, fixed at the start
    items,        \* [Key -> Nat]
    fired,        \* writes of k that have not reached Notify's first load
    notifying,    \* Notify(k) calls past the waiterCount load
    firedAll,     \* deletions of k that have not reached NotifyAll
    sending,      \* waiters NotifyAll has taken from the index, not sent to yet
    byKey,        \* Hub.keys
    byClient,     \* Hub.clients
    waiterCount,  \* Hub.waiterCount
    wt,           \* fields of the current waiter of each client
    pc, pos,      \* where the client is; index of the key it tries
    saw,          \* the loop's locals woke, external, errored
    reply,        \* what the command answered, "none" while it runs
    ub,           \* the CLIENT UNBLOCK call in progress
    answered1,    \* CLIENT UNBLOCK calls that replied 1: <<client, reason>>
    budget,       \* calls the other connections may still make
    woken,        \* history: <<c, k>> if Notify(k) woke c and c has not tried k since
    stray         \* history: keys one of whose wakes went astray, until they are empty

ghost  == <<woken, stray>>
hub    == <<byKey, byClient, waiterCount>>
flight == <<fired, notifying, firedAll, sending>>
local  == <<pos, saw, reply>>
vars   == <<command, items, flight, hub, wt, pc, local, ub, answered1, budget, ghost>>

Keys(c)   == {command[c].keys[i] : i \in DOMAIN command[c].keys}
Waiter(c) == <<c, wt[c].gen>>

\* A new Waiter: empty channel of capacity one, no flag set.
Fresh(g) == [gen |-> g, full |-> FALSE, closed |-> FALSE,
             external |-> FALSE, err |-> FALSE]

Goto(c, l) == pc' = [pc EXCEPT ![c] = l]
Answer(c, r) == reply' = [reply EXCEPT ![c] = r]

-----------------------------------------------------------------------------
(* Wakes and what becomes of them.  An item that arrives in k has a wake;    *)
(* the wake goes astray if no event is fired for the item, if Notify sends   *)
(* it to a client that it has woken for k already, or if the client that has *)
(* it gives it up without having tried k and taken an item or found none.    *)

\* Wakes for the keys of K go astray; that of an empty key concerns nobody.
Stray(K) == stray' = {k \in stray \cup K : items'[k] > 0}

\* The client has tried k, or every key, and needs no wake for it any more.
Looked(c, K) == woken' = woken \ ({c} \X K)

\* The keys with an item that the client has a wake for.
Unused(c) == {k \in Key : <<c, k>> \in woken /\ items[k] > 0}

\* Notify(k) has picked c.
Wake(c, k) ==
    /\ woken' = woken \cup {<<c, k>>}
    /\ stray' = IF <<c, k>> \in woken /\ items[k] > 0 THEN stray \cup {k} ELSE stray

-----------------------------------------------------------------------------
(* The hub *)

\* A non-blocking send on a waiter's channel: dropped when it is full, and
\* of no effect on a waiter its client has already replaced.
Send(W) == wt' = [c \in Client |->
                    IF <<c, wt[c].gen>> \in W THEN [wt[c] EXCEPT !.full = TRUE] ELSE wt[c]]

Full(w) == wt[w[1]].full

\* Notify under the hub's mutex.  The map is visited in any order: waiters
\* with a full channel met on the way are dropped from the key's set, and
\* the first one with room gets the wake and leaves the set too.
NotifyLocked(k) ==
    LET ready == {w \in byKey[k] : ~Full(w)}
        stale == byKey[k] \ ready
    IN  \/ \E w \in ready : \E seen \in SUBSET stale :
              /\ byKey' = [byKey EXCEPT ![k] = @ \ (seen \cup {w})]
              /\ Send({w})
              /\ Wake(w[1], k)
        \/ /\ ready = {}
           /\ byKey' = [byKey EXCEPT ![k] = {}]
           /\ UNCHANGED <<wt, ghost>>

\* RegisterFor under the hub's mutex.
RegisterFor(c) ==
    LET w == <<c, wt[c].gen + 1>> IN
    /\ wt' = [wt EXCEPT ![c] = Fresh(@.gen + 1)]
    /\ byKey' = [k \in Key |-> IF k \in Keys(c) THEN byKey[k] \cup {w} ELSE byKey[k]]
    /\ byClient' = [byClient EXCEPT ![c] = @ \cup {w}]

\* Slip: the waiter is taken out of the first of its keys only.
SlipDetachFirstKey(c) ==
    LET w == Waiter(c) IN
    /\ byKey' = [byKey EXCEPT ![command[c].keys[1]] = @ \ {w}]
    /\ byClient' = [byClient EXCEPT ![c] = @ \ {w}]

\* Cancel under the hub's mutex.
Detach(c) ==
    LET w == Waiter(c) IN
    /\ byKey' = [k \in Key |-> IF k \in Keys(c) THEN byKey[k] \ {w} ELSE byKey[k]]
    /\ byClient' = [byClient EXCEPT ![c] = @ \ {w}]

-----------------------------------------------------------------------------
(* The loop of a blocking command *)

\* The command has its answer: cancel the waiter it has registered, if any.
Finish(c, r) ==
    /\ Answer(c, r)
    /\ Goto(c, IF wt[c].closed THEN "done" ELSE "close")

\* The next key to try, or what follows an unsuccessful pass.
Miss(c) ==
    IF pos[c] < Len(command[c].keys)
    THEN /\ pos' = [pos EXCEPT ![c] = @ + 1]
         /\ UNCHANGED pc
    ELSE /\ pos' = [pos EXCEPT ![c] = 1]
         /\ Goto(c, IF pc[c] = "fast" THEN "register" ELSE "deadline")

\* tryListPop, tryZPop: the pops are one critical section per key.
TryPop(c) ==
    LET k == command[c].keys[pos[c]] IN
    /\ pc[c] \in {"fast", "recheck"} /\ command[c].op = "pop"
    /\ \/ /\ items[k] > 0
          /\ items' = [items EXCEPT ![k] = @ - 1]
          /\ Finish(c, "value")
          /\ Stray({})
          /\ UNCHANGED pos
       \/ /\ items[k] = 0
          /\ Miss(c)
          /\ UNCHANGED <<items, reply, stray>>
    /\ Looked(c, {k})
    /\ UNCHANGED <<command, flight, hub, wt, saw, ub, answered1, budget>>

\* tryLMove through RPopLPush: one critical section, and no notification.
\* Otherwise a pop, and the push to dst comes in a later step.  (RecordWrite,
\* which tryLMove calls too, touches nothing that blocking reads.)
TryMove(c) ==
    LET src == command[c].keys[1] IN
    /\ pc[c] \in {"fast", "recheck"} /\ command[c].op = "move"
    /\ \/ /\ items[src] > 0 /\ command[c].atomic
          /\ items' = [[items EXCEPT ![src] = @ - 1] EXCEPT ![command[c].dst] = @ + 1]
          /\ Finish(c, "value")
          /\ Stray({command[c].dst})
          /\ UNCHANGED pos
       \/ /\ items[src] > 0 /\ ~command[c].atomic
          /\ items' = [items EXCEPT ![src] = @ - 1]
          /\ Goto(c, "push")
          /\ Stray({})
          /\ UNCHANGED <<pos, reply>>
       \/ /\ items[src] = 0
          /\ Miss(c)
          /\ UNCHANGED <<items, reply, stray>>
    /\ Looked(c, {src})
    /\ UNCHANGED <<command, flight, hub, wt, saw, ub, answered1, budget>>

\* The push of tryLMove, then the notification on the same goroutine.
MovePush(c) ==
    /\ pc[c] = "push"
    /\ items' = [items EXCEPT ![command[c].dst] = @ + 1]
    /\ Goto(c, "load")
    /\ UNCHANGED <<command, flight, hub, wt, local, ub, answered1, budget, ghost>>

MoveLoad(c) ==
    /\ pc[c] = "load"
    /\ IF waiterCount = 0 THEN Finish(c, "value")
       ELSE Goto(c, "notify") /\ UNCHANGED reply
    /\ UNCHANGED <<command, items, flight, hub, wt, pos, saw, ub, answered1, budget, ghost>>

\* Slip: the key popped from is notified, not the key pushed to.
SlipNotifySource(c) ==
    /\ pc[c] = "notify"
    /\ NotifyLocked(command[c].keys[1])
    /\ Finish(c, "value")
    /\ UNCHANGED <<command, items, flight, byClient, waiterCount, pos, saw, ub, answered1, budget>>

MoveNotify(c) ==
    /\ pc[c] = "notify"
    /\ NotifyLocked(command[c].dst)
    /\ Finish(c, "value")
    /\ UNCHANGED <<command, items, flight, byClient, waiterCount, pos, saw, ub, answered1, budget>>

\* XRead: all the streams in one critical section, nothing consumed.  An
\* explicit id is the start of the stream; "$" is resolved to the current
\* last id in every call, so a pass over "$" never finds an entry.
TryRead(c) ==
    /\ pc[c] \in {"fast", "recheck"} /\ command[c].op \in {"read", "tail"}
    /\ IF command[c].op = "read" /\ \E k \in Keys(c) : items[k] > 0
       THEN Finish(c, "value") /\ UNCHANGED ghost
       ELSE /\ Goto(c, IF pc[c] = "fast" THEN "register" ELSE "deadline")
            /\ Looked(c, Key)
            /\ stray' = stray \cup Unused(c)
            /\ UNCHANGED reply
    /\ UNCHANGED <<command, items, flight, hub, wt, pos, saw, ub, answered1, budget>>

Register(c) ==
    /\ pc[c] = "register"
    /\ RegisterFor(c)
    /\ Goto(c, "count")
    /\ UNCHANGED <<command, items, flight, waiterCount, local, ub, answered1, budget, ghost>>

\* Slip: the keys are not tried again after registering.
SlipNoRecheck(c) ==
    /\ pc[c] = "count"
    /\ waiterCount' = waiterCount + 1
    /\ Goto(c, "deadline")
    /\ UNCHANGED <<command, items, flight, byKey, byClient, wt, local, ub, answered1, budget, ghost>>

\* The mirror is raised after the hub's mutex is released.
Count(c) ==
    /\ pc[c] = "count"
    /\ waiterCount' = waiterCount + 1
    /\ Goto(c, "recheck")
    /\ UNCHANGED <<command, items, flight, byKey, byClient, wt, local, ub, answered1, budget, ghost>>

\* time.Until(deadline): it may have passed only if there is one.
Deadline(c) ==
    /\ pc[c] = "deadline"
    /\ \/ command[c].timed /\ Goto(c, "close") /\ Answer(c, "nil")
       \/ Goto(c, "wait") /\ UNCHANGED reply
    /\ UNCHANGED <<command, items, flight, hub, wt, pos, saw, ub, answered1, budget, ghost>>

\* Slip: the timer of Wait is not armed.
SlipNoTimer(c) ==
    /\ pc[c] = "wait"
    /\ wt[c].full
    /\ wt' = [wt EXCEPT ![c].full = FALSE]
    /\ saw' = [saw EXCEPT ![c].woke = TRUE]
    /\ Goto(c, "external")
    /\ UNCHANGED <<command, items, flight, hub, pos, reply, ub, answered1, budget, ghost>>

\* Wait returns because of a wake, or because the timer fired; when both
\* are ready select takes either.
Wait(c) ==
    /\ pc[c] = "wait"
    /\ \/ /\ wt[c].full
          /\ wt' = [wt EXCEPT ![c].full = FALSE]
          /\ saw' = [saw EXCEPT ![c].woke = TRUE]
       \/ /\ command[c].timed
          /\ saw' = [saw EXCEPT ![c].woke = FALSE]
          /\ UNCHANGED wt
    /\ Goto(c, "external")
    /\ UNCHANGED <<command, items, flight, hub, pos, reply, ub, answered1, budget, ghost>>

ReadExternal(c) ==
    /\ pc[c] = "external"
    /\ saw' = [saw EXCEPT ![c].external = wt[c].external]
    /\ Goto(c, "errored")
    /\ UNCHANGED <<command, items, flight, hub, wt, pos, reply, ub, answered1, budget, ghost>>

ReadErrored(c) ==
    /\ pc[c] = "errored"
    /\ saw' = [saw EXCEPT ![c].errored = wt[c].err]
    /\ Goto(c, "close")
    /\ UNCHANGED <<command, items, flight, hub, wt, pos, reply, ub, answered1, budget, ghost>>

\* Cancel: the closed flag under the waiter's mutex, ...
CancelClose(c) ==
    /\ pc[c] = "close"
    /\ wt' = [wt EXCEPT ![c].closed = TRUE]
    /\ Goto(c, "detach")
    /\ UNCHANGED <<command, items, flight, hub, local, ub, answered1, budget, ghost>>

\* ... the indexes under the hub's mutex, ...
CancelDetach(c) ==
    /\ pc[c] = "detach"
    /\ Detach(c)
    /\ Goto(c, "uncount")
    /\ UNCHANGED <<command, items, flight, waiterCount, wt, local, ub, answered1, budget, ghost>>

\* Slip: the two replies of CLIENT UNBLOCK are exchanged.
SlipRepliesSwapped(c) ==
    \/ reply[c] # "none" /\ Goto(c, "done") /\ UNCHANGED reply
    \/ /\ reply[c] = "none"
       /\ \/ ~saw[c].woke /\ Goto(c, "done") /\ Answer(c, "nil")
          \/ /\ saw[c].woke /\ saw[c].external /\ Goto(c, "done")
             /\ Answer(c, IF saw[c].errored THEN "nil" ELSE "error")
          \/ saw[c].woke /\ ~saw[c].external /\ Goto(c, "register") /\ UNCHANGED reply

\* What the loop does once its waiter is cancelled.
AfterWait(c) ==
    \/ reply[c] # "none" /\ Goto(c, "done") /\ UNCHANGED reply
    \/ /\ reply[c] = "none"
       /\ \/ ~saw[c].woke /\ Goto(c, "done") /\ Answer(c, "nil")
          \/ /\ saw[c].woke /\ saw[c].external /\ Goto(c, "done")
             /\ Answer(c, IF saw[c].errored THEN "error" ELSE "nil")
          \/ saw[c].woke /\ ~saw[c].external /\ Goto(c, "register") /\ UNCHANGED reply

\* ... and the mirror, after which the command replies or loops.
CancelUncount(c) ==
    /\ pc[c] = "uncount"
    /\ waiterCount' = waiterCount - 1
    /\ AfterWait(c)
    /\ IF pc'[c] = "done"
       THEN Looked(c, Key) /\ stray' = stray \cup Unused(c)
       ELSE UNCHANGED ghost
    /\ UNCHANGED <<command, items, flight, byKey, byClient, wt, pos, saw, ub, answered1, budget>>

ClientStep(c) ==
    \/ TryPop(c) \/ TryMove(c) \/ MovePush(c) \/ MoveLoad(c) \/ MoveNotify(c)
    \/ TryRead(c) \/ Register(c) \/ Count(c) \/ Deadline(c) \/ Wait(c)
    \/ ReadExternal(c) \/ ReadErrored(c)
    \/ CancelClose(c) \/ CancelDetach(c) \/ CancelUncount(c)

-----------------------------------------------------------------------------
(* Writers on other connections *)

\* A call of another connection.
Call(what) == what \in Calls /\ budget > 0 /\ budget' = budget - 1

\* LPUSH, RPUSH, ZADD, XADD: the write, then fire once the shard is unlocked.
Push(k) ==
    /\ Call("push")
    /\ items' = [items EXCEPT ![k] = @ + 1]
    /\ fired' = [fired EXCEPT ![k] = @ + 1]
    /\ UNCHANGED <<command, notifying, firedAll, sending, hub, wt, pc, local, ub, answered1, ghost>>

\* RPOPLPUSH of a client that does not block: the store fires no event.
Shift(src, dst) ==
    /\ Call("shift")
    /\ items[src] > 0
    /\ items' = [[items EXCEPT ![src] = @ - 1] EXCEPT ![dst] = @ + 1]
    /\ Stray({dst})
    /\ UNCHANGED <<command, flight, hub, wt, pc, local, ub, answered1, woken>>

\* DEL of an existing key, or its expiry.
Del(k) ==
    /\ Call("del")
    /\ items[k] > 0
    /\ items' = [items EXCEPT ![k] = 0]
    /\ firedAll' = [firedAll EXCEPT ![k] = @ + 1]
    /\ Stray({})
    /\ UNCHANGED <<command, fired, notifying, sending, hub, wt, pc, local, ub, answered1, woken>>

\* Notify's fast path.
NotifyLoad(k) ==
    /\ fired[k] > 0
    /\ fired' = [fired EXCEPT ![k] = @ - 1]
    /\ notifying' = IF waiterCount = 0 THEN notifying ELSE [notifying EXCEPT ![k] = @ + 1]
    /\ UNCHANGED <<command, items, firedAll, sending, hub, wt, pc, local, ub, answered1, budget, ghost>>

Notify(k) ==
    /\ notifying[k] > 0
    /\ notifying' = [notifying EXCEPT ![k] = @ - 1]
    /\ NotifyLocked(k)
    /\ UNCHANGED <<command, items, fired, firedAll, sending, byClient, waiterCount>>
    /\ UNCHANGED <<pc, local, ub, answered1, budget>>

\* NotifyAll takes the key's set under the mutex and sends after it.
NotifyAll(k) ==
    /\ firedAll[k] > 0
    /\ firedAll' = [firedAll EXCEPT ![k] = @ - 1]
    /\ sending' = sending \cup byKey[k]
    /\ byKey' = [byKey EXCEPT ![k] = {}]
    /\ UNCHANGED <<command, items, fired, notifying, byClient, waiterCount, wt>>
    /\ UNCHANGED <<pc, local, ub, answered1, budget, ghost>>

NotifyAllSend(w) ==
    /\ w \in sending
    /\ sending' = sending \ {w}
    /\ Send({w})
    /\ UNCHANGED <<command, items, fired, notifying, firedAll, hub, pc, local, ub, answered1, budget, ghost>>

-----------------------------------------------------------------------------
(* CLIENT UNBLOCK *)

NoUnblock == [phase |-> "none"]

\* The snapshot of the client's waiters (a client has at most one).
UnblockCall(c, reason) ==
    /\ ub = NoUnblock
    /\ Call("unblock")
    /\ ub' = IF byClient[c] = {} THEN NoUnblock
             ELSE [phase |-> "mark", c |-> c, reason |-> reason,
                   w |-> CHOOSE w \in byClient[c] : TRUE]
    /\ UNCHANGED <<command, items, flight, hub, wt, pc, local, answered1, ghost>>

\* The flags, unless the waiter is closed.
UnblockMark ==
    /\ ub.phase = "mark"
    /\ IF ub.w = Waiter(ub.c) /\ ~wt[ub.c].closed
       THEN /\ wt' = [wt EXCEPT ![ub.c].external = TRUE,
                                ![ub.c].err = @ \/ ub.reason = "ERROR"]
            /\ ub' = [ub EXCEPT !.phase = "send"]
       ELSE ub' = NoUnblock /\ UNCHANGED wt
    /\ UNCHANGED <<command, items, flight, hub, pc, local, answered1, budget, ghost>>

\* The wake, and the reply 1 whether or not the channel had room.
UnblockSend ==
    /\ ub.phase = "send"
    /\ Send({ub.w})
    /\ answered1' = answered1 \cup {<<ub.c, ub.reason>>}
    /\ ub' = NoUnblock
    /\ UNCHANGED <<command, items, flight, hub, pc, local, budget, ghost>>

-----------------------------------------------------------------------------
Init ==
    /\ command \in Workload
    /\ items = [k \in Key |-> 0]
    /\ fired = [k \in Key |-> 0] /\ notifying = [k \in Key |-> 0]
    /\ firedAll = [k \in Key |-> 0] /\ sending = {}
    /\ byKey = [k \in Key |-> {}] /\ byClient = [c \in Client |-> {}]
    /\ waiterCount = 0
    /\ wt = [c \in Client |-> [Fresh(0) EXCEPT !.closed = TRUE]]
    /\ pc = [c \in Client |-> "fast"] /\ pos = [c \in Client |-> 1]
    /\ saw = [c \in Client |-> [woke |-> FALSE, external |-> FALSE, errored |-> FALSE]]
    /\ reply = [c \in Client |-> "none"]
    /\ ub = NoUnblock /\ answered1 = {}
    /\ budget = MaxCalls
    /\ woken = {} /\ stray = {}

Deliver ==
    \/ \E k \in Key : NotifyLoad(k) \/ Notify(k) \/ NotifyAll(k)
    \/ \E w \in sending : NotifyAllSend(w)
    \/ UnblockMark \/ UnblockSend

Next ==
    \/ \E c \in Client : ClientStep(c)
    \/ \E k \in Key : Push(k) \/ Del(k)
    \/ \E src, dst \in Key : Shift(src, dst)
    \/ \E c \in Client, reason \in {"TIMEOUT", "ERROR"} : UnblockCall(c, reason)
    \/ Deliver

Spec == Init /\ [][Next]_vars

\* The scheduler runs every goroutine that can run; it owes the server no
\* further commands.
FairSpec == Spec /\ WF_vars(Deliver) /\ \A c \in Client : WF_vars(ClientStep(c))

-----------------------------------------------------------------------------
(* Properties *)

\* Types of the hub's maps, of the waiters and of the loop's locals; the
\* mirror of the waiter count never goes negative.
TypeOK ==
    /\ command \in Workload
    /\ items \in [Key -> Nat]
    /\ fired \in [Key -> Nat] /\ notifying \in [Key -> Nat] /\ firedAll \in [Key -> Nat]
    /\ sending \subseteq Client \X Nat
    /\ byKey \in [Key -> SUBSET (Client \X Nat)]
    /\ byClient \in [Client -> SUBSET (Client \X Nat)]
    /\ waiterCount \in Nat
    /\ wt \in [Client -> [gen : Nat, full : BOOLEAN, closed : BOOLEAN,
                          external : BOOLEAN, err : BOOLEAN]]
    /\ pc \in [Client -> {"fast", "recheck", "push", "load", "notify", "register",
                          "count", "deadline", "wait", "external", "errored",
                          "close", "detach", "uncount", "done"}]
    /\ pos \in [Client -> Nat]
    /\ saw \in [Client -> [woke : BOOLEAN, external : BOOLEAN, errored : BOOLEAN]]
    /\ reply \in [Client -> {"none", "value", "nil", "error"}]
    /\ answered1 \subseteq Client \X {"TIMEOUT", "ERROR"}
    /\ budget \in 0 .. MaxCalls
    /\ woken \subseteq Client \X Key /\ stray \subseteq Key

\* Asleep in Wait with nothing in the channel.
Parked(c) == pc[c] = "wait" /\ ~wt[c].full

\* A client whose waiter is in the hub: between RegisterFor and Cancel's
\* second critical section, wherever the command is.
InHub(c) == ~wt[c].closed \/ pc[c] = "detach"

\* Nothing is left behind in the hub's maps: they hold only the current
\* waiter of a client that is still inside the loop, never one of an
\* earlier iteration or of a command that has replied (RegisterFor, Cancel).
NoLeakedWaiter ==
    /\ \A c \in Client : byClient[c] = IF InHub(c) THEN {Waiter(c)} ELSE {}
    /\ \A k \in Key : \A w \in byKey[k] :
          w \in byClient[w[1]] /\ k \in Keys(w[1])

\* A sleeping client can be reached from every key it waits for: it is in
\* the key's set, or NotifyAll has taken it out and is about to send to it.
\* Dropping waiters with a full channel (Notify) never drops one that sleeps.
SleepersReachable ==
    \A c \in Client : Parked(c) =>
        \A k \in Keys(c) : Waiter(c) \in byKey[k] \cup sending

\* The lock-free load of Notify never returns early while a client sleeps,
\* although the mirror is not updated under the hub's mutex.
FastPathSound ==
    /\ waiterCount = Cardinality({c \in Client :
                          (InHub(c) /\ pc[c] # "count") \/ pc[c] = "uncount"})
    /\ (\E c \in Client : Parked(c)) => waiterCount > 0

\* The hub is consistent whoever is between which two steps: the types hold, no
\* waiter is left behind, every sleeper can be reached, and the count that
\* lets Notify skip the mutex is never behind.
HubConsistent == TypeOK /\ NoLeakedWaiter /\ SleepersReachable /\ FastPathSound

\* What a command would find if it looked now; a read from "$" finds nothing.
Available(c) == command[c].op # "tail" /\ \E k \in Keys(c) : items[k] > 0

\* Nobody is between two steps: no call in flight, every client asleep or done.
Quiet ==
    /\ \A k \in Key : fired[k] = 0 /\ notifying[k] = 0 /\ firedAll[k] = 0
    /\ sending = {} /\ ub = NoUnblock
    /\ \A c \in Client : Parked(c) \/ pc[c] = "done"

\* "blocked consumers register a Waiter that wakes on the first matching key"
\* (waiters.go): once everything has settled a client sleeps next to an item
\* only if, since its key was last empty, a wake for the key went astray.
NoSleeperNextToItem ==
    Quiet => \A c \in Client : Parked(c) /\ command[c].op # "tail" =>
                 \A k \in Keys(c) : items[k] > 0 => k \in stray

\* A CLIENT UNBLOCK call has set the flags of a waiter of c.
Reached(c, reason) ==
    \/ <<c, reason>> \in answered1
    \/ ub.phase = "send" /\ ub.c = c /\ ub.reason = reason

\* A command without a timeout answers nil only because CLIENT UNBLOCK ...
\* TIMEOUT reached it, and an error only because of UNBLOCK ... ERROR.
UnblockRepliesJustified ==
    \A c \in Client :
        /\ reply[c] = "error" => Reached(c, "ERROR")
        /\ reply[c] = "nil" /\ ~command[c].timed => Reached(c, "TIMEOUT")

\* A blocking command with a timeout always answers, whatever wakes reach it
\* or pass it by (Wait's timer, the deadline of the loop).
TimedCommandsReturn == \A c \in Client : command[c].timed => <>(pc[c] = "done")

\* A client that blocks on a key with an item gets one, or someone else takes
\* it away (the re-check after RegisterFor, Notify).
ItemsAreServed == \A c \in Client : Available(c) ~> (pc[c] = "done" \/ ~Available(c))

=============================================================================
