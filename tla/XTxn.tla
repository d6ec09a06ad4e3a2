-------------------------------- MODULE XTxn --------------------------------
(***************************************************************************)
(* The cross-primitive two-phase commit of llmstack/xtxn.go, with the two  *)
(* participants engine/xtxn_participants.go registers: admission by QUOTA, *)
(* through Engine.QuotaEvaluate, and grounding of an answer, which debits  *)
(* the session's risk budget.                                              *)
(*                                                                         *)
(* A transaction is an object: a call looks its xid up under the           *)
(* coordinator's mutex, drops that mutex and goes on with the pointer, so  *)
(* XTXN.FORGET and a new XTXN.BEGIN of the xid may come in between.        *)
(*                                                                         *)
(* A quota policy is a list of gates and a mode.  Each gate has what was   *)
(* taken from it and a limit; an operation asks one unit of each gate of   *)
(* the policy.  The price of a market is "taken" from no one: the gate     *)
(* "market" compares it with a ceiling.                                    *)
(***************************************************************************)
EXTENDS Integers, Sequences, Functions

CONSTANTS Client, Xid,
          None,
          Policies,    \* the quota policies: [gates : Seq(Gate), mode : {"all", "any"}]
          Limit,       \* gate -> its budget at first
          Budgets,     \* the budgets that may be set later
          DefaultRisk, \* defaultRiskBudget, of a session that was not set
          MaxObj,      \* bound on XTXN.BEGIN
          MaxStage,    \* bound on operations staged
          MaxCalls     \* bound on the other calls

Gate == {"cost", "carbon", "risk", "rate", "market"}
Obj  == 1 .. MaxObj

\* Cost and rate decide again when they are consumed, a market price is not
\* consumed; COST.BUDGET, CARBON.BUDGET and RISK.BUDGET.SET set limits, the other
\* two come with the operation.
Rechecked == {"cost", "rate"}
Consumable == Gate \ {"market"}
Settable  == {"cost", "carbon", "risk"}

ASSUME XTxnBounds ==
    /\ {MaxObj, MaxStage, MaxCalls} \subseteq Nat
    /\ Policies \subseteq [gates : Seq(Gate), mode : {"all", "any"}]
    /\ \A p \in Policies : \A i, j \in 1 .. Len(p.gates) : p.gates[i] = p.gates[j] => i = j
    /\ Limit \in [Gate -> Nat] /\ Limit["risk"] > 0
    /\ Budgets \subseteq Nat /\ DefaultRisk \in Nat \ {0}
    /\ None \notin Client

VARIABLES
    txns,        \* XTxnCoordinator.txns: xid -> object, 0 when absent
    txn,         \* the objects begun so far
    xmu, tmu, qmu,  \* holders of the coordinator's, the objects', the quota mutex
    st,          \* staged operations of the participants: <<object, index>>
    spent, limit,\* gate -> units taken, and its budget or ceiling
    policy,      \* the policy of the operations
    call,        \* per client: where it is
    budget,      \* calls left
    applied,     \* history: <<token, gate>> of each effect of a commit
    moved,       \* history: objects under way when someone else's step took the
                 \* last room of a gate
    unknown,     \* history: objects whose COMMIT found a token gone
    mishap       \* history, a set: "debit", a risk debit that asked no quota; a
                 \* gate, when its last room was taken inside an evaluation by
                 \* a step that is not the evaluation's

vars == <<txns, txn, xmu, tmu, qmu, st, spent, limit, policy, call, budget, applied, moved, unknown,
          mishap>>

locks   == <<xmu, tmu, qmu>>
effects == <<spent, limit, applied, moved, unknown, mishap>>
Idle    == [pc |-> "idle"]
At(c, pc) == call[c].pc = pc
Goto(c, f) == call' = [call EXCEPT ![c] = f]
Return(c)  == Goto(c, Idle)

\* A call of a client that is not in one.
Start(c) == At(c, "idle") /\ budget > 0 /\ budget' = budget - 1

Staged(o)  == txn[o].staged
Operations == SumFunction([o \in 1 .. Len(txn) |-> Len(Staged(o))])
SetState(o, s) == txn' = [txn EXCEPT ![o].state = s]

----------------------------------------------------------------------------
(* Begin, Stage, Forget: under the coordinator's mutex *)

Begin(c, x) ==
    /\ At(c, "idle") /\ xmu = None
    /\ Len(txn) < MaxObj /\ txns[x] = 0
    /\ txn' = Append(txn, [state |-> "open", staged |-> <<>>, prepared |-> 0, committed |-> 0])
    /\ txns' = [txns EXCEPT ![x] = Len(txn) + 1]
    /\ UNCHANGED <<locks, st, policy, call, budget, effects>>

\* Stage holds the coordinator's mutex while it waits for the object's.
StageEnter(c, x) ==
    /\ At(c, "idle") /\ xmu = None
    /\ txns[x] # 0 /\ Operations < MaxStage
    /\ xmu' = c
    /\ Goto(c, [pc |-> "stage", obj |-> txns[x]])
    /\ UNCHANGED <<txns, txn, tmu, qmu, st, policy, budget, effects>>

StageAdd(c, p) ==
    /\ At(c, "stage") /\ tmu[call[c].obj] = None
    /\ txn' = IF txn[call[c].obj].state = "open"
              THEN [txn EXCEPT ![call[c].obj].staged = Append(@, p)] ELSE txn
    /\ xmu' = None
    /\ Return(c)
    /\ UNCHANGED <<txns, tmu, qmu, st, policy, budget, effects>>

\* The object lives on in the calls that hold it; its tokens stay staged.
Forget(c, x) ==
    /\ Start(c) /\ xmu = None /\ txns[x] # 0
    /\ txns' = [txns EXCEPT ![x] = 0]
    /\ UNCHANGED <<txn, locks, st, policy, call, effects>>

----------------------------------------------------------------------------
(* The gates *)

Gates == Range(policy.gates)

\* The last unit of a budget may be taken, but not that of a risk budget
\* (RiskBudgets.Peek); a cost budget of 0 is none; a price may reach the ceiling.
HasRoom(g) ==
    CASE g = "risk"   -> spent[g] + 1 < limit[g]
      [] g = "market" -> spent[g] <= limit[g]
      [] g = "cost"   -> limit[g] = 0 \/ spent[g] + 1 <= limit[g]
      [] OTHER        -> spent[g] + 1 <= limit[g]

Underway == {"preparing", "prepared", "committing"}

\* The gates that this step leaves without room; the histories are told, o
\* being the object whose step it is.
Closing == {g \in Gates : HasRoom(g) /\ ~HasRoom(g)'}
Tell(o) == moved' = moved \cup {p \in 1 .. Len(txn) :
                                  p # o /\ txn[p].state \in Underway /\ Closing # {}}
Beside(m) == mishap' = mishap \cup m \cup (IF qmu = None THEN {} ELSE Closing)

\* A unit of gate g is taken for token t.
Spend(g, t) ==
    /\ spent' = [spent EXCEPT ![g] = @ + 1]
    /\ UNCHANGED <<limit, unknown>>
    /\ applied' = applied \cup {<<t, g>>}
    /\ Tell(t[1])

----------------------------------------------------------------------------
(* Prepare, Commit, Abort *)

Verb == {"prepare", "commit", "abort"}

Lookup(c, x, verb) ==
    /\ Start(c) /\ xmu = None /\ txns[x] # 0
    /\ Goto(c, [pc |-> "enter", verb |-> verb, obj |-> txns[x]])
    /\ UNCHANGED <<txns, txn, locks, st, policy, effects>>

\* The states in which each call goes on.
Allows(verb) == CASE verb = "prepare" -> {"open"}
                  [] verb = "commit"  -> {"prepared"}
                  [] verb = "abort"   -> {"open", "prepared"}

Enter(c) ==
    /\ At(c, "enter") /\ tmu[call[c].obj] = None
    /\ LET o == call[c].obj IN
       IF txn[o].state \in Allows(call[c].verb)
       THEN /\ tmu' = [tmu EXCEPT ![o] = c]
            /\ Goto(c, [pc |-> call[c].verb, obj |-> o])
            /\ SetState(o, CASE call[c].verb = "prepare" -> "preparing"
                             [] call[c].verb = "commit" -> "committing"
                             [] OTHER -> txn[o].state)
       ELSE Return(c) /\ UNCHANGED <<tmu, txn>>
    /\ UNCHANGED <<txns, xmu, qmu, st, policy, budget, effects>>

\* The call on o ends in state s and releases it.
End(c, o, s) ==
    /\ SetState(o, s)
    /\ tmu' = [tmu EXCEPT ![o] = None]
    /\ Return(c)

\* Slip: only the last token is discarded.
SlipAbortLast(c) ==
    /\ At(c, "abort")
    /\ st' = st \ {<<call[c].obj, txn[call[c].obj].prepared>>}
    /\ End(c, call[c].obj, "aborted")
    /\ UNCHANGED <<txns, xmu, qmu, policy, budget, effects>>

\* Abort, and the end of a Prepare that failed: every token is discarded.
Abort(c) ==
    /\ At(c, "abort")
    /\ st' = {t \in st : t[1] # call[c].obj}
    /\ End(c, call[c].obj, "aborted")
    /\ UNCHANGED <<txns, xmu, qmu, policy, budget, effects>>

\* The operation prepared next, and committed next.
ToPrepare(o) == txn[o].prepared + 1
ToCommit(o)  == txn[o].committed + 1

\* A participant keeps the operation under a token.
Token(c) ==
    LET o == call[c].obj IN
    /\ At(c, "token")
    /\ st' = st \cup {<<o, ToPrepare(o)>>}
    /\ txn' = [txn EXCEPT ![o].prepared = @ + 1]
    /\ Goto(c, [pc |-> "prepare", obj |-> o])
    /\ UNCHANGED <<txns, locks, policy, budget, effects>>

PreparedAll(c) ==
    LET o == call[c].obj IN
    /\ At(c, "prepare") /\ ToPrepare(o) > Len(Staged(o))
    /\ End(c, o, "prepared")
    /\ UNCHANGED <<txns, xmu, qmu, st, policy, budget, effects>>

\* Slip: the participant is looked up under the coordinator's mutex.
SlipGroundLooksUp(c) ==
    LET o == call[c].obj IN
    /\ At(c, "prepare") /\ ToPrepare(o) <= Len(Staged(o)) /\ Staged(o)[ToPrepare(o)] = "ground"
    /\ xmu = None
    /\ \E pc \in {"token", "abort"} : Goto(c, [pc |-> pc, obj |-> o])
    /\ UNCHANGED <<txns, txn, locks, st, policy, budget, effects>>

\* riskParticipant.Prepare: the answer is grounded, or the call aborts.
PrepareGround(c) ==
    LET o == call[c].obj IN
    /\ At(c, "prepare") /\ ToPrepare(o) <= Len(Staged(o)) /\ Staged(o)[ToPrepare(o)] = "ground"
    /\ \E pc \in {"token", "abort"} : Goto(c, [pc |-> pc, obj |-> o])
    /\ UNCHANGED <<txns, txn, locks, st, policy, budget, effects>>

\* Slip: the quota participant trusts Commit to look at the budgets.
SlipPrepareUnseen(c) ==
    LET o == call[c].obj IN
    /\ At(c, "prepare") /\ ToPrepare(o) <= Len(Staged(o)) /\ Staged(o)[ToPrepare(o)] = "quota"
    /\ Goto(c, [pc |-> "token", obj |-> o])
    /\ UNCHANGED <<txns, txn, locks, st, policy, budget, effects>>

\* quotaParticipant.Prepare: QuotaEvaluate with commit false.
PrepareQuota(c) ==
    LET o == call[c].obj IN
    /\ At(c, "prepare") /\ ToPrepare(o) <= Len(Staged(o)) /\ Staged(o)[ToPrepare(o)] = "quota"
    /\ qmu = None /\ qmu' = c
    /\ Goto(c, [pc |-> "peek", why |-> "prepare", obj |-> o, gate |-> 1, ok |-> {}])
    /\ UNCHANGED <<txns, txn, xmu, tmu, st, policy, budget, effects>>

\* Slip: the last operation is taken for done.
SlipCommittedEarly(c) ==
    LET o == call[c].obj IN
    /\ At(c, "commit") /\ ToCommit(o) >= txn[o].prepared
    /\ End(c, o, "committed")
    /\ UNCHANGED <<txns, xmu, qmu, st, policy, budget, effects>>

CommittedAll(c) ==
    LET o == call[c].obj IN
    /\ At(c, "commit") /\ ToCommit(o) > txn[o].prepared
    /\ End(c, o, "committed")
    /\ UNCHANGED <<txns, xmu, qmu, st, policy, budget, effects>>

\* riskParticipant.Commit debits the budget whatever it holds; a token it does
\* not know is an error.
CommitGround(c) ==
    LET o == call[c].obj
        t == <<o, ToCommit(o)>> IN
    /\ At(c, "commit") /\ ToCommit(o) <= txn[o].prepared /\ Staged(o)[ToCommit(o)] = "ground"
    /\ st' = st \ {t}
    /\ IF t \in st
       THEN /\ Spend("risk", t) /\ Beside({"debit"})
            /\ txn' = [txn EXCEPT ![o].committed = @ + 1]
            /\ UNCHANGED <<call, tmu>>
       ELSE /\ End(c, o, "commit_partial")
            /\ unknown' = unknown \cup {o}
            /\ UNCHANGED <<spent, limit, applied, moved, mishap>>
    /\ UNCHANGED <<txns, xmu, qmu, policy, budget>>

\* quotaParticipant.Commit drops the token and evaluates with commit true.
CommitQuota(c) ==
    LET o == call[c].obj
        t == <<o, ToCommit(o)>> IN
    /\ At(c, "commit") /\ ToCommit(o) <= txn[o].prepared /\ Staged(o)[ToCommit(o)] = "quota"
    /\ st' = st \ {t}
    /\ IF t \in st
       THEN /\ qmu = None /\ qmu' = c
            /\ Goto(c, [pc |-> "peek", why |-> "commit", obj |-> o, gate |-> 1, ok |-> {}])
            /\ UNCHANGED <<txn, tmu, unknown>>
       ELSE End(c, o, "commit_partial") /\ unknown' = unknown \cup {o} /\ UNCHANGED qmu
    /\ UNCHANGED <<txns, xmu, policy, budget, spent, limit, applied, moved, mishap>>

----------------------------------------------------------------------------
(* Engine.QuotaEvaluate: every gate is peeked, then every gate consumed *)

\* QUOTA.ADMIT.
Admit(c) ==
    /\ Start(c) /\ qmu = None /\ qmu' = c
    /\ Goto(c, [pc |-> "peek", why |-> "admit", obj |-> 0, gate |-> 1, ok |-> {}])
    /\ UNCHANGED <<txns, txn, xmu, tmu, st, policy, effects>>

Peek(c) ==
    /\ At(c, "peek") /\ call[c].gate <= Len(policy.gates)
    /\ LET g == policy.gates[call[c].gate] IN
       call' = [call EXCEPT ![c].gate = @ + 1, ![c].ok = IF HasRoom(g) THEN @ \cup {g} ELSE @]
    /\ UNCHANGED <<txns, txn, locks, st, policy, budget, effects>>

Admitted(ok) == IF policy.mode = "any" THEN ok # {} ELSE ok = Gates

\* The evaluation is over: the quota mutex is released, and the call goes on.
Leave(c, pc) ==
    /\ qmu' = None
    /\ Goto(c, IF pc = "idle" THEN Idle ELSE [pc |-> pc, obj |-> call[c].obj])

\* Denied, or a peek: nothing is consumed.
Decide(c) ==
    LET why == call[c].why
        yes == Admitted(call[c].ok) IN
    /\ At(c, "peek") /\ call[c].gate > Len(policy.gates)
    /\ ~ (yes /\ why # "prepare")
    /\ \/ why = "prepare" /\ Leave(c, IF yes THEN "token" ELSE "abort")
       \/ why = "admit" /\ Leave(c, "idle")
       \/ why = "commit" /\ Leave(c, "partial")
    /\ UNCHANGED <<txns, txn, xmu, tmu, st, policy, budget, effects>>

\* Slip: the quota mutex covers the peeks only.
SlipDecideUnlocks(c) ==
    /\ At(c, "peek") /\ call[c].gate > Len(policy.gates)
    /\ Admitted(call[c].ok) /\ call[c].why # "prepare"
    /\ qmu' = None
    /\ call' = [call EXCEPT ![c].pc = "consume", ![c].gate = 1]
    /\ UNCHANGED <<txns, txn, xmu, tmu, st, policy, budget, effects>>

DecideConsume(c) ==
    /\ At(c, "peek") /\ call[c].gate > Len(policy.gates)
    /\ Admitted(call[c].ok) /\ call[c].why # "prepare"
    /\ call' = [call EXCEPT ![c].pc = "consume", ![c].gate = 1]
    /\ UNCHANGED <<txns, txn, locks, st, policy, budget, effects>>

\* A gate that was admitted is consumed, if it is to be and, where it decides
\* again, if the room is still there.
Consume(c) ==
    LET g == policy.gates[call[c].gate]
        t == IF call[c].why = "commit" THEN <<call[c].obj, ToCommit(call[c].obj)>> ELSE <<0, 0>>
    IN /\ At(c, "consume") /\ call[c].gate <= Len(policy.gates)
       /\ IF g \in call[c].ok \cap Consumable /\ (g \in Rechecked => HasRoom(g))
          THEN Spend(g, t) /\ UNCHANGED mishap
          ELSE UNCHANGED effects
       /\ call' = [call EXCEPT ![c].gate = @ + 1]
       /\ UNCHANGED <<txns, txn, locks, st, policy, budget>>

Consumed(c) ==
    /\ At(c, "consume") /\ call[c].gate > Len(policy.gates)
    /\ Leave(c, IF call[c].why = "commit" THEN "commit" ELSE "idle")
    /\ IF call[c].why = "commit"
       THEN txn' = [txn EXCEPT ![call[c].obj].committed = @ + 1] ELSE UNCHANGED txn
    /\ UNCHANGED <<txns, xmu, tmu, st, policy, budget, effects>>

\* A participant's Commit failed: the ones after it are left as they are.
Partial(c) ==
    /\ At(c, "partial")
    /\ End(c, call[c].obj, "commit_partial")
    /\ UNCHANGED <<txns, xmu, qmu, st, policy, budget, effects>>

----------------------------------------------------------------------------
(* Commands of other connections, outside the quota mutex *)

\* COST.CHARGE and a rate limit refuse what has no room; CARBON.CHARGE and
\* RISK.BUDGET.DEBIT do not; a market price rises.
Charge(c, g) ==
    /\ Start(c) /\ (g \in Rechecked => HasRoom(g))
    /\ Spend(g, <<0, 0>>)
    /\ Beside(IF g = "risk" THEN {"debit"} ELSE {})
    /\ UNCHANGED <<txns, txn, locks, st, policy, call>>

\* What was taken comes back: a window passes, a bucket drains, a price falls, a
\* RESET.  A risk balance has only RISK.BUDGET.SET and RISK.BUDGET.RESET.
Refill(c, g) ==
    /\ Start(c) /\ g # "risk"
    /\ \E n \in 0 .. spent[g] - 1 : spent' = [spent EXCEPT ![g] = n]
    /\ UNCHANGED <<txns, txn, locks, st, policy, call, limit, applied, moved, unknown, mishap>>

\* COST.BUDGET and CARBON.BUDGET keep what was taken; RISK.BUDGET.SET begins with
\* a full balance, of the default budget when given 0, as after a RESET.
SetBudget(c, g, n) ==
    /\ Start(c) /\ g \in Settable
    /\ limit' = [limit EXCEPT ![g] = IF g = "risk" /\ n = 0 THEN DefaultRisk ELSE n]
    /\ spent' = IF g = "risk" THEN [spent EXCEPT ![g] = 0] ELSE spent
    /\ Tell(0) /\ Beside({})
    /\ UNCHANGED <<txns, txn, locks, st, policy, call, applied, unknown>>

----------------------------------------------------------------------------
Init ==
    /\ txns = [x \in Xid |-> 0] /\ txn = <<>>
    /\ xmu = None /\ tmu = [o \in Obj |-> None] /\ qmu = None
    /\ st = {} /\ spent = [g \in Gate |-> 0] /\ limit = Limit
    /\ policy \in Policies
    /\ call = [c \in Client |-> Idle]
    /\ budget = MaxCalls
    /\ applied = {} /\ moved = {} /\ unknown = {} /\ mishap = {}

Step(c) ==
    \/ \E p \in {"quota", "ground"} : StageAdd(c, p)
    \/ Enter(c) \/ Abort(c) \/ Token(c) \/ PreparedAll(c) \/ PrepareGround(c) \/ PrepareQuota(c)
    \/ CommittedAll(c) \/ CommitGround(c) \/ CommitQuota(c)
    \/ Peek(c) \/ Decide(c) \/ DecideConsume(c) \/ Consume(c) \/ Consumed(c) \/ Partial(c)

Next ==
    \E c \in Client :
        \/ Step(c) \/ Admit(c)
        \/ \E g \in Gates : Charge(c, g) \/ Refill(c, g)
                          \/ \E n \in Budgets \cup {0} : SetBudget(c, g, n)
        \/ \E x \in Xid : Begin(c, x) \/ StageEnter(c, x) \/ Forget(c, x)
                          \/ \E verb \in Verb : Lookup(c, x, verb)

Spec == Init /\ [][Next]_vars

\* A goroutine inside a call goes on; nobody owes a call.
FairSpec == Spec /\ \A c \in Client : WF_vars(Step(c))

----------------------------------------------------------------------------
(* Properties *)

Done   == {"committed", "aborted", "commit_partial"}
States == {"open", "preparing", "prepared", "committing"} \cup Done

\* Types; a token belongs to an operation prepared; a state inside a call goes
\* with a held mutex.
TypeOK ==
    /\ txns \in [Xid -> 0 .. Len(txn)] /\ Len(txn) <= MaxObj
    /\ \A o \in 1 .. Len(txn) :
         /\ txn[o].state \in States /\ txn[o].staged \in Seq({"quota", "ground"})
         /\ 0 <= txn[o].committed /\ txn[o].committed <= txn[o].prepared
         /\ txn[o].prepared <= Len(Staged(o))
         /\ txn[o].state \in {"preparing", "committing"} => tmu[o] # None
    /\ xmu \in Client \cup {None} /\ qmu \in Client \cup {None}
    /\ tmu \in [Obj -> Client \cup {None}]
    /\ st \subseteq Obj \X Nat
    /\ \A t \in st : t[1] <= Len(txn) /\ t[2] \in 1 .. txn[t[1]].prepared
    /\ spent \in [Gate -> Nat] /\ limit \in [Gate -> Nat] /\ budget \in 0 .. MaxCalls

Full(o, i) == IF Staged(o)[i] = "ground" THEN {"risk"} ELSE Gates \cap Consumable
Effect(o, i) == {g \in Gate : <<<<o, i>>, g>> \in applied}

\* A transaction that answers "committed" has applied every operation staged
\* in it, each gate of each, unless the last room of a gate that decides again
\* went inside an evaluation: QuotaEvaluate then stays admitted although the
\* charge was refused.
CommittedIsWhole ==
    policy.mode = "all" /\ mishap \cap Rechecked = {} =>
        \A o \in 1 .. Len(txn) : txn[o].state = "committed" =>
            \A i \in 1 .. Len(Staged(o)) : Effect(o, i) = Full(o, i)

\* An aborted transaction has no effect and leaves nothing staged, whatever
\* PREPARE, COMMIT, ABORT and FORGET ran beside each other.
AbortedIsNothing ==
    \A o \in 1 .. Len(txn) : txn[o].state = "aborted" =>
        /\ \A i \in 1 .. Len(Staged(o)) : Effect(o, i) = {}
        /\ \A t \in st : t[1] # o

\* COMMIT fails half-way only when a gate was closed to it after it began to
\* prepare: someone else took the last room of a gate or lowered its budget ("a
\* budget changed between prepare and commit"), or the transaction's own earlier
\* operations were committed and may have.  It never fails because a token of
\* its own was gone.
PartialIsContended ==
    \A o \in 1 .. Len(txn) : txn[o].state = "commit_partial" =>
        o \notin unknown /\ (o \in moved \/ txn[o].committed > 0)

\* Admission alone never exhausts the risk budget, although its debit checks
\* nothing: the quota mutex makes peek and debit one.  Not so when the budget is
\* set anew between the two, or debited by others.
RiskWithinBudget == mishap \cap {"debit", "risk"} = {} => spent["risk"] < limit["risk"]

\* Transactions, tokens, mutexes and budgets keep their types, a state between
\* two calls goes with a held mutex, and admission keeps to the budget.
BudgetsConsistent == TypeOK /\ RiskWithinBudget

\* Each call returns: STAGE waits for an object with the coordinator locked,
\* and no call that holds an object needs the coordinator.
CallsReturn == \A c \in Client : (call[c] # Idle) ~> (call[c] = Idle)

============================================================================
