-------------------------- MODULE PrimitivesProofs --------------------------
(***************************************************************************)
(* Proofs about two of the coordination primitives that commands are built *)
(* on: the cross-primitive transactions of XTxn, for any clients, xids,    *)
(* budgets and bounds, and IDEMPOTENT, the module Idempotent, for any      *)
(* clients, window and bounds.                                             *)
(*                                                                         *)
(* The two have no name and no state in common: a theorem of the one puts  *)
(* nothing on the variables of the other.                                  *)
(***************************************************************************)
EXTENDS XTxn, Idempotent, TLAPS

----------------------------------------------------------------------------
(* XTxn: the inductive invariant *)

\* Where a client may be; an evaluation of the quota policy; a transaction.
Places == {"idle", "stage", "enter", "prepare", "commit", "abort", "token", "partial",
           "peek", "consume"}
Eval   == [pc : {"peek", "consume"}, why : {"prepare", "commit", "admit"}, obj : Nat,
           gate : Nat, ok : SUBSET Gate]
Record == [state : States, staged : Seq({"quota", "ground"}), prepared : Nat, committed : Nat]

\* What a client is doing; Mine: its call holds an object.
Evaluates(c) == call[c].pc \in {"peek", "consume"}
For(c, why)  == Evaluates(c) /\ call[c].why = why
Preparing(c) == call[c].pc \in {"prepare", "token"} \/ For(c, "prepare")
Committing(c) == call[c].pc \in {"commit", "partial"} \/ For(c, "commit")
Mine(c) == Preparing(c) \/ Committing(c) \/ call[c].pc = "abort"

\* The gates an evaluation has come past; the quota policy would admit one more
\* unit now.
Passed(k) == {policy.gates[i] : i \in 1 .. k - 1}
RoomNow   == IF policy.mode = "any" THEN \E g \in Gates : HasRoom(g) ELSE \A g \in Gates : HasRoom(g)

\* The runs of which CommittedIsWhole speaks.
Calm == policy.mode = "all" /\ mishap \cap Rechecked = {}

\* A client's call: where it is, and the mutexes it holds there.
CallPlace(c) ==
    /\ call[c].pc \in Places
    /\ call[c].pc \in {"stage", "enter"} \/ Mine(c) => call[c].obj \in 1 .. Len(txn)
    /\ call[c].pc = "enter" => call[c].verb \in Verb
    /\ Evaluates(c) => call[c] \in Eval /\ qmu = c
    /\ Evaluates(c) => call[c].gate \in 1 .. Len(policy.gates) + 1 /\ call[c].ok \subseteq Gates
    /\ Mine(c) => tmu[call[c].obj] = c
    /\ call[c].pc = "consume" => call[c].why # "prepare" /\ Admitted(call[c].ok)

\* The state its transaction is in, and the operation that is next.
CallPhase(c) ==
    LET o == call[c].obj IN
    /\ Preparing(c) => txn[o].state = "preparing"
    /\ Committing(c) => txn[o].state = "committing"
    /\ call[c].pc = "abort" => txn[o].state \in {"open", "preparing", "prepared"}
    /\ call[c].pc = "token" \/ For(c, "prepare") => txn[o].prepared < Len(txn[o].staged)
    /\ For(c, "prepare") => txn[o].staged[txn[o].prepared + 1] = "quota"
    /\ call[c].pc = "partial" \/ For(c, "commit") => txn[o].committed < txn[o].prepared
    /\ For(c, "commit") => txn[o].staged[txn[o].committed + 1] = "quota"

\* A commit finds the tokens it has not come to; nothing is applied beyond the
\* operation it is at, and of that the gates it has passed.
CallTokens(c) ==
    LET o == call[c].obj IN
    /\ call[c].pc = "commit" => \A i \in Nat : txn[o].committed < i /\ i <= txn[o].prepared => <<o, i>> \in st
    /\ For(c, "commit") => \A i \in Nat : txn[o].committed + 1 < i /\ i <= txn[o].prepared => <<o, i>> \in st
    /\ call[c].pc = "commit" \/ (For(c, "commit") /\ call[c].pc = "peek") =>
           \A i \in Nat : txn[o].committed < i => Effect(o, i) = {}
    /\ For(c, "commit") => \A i \in Nat : txn[o].committed + 1 < i => Effect(o, i) = {}
    /\ call[c].pc = "consume" /\ call[c].why = "commit" /\ Calm =>
           Effect(o, txn[o].committed + 1) = Passed(call[c].gate) \cap Consumable

\* The room an evaluation found is still there when it consumes, unless a mishap
\* is recorded.
RoomKept(c) ==
    Evaluates(c) => \A i \in 1 .. Len(policy.gates) :
        policy.gates[i] \in call[c].ok /\ (call[c].pc = "consume" => call[c].gate <= i)
            => HasRoom(policy.gates[i]) \/ policy.gates[i] \in mishap

\* A transaction no gate was closed to, by others or by itself.
Free(o) == o \notin moved /\ txn[o].committed = 0
NeedsQuota(o) == \E i \in Nat : 0 < i /\ i <= txn[o].prepared /\ txn[o].staged[i] = "quota"

\* What was seen for a free transaction is there still, so that what PREPARE
\* admits COMMIT admits.
RoomFound(c) ==
    LET o == call[c].obj IN
    /\ For(c, "prepare") /\ Free(o) => \A g \in call[c].ok : HasRoom(g)
    /\ call[c].pc = "token" /\ Free(o) /\ txn[o].staged[txn[o].prepared + 1] = "quota" => RoomNow
    /\ call[c].pc = "commit" /\ Free(o) /\ NeedsQuota(o) => RoomNow
    /\ call[c].pc = "peek" /\ call[c].why = "commit" /\ Free(o) =>
           IF policy.mode = "any"
           THEN call[c].ok # {} \/ \E i \in call[c].gate .. Len(policy.gates) : HasRoom(policy.gates[i])
           ELSE \A i \in 1 .. Len(policy.gates) :
                    IF i < call[c].gate THEN policy.gates[i] \in call[c].ok ELSE HasRoom(policy.gates[i])
    /\ call[c].pc = "partial" => ~Free(o)

CallRoom(c) == RoomKept(c) /\ RoomFound(c)

CallOK(c) == CallPlace(c) /\ CallPhase(c) /\ CallTokens(c) /\ CallRoom(c)

\* The states of a transaction without effect.
Unapplied == {"open", "preparing", "prepared", "aborted"}

\* A transaction: how far its operations are.
ObjPhase(o) ==
    /\ txn[o].committed <= txn[o].prepared /\ txn[o].prepared <= Len(txn[o].staged)
    /\ txn[o].state \in {"preparing", "committing"} => tmu[o] # None
    /\ txn[o].state = "open" => txn[o].prepared = 0
    /\ txn[o].state \in Unapplied => txn[o].committed = 0
    /\ txn[o].state \in {"prepared", "committing", "committed"} =>
           txn[o].prepared = Len(txn[o].staged)
    /\ txn[o].state = "committed" => txn[o].committed = txn[o].prepared

\* Each operation prepared has its token until it is committed, and then its
\* effects.
ObjTokens(o) ==
    /\ txn[o].state \in {"preparing", "prepared"} =>
           \A i \in Nat : 0 < i /\ i <= txn[o].prepared => <<o, i>> \in st
    /\ \A i \in Nat : <<o, i>> \in st => 0 < i /\ i <= txn[o].prepared /\ txn[o].state # "aborted"
    /\ txn[o].state \in Unapplied => \A i \in Nat : Effect(o, i) = {}
    /\ Calm => \A i \in Nat : 0 < i /\ i <= txn[o].committed => Effect(o, i) = Full(o, i)

\* A quota operation that was prepared would be admitted again, as long as no
\* gate is closed to it.
ObjRoom(o) ==
    /\ txn[o].state \in {"preparing", "prepared"} /\ Free(o) /\ NeedsQuota(o) => RoomNow
    /\ txn[o].state = "commit_partial" => ~Free(o)

ObjOK(o) == ObjPhase(o) /\ ObjTokens(o) /\ ObjRoom(o)

\* Types, those of the histories included.
Shape ==
    /\ txn \in Seq(Record) /\ Len(txn) <= MaxObj /\ txns \in [Xid -> 0 .. Len(txn)]
    /\ xmu \in Client \cup {None} /\ qmu \in Client \cup {None}
    /\ tmu \in [Obj -> Client \cup {None}]
    /\ st \subseteq (1 .. Len(txn)) \X Nat
    /\ spent \in [Gate -> Nat] /\ limit \in [Gate -> Nat] /\ budget \in 0 .. MaxCalls
    /\ policy \in Policies /\ unknown = {} /\ limit["risk"] > 0
    /\ call = [c \in Client |-> call[c]]
    /\ \A o, i \in Nat, g \in Gate : <<<<o, i>>, g>> \in applied => o \in 0 .. Len(txn)

\* The inductive invariant of XTxn.
XInv ==
    /\ Shape /\ RiskWithinBudget
    /\ \A c \in Client : CallOK(c)
    /\ \A o \in 1 .. Len(txn) : ObjOK(o)

----------------------------------------------------------------------------
(* What a step of one client leaves of the others *)

\* A step of c on object o: a gate loses its room under the quota mutex, or with
\* a mishap recorded, and every other transaction under way is told.
Closes(c, o) ==
    \A g \in Gates : HasRoom(g) =>
        \/ HasRoom(g)'
        \/ /\ \A p \in 1 .. Len(txn) : p # o /\ txn[p].state \in Underway => p \in moved'
           /\ qmu \in {None, c} \/ g \in mishap'

Frame(c, o) ==
    /\ Len(txn') >= Len(txn) /\ policy' = policy
    /\ mishap \subseteq mishap' /\ moved \subseteq moved'
    /\ \A d \in Client \ {c} : call'[d] = call[d]
    /\ \A p \in (1 .. Len(txn)) \ {o} :
         /\ txn'[p] = txn[p] /\ tmu'[p] = tmu[p]
         /\ \A i \in Nat : /\ <<p, i>> \in st' <=> <<p, i>> \in st
                           /\ Effect(p, i)' = Effect(p, i)
    /\ qmu' # qmu => qmu \in {None, c}
    /\ o \in 1 .. Len(txn) => tmu[o] \in {None, c}
    /\ Closes(c, o)

\* The fields of a transaction.
LEMMA Fields ==
    ASSUME Shape, NEW o \in 1 .. Len(txn)
    PROVE  /\ txn[o] \in Record /\ txn[o].state \in States
           /\ txn[o].staged \in Seq({"quota", "ground"}) /\ Len(txn[o].staged) \in Nat
           /\ txn[o].prepared \in Nat /\ txn[o].committed \in Nat
           /\ o \in Obj /\ o \in Nat /\ Len(txn) \in Nat
<1>1. txn \in Seq(Record) /\ Len(txn) \in Nat /\ Len(txn) <= MaxObj
  BY DEF Shape
<1>2. txn[o] \in Record
  BY <1>1
<1>3. o \in Obj /\ o \in Nat
  BY <1>1, XTxnBounds DEF Obj
<1> QED BY <1>1, <1>2, <1>3 DEF Record

\* A policy and its gates.
LEMMA PolicyParts ==
    ASSUME Shape
    PROVE  /\ policy.gates \in Seq(Gate) /\ Len(policy.gates) \in Nat
           /\ policy.mode \in {"all", "any"}
           /\ Gates = {policy.gates[i] : i \in 1 .. Len(policy.gates)} /\ Gates \subseteq Gate
           /\ \A i, j \in 1 .. Len(policy.gates) : policy.gates[i] = policy.gates[j] => i = j
<1>1. policy \in Policies
  BY DEF Shape
<1>2. /\ policy.gates \in Seq(Gate) /\ policy.mode \in {"all", "any"}
      /\ \A i, j \in 1 .. Len(policy.gates) : policy.gates[i] = policy.gates[j] => i = j
  BY <1>1, XTxnBounds
<1>3. Gates = {policy.gates[i] : i \in 1 .. Len(policy.gates)}
  BY <1>2 DEF Gates, Range
<1> QED BY <1>2, <1>3

\* A step that leaves the budgets alone leaves the room.
LEMMA SameRoom ==
    ASSUME UNCHANGED <<spent, limit, policy>>
    PROVE  /\ Gates' = Gates /\ \A g : HasRoom(g)' <=> HasRoom(g)
           /\ (RoomNow' <=> RoomNow) /\ \A k : Passed(k)' = Passed(k)
<1>1. Gates' = Gates /\ \A k : Passed(k)' = Passed(k)
  BY DEF Gates, Passed
<1>2. \A g : HasRoom(g)' <=> HasRoom(g)
  BY DEF HasRoom
<1> QED BY <1>1, <1>2 DEF RoomNow

\* The tokens, effects and room that a step leaves alone.
LEMMA SameEffects ==
    ASSUME UNCHANGED <<policy, effects>>
    PROVE  /\ \A p, i : Effect(p, i)' = Effect(p, i)
           /\ Gates' = Gates /\ \A g : HasRoom(g)' <=> HasRoom(g)
           /\ (RoomNow' <=> RoomNow) /\ \A k : Passed(k)' = Passed(k)
           /\ moved' = moved /\ mishap' = mishap /\ unknown' = unknown
           /\ spent' = spent /\ limit' = limit /\ (Calm' <=> Calm)
<1>1. UNCHANGED <<spent, limit, applied, moved, unknown, mishap>>
  BY DEF effects
<1> QED BY <1>1, SameRoom DEF Effect, Calm

\* The call of another client that holds an object holds another one.
LEMMA Apart ==
    ASSUME XInv, NEW c \in Client, NEW o, Frame(c, o), NEW d \in Client \ {c}
    PROVE  /\ call'[d] = call[d] /\ Len(txn) \in Nat /\ Len(txn') >= Len(txn)
           /\ \A q : Mine(d) /\ q = call[d].obj =>
                /\ q \in (1 .. Len(txn)) \ {o} /\ q \in 1 .. Len(txn)
                /\ tmu[q] = d /\ txn'[q] = txn[q] /\ tmu'[q] = d
                /\ \A i \in Nat : /\ <<q, i>> \in st' <=> <<q, i>> \in st
                                  /\ Effect(q, i)' = Effect(q, i)
           /\ Evaluates(d) => qmu = d /\ qmu' = d /\ call[d] \in Eval
<1>1. call'[d] = call[d] /\ Len(txn) \in Nat /\ Len(txn') >= Len(txn)
  BY DEF Frame, XInv, Shape
<1>2. CallPlace(d) /\ d # None /\ d # c
  BY XTxnBounds DEF XInv, CallOK
<1>3. ASSUME Mine(d)
      PROVE  /\ call[d].obj \in (1 .. Len(txn)) \ {o} /\ call[d].obj \in 1 .. Len(txn)
             /\ tmu[call[d].obj] = d
  BY <1>2, <1>3 DEF CallPlace, Frame
<1>4. ASSUME Mine(d), NEW q, q = call[d].obj
      PROVE     /\ txn'[q] = txn[q] /\ tmu'[q] = d
                /\ \A i \in Nat : /\ <<q, i>> \in st' <=> <<q, i>> \in st
                                  /\ Effect(q, i)' = Effect(q, i)
  BY <1>3, <1>4, Zenon DEF Frame
<1>5. Evaluates(d) => qmu = d /\ qmu' = d /\ call[d] \in Eval
  BY <1>2 DEF CallPlace, Frame
<1> QED BY <1>1, <1>3, <1>4, <1>5

\* Another client stays where it was, and its object in the same state.
LEMMA OthersPlace ==
    ASSUME XInv, NEW c \in Client, NEW o, Frame(c, o), NEW d \in Client \ {c}
    PROVE  CallPlace(d)' /\ CallPhase(d)'
<1>1. CallPlace(d) /\ CallPhase(d)
  BY DEF XInv, CallOK
<1>2. call'[d] = call[d] /\ (Mine(d)' <=> Mine(d))
  BY Apart DEF Mine, Preparing, Committing, For, Evaluates
<1>3. policy' = policy /\ Gates' = Gates
  BY DEF Frame, Gates
<1>4. CallPlace(d)'
  <2>1. call[d].pc \in {"stage", "enter"} \/ Mine(d) => call[d].obj \in 1 .. Len(txn')
    BY <1>1, Apart DEF CallPlace
  <2>2. Mine(d) => tmu'[call[d].obj] = d
    BY Apart
  <2>3. Evaluates(d) => call[d] \in Eval /\ qmu' = d
    BY Apart
  <2> QED BY <1>1, <1>2, <1>3, <2>1, <2>2, <2>3 DEF CallPlace, Evaluates, Admitted
<1>5. Mine(d) => txn'[call[d].obj] = txn[call[d].obj]
  BY Apart
<1>6. CallPhase(d)'
  <2>1. CASE Mine(d)
    BY <1>1, <1>2, <1>5, <2>1 DEF CallPhase, Preparing, Committing, For, Evaluates
  <2>2. CASE ~Mine(d)
    BY <1>2, <2>2 DEF CallPhase, Mine, Preparing, Committing, For, Evaluates
  <2> QED BY <2>1, <2>2
<1> QED BY <1>4, <1>6

\* Nobody else touches the tokens and effects of an object that is held.
LEMMA OthersTokens ==
    ASSUME XInv, NEW c \in Client, NEW o, Frame(c, o), NEW d \in Client \ {c}
    PROVE  CallTokens(d)'
<1>1. CallTokens(d) /\ CallPhase(d)
  BY DEF XInv, CallOK
<1>2. call'[d] = call[d] /\ (Calm' => Calm) /\ \A k : Passed(k)' = Passed(k)
  BY Apart DEF Frame, Calm, Passed
<1>3. CASE ~ (call[d].pc = "commit" \/ For(d, "commit"))
  BY <1>2, <1>3 DEF CallTokens, For, Evaluates
<1>4. CASE call[d].pc = "commit" \/ For(d, "commit")
  <2>0. PICK q : q = call[d].obj
    OBVIOUS
  <2>1. /\ q \in 1 .. Len(txn) /\ txn'[q] = txn[q]
        /\ \A i \in Nat : /\ <<q, i>> \in st' <=> <<q, i>> \in st
                          /\ Effect(q, i)' = Effect(q, i)
    BY <1>4, <2>0, Apart DEF Mine, Committing
  <2>2. txn[q].committed + 1 \in Nat
    BY <2>1, Fields DEF XInv
  <2> QED BY <1>1, <1>2, <2>0, <2>1, <2>2 DEF CallTokens, For, Evaluates
<1> QED BY <1>3, <1>4

\* What another client found in a budget stays true, or a mishap is recorded, or
\* its transaction is told that a gate was closed.
LEMMA OthersRoom ==
    ASSUME XInv, NEW c \in Client, NEW o, Frame(c, o), NEW d \in Client \ {c}
    PROVE  CallRoom(d)'
<1>1. RoomKept(d) /\ RoomFound(d) /\ CallPhase(d) /\ CallPlace(d)
  BY DEF XInv, CallOK, CallRoom
<1>2. /\ call'[d] = call[d] /\ policy' = policy /\ mishap \subseteq mishap' /\ moved \subseteq moved'
      /\ Gates' = Gates
  BY Apart DEF Frame, Gates
<1>3. \A i \in 1 .. Len(policy.gates) : policy.gates[i] \in Gates
  BY PolicyParts DEF XInv
<1>4. RoomKept(d)'
  <2> SUFFICES ASSUME Evaluates(d) PROVE RoomKept(d)'
    BY <1>2 DEF RoomKept, Evaluates
  <2>1. qmu = d /\ d # c /\ d # None
    BY Apart, XTxnBounds
  <2>2. \A g \in Gates : HasRoom(g) \/ g \in mishap => HasRoom(g)' \/ g \in mishap'
    BY <1>2, <2>1 DEF Frame, Closes
  <2> QED BY <1>1, <1>2, <1>3, <2>2 DEF RoomKept, Evaluates
<1>5. RoomFound(d)'
  <2>1. CASE ~(Preparing(d) \/ Committing(d))
    BY <1>2, <2>1 DEF RoomFound, Preparing, Committing, For, Evaluates
  <2>2. CASE Preparing(d) \/ Committing(d)
    <3>1. PICK q : q = call[d].obj
      OBVIOUS
    <3>2. Mine(d) /\ q \in 1 .. Len(txn) /\ q # o /\ txn'[q] = txn[q] /\ txn[q].state \in Underway
      BY <1>1, <2>2, <3>1, Apart DEF Mine, CallPhase, Underway
    <3>3. (Free(q)' => Free(q)) /\ (NeedsQuota(q)' <=> NeedsQuota(q))
      BY <1>2, <3>2 DEF Free, NeedsQuota
    <3>4. ASSUME Free(q)' PROVE \A g \in Gates : HasRoom(g) => HasRoom(g)'
      BY <3>2, <3>4 DEF Frame, Closes, Free
    <3>5. ASSUME Free(q)' PROVE RoomNow => RoomNow'
      BY <1>2, <3>4, <3>5 DEF RoomNow
    <3>6. For(d, "prepare") => call[d].ok \subseteq Gates
      BY <1>1 DEF CallPlace, For
    <3>7. CASE Free(q)'
      <4>1. RoomNow => RoomNow'
        BY <3>5, <3>7
      <4>2. \A g \in Gates : HasRoom(g) => HasRoom(g)'
        BY <3>4, <3>7
      <4>3. For(d, "prepare") => \A g \in call[d].ok : HasRoom(g)'
        BY <1>1, <3>1, <3>3, <3>6, <3>7, <4>2 DEF RoomFound
      <4>4. call[d].pc = "peek" /\ call[d].why = "commit" =>
              IF policy.mode = "any"
              THEN call[d].ok # {} \/ \E i \in call[d].gate .. Len(policy.gates) : HasRoom(policy.gates[i])'
              ELSE \A i \in 1 .. Len(policy.gates) :
                     IF i < call[d].gate THEN policy.gates[i] \in call[d].ok ELSE HasRoom(policy.gates[i])'
        <5> SUFFICES ASSUME call[d].pc = "peek", call[d].why = "commit"
                     PROVE  IF policy.mode = "any"
                            THEN call[d].ok # {} \/ \E i \in call[d].gate .. Len(policy.gates) : HasRoom(policy.gates[i])'
                            ELSE \A i \in 1 .. Len(policy.gates) :
                              IF i < call[d].gate THEN policy.gates[i] \in call[d].ok ELSE HasRoom(policy.gates[i])'
          OBVIOUS
        <5>1. call[d].gate \in Nat /\ call[d].gate > 0
          BY <1>1 DEF CallPlace, Evaluates, Eval
        <5>2. \A i \in call[d].gate .. Len(policy.gates) : i \in 1 .. Len(policy.gates)
          BY <5>1, PolicyParts DEF XInv
        <5>3. IF policy.mode = "any"
              THEN call[d].ok # {} \/ \E i \in call[d].gate .. Len(policy.gates) : HasRoom(policy.gates[i])
              ELSE \A i \in 1 .. Len(policy.gates) :
                     IF i < call[d].gate THEN policy.gates[i] \in call[d].ok ELSE HasRoom(policy.gates[i])
          BY <1>1, <3>1, <3>3, <3>7 DEF RoomFound
        <5>4. ASSUME NEW i \in 1 .. Len(policy.gates), HasRoom(policy.gates[i])
              PROVE  HasRoom(policy.gates[i])'
          <6>1. PICK g \in Gates : g = policy.gates[i]
            BY <1>3
          <6>2. HasRoom(g)'
            BY <4>2, <5>4, <6>1
          <6>3. policy'.gates[i] = g
            BY <1>2, <6>1
          <6> QED BY <6>1, <6>2, <6>3 DEF HasRoom
        <5>5. CASE policy.mode = "any"
          BY <5>2, <5>3, <5>4, <5>5
        <5>6. CASE policy.mode # "any"
          BY <5>3, <5>4, <5>6
        <5> QED BY <5>5, <5>6
      <4>5. call[d].pc = "partial" => ~Free(q)
        BY <1>1, <3>1 DEF RoomFound
      <4>6. /\ call[d].pc = "token" /\ txn[q].staged[txn[q].prepared + 1] = "quota" => RoomNow
            /\ call[d].pc = "commit" /\ NeedsQuota(q) => RoomNow
        BY <1>1, <3>1, <3>3, <3>7 DEF RoomFound
      <4> QED BY <1>2, <3>1, <3>2, <3>3, <3>7, <4>1, <4>3, <4>4, <4>5, <4>6 DEF RoomFound, For, Evaluates
    <3>8. CASE ~Free(q)'
      BY <1>2, <3>1, <3>8 DEF RoomFound, For, Evaluates
    <3> QED BY <3>7, <3>8
  <2> QED BY <2>1, <2>2
<1> QED BY <1>4, <1>5 DEF CallRoom

\* A step leaves the transactions it does not write as good as they were.
LEMMA OtherObjects ==
    ASSUME XInv, NEW c \in Client, NEW o, Frame(c, o), NEW p \in (1 .. Len(txn)) \ {o}
    PROVE  ObjOK(p)'
<1>1. ObjPhase(p) /\ ObjTokens(p) /\ ObjRoom(p)
  BY DEF XInv, ObjOK
<1>2. /\ policy' = policy /\ Gates' = Gates /\ mishap \subseteq mishap' /\ moved \subseteq moved'
      /\ txn'[p] = txn[p] /\ tmu'[p] = tmu[p]
      /\ \A i \in Nat : /\ <<p, i>> \in st' <=> <<p, i>> \in st
                        /\ Effect(p, i)' = Effect(p, i)
  BY DEF Frame, Gates
<1>3. ObjPhase(p)'
  BY <1>1, <1>2 DEF ObjPhase
<1>4. ObjTokens(p)'
  <2>1. \A i \in Nat : Full(p, i)' = Full(p, i)
    BY <1>2 DEF Full, Staged
  <2>2. Calm' => Calm
    BY <1>2 DEF Calm
  <2> QED BY <1>1, <1>2, <2>1, <2>2 DEF ObjTokens
<1>5. ObjRoom(p)'
  <2>1. (Free(p)' => Free(p)) /\ (NeedsQuota(p)' <=> NeedsQuota(p))
    BY <1>2 DEF Free, NeedsQuota
  <2>2. txn[p].state \in {"preparing", "prepared"} /\ Free(p)' /\ RoomNow => RoomNow'
    <3>1. txn[p].state \in {"preparing", "prepared"} /\ Free(p)' => \A g \in Gates : HasRoom(g) => HasRoom(g)'
      BY DEF Frame, Closes, Free, Underway
    <3> QED BY <1>2, <3>1 DEF RoomNow
  <2> QED BY <1>1, <1>2, <2>1, <2>2 DEF ObjRoom
<1> QED BY <1>3, <1>4, <1>5 DEF ObjOK

\* So a step keeps the invariant if it keeps it for its own client and object.
LEMMA Local ==
    ASSUME XInv, NEW c \in Client, NEW o, Frame(c, o),
           Shape', RiskWithinBudget', CallOK(c)',
           \A p \in (1 .. Len(txn')) : p \notin (1 .. Len(txn)) \ {o} => ObjOK(p)'
    PROVE  XInv'
<1>1. ASSUME NEW d \in Client PROVE CallOK(d)'
  BY OthersPlace, OthersTokens, OthersRoom DEF CallOK
<1>2. ASSUME NEW p \in 1 .. Len(txn') PROVE ObjOK(p)'
  BY OtherObjects
<1> QED BY <1>1, <1>2 DEF XInv

----------------------------------------------------------------------------
(* Steps, by what they change *)

\* Only o is written.
Writes(o) ==
    /\ txn' \in Seq(Record) /\ Len(txn') = Len(txn)
    /\ \A p \in (1 .. Len(txn)) \ {o} : txn'[p] = txn[p]

\* Writing one transaction.
LEMMA PutRecord ==
    ASSUME Shape, NEW o \in 1 .. Len(txn), NEW r \in Record, txn' = [txn EXCEPT ![o] = r]
    PROVE  Writes(o) /\ txn'[o] = r
BY DEF Shape, Writes

\* Writing the state of a transaction.
LEMMA PutState ==
    ASSUME Shape, NEW o \in 1 .. Len(txn), NEW s \in States, SetState(o, s)
    PROVE  /\ Writes(o) /\ txn'[o].state = s /\ txn'[o].staged = txn[o].staged
           /\ txn'[o].prepared = txn[o].prepared /\ txn'[o].committed = txn[o].committed
<1> DEFINE r == [txn[o] EXCEPT !.state = s]
<1>1. txn' = [txn EXCEPT ![o] = r]
  BY DEF SetState
<1>2. /\ r \in Record /\ r.state = s /\ r.staged = txn[o].staged
      /\ r.prepared = txn[o].prepared /\ r.committed = txn[o].committed
  BY Fields DEF Record
<1> HIDE DEF r
<1> QED BY <1>1, <1>2, PutRecord

\* One more operation is prepared.
LEMMA PutPrepared ==
    ASSUME Shape, NEW o \in 1 .. Len(txn), txn' = [txn EXCEPT ![o].prepared = @ + 1]
    PROVE  /\ Writes(o) /\ txn'[o].state = txn[o].state /\ txn'[o].staged = txn[o].staged
           /\ txn'[o].prepared = txn[o].prepared + 1 /\ txn'[o].committed = txn[o].committed
<1> DEFINE r == [txn[o] EXCEPT !.prepared = @ + 1]
<1>1. txn' = [txn EXCEPT ![o] = r]
  OBVIOUS
<1>2. /\ r \in Record /\ r.state = txn[o].state /\ r.staged = txn[o].staged
      /\ r.prepared = txn[o].prepared + 1 /\ r.committed = txn[o].committed
  BY Fields DEF Record
<1> HIDE DEF r
<1> QED BY <1>1, <1>2, PutRecord

\* One more operation is committed.
LEMMA PutCommitted ==
    ASSUME Shape, NEW o \in 1 .. Len(txn), txn' = [txn EXCEPT ![o].committed = @ + 1]
    PROVE  /\ Writes(o) /\ txn'[o].state = txn[o].state /\ txn'[o].staged = txn[o].staged
           /\ txn'[o].prepared = txn[o].prepared /\ txn'[o].committed = txn[o].committed + 1
<1> DEFINE r == [txn[o] EXCEPT !.committed = @ + 1]
<1>1. txn' = [txn EXCEPT ![o] = r]
  OBVIOUS
<1>2. /\ r \in Record /\ r.state = txn[o].state /\ r.staged = txn[o].staged
      /\ r.prepared = txn[o].prepared /\ r.committed = txn[o].committed + 1
  BY Fields DEF Record
<1> HIDE DEF r
<1> QED BY <1>1, <1>2, PutRecord

\* One more operation is staged.
LEMMA PutStaged ==
    ASSUME Shape, NEW o \in 1 .. Len(txn), NEW a \in {"quota", "ground"},
           txn' = [txn EXCEPT ![o].staged = Append(@, a)]
    PROVE  /\ Writes(o) /\ txn'[o].state = txn[o].state
           /\ txn'[o].staged = Append(txn[o].staged, a)
           /\ txn'[o].prepared = txn[o].prepared /\ txn'[o].committed = txn[o].committed
<1> DEFINE s == Append(txn[o].staged, a)
           r == [txn[o] EXCEPT !.staged = s]
<1>1. txn' = [txn EXCEPT ![o] = r]
  OBVIOUS
<1>2. s \in Seq({"quota", "ground"})
  BY Fields
<1> HIDE DEF s
<1>3. /\ r \in Record /\ r.state = txn[o].state /\ r.staged = s
      /\ r.prepared = txn[o].prepared /\ r.committed = txn[o].committed
  BY <1>2, Fields DEF Record
<1> HIDE DEF r
<1>4. Writes(o) /\ txn'[o] = r
  BY <1>1, <1>3, PutRecord
<1> QED BY <1>3, <1>4 DEF s

\* The clients' calls are a function; a client between two calls needs nothing.
LEMMA PutCall ==
    ASSUME Shape, NEW c \in Client, NEW f, call' = [call EXCEPT ![c] = f]
    PROVE  /\ call' = [d \in Client |-> call'[d]] /\ call'[c] = f
           /\ \A d \in Client \ {c} : call'[d] = call[d]
<1>1. call = [d \in Client |-> call[d]]
  BY DEF Shape
<1>2. DOMAIN call = Client
  BY <1>1
<1>3. call' = [d \in Client |-> IF d = c THEN f ELSE call[d]]
  BY <1>2
<1> QED BY <1>3

\* Nothing is asked of a client between two calls.
LEMMA IdleOK ==
    ASSUME NEW c \in Client, call'[c] = Idle
    PROVE  CallOK(c)'
<1>1. call'[c].pc = "idle"
  BY DEF Idle
<1> QED BY <1>1 DEF CallOK, CallPlace, CallPhase, CallTokens, CallRoom, RoomKept, RoomFound, Places, Mine,
                    Preparing, Committing, For, Evaluates

\* A step that writes no transaction and draws on no budget.
LEMMA Quiet ==
    ASSUME XInv, NEW c \in Client, UNCHANGED <<txn, tmu, st, policy, effects>>,
           call' = [d \in Client |-> call'[d]], \A d \in Client \ {c} : call'[d] = call[d],
           txns' \in [Xid -> 0 .. Len(txn)], xmu' \in Client \cup {None},
           qmu' \in Client \cup {None}, qmu' # qmu => qmu \in {None, c},
           budget' \in 0 .. MaxCalls, CallOK(c)'
    PROVE  XInv'
<1>0. /\ Shape /\ RiskWithinBudget
      /\ UNCHANGED <<spent, limit, applied, moved, unknown, mishap>>
  BY DEF XInv, effects
<1>1. txn \in Seq(Record) /\ Len(txn) \in Nat
  BY <1>0 DEF Shape
<1>2. RiskWithinBudget'
  BY <1>0 DEF RiskWithinBudget
<1>3. Shape'
  BY <1>0 DEF Shape
<1>4. Frame(c, 0)
  <2>1. \A p, i \in Nat : Effect(p, i)' = Effect(p, i)
    BY DEF Effect, effects
  <2>2. Closes(c, 0)
    BY <1>0, SameRoom DEF Closes
  <2> QED BY <1>0, <1>1, <2>1, <2>2 DEF Frame
<1>5. \A p \in 1 .. Len(txn') : p \in (1 .. Len(txn)) \ {0}
  BY <1>1
<1> QED BY <1>2, <1>3, <1>4, <1>5, Local

\* A step of c that writes object o, its mutex and its tokens.
LEMMA Own ==
    ASSUME XInv, NEW c \in Client, NEW o \in 1 .. Len(txn), tmu[o] \in {None, c}, Writes(o),
           UNCHANGED <<txns, policy, budget, effects>>,
           \A d \in Client \ {c} : call'[d] = call[d], call' = [d \in Client |-> call'[d]],
           xmu' \in Client \cup {None},
           qmu' \in Client \cup {None}, qmu' # qmu => qmu \in {None, c},
           tmu' \in [Obj -> Client \cup {None}], \A p \in Obj \ {o} : tmu'[p] = tmu[p],
           st' \subseteq (1 .. Len(txn)) \X Nat,
           \A p \in Nat \ {o}, i \in Nat : <<p, i>> \in st' <=> <<p, i>> \in st,
           CallOK(c)', ObjOK(o)'
    PROVE  XInv'
<1>0. Len(txn) \in Nat /\ \A p \in 1 .. Len(txn) : p \in Nat /\ p \in Obj
  BY Fields DEF XInv
<1>4. UNCHANGED <<spent, limit, applied, moved, unknown, mishap>>
  BY DEF effects
<1>1. Shape' /\ RiskWithinBudget'
  BY <1>4 DEF XInv, Shape, RiskWithinBudget, Writes
<1>2. Frame(c, o)
  <2>1. \A p, i \in Nat : Effect(p, i)' = Effect(p, i)
    BY DEF Effect, effects
  <2>2. Closes(c, o)
    BY <1>4, SameRoom DEF Closes
  <2> QED BY <1>0, <1>4, <2>1, <2>2 DEF Frame, Writes
<1>3. \A p \in 1 .. Len(txn') : p \notin (1 .. Len(txn)) \ {o} => ObjOK(p)'
  <2> SUFFICES ASSUME NEW p \in 1 .. Len(txn'), p \notin (1 .. Len(txn)) \ {o} PROVE p = o
    OBVIOUS
  <2> QED BY DEF Writes
<1> QED BY <1>1, <1>2, <1>3, Local

----------------------------------------------------------------------------
(* The steps *)

\* A client that waits for an object holds nothing.
LEMMA WaitingOK ==
    ASSUME NEW c \in Client, call'[c].pc \in {"stage", "enter"}, call'[c].obj \in 1 .. Len(txn'),
           call'[c].pc = "enter" => call'[c].verb \in Verb
    PROVE  CallOK(c)'
BY DEF CallOK, CallPlace, CallPhase, CallTokens, CallRoom, RoomKept, RoomFound, Places, Mine,
       Preparing, Committing, For, Evaluates

\* The parts of the shape, one by one.
LEMMA Parts ==
    ASSUME XInv
    PROVE  /\ Shape /\ Len(txn) \in Nat /\ Len(txn) <= MaxObj /\ txns \in [Xid -> 0 .. Len(txn)]
           /\ xmu \in Client \cup {None} /\ qmu \in Client \cup {None}
           /\ tmu \in [Obj -> Client \cup {None}] /\ st \subseteq (1 .. Len(txn)) \X Nat
           /\ spent \in [Gate -> Nat] /\ limit \in [Gate -> Nat] /\ budget \in 0 .. MaxCalls
           /\ policy \in Policies /\ unknown = {} /\ limit["risk"] > 0 /\ call = [d \in Client |-> call[d]]
<1>1. Shape
  BY DEF XInv
<1>2. txn \in Seq(Record) /\ Len(txn) \in Nat
  BY <1>1 DEF Shape
<1> QED BY <1>1, <1>2, Zenon DEF Shape

\* XTXN.STAGE waits for the object with the coordinator locked.
LEMMA StageEnterKeeps ==
    ASSUME XInv, NEW c \in Client, NEW x \in Xid, StageEnter(c, x)
    PROVE  XInv'
<1> DEFINE f == [pc |-> "stage", obj |-> txns[x]]
<1>1. /\ call' = [call EXCEPT ![c] = f] /\ xmu' = c
      /\ txns[x] # 0 /\ UNCHANGED <<txns, txn, tmu, qmu, st, policy, budget, effects>>
  BY DEF StageEnter, Goto
<1>2. f.pc = "stage" /\ f.obj = txns[x]
  OBVIOUS
<1> HIDE DEF f
<1>3. Shape /\ Len(txn) \in Nat /\ txns \in [Xid -> 0 .. Len(txn)] /\ qmu \in Client \cup {None}
      /\ budget \in 0 .. MaxCalls
  BY Parts
<1>4. /\ call' = [d \in Client |-> call'[d]] /\ call'[c] = f
      /\ \A d \in Client \ {c} : call'[d] = call[d]
  BY <1>1, <1>3, PutCall
<1>5. txns[x] \in 1 .. Len(txn)
  BY <1>1, <1>3
<1>6. CallOK(c)'
  BY <1>1, <1>2, <1>4, <1>5, WaitingOK
<1> QED BY <1>1, <1>3, <1>4, <1>6, Quiet

\* XTXN.FORGET takes the xid out and leaves the object to its holders.
LEMMA ForgetKeeps ==
    ASSUME XInv, NEW c \in Client, NEW x \in Xid, Forget(c, x)
    PROVE  XInv'
<1>1. /\ call' = call /\ call[c].pc = "idle" /\ txns' = [txns EXCEPT ![x] = 0]
      /\ budget' = budget - 1 /\ budget > 0
      /\ UNCHANGED <<txn, xmu, tmu, qmu, st, policy, effects>>
  BY DEF Forget, Start, At, locks
<1>3. Shape /\ Len(txn) \in Nat /\ txns \in [Xid -> 0 .. Len(txn)] /\ qmu \in Client \cup {None}
      /\ budget \in 0 .. MaxCalls /\ xmu \in Client \cup {None}
      /\ call = [d \in Client |-> call[d]]
  BY Parts
<1>4. txns' \in [Xid -> 0 .. Len(txn)] /\ budget' \in 0 .. MaxCalls
  BY <1>1, <1>3, XTxnBounds
<1>5. call' = [d \in Client |-> call'[d]] /\ \A d \in Client \ {c} : call'[d] = call[d]
  BY <1>1, <1>3, Zenon
<1>6. CallOK(c)'
  BY <1>1 DEF CallOK, CallPlace, CallPhase, CallTokens, CallRoom, RoomKept, RoomFound, Places, Mine,
              Preparing, Committing, For, Evaluates
<1> QED BY <1>1, <1>3, <1>4, <1>5, <1>6, Quiet

\* PREPARE, COMMIT and ABORT take the object by its xid.
LEMMA LookupKeeps ==
    ASSUME XInv, NEW c \in Client, NEW x \in Xid, NEW verb \in Verb, Lookup(c, x, verb)
    PROVE  XInv'
<1> DEFINE f == [pc |-> "enter", verb |-> verb, obj |-> txns[x]]
<1>1. /\ call' = [call EXCEPT ![c] = f] /\ budget' = budget - 1 /\ budget > 0
      /\ txns[x] # 0 /\ UNCHANGED <<txns, txn, xmu, tmu, qmu, st, policy, effects>>
  BY DEF Lookup, Start, Goto, locks
<1>2. f.pc = "enter" /\ f.obj = txns[x] /\ f.verb \in Verb
  OBVIOUS
<1> HIDE DEF f
<1>3. Shape /\ Len(txn) \in Nat /\ txns \in [Xid -> 0 .. Len(txn)] /\ qmu \in Client \cup {None}
      /\ budget \in 0 .. MaxCalls /\ xmu \in Client \cup {None}
  BY Parts
<1>4. /\ call' = [d \in Client |-> call'[d]] /\ call'[c] = f
      /\ \A d \in Client \ {c} : call'[d] = call[d]
  BY <1>1, <1>3, PutCall
<1>5. txns[x] \in 1 .. Len(txn) /\ budget' \in 0 .. MaxCalls
  BY <1>1, <1>3, XTxnBounds
<1>6. CallOK(c)'
  BY <1>1, <1>2, <1>4, <1>5, WaitingOK
<1> QED BY <1>1, <1>3, <1>4, <1>5, <1>6, Quiet

\* The risk participant grounds the answer: a token follows, or the abort.
LEMMA PrepareGroundKeeps ==
    ASSUME XInv, NEW c \in Client, PrepareGround(c)
    PROVE  XInv'
<1>1. PICK q \in {"token", "abort"} : call' = [call EXCEPT ![c] = [pc |-> q, obj |-> call[c].obj]]
  BY DEF PrepareGround, Goto
<1> DEFINE f == [pc |-> q, obj |-> call[c].obj]
<1>2. f.pc = q /\ f.obj = call[c].obj
  OBVIOUS
<1>a. call' = [call EXCEPT ![c] = f]
  BY <1>1
<1> HIDE DEF f
<1>3. /\ Shape /\ Len(txn) \in Nat /\ txns \in [Xid -> 0 .. Len(txn)] /\ qmu \in Client \cup {None}
      /\ budget \in 0 .. MaxCalls /\ xmu \in Client \cup {None}
      /\ CallPlace(c) /\ CallPhase(c)
  BY Parts DEF XInv, CallOK
<1>4. /\ call' = [d \in Client |-> call'[d]] /\ call'[c] = f
      /\ \A d \in Client \ {c} : call'[d] = call[d]
  BY <1>a, <1>3, PutCall
<1>5. PICK o : o = call[c].obj
  OBVIOUS
<1>6. /\ call[c].pc = "prepare" /\ UNCHANGED <<txns, txn, xmu, tmu, qmu, st, policy, budget, effects>>
      /\ txn[o].prepared + 1 <= Len(txn[o].staged) /\ txn[o].staged[txn[o].prepared + 1] = "ground"
  BY <1>5 DEF PrepareGround, At, ToPrepare, Staged, locks
<1>7. o \in 1 .. Len(txn) /\ tmu[o] = c /\ txn[o].state = "preparing"
  BY <1>3, <1>5, <1>6 DEF CallPlace, CallPhase, Mine, Preparing
<1>8. txn[o].prepared < Len(txn[o].staged)
  BY <1>3, <1>6, <1>7, Fields
<1>9. CallOK(c)'
  BY <1>2, <1>4, <1>5, <1>6, <1>7, <1>8
     DEF CallOK, CallPlace, CallPhase, CallTokens, CallRoom, RoomKept, RoomFound, Places, Mine,
         Preparing, Committing, For, Evaluates
<1> QED BY <1>3, <1>4, <1>6, <1>9, Quiet

\* What the holder of an object may rely on.
LEMMA Holder ==
    ASSUME XInv, NEW c \in Client, Mine(c), NEW o, o = call[c].obj
    PROVE  /\ o \in 1 .. Len(txn) /\ o \in Nat /\ o \in Obj /\ tmu[o] = c
           /\ txn[o].prepared \in Nat /\ txn[o].committed \in Nat /\ Len(txn[o].staged) \in Nat
           /\ txn[o].staged \in Seq({"quota", "ground"}) /\ txn[o].state \in States
           /\ ObjPhase(o) /\ ObjTokens(o) /\ ObjRoom(o)
<1>1. CallPlace(c) /\ Shape
  BY DEF XInv, CallOK
<1>2. o \in 1 .. Len(txn) /\ tmu[o] = c
  BY <1>1 DEF CallPlace
<1>3. ObjOK(o)
  BY <1>2 DEF XInv
<1> QED BY <1>1, <1>2, <1>3, Fields DEF ObjOK

\* The quota participant begins an evaluation, under the quota mutex.
LEMMA PrepareQuotaKeeps ==
    ASSUME XInv, NEW c \in Client, PrepareQuota(c)
    PROVE  XInv'
<1>5. PICK o : o = call[c].obj
  OBVIOUS
<1> DEFINE f == [pc |-> "peek", why |-> "prepare", obj |-> o, gate |-> 1, ok |-> {}]
<1>a. call' = [call EXCEPT ![c] = f]
  BY <1>5 DEF PrepareQuota, Goto
<1>6. /\ call[c].pc = "prepare" /\ UNCHANGED <<txns, txn, xmu, tmu, st, policy, budget, effects>>
      /\ qmu = None /\ qmu' = c
      /\ txn[o].prepared + 1 <= Len(txn[o].staged) /\ txn[o].staged[txn[o].prepared + 1] = "quota"
  BY <1>5 DEF PrepareQuota, At, ToPrepare, Staged
<1>7. Mine(c) /\ CallPlace(c) /\ CallPhase(c)
  BY <1>6 DEF Mine, Preparing, XInv, CallOK
<1>8. o \in 1 .. Len(txn) /\ o \in Nat /\ tmu[o] = c /\ txn[o].state = "preparing"
  BY <1>5, <1>6, <1>7, Holder DEF CallPhase, Preparing
<1>2. /\ f.pc = "peek" /\ f.why = "prepare" /\ f.obj = o /\ f.gate = 1 /\ f.ok = {}
      /\ f \in Eval
  BY <1>8 DEF Eval
<1> HIDE DEF f
<1>4. /\ call' = [d \in Client |-> call'[d]] /\ call'[c] = f
      /\ \A d \in Client \ {c} : call'[d] = call[d]
  BY <1>a, Parts, PutCall
<1>b. txn[o].prepared < Len(txn[o].staged)
  BY <1>5, <1>6, <1>7, Holder
<1>9. CallOK(c)'
  BY <1>2, <1>4, <1>5, <1>6, <1>8, <1>b
     DEF CallOK, CallPlace, CallPhase, CallTokens, CallRoom, RoomKept, RoomFound, Places, Mine,
         Preparing, Committing, For, Evaluates
<1> QED BY <1>4, <1>6, <1>9, Quiet, Parts

\* QUOTA.ADMIT begins one too.
LEMMA AdmitKeeps ==
    ASSUME XInv, NEW c \in Client, Admit(c)
    PROVE  XInv'
<1> DEFINE f == [pc |-> "peek", why |-> "admit", obj |-> 0, gate |-> 1, ok |-> {}]
<1>1. /\ call' = [call EXCEPT ![c] = f] /\ UNCHANGED <<txns, txn, xmu, tmu, st, policy, effects>>
      /\ qmu = None /\ qmu' = c /\ budget' = budget - 1 /\ budget > 0
  BY DEF Admit, Start, Goto
<1>2. /\ f.pc = "peek" /\ f.why = "admit" /\ f.obj = 0 /\ f.gate = 1 /\ f.ok = {}
      /\ f \in Eval
  BY DEF Eval
<1> HIDE DEF f
<1>4. /\ call' = [d \in Client |-> call'[d]] /\ call'[c] = f
      /\ \A d \in Client \ {c} : call'[d] = call[d]
  BY <1>1, Parts, PutCall
<1>5. budget' \in 0 .. MaxCalls
  BY <1>1, Parts, XTxnBounds
<1>9. CallOK(c)'
  BY <1>1, <1>2, <1>4
     DEF CallOK, CallPlace, CallPhase, CallTokens, CallRoom, RoomKept, RoomFound, Places, Mine,
         Preparing, Committing, For, Evaluates
<1> QED BY <1>1, <1>4, <1>5, <1>9, Quiet, Parts

\* An evaluation peeks at its next gate.
LEMMA PutPeek ==
    ASSUME NEW r \in Eval, r.gate \in Nat, NEW k \in SUBSET Gate
    PROVE  LET f == [r EXCEPT !.gate = @ + 1, !.ok = k] IN
           /\ f \in Eval /\ f.pc = r.pc /\ f.why = r.why /\ f.obj = r.obj
           /\ f.gate = r.gate + 1 /\ f.ok = k
<1>1. PICK g \in Nat : g = r.gate + 1
  OBVIOUS
<1> DEFINE f == [r EXCEPT !.gate = g, !.ok = k]
<1>2. f \in Eval /\ f.pc = r.pc /\ f.why = r.why /\ f.obj = r.obj /\ f.gate = g /\ f.ok = k
  BY DEF Eval
<1> QED BY <1>1, <1>2, Zenon

\* An evaluation that goes on, on the same object.
LEMMA PeekKeeps ==
    ASSUME XInv, NEW c \in Client, Peek(c)
    PROVE  XInv'
<1>1. /\ call[c].pc = "peek" /\ call[c].gate <= Len(policy.gates)
      /\ UNCHANGED <<txns, txn, xmu, tmu, qmu, st, policy, budget, effects>>
  BY DEF Peek, At, locks
<1>2. /\ CallPlace(c) /\ CallPhase(c) /\ CallTokens(c) /\ RoomKept(c) /\ RoomFound(c)
      /\ call[c] \in Eval /\ qmu = c
  BY <1>1 DEF XInv, CallOK, CallRoom, CallPlace, Evaluates
<1>3. /\ Len(policy.gates) \in Nat /\ Gates \subseteq Gate
      /\ \A i \in 1 .. Len(policy.gates) : policy.gates[i] \in Gates
  BY PolicyParts DEF XInv
<1>i. PICK i : i = call[c].gate
  OBVIOUS
<1>j. i \in 1 .. Len(policy.gates) /\ i + 1 \in 1 .. Len(policy.gates) + 1 /\ call[c].ok \subseteq Gates
  BY <1>1, <1>2, <1>3, <1>i DEF CallPlace, Evaluates
<1>g. PICK g \in Gates : g = policy.gates[i]
  BY <1>3, <1>j
<1> DEFINE k == IF HasRoom(g) THEN call[c].ok \cup {g} ELSE call[c].ok
           f == [call[c] EXCEPT !.gate = @ + 1, !.ok = k]
<1>4. call' = [call EXCEPT ![c] = f]
  <2>1. call' = [call EXCEPT ![c].gate = @ + 1, ![c].ok = IF HasRoom(g) THEN @ \cup {g} ELSE @]
    BY <1>i, <1>g DEF Peek
  <2> QED BY <1>2, <2>1 DEF Eval
<1>6. k \in SUBSET Gate /\ k \subseteq Gates /\ call[c].ok \subseteq k
      /\ \A h : h \in k <=> (h \in call[c].ok \/ (h = g /\ HasRoom(g)))
  BY <1>3, <1>j
<1> HIDE DEF k
<1>8. /\ f \in Eval /\ f.pc = "peek" /\ f.why = call[c].why /\ f.obj = call[c].obj
      /\ f.gate = i + 1 /\ f.ok = k
  <2>1. call[c].gate \in Nat
    BY <1>2 DEF Eval
  <2>2. /\ f \in Eval /\ f.pc = call[c].pc /\ f.why = call[c].why /\ f.obj = call[c].obj
        /\ f.gate = call[c].gate + 1 /\ f.ok = k
    BY <1>2, <1>6, <2>1, PutPeek, Zenon
  <2> QED BY <1>1, <1>i, <2>2
<1> HIDE DEF f
<1>9. /\ call' = [d \in Client |-> call'[d]] /\ call'[c] = f
      /\ \A d \in Client \ {c} : call'[d] = call[d]
  BY <1>4, Parts, PutCall
<1>a. /\ call'[c] \in Eval /\ call'[c].pc = "peek" /\ call'[c].why = call[c].why
      /\ call'[c].obj = call[c].obj /\ call'[c].gate = i + 1 /\ call'[c].ok = k
  BY <1>8, <1>9
<1>10. Gates' = Gates /\ policy' = policy /\ txn' = txn /\ moved' = moved /\ mishap' = mishap
       /\ \A h : HasRoom(h)' <=> HasRoom(h)
  BY <1>1, SameEffects
<1>11. CallPlace(c)' /\ CallPhase(c)'
  BY <1>1, <1>2, <1>6, <1>a, <1>10, <1>j
     DEF CallPlace, CallPhase, Places, Mine, Preparing, Committing, For, Evaluates
<1>12. CallTokens(c)'
  <2>1. PICK o : o = call[c].obj
    OBVIOUS
  <2>2. \A n \in Nat : Effect(o, n)' = Effect(o, n)
    BY <1>1, <2>1, SameEffects
  <2> QED BY <1>1, <1>2, <1>a, <2>1, <2>2 DEF CallTokens, For, Evaluates
<1>13. RoomKept(c)'
  <2>1. ASSUME NEW h \in k PROVE HasRoom(h) \/ (h \in call[c].ok)
    BY <1>6, <2>1
  <2>2. ASSUME NEW j \in 1 .. Len(policy.gates), policy.gates[j] \in k
        PROVE  HasRoom(policy.gates[j]) \/ policy.gates[j] \in mishap
    BY <1>1, <1>2, <2>1, <2>2 DEF RoomKept, Evaluates
  <2>3. ASSUME NEW j \in 1 .. Len(policy.gates), policy.gates[j] \in k
        PROVE  HasRoom(policy.gates[j])' \/ policy.gates[j] \in mishap
    <3>1. PICK h : h = policy.gates[j]
      OBVIOUS
    <3>2. HasRoom(h)' \/ h \in mishap
      BY <1>10, <2>2, <2>3, <3>1
    <3>3. policy'.gates[j] = h
      BY <1>10, <3>1
    <3> QED BY <3>1, <3>2, <3>3 DEF HasRoom
  <2> QED BY <1>10, <1>a, <2>3 DEF RoomKept, Evaluates
<1>14. RoomFound(c)'
  <2>1. PICK o : o = call[c].obj
    OBVIOUS
  <2>2. (Free(o)' <=> Free(o)) /\ (NeedsQuota(o)' <=> NeedsQuota(o))
    BY <1>10 DEF Free, NeedsQuota
  <2>3. For(c, "prepare") /\ Free(o) => \A h \in k : HasRoom(h)
    BY <1>2, <1>6, <2>1 DEF RoomFound
  <2>4. ASSUME NEW j \in 1 .. Len(policy.gates), HasRoom(policy.gates[j])
        PROVE  HasRoom(policy.gates[j])'
    <3>1. PICK h : h = policy.gates[j]
      OBVIOUS
    <3>2. HasRoom(h)' /\ policy'.gates[j] = h
      BY <1>10, <2>4, <3>1
    <3> QED BY <3>1, <3>2 DEF HasRoom
  <2>5. ASSUME call[c].why = "commit", Free(o)
        PROVE  IF policy.mode = "any"
               THEN k # {} \/ \E j \in i + 1 .. Len(policy.gates) : HasRoom(policy.gates[j])'
               ELSE \A j \in 1 .. Len(policy.gates) :
                        IF j < i + 1 THEN policy.gates[j] \in k ELSE HasRoom(policy.gates[j])'
    <3>1. IF policy.mode = "any"
          THEN call[c].ok # {} \/ \E j \in i .. Len(policy.gates) : HasRoom(policy.gates[j])
          ELSE \A j \in 1 .. Len(policy.gates) :
                   IF j < i THEN policy.gates[j] \in call[c].ok ELSE HasRoom(policy.gates[j])
      BY <1>1, <1>2, <1>i, <2>1, <2>5 DEF RoomFound
    <3>2. \A j \in i .. Len(policy.gates) : j \in 1 .. Len(policy.gates) /\ (j = i \/ j \in i + 1 .. Len(policy.gates))
      BY <1>3, <1>j
    <3>3. HasRoom(policy.gates[i]) => g \in k
      BY <1>6, <1>g
    <3>4. CASE policy.mode = "any"
      BY <1>6, <2>4, <3>1, <3>2, <3>3, <3>4
    <3>5. CASE policy.mode # "any"
      <4> SUFFICES ASSUME NEW j \in 1 .. Len(policy.gates)
                   PROVE  IF j < i + 1 THEN policy.gates[j] \in k ELSE HasRoom(policy.gates[j])'
        BY <3>5
      <4>1. j < i \/ j = i \/ (j > i /\ ~(j < i + 1) /\ ~(j < i))
        BY <1>j
      <4>2. CASE j < i
        BY <1>6, <1>j, <3>1, <3>5, <4>2
      <4>3. CASE j = i
        BY <1>j, <1>g, <3>1, <3>3, <3>5, <4>3
      <4>4. CASE j > i /\ ~(j < i + 1) /\ ~(j < i)
        BY <2>4, <3>1, <3>5, <4>4
      <4> QED BY <4>1, <4>2, <4>3, <4>4
    <3> QED BY <3>4, <3>5
  <2> QED BY <1>1, <1>10, <1>a, <2>1, <2>2, <2>3, <2>5 DEF RoomFound, For, Evaluates
<1>15. CallOK(c)'
  BY <1>11, <1>12, <1>13, <1>14 DEF CallOK, CallRoom
<1> QED BY <1>1, <1>9, <1>15, Quiet, Parts

\* An evaluation that turns to its first gate again.
LEMMA PutConsume ==
    ASSUME NEW r \in Eval
    PROVE  LET f == [r EXCEPT !.pc = "consume", !.gate = 1] IN
           /\ f \in Eval /\ f.pc = "consume" /\ f.why = r.why /\ f.obj = r.obj
           /\ f.gate = 1 /\ f.ok = r.ok
<1>1. PICK p \in {"peek", "consume"}, g \in Nat : p = "consume" /\ g = 1
  OBVIOUS
<1> DEFINE f == [r EXCEPT !.pc = p, !.gate = g]
<1>2. f \in Eval /\ f.pc = p /\ f.why = r.why /\ f.obj = r.obj /\ f.gate = g /\ f.ok = r.ok
  BY DEF Eval
<1> QED BY <1>1, <1>2, Zenon

\* An evaluation that consumes has found room in every gate it passed.
LEMMA DecideConsumeKeeps ==
    ASSUME XInv, NEW c \in Client, DecideConsume(c)
    PROVE  XInv'
<1>1. /\ call[c].pc = "peek" /\ Admitted(call[c].ok) /\ call[c].why # "prepare"
      /\ UNCHANGED <<txns, txn, xmu, tmu, qmu, st, policy, budget, effects>>
  BY DEF DecideConsume, At, locks
<1>2. /\ CallPlace(c) /\ CallPhase(c) /\ CallTokens(c) /\ RoomKept(c) /\ call[c] \in Eval /\ qmu = c
  BY <1>1 DEF XInv, CallOK, CallRoom, CallPlace, Evaluates
<1> DEFINE f == [call[c] EXCEPT !.pc = "consume", !.gate = 1]
<1>4. call' = [call EXCEPT ![c] = f]
  BY DEF DecideConsume
<1>8. /\ f \in Eval /\ f.pc = "consume" /\ f.why = call[c].why /\ f.obj = call[c].obj
      /\ f.gate = 1 /\ f.ok = call[c].ok
  BY <1>2, PutConsume, Zenon
<1> HIDE DEF f
<1>9. /\ call' = [d \in Client |-> call'[d]] /\ call'[c] = f
      /\ \A d \in Client \ {c} : call'[d] = call[d]
  BY <1>4, Parts, PutCall
<1>10. Gates' = Gates /\ policy' = policy /\ moved' = moved /\ mishap' = mishap
       /\ (\A h : HasRoom(h)' <=> HasRoom(h)) /\ Passed(1)' = Passed(1)
  BY <1>1, SameEffects
<1>c. /\ call'[c] \in Eval /\ call'[c].pc = "consume" /\ call'[c].why = call[c].why
      /\ call'[c].obj = call[c].obj /\ call'[c].gate = 1 /\ call'[c].ok = call[c].ok
  BY <1>8, <1>9
<1>a. Mine(c)' <=> Mine(c)
  BY <1>1, <1>c DEF Mine, Preparing, Committing, For, Evaluates
<1>b. Admitted(call[c].ok)'
  BY <1>1, <1>c, <1>10 DEF Admitted
<1>d. 1 \in 1 .. Len(policy.gates) + 1
  BY PolicyParts DEF XInv
<1>11. CallPlace(c)' /\ CallPhase(c)'
  BY <1>1, <1>2, <1>c, <1>a, <1>b, <1>d, <1>10
     DEF CallPlace, CallPhase, Places, Preparing, Committing, For, Evaluates
<1>12. CallTokens(c)'
  <2>1. PICK o : o = call[c].obj
    OBVIOUS
  <2>2. \A i \in Nat : Effect(o, i)' = Effect(o, i)
    BY <1>1, <2>1, SameEffects
  <2>3. CASE call[c].why = "commit"
    <3>1. o \in 1 .. Len(txn) /\ txn[o].committed \in Nat
      BY <1>1, <2>1, <2>3, Holder DEF Mine, Committing, For, Evaluates
    <3>2. Effect(o, txn[o].committed + 1) = {}
      BY <1>1, <1>2, <2>1, <2>3, <3>1 DEF CallTokens, For, Evaluates
    <3>3. Passed(1) = {}
      BY DEF Passed
    <3> QED BY <1>1, <1>2, <1>c, <1>10, <2>1, <2>2, <3>1, <3>2, <3>3 DEF CallTokens, For, Evaluates
  <2>4. CASE call[c].why # "commit"
    BY <1>c, <2>4 DEF CallTokens, For, Evaluates
  <2> QED BY <2>3, <2>4
<1>13. RoomKept(c)'
  <2>1. ASSUME NEW i \in 1 .. Len(policy.gates), policy.gates[i] \in call[c].ok
        PROVE  HasRoom(policy.gates[i])' \/ policy.gates[i] \in mishap
    <3>1. PICK h : h = policy.gates[i]
      OBVIOUS
    <3>2. HasRoom(h)' \/ h \in mishap
      BY <1>1, <1>2, <1>10, <2>1, <3>1 DEF RoomKept, Evaluates
    <3>3. policy'.gates[i] = h
      BY <1>10, <3>1
    <3> QED BY <3>1, <3>2, <3>3 DEF HasRoom
  <2> QED BY <1>10, <1>c, <2>1 DEF RoomKept, Evaluates
<1>14. RoomFound(c)'
  BY <1>1, <1>c DEF RoomFound, For, Evaluates
<1> QED BY <1>1, <1>9, <1>11, <1>12, <1>13, <1>14, Quiet, Parts DEF CallOK, CallRoom

\* A denied or a peeking evaluation gives the mutex back; a commit that is
\* denied was admitted when it was prepared, so a budget has moved.
LEMMA DecideKeeps ==
    ASSUME XInv, NEW c \in Client, Decide(c)
    PROVE  XInv'
<1> DEFINE yes == Admitted(call[c].ok)
<1>1. /\ call[c].pc = "peek" /\ call[c].gate > Len(policy.gates)
      /\ ~ (yes /\ call[c].why # "prepare")
      /\ UNCHANGED <<txns, txn, xmu, tmu, st, policy, budget, effects>> /\ qmu' = None
  BY DEF Decide, Leave, At
<1>2. /\ CallPlace(c) /\ CallPhase(c) /\ CallTokens(c) /\ RoomFound(c)
      /\ call[c] \in Eval /\ qmu = c
  BY <1>1 DEF XInv, CallOK, CallRoom, CallPlace, Evaluates
<1>3. PICK o : o = call[c].obj
  OBVIOUS
<1>10. /\ (RoomNow' <=> RoomNow) /\ moved' = moved /\ mishap' = mishap /\ policy' = policy
       /\ (Free(o)' <=> Free(o)) /\ (NeedsQuota(o)' <=> NeedsQuota(o))
  BY <1>1, SameEffects DEF Free, NeedsQuota
<1>4. Free(o) => /\ call[c].why = "prepare" /\ yes => RoomNow
                 /\ call[c].why = "commit" => yes
  <2> SUFFICES ASSUME Free(o)
               PROVE  /\ call[c].why = "prepare" /\ yes => RoomNow
                      /\ call[c].why = "commit" => yes
    OBVIOUS
  <2>1. /\ call[c].ok \subseteq Gates /\ call[c].gate \in Nat /\ Len(policy.gates) \in Nat
        /\ Gates = {policy.gates[i] : i \in 1 .. Len(policy.gates)}
    BY <1>1, <1>2, PolicyParts DEF CallPlace, Evaluates, XInv, Eval
  <2>2. call[c].why = "prepare" => \A g \in call[c].ok : HasRoom(g)
    BY <1>1, <1>2, <1>3 DEF RoomFound, For, Evaluates
  <2>3. call[c].why = "commit" =>
           IF policy.mode = "any" THEN call[c].ok # {}
           ELSE \A i \in 1 .. Len(policy.gates) : policy.gates[i] \in call[c].ok
    BY <1>1, <1>2, <1>3, <2>1 DEF RoomFound
  <2>4. call[c].why = "prepare" /\ yes => RoomNow
    BY <2>1, <2>2 DEF RoomNow, Admitted
  <2>5. call[c].why = "commit" => yes
    BY <2>1, <2>3 DEF Admitted
  <2> QED BY <2>4, <2>5
<1> HIDE DEF yes
<1>5. CASE call[c].why = "admit"
  <2>1. Goto(c, Idle)
    BY <1>5 DEF Decide, Leave
  <2>2. /\ call' = [d \in Client |-> call'[d]] /\ call'[c] = Idle
        /\ \A d \in Client \ {c} : call'[d] = call[d]
    BY <2>1, Parts, PutCall DEF Goto
  <2> QED BY <1>1, <1>2, <2>2, IdleOK, Quiet, Parts
<1>6. CASE call[c].why # "admit"
  <2>1. Mine(c) /\ call[c].why \in {"prepare", "commit"}
    BY <1>1, <1>2, <1>6 DEF Eval, Mine, Preparing, Committing, For, Evaluates
  <2>2. /\ o \in 1 .. Len(txn) /\ tmu[o] = c /\ txn[o].prepared \in Nat /\ txn[o].committed \in Nat
        /\ Len(txn[o].staged) \in Nat /\ ObjRoom(o)
    BY <1>3, <2>1, Holder
  <2>3. PICK q \in {"token", "abort", "partial"} :
            /\ Goto(c, [pc |-> q, obj |-> o])
            /\ call[c].why = "prepare" => q # "partial" /\ (q = "token" => yes)
            /\ call[c].why = "commit" => q = "partial"
    <3>1. CASE call[c].why = "prepare"
      BY <1>3, <3>1 DEF Decide, Leave, yes
    <3>2. CASE call[c].why = "commit"
      BY <1>3, <3>2 DEF Decide, Leave, yes
    <3> QED BY <2>1, <3>1, <3>2
  <2> DEFINE f == [pc |-> q, obj |-> o]
  <2>4. call' = [call EXCEPT ![c] = f] /\ f.pc = q /\ f.obj = o
    BY <2>3 DEF Goto
  <2> HIDE DEF f
  <2>5. /\ call' = [d \in Client |-> call'[d]] /\ call'[c] = f
        /\ \A d \in Client \ {c} : call'[d] = call[d]
    BY <2>4, Parts, PutCall
  <2>6. CASE q = "partial"
    <3>1. /\ txn[o].state = "committing" /\ txn[o].committed < txn[o].prepared
          /\ txn[o].staged[txn[o].committed + 1] = "quota" /\ call[c].why = "commit"
      BY <1>1, <1>2, <1>3, <2>1, <2>3, <2>6 DEF CallPhase, Committing, For, Evaluates
    <3>2. ~yes
      BY <1>1, <3>1
    <3>4. ~Free(o)
      BY <1>4, <3>1, <3>2
    <3> QED
      <4>1. CallOK(c)'
        BY <1>1, <1>10, <2>2, <2>4, <2>5, <2>6, <3>1, <3>4
           DEF CallOK, CallPlace, CallPhase, CallTokens, CallRoom, RoomKept, RoomFound, Places, Mine,
               Preparing, Committing, For, Evaluates
      <4> QED BY <1>1, <1>2, <2>5, <4>1, Quiet, Parts
  <2>7. CASE q \in {"token", "abort"}
    <3>1. /\ txn[o].state = "preparing" /\ txn[o].prepared < Len(txn[o].staged)
          /\ call[c].why = "prepare"
      BY <1>1, <1>2, <1>3, <2>1, <2>3, <2>7 DEF CallPhase, Preparing, For, Evaluates
    <3>2. q = "token" /\ Free(o) => RoomNow
      BY <1>4, <2>3, <3>1
    <3>4. CallOK(c)'
      BY <1>1, <1>10, <2>2, <2>4, <2>5, <2>7, <3>1, <3>2
         DEF CallOK, CallPlace, CallPhase, CallTokens, CallRoom, RoomKept, RoomFound, Places, Mine,
             Preparing, Committing, For, Evaluates
    <3> QED BY <1>1, <1>2, <2>5, <3>4, Quiet, Parts
  <2> QED BY <2>6, <2>7
<1> QED BY <1>5, <1>6

\* What the end of a call on an object does to both.
LEMMA EndParts ==
    ASSUME XInv, NEW c \in Client, Mine(c), NEW o, o = call[c].obj, NEW s \in States, End(c, o, s)
    PROVE  /\ Writes(o) /\ txn'[o].state = s /\ txn'[o].staged = txn[o].staged
           /\ txn'[o].prepared = txn[o].prepared /\ txn'[o].committed = txn[o].committed
           /\ tmu' \in [Obj -> Client \cup {None}] /\ \A p \in Obj \ {o} : tmu'[p] = tmu[p]
           /\ call' = [d \in Client |-> call'[d]] /\ \A d \in Client \ {c} : call'[d] = call[d]
           /\ CallOK(c)'
<1>1. SetState(o, s) /\ tmu' = [tmu EXCEPT ![o] = None] /\ call' = [call EXCEPT ![c] = Idle]
  BY DEF End, Return, Goto
<1>2. Shape /\ tmu \in [Obj -> Client \cup {None}] /\ o \in 1 .. Len(txn) /\ o \in Obj
  BY Parts, Holder
<1>3. /\ Writes(o) /\ txn'[o].state = s /\ txn'[o].staged = txn[o].staged
      /\ txn'[o].prepared = txn[o].prepared /\ txn'[o].committed = txn[o].committed
  BY <1>1, <1>2, PutState
<1>4. tmu' \in [Obj -> Client \cup {None}] /\ \A p \in Obj \ {o} : tmu'[p] = tmu[p]
  BY <1>1, <1>2
<1>5. /\ call' = [d \in Client |-> call'[d]] /\ call'[c] = Idle
      /\ \A d \in Client \ {c} : call'[d] = call[d]
  BY <1>1, <1>2, PutCall
<1>6. CallOK(c)'
  BY <1>5, IdleOK
<1> QED BY <1>3, <1>4, <1>5, <1>6

\* ABORT, and a PREPARE that failed, find nothing applied and leave no token.
LEMMA AbortKeeps ==
    ASSUME XInv, NEW c \in Client, Abort(c)
    PROVE  XInv'
<1>1. PICK o : o = call[c].obj
  OBVIOUS
<1>2. /\ call[c].pc = "abort" /\ st' = {t \in st : t[1] # o} /\ End(c, o, "aborted")
      /\ UNCHANGED <<txns, xmu, qmu, policy, budget, effects>>
  BY <1>1 DEF Abort, At
<1>3. Mine(c) /\ CallPhase(c)
  BY <1>2 DEF Mine, XInv, CallOK
<1>4. /\ o \in 1 .. Len(txn) /\ o \in Nat /\ tmu[o] = c /\ ObjPhase(o) /\ ObjTokens(o)
      /\ txn[o].state \in {"open", "preparing", "prepared"}
      /\ txn[o].prepared \in Nat /\ txn[o].committed \in Nat /\ Len(txn[o].staged) \in Nat
  BY <1>1, <1>2, <1>3, Holder DEF CallPhase
<1>5. "aborted" \in States
  BY DEF States, Done
<1>6. /\ Writes(o) /\ txn'[o].state = "aborted" /\ txn'[o].staged = txn[o].staged
      /\ txn'[o].prepared = txn[o].prepared /\ txn'[o].committed = txn[o].committed
      /\ tmu' \in [Obj -> Client \cup {None}] /\ \A p \in Obj \ {o} : tmu'[p] = tmu[p]
      /\ call' = [d \in Client |-> call'[d]] /\ \A d \in Client \ {c} : call'[d] = call[d]
      /\ CallOK(c)'
  BY <1>1, <1>2, <1>3, <1>5, EndParts
<1>7. /\ st' \subseteq (1 .. Len(txn)) \X Nat
      /\ \A p \in Nat \ {o}, i \in Nat : <<p, i>> \in st' <=> <<p, i>> \in st
      /\ \A i \in Nat : <<o, i>> \notin st'
  BY <1>2, Parts
<1>8. ObjOK(o)'
  <2>1. \A i \in Nat : Effect(o, i)' = {}
    BY <1>2, <1>4, SameEffects DEF ObjTokens, Unapplied
  <2>2. txn[o].committed = 0
    BY <1>4 DEF ObjPhase, Unapplied
  <2>3. ObjPhase(o)'
    BY <1>4, <1>6, <2>2 DEF ObjPhase, Unapplied
  <2>4. ObjTokens(o)'
    BY <1>6, <1>7, <2>1, <2>2 DEF ObjTokens
  <2>5. ObjRoom(o)'
    BY <1>6 DEF ObjRoom
  <2> QED BY <2>3, <2>4, <2>5 DEF ObjOK
<1> QED BY <1>2, <1>4, <1>6, <1>7, <1>8, Own, Parts

\* PREPARE ends with a token for each operation.
LEMMA PreparedAllKeeps ==
    ASSUME XInv, NEW c \in Client, PreparedAll(c)
    PROVE  XInv'
<1>1. PICK o : o = call[c].obj
  OBVIOUS
<1>2. /\ call[c].pc = "prepare" /\ txn[o].prepared + 1 > Len(txn[o].staged) /\ End(c, o, "prepared")
      /\ UNCHANGED <<txns, xmu, qmu, st, policy, budget, effects>>
  BY <1>1 DEF PreparedAll, At, ToPrepare, Staged
<1>3. Mine(c) /\ CallPhase(c)
  BY <1>2 DEF Mine, Preparing, XInv, CallOK
<1>4. /\ o \in 1 .. Len(txn) /\ o \in Nat /\ tmu[o] = c /\ ObjPhase(o) /\ ObjTokens(o) /\ ObjRoom(o)
      /\ txn[o].state = "preparing"
      /\ txn[o].prepared \in Nat /\ txn[o].committed \in Nat /\ Len(txn[o].staged) \in Nat
  BY <1>1, <1>2, <1>3, Holder DEF CallPhase, Preparing
<1>5. "prepared" \in States
  BY DEF States, Done
<1>6. /\ Writes(o) /\ txn'[o].state = "prepared" /\ txn'[o].staged = txn[o].staged
      /\ txn'[o].prepared = txn[o].prepared /\ txn'[o].committed = txn[o].committed
      /\ tmu' \in [Obj -> Client \cup {None}] /\ \A p \in Obj \ {o} : tmu'[p] = tmu[p]
      /\ call' = [d \in Client |-> call'[d]] /\ \A d \in Client \ {c} : call'[d] = call[d]
      /\ CallOK(c)'
  BY <1>1, <1>2, <1>3, <1>5, EndParts
<1>7. ObjOK(o)'
  <2>1. txn[o].committed = 0 /\ txn[o].prepared = Len(txn[o].staged)
    BY <1>2, <1>4 DEF ObjPhase, Unapplied
  <2>2. ObjPhase(o)'
    BY <1>4, <1>6, <2>1 DEF ObjPhase, Unapplied
  <2>3. ObjTokens(o)'
    BY <1>2, <1>4, <1>6, <2>1, SameEffects DEF ObjTokens, Unapplied
  <2>4. (RoomNow' <=> RoomNow) /\ (Free(o)' <=> Free(o)) /\ (NeedsQuota(o)' <=> NeedsQuota(o))
    BY <1>2, <1>6, SameEffects DEF Free, NeedsQuota
  <2>5. ObjRoom(o)'
    BY <1>4, <1>6, <2>4 DEF ObjRoom
  <2> QED BY <2>2, <2>3, <2>5 DEF ObjOK
<1> QED BY <1>2, <1>4, <1>6, <1>7, Own, Parts

\* COMMIT ends with each operation applied.
LEMMA CommittedAllKeeps ==
    ASSUME XInv, NEW c \in Client, CommittedAll(c)
    PROVE  XInv'
<1>1. PICK o : o = call[c].obj
  OBVIOUS
<1>2. /\ call[c].pc = "commit" /\ txn[o].committed + 1 > txn[o].prepared /\ End(c, o, "committed")
      /\ UNCHANGED <<txns, xmu, qmu, st, policy, budget, effects>>
  BY <1>1 DEF CommittedAll, At, ToCommit
<1>3. Mine(c) /\ CallPhase(c)
  BY <1>2 DEF Mine, Committing, XInv, CallOK
<1>4. /\ o \in 1 .. Len(txn) /\ o \in Nat /\ tmu[o] = c /\ ObjPhase(o) /\ ObjTokens(o) /\ ObjRoom(o)
      /\ txn[o].state = "committing"
      /\ txn[o].prepared \in Nat /\ txn[o].committed \in Nat /\ Len(txn[o].staged) \in Nat
  BY <1>1, <1>2, <1>3, Holder DEF CallPhase, Committing
<1>5. "committed" \in States
  BY DEF States, Done
<1>6. /\ Writes(o) /\ txn'[o].state = "committed" /\ txn'[o].staged = txn[o].staged
      /\ txn'[o].prepared = txn[o].prepared /\ txn'[o].committed = txn[o].committed
      /\ tmu' \in [Obj -> Client \cup {None}] /\ \A p \in Obj \ {o} : tmu'[p] = tmu[p]
      /\ call' = [d \in Client |-> call'[d]] /\ \A d \in Client \ {c} : call'[d] = call[d]
      /\ CallOK(c)'
  BY <1>1, <1>2, <1>3, <1>5, EndParts
<1>7. ObjOK(o)'
  <2>1. txn[o].committed = txn[o].prepared
    BY <1>2, <1>4 DEF ObjPhase
  <2>2. ObjPhase(o)'
    BY <1>4, <1>6, <2>1 DEF ObjPhase, Unapplied
  <2>3. \A i \in Nat : Full(o, i)' = Full(o, i)
    BY <1>2, <1>6, SameEffects DEF Full, Staged
  <2>4. Calm' <=> Calm
    BY <1>2, SameEffects
  <2>5. ObjTokens(o)'
    BY <1>2, <1>4, <1>6, <2>3, <2>4, SameEffects DEF ObjTokens, Unapplied
  <2>6. ObjRoom(o)'
    BY <1>6 DEF ObjRoom
  <2> QED BY <2>2, <2>5, <2>6 DEF ObjOK
<1> QED BY <1>2, <1>4, <1>6, <1>7, Own, Parts

\* A COMMIT that was denied ends half-way.
LEMMA PartialKeeps ==
    ASSUME XInv, NEW c \in Client, Partial(c)
    PROVE  XInv'
<1>1. PICK o : o = call[c].obj
  OBVIOUS
<1>2. /\ call[c].pc = "partial" /\ End(c, o, "commit_partial")
      /\ UNCHANGED <<txns, xmu, qmu, st, policy, budget, effects>>
  BY <1>1 DEF Partial, At
<1>3. Mine(c) /\ CallPhase(c) /\ RoomFound(c)
  BY <1>2 DEF Mine, Committing, XInv, CallOK, CallRoom
<1>4. /\ o \in 1 .. Len(txn) /\ o \in Nat /\ tmu[o] = c /\ ObjPhase(o) /\ ObjTokens(o)
      /\ txn[o].state = "committing" /\ txn[o].committed < txn[o].prepared /\ ~Free(o)
      /\ txn[o].prepared \in Nat /\ txn[o].committed \in Nat /\ Len(txn[o].staged) \in Nat
  BY <1>1, <1>2, <1>3, Holder DEF CallPhase, RoomFound, Committing
<1>5. "commit_partial" \in States
  BY DEF States, Done
<1>6. /\ Writes(o) /\ txn'[o].state = "commit_partial" /\ txn'[o].staged = txn[o].staged
      /\ txn'[o].prepared = txn[o].prepared /\ txn'[o].committed = txn[o].committed
      /\ tmu' \in [Obj -> Client \cup {None}] /\ \A p \in Obj \ {o} : tmu'[p] = tmu[p]
      /\ call' = [d \in Client |-> call'[d]] /\ \A d \in Client \ {c} : call'[d] = call[d]
      /\ CallOK(c)'
  BY <1>1, <1>2, <1>3, <1>5, EndParts
<1>7. ObjOK(o)'
  <2>2. ObjPhase(o)'
    BY <1>4, <1>6 DEF ObjPhase, Unapplied
  <2>3. \A i \in Nat : Full(o, i)' = Full(o, i)
    BY <1>2, <1>6, SameEffects DEF Full, Staged
  <2>4. Calm' <=> Calm
    BY <1>2, SameEffects
  <2>5. ObjTokens(o)'
    BY <1>2, <1>4, <1>6, <2>3, <2>4, SameEffects DEF ObjTokens, Unapplied
  <2>6. ObjRoom(o)'
    BY <1>2, <1>4, <1>6, SameEffects DEF ObjRoom, Free
  <2> QED BY <2>2, <2>5, <2>6 DEF ObjOK
<1> QED BY <1>2, <1>4, <1>6, <1>7, Own, Parts

\* Begin makes an object that has no token and no effect.
LEMMA BeginKeeps ==
    ASSUME XInv, NEW c \in Client, NEW x \in Xid, Begin(c, x)
    PROVE  XInv'
<1> DEFINE r == [state |-> "open", staged |-> <<>>, prepared |-> 0, committed |-> 0]
<1>1. /\ Len(txn) < MaxObj /\ txn' = Append(txn, r) /\ txns' = [txns EXCEPT ![x] = Len(txn) + 1]
      /\ call[c].pc = "idle" /\ UNCHANGED <<xmu, tmu, qmu, st, policy, call, budget, effects>>
  BY DEF Begin, At, locks
<1>2. /\ r \in Record /\ r.state = "open" /\ r.prepared = 0 /\ r.committed = 0
      /\ r.staged = <<>>
  BY DEF Record, States
<1> HIDE DEF r
<1>3. Shape /\ RiskWithinBudget /\ Len(txn) \in Nat /\ txn \in Seq(Record)
  BY Parts DEF XInv, Shape
<1>4. PICK o : o = Len(txn) + 1
  OBVIOUS
<1>5. /\ o \in Nat /\ o # 0 /\ txn' \in Seq(Record) /\ Len(txn') = o /\ txn'[o] = r
      /\ \A p \in 1 .. Len(txn) : txn'[p] = txn[p]
  BY <1>1, <1>2, <1>3, <1>4
<1>6. Shape'
  <2>1. Len(txn') <= MaxObj /\ 0 .. Len(txn) \subseteq 0 .. Len(txn') /\ 1 .. Len(txn) \subseteq 1 .. Len(txn')
    BY <1>1, <1>3, <1>4, <1>5, XTxnBounds
  <2>2. txns' \in [Xid -> 0 .. Len(txn')]
    BY <1>1, <1>3, <1>4, <1>5, Parts
  <2>3. st' \subseteq (1 .. Len(txn')) \X Nat
    BY <1>1, <2>1, Parts
  <2>4. UNCHANGED <<applied, spent, limit, unknown>>
    BY <1>1 DEF effects
  <2> QED BY <1>1, <1>3, <1>5, <2>1, <2>2, <2>3, <2>4 DEF Shape
<1>7. RiskWithinBudget'
  BY <1>1, <1>3 DEF RiskWithinBudget, effects
<1>8. Frame(c, o)
  <2>1. Closes(c, o)
    BY <1>1, SameEffects DEF Closes
  <2>2. \A p, i : Effect(p, i)' = Effect(p, i)
    BY <1>1, SameEffects
  <2>3. moved' = moved /\ mishap' = mishap
    BY <1>1, SameEffects
  <2> QED BY <1>1, <1>3, <1>4, <1>5, <2>1, <2>2, <2>3 DEF Frame
<1>9. CallOK(c)'
  BY <1>1 DEF CallOK, CallPlace, CallPhase, CallTokens, CallRoom, RoomKept, RoomFound, Places, Mine,
              Preparing, Committing, For, Evaluates
<1>10. ObjOK(o)'
  <2>1. \A i \in Nat : <<o, i>> \notin st'
    BY <1>1, <1>3, <1>4, Parts
  <2>8. \A i \in Nat, g \in Gate : <<<<o, i>>, g>> \in applied => o \in 0 .. Len(txn)
    BY <1>3, <1>5, Zenon DEF Shape
  <2>9. o \notin 0 .. Len(txn)
    BY <1>3, <1>4
  <2>2. \A i \in Nat : Effect(o, i) = {}
    BY <2>8, <2>9 DEF Effect
  <2>3. \A i \in Nat : Effect(o, i)' = {}
    BY <1>1, <2>2, SameEffects
  <2>4. Len(<<>>) = 0
    OBVIOUS
  <2>5. ObjPhase(o)'
    BY <1>2, <1>5, <2>4 DEF ObjPhase, Unapplied
  <2>6. ObjTokens(o)'
    BY <1>2, <1>5, <2>1, <2>3 DEF ObjTokens
  <2>7. ObjRoom(o)'
    BY <1>2, <1>5 DEF ObjRoom
  <2> QED BY <2>5, <2>6, <2>7 DEF ObjOK
<1>11. \A p \in 1 .. Len(txn') : p \notin (1 .. Len(txn)) \ {o} => p = o
  BY <1>3, <1>4, <1>5
<1> QED BY <1>6, <1>7, <1>8, <1>9, <1>10, <1>11, Local

\* An operation is staged in an open transaction only.
LEMMA StageAddKeeps ==
    ASSUME XInv, NEW c \in Client, NEW a \in {"quota", "ground"}, StageAdd(c, a)
    PROVE  XInv'
<1>1. PICK o : o = call[c].obj
  OBVIOUS
<1>2. /\ call[c].pc = "stage" /\ tmu[o] = None /\ xmu' = None /\ call' = [call EXCEPT ![c] = Idle]
      /\ txn' = IF txn[o].state = "open" THEN [txn EXCEPT ![o].staged = Append(@, a)] ELSE txn
      /\ UNCHANGED <<txns, tmu, qmu, st, policy, budget, effects>>
  BY <1>1 DEF StageAdd, At, Return, Goto
<1>3. o \in 1 .. Len(txn) /\ ObjOK(o) /\ Shape
  BY <1>1, <1>2 DEF XInv, CallOK, CallPlace
<1>4. /\ call' = [d \in Client |-> call'[d]] /\ call'[c] = Idle
      /\ \A d \in Client \ {c} : call'[d] = call[d]
  BY <1>2, <1>3, PutCall
<1>5. CallOK(c)'
  BY <1>4, IdleOK
<1>6. CASE txn[o].state # "open"
  <2>1. txn' = txn
    BY <1>2, <1>6
  <2> QED BY <1>2, <1>4, <1>5, <2>1, Quiet, Parts
<1>7. CASE txn[o].state = "open"
  <2>1. /\ Writes(o) /\ txn'[o].state = "open" /\ txn'[o].staged = Append(txn[o].staged, a)
        /\ txn'[o].prepared = txn[o].prepared /\ txn'[o].committed = txn[o].committed
    BY <1>2, <1>3, <1>7, PutStaged
  <2>2. txn[o].prepared = 0 /\ txn[o].committed = 0
    BY <1>3, <1>7 DEF ObjOK, ObjPhase, Unapplied
  <2>3. Len(txn'[o].staged) \in Nat
    BY <1>3, <2>1, Fields
  <2>4. ObjPhase(o)'
    BY <2>1, <2>2, <2>3 DEF ObjPhase
  <2>5. ObjTokens(o)'
    BY <1>2, <1>3, <1>7, <2>1, <2>2, SameEffects DEF ObjOK, ObjTokens, Unapplied
  <2>6. ObjRoom(o)'
    BY <2>1 DEF ObjRoom
  <2>7. ObjOK(o)'
    BY <2>4, <2>5, <2>6 DEF ObjOK
  <2> QED BY <1>2, <1>3, <1>4, <1>5, <2>1, <2>7, Own, Parts
<1> QED BY <1>6, <1>7

\* A call that finds its transaction in the wrong state returns; another takes it.
LEMMA EnterKeeps ==
    ASSUME XInv, NEW c \in Client, Enter(c)
    PROVE  XInv'
<1>1. PICK o : o = call[c].obj
  OBVIOUS
<1>2. /\ call[c].pc = "enter" /\ tmu[o] = None
      /\ UNCHANGED <<txns, xmu, qmu, st, policy, budget, effects>>
  BY <1>1 DEF Enter, At
<1>3. o \in 1 .. Len(txn) /\ ObjPhase(o) /\ ObjTokens(o) /\ ObjRoom(o) /\ Shape /\ call[c].verb \in Verb
  BY <1>1, <1>2 DEF XInv, CallOK, CallPlace, ObjOK
<1>4. /\ o \in Obj /\ o \in Nat /\ txn[o].prepared \in Nat /\ txn[o].committed \in Nat
      /\ Len(txn[o].staged) \in Nat
  BY <1>3, Fields
<1>5. CASE txn[o].state \notin Allows(call[c].verb)
  <2>1. call' = [call EXCEPT ![c] = Idle] /\ UNCHANGED <<tmu, txn>>
    BY <1>1, <1>5 DEF Enter, Return, Goto
  <2>2. /\ call' = [d \in Client |-> call'[d]] /\ call'[c] = Idle
        /\ \A d \in Client \ {c} : call'[d] = call[d]
    BY <1>3, <2>1, PutCall
  <2> QED BY <1>2, <2>1, <2>2, IdleOK, Quiet, Parts
<1>6. CASE txn[o].state \in Allows(call[c].verb)
  <2> DEFINE s == CASE call[c].verb = "prepare" -> "preparing"
                    [] call[c].verb = "commit" -> "committing"
                    [] OTHER -> txn[o].state
             f == [pc |-> call[c].verb, obj |-> o]
  <2>1. /\ tmu' = [tmu EXCEPT ![o] = c] /\ call' = [call EXCEPT ![c] = f] /\ SetState(o, s)
    BY <1>1, <1>6 DEF Enter, Goto
  <2>2. f.pc = call[c].verb /\ f.obj = o
    OBVIOUS
  <2>3. /\ call[c].verb \in {"prepare", "commit", "abort"}
        /\ call[c].verb = "prepare" => txn[o].state = "open" /\ s = "preparing"
        /\ call[c].verb = "commit" => txn[o].state = "prepared" /\ s = "committing"
        /\ call[c].verb = "abort" => txn[o].state \in {"open", "prepared"} /\ s = txn[o].state
    BY <1>3, <1>6 DEF Allows, Verb
  <2>4. s \in States
    BY <2>3 DEF States
  <2> HIDE DEF s, f
  <2>5. /\ Writes(o) /\ txn'[o].state = s /\ txn'[o].staged = txn[o].staged
        /\ txn'[o].prepared = txn[o].prepared /\ txn'[o].committed = txn[o].committed
    BY <1>3, <2>1, <2>4, PutState
  <2>6. /\ call' = [d \in Client |-> call'[d]] /\ call'[c] = f
        /\ \A d \in Client \ {c} : call'[d] = call[d]
    BY <1>3, <2>1, PutCall
  <2>7. /\ tmu' \in [Obj -> Client \cup {None}] /\ \A p \in Obj \ {o} : tmu'[p] = tmu[p]
        /\ tmu'[o] = c /\ c # None
    BY <1>4, <2>1, Parts, XTxnBounds
  <2>8. call'[c].pc = call[c].verb /\ call'[c].obj = o
    BY <2>2, <2>6
  <2>9. ObjOK(o)'
    <3>1. txn[o].committed = 0
      BY <1>3, <2>3 DEF ObjPhase, Unapplied
    <3>2. ObjPhase(o)'
      BY <1>3, <2>3, <2>5, <2>7, <3>1 DEF ObjPhase, Unapplied
    <3>3. ObjTokens(o)'
      BY <1>2, <1>3, <1>4, <2>3, <2>5, <3>1, SameEffects DEF ObjTokens, ObjPhase, Unapplied
    <3>5. ObjRoom(o)'
      <4>1. (RoomNow' <=> RoomNow) /\ (Free(o)' <=> Free(o)) /\ (NeedsQuota(o)' <=> NeedsQuota(o))
        BY <1>2, <2>5, SameEffects DEF Free, NeedsQuota
      <4>2. txn[o].state = "open" => ~NeedsQuota(o)
        BY <1>3, <1>4 DEF ObjPhase, NeedsQuota
      <4> QED BY <1>3, <2>3, <2>5, <4>1, <4>2 DEF ObjRoom
    <3> QED BY <3>2, <3>3, <3>5 DEF ObjOK
  <2>10. CallOK(c)'
    <3>1. Len(txn') = Len(txn)
      BY <2>5 DEF Writes
    <3>2. CallPlace(c)'
      BY <1>3, <2>3, <2>7, <2>8, <3>1
         DEF CallPlace, Places, Mine, Preparing, Committing, For, Evaluates
    <3>3. CallPhase(c)'
      BY <2>3, <2>5, <2>8 DEF CallPhase, Preparing, Committing, For, Evaluates
    <3>4. CallRoom(c)'
      <4>1. (RoomNow' <=> RoomNow) /\ (Free(o)' <=> Free(o)) /\ (NeedsQuota(o)' <=> NeedsQuota(o))
        BY <1>2, <2>5, SameEffects DEF Free, NeedsQuota
      <4>2. call[c].verb = "commit" /\ Free(o) /\ NeedsQuota(o) => RoomNow
        BY <1>3, <2>3 DEF ObjRoom
      <4> QED BY <2>3, <2>8, <4>1, <4>2 DEF CallRoom, RoomKept, RoomFound, For, Evaluates
    <3>5. CallTokens(c)'
      <4>1. CASE call[c].verb # "commit"
        BY <2>3, <2>8, <4>1 DEF CallTokens, For, Evaluates
      <4>2. CASE call[c].verb = "commit"
        <5>1. /\ \A i \in Nat : 0 < i /\ i <= txn[o].prepared => <<o, i>> \in st
              /\ \A i \in Nat : Effect(o, i)' = {}
              /\ txn[o].committed = 0
          BY <1>2, <1>3, <2>3, <4>2, SameEffects DEF ObjTokens, ObjPhase, Unapplied
        <5>2. call'[c].pc = "commit"
          BY <2>8, <4>2
        <5> QED BY <1>2, <2>5, <2>8, <5>1, <5>2 DEF CallTokens, For, Evaluates
      <4> QED BY <4>1, <4>2
    <3> QED BY <3>2, <3>3, <3>4, <3>5 DEF CallOK
  <2> QED BY <1>2, <1>3, <2>5, <2>6, <2>7, <2>9, <2>10, Own, Parts
<1> QED BY <1>5, <1>6

\* The token of the next operation; what the quota policy said of it still
\* holds, or a budget has moved.
LEMMA TokenKeeps ==
    ASSUME XInv, NEW c \in Client, Token(c)
    PROVE  XInv'
<1>1. PICK o : o = call[c].obj
  OBVIOUS
<1> DEFINE f == [pc |-> "prepare", obj |-> o]
           n == txn[o].prepared + 1
<1>2. /\ call[c].pc = "token" /\ st' = st \cup {<<o, n>>}
      /\ txn' = [txn EXCEPT ![o].prepared = @ + 1] /\ call' = [call EXCEPT ![c] = f]
      /\ UNCHANGED <<txns, xmu, tmu, qmu, policy, budget, effects>>
  BY <1>1 DEF Token, At, ToPrepare, Goto, locks
<1>3. f.pc = "prepare" /\ f.obj = o
  OBVIOUS
<1> HIDE DEF f
<1>4. Mine(c) /\ CallPhase(c) /\ RoomFound(c)
  BY <1>2 DEF Mine, Preparing, XInv, CallOK, CallRoom
<1>5. /\ o \in 1 .. Len(txn) /\ o \in Nat /\ tmu[o] = c /\ ObjPhase(o) /\ ObjTokens(o) /\ ObjRoom(o)
      /\ txn[o].state = "preparing" /\ txn[o].prepared < Len(txn[o].staged)
      /\ txn[o].prepared \in Nat /\ txn[o].committed \in Nat /\ Len(txn[o].staged) \in Nat
  BY <1>1, <1>2, <1>4, Holder DEF CallPhase, Preparing
<1>6. /\ Writes(o) /\ txn'[o].state = "preparing" /\ txn'[o].staged = txn[o].staged
      /\ txn'[o].prepared = n /\ txn'[o].committed = txn[o].committed
  BY <1>2, <1>5, Parts, PutPrepared
<1>7. n \in Nat /\ 0 < n /\ n <= Len(txn[o].staged)
  BY <1>5
<1>8. /\ call' = [d \in Client |-> call'[d]] /\ call'[c] = f
      /\ \A d \in Client \ {c} : call'[d] = call[d]
  BY <1>2, Parts, PutCall
<1>9. /\ st' \subseteq (1 .. Len(txn)) \X Nat
      /\ \A p \in Nat \ {o}, i \in Nat : <<p, i>> \in st' <=> <<p, i>> \in st
      /\ \A i \in Nat : <<o, i>> \in st' <=> (<<o, i>> \in st \/ i = n)
  BY <1>2, <1>5, <1>7, Parts
<1>10. \A i \in Nat : i <= n <=> (i <= txn[o].prepared \/ i = n)
  BY <1>5
<1>11. txn[o].committed = 0
  BY <1>5 DEF ObjPhase, Unapplied
<1>12. (RoomNow' <=> RoomNow) /\ (Free(o)' <=> Free(o))
  BY <1>2, <1>6, SameEffects DEF Free
<1>13. Free(o) /\ txn[o].staged[n] = "quota" => RoomNow
  BY <1>1, <1>2, <1>4 DEF RoomFound
<1> HIDE DEF n
<1>14. ObjOK(o)'
  <2>1. ObjPhase(o)'
    BY <1>2, <1>5, <1>6, <1>7, <1>11 DEF ObjPhase, Unapplied
  <2>2. ObjTokens(o)'
    BY <1>2, <1>5, <1>6, <1>7, <1>9, <1>10, <1>11, SameEffects DEF ObjTokens, Unapplied
  <2>3. ObjRoom(o)'
    <3>1. NeedsQuota(o)' => NeedsQuota(o) \/ txn[o].staged[n] = "quota"
      BY <1>6, <1>10 DEF NeedsQuota
    <3> QED BY <1>5, <1>6, <1>12, <1>13, <3>1 DEF ObjRoom
  <2> QED BY <2>1, <2>2, <2>3 DEF ObjOK
<1>15. CallOK(c)'
  <2>1. Len(txn') = Len(txn)
    BY <1>6 DEF Writes
  <2> QED BY <1>2, <1>3, <1>5, <1>6, <1>8, <2>1
             DEF CallOK, CallPlace, CallPhase, CallTokens, CallRoom, RoomKept, RoomFound, Places, Mine,
                 Preparing, Committing, For, Evaluates
<1>16. tmu' \in [Obj -> Client \cup {None}] /\ \A p \in Obj \ {o} : tmu'[p] = tmu[p]
  BY <1>2, Parts
<1> QED BY <1>2, <1>5, <1>6, <1>8, <1>9, <1>14, <1>15, <1>16, Own, Parts

\* The token a commit takes is there: no call but the holder's removes one.
LEMMA CommitQuotaKeeps ==
    ASSUME XInv, NEW c \in Client, CommitQuota(c)
    PROVE  XInv'
<1>1. PICK o : o = call[c].obj
  OBVIOUS
<1> DEFINE f == [pc |-> "peek", why |-> "commit", obj |-> o, gate |-> 1, ok |-> {}]
           n == txn[o].committed + 1
<1>2. /\ call[c].pc = "commit" /\ n <= txn[o].prepared /\ txn[o].staged[n] = "quota"
      /\ st' = st \ {<<o, n>>} /\ UNCHANGED <<txns, xmu, policy, budget>>
      /\ <<o, n>> \in st => /\ qmu = None /\ qmu' = c /\ UNCHANGED <<txn, tmu, effects>>
                            /\ call' = [call EXCEPT ![c] = f]
  BY <1>1 DEF CommitQuota, At, ToCommit, Staged, Goto, effects
<1>3. Mine(c) /\ CallPhase(c) /\ CallTokens(c) /\ RoomFound(c)
  BY <1>2 DEF Mine, Committing, XInv, CallOK, CallRoom
<1>4. /\ o \in 1 .. Len(txn) /\ o \in Nat /\ tmu[o] = c /\ ObjPhase(o) /\ ObjTokens(o) /\ ObjRoom(o)
      /\ txn[o].state = "committing"
      /\ txn[o].prepared \in Nat /\ txn[o].committed \in Nat /\ Len(txn[o].staged) \in Nat
  BY <1>1, <1>2, <1>3, Holder DEF CallPhase, Committing
<1>5. n \in Nat /\ txn[o].committed < n /\ \A i \in Nat : n < i => txn[o].committed < i /\ i # n
  BY <1>4
<1>6. /\ \A i \in Nat : txn[o].committed < i /\ i <= txn[o].prepared => <<o, i>> \in st
      /\ \A i \in Nat : txn[o].committed < i => Effect(o, i) = {}
  BY <1>1, <1>2, <1>3 DEF CallTokens
<1>7. <<o, n>> \in st
  BY <1>2, <1>5, <1>6
<1>8. /\ f.pc = "peek" /\ f.why = "commit" /\ f.obj = o /\ f.gate = 1 /\ f.ok = {}
      /\ f \in Eval
  BY <1>4 DEF Eval
<1> HIDE DEF f
<1>9. /\ call' = [d \in Client |-> call'[d]] /\ call'[c] = f
      /\ \A d \in Client \ {c} : call'[d] = call[d]
  BY <1>2, <1>7, Parts, PutCall
<1>a. /\ call'[c] \in Eval /\ call'[c].pc = "peek" /\ call'[c].why = "commit" /\ call'[c].obj = o
      /\ call'[c].gate = 1 /\ call'[c].ok = {}
  BY <1>8, <1>9
<1>10. /\ st' \subseteq (1 .. Len(txn)) \X Nat
       /\ \A p \in Nat \ {o}, i \in Nat : <<p, i>> \in st' <=> <<p, i>> \in st
       /\ \A i \in Nat : <<o, i>> \in st' <=> (<<o, i>> \in st /\ i # n)
  BY <1>2, <1>4, <1>5, Parts
<1>11. Writes(o)
  BY <1>2, <1>7, Parts DEF Writes, Shape
<1>b. /\ (RoomNow' <=> RoomNow) /\ (Calm' <=> Calm) /\ moved' = moved /\ mishap' = mishap
      /\ \A p, i : Effect(p, i)' = Effect(p, i)
      /\ (Free(o)' <=> Free(o)) /\ (NeedsQuota(o)' <=> NeedsQuota(o)) /\ Gates' = Gates
      /\ policy' = policy /\ \A h : HasRoom(h)' <=> HasRoom(h)
  BY <1>2, <1>7, SameEffects DEF Free, NeedsQuota
<1>12. ObjOK(o)'
  <2>2. \A i \in Nat : Full(o, i)' = Full(o, i)
    BY <1>2, <1>7, <1>b DEF Full, Staged
  <2>3. ObjPhase(o)'
    BY <1>2, <1>4, <1>7 DEF ObjPhase
  <2>4. ObjTokens(o)'
    BY <1>2, <1>4, <1>7, <1>10, <1>b, <2>2 DEF ObjTokens, Unapplied
  <2>5. ObjRoom(o)'
    BY <1>2, <1>4, <1>7, <1>b DEF ObjRoom
  <2> QED BY <2>3, <2>4, <2>5 DEF ObjOK
<1>13. CallOK(c)'
  <2>1. CallPlace(c)' /\ CallPhase(c)'
    <3>1. 1 \in 1 .. Len(policy.gates) + 1
      BY PolicyParts DEF XInv
    <3> QED BY <1>2, <1>4, <1>7, <1>a, <1>b, <3>1
       DEF CallPlace, CallPhase, Places, Mine, Preparing, Committing, For, Evaluates
  <2>2. CallTokens(c)'
    BY <1>2, <1>5, <1>6, <1>7, <1>a, <1>b, <1>10 DEF CallTokens, For, Evaluates
  <2>4. RoomKept(c)'
    BY <1>a DEF RoomKept, Evaluates
  <2>5. RoomFound(c)'
    <3>1. Free(o) => RoomNow
      <4>1. NeedsQuota(o)
        BY <1>2, <1>4, <1>5 DEF NeedsQuota
      <4> QED BY <1>1, <1>2, <1>3, <4>1 DEF RoomFound
    <3>2. ASSUME NEW j \in 1 .. Len(policy.gates), HasRoom(policy.gates[j])
          PROVE  HasRoom(policy.gates[j])'
      <4>1. PICK h : h = policy.gates[j]
        OBVIOUS
      <4>2. HasRoom(h)' /\ policy'.gates[j] = h
        BY <1>b, <3>2, <4>1
      <4> QED BY <4>1, <4>2 DEF HasRoom
    <3>3. /\ Len(policy.gates) \in Nat /\ \A j \in 1 .. Len(policy.gates) : ~(j < 1)
          /\ Gates = {policy.gates[j] : j \in 1 .. Len(policy.gates)}
      BY PolicyParts DEF XInv
    <3>4. Free(o) => IF policy.mode = "any"
                     THEN \E j \in 1 .. Len(policy.gates) : HasRoom(policy.gates[j])'
                     ELSE \A j \in 1 .. Len(policy.gates) : HasRoom(policy.gates[j])'
      BY <3>1, <3>2, <3>3 DEF RoomNow
    <3> QED BY <1>a, <1>b, <3>3, <3>4 DEF RoomFound, For, Evaluates
  <2>3. CallRoom(c)'
    BY <2>4, <2>5 DEF CallRoom
  <2> QED BY <2>1, <2>2, <2>3 DEF CallOK
<1>14. tmu' \in [Obj -> Client \cup {None}] /\ \A p \in Obj \ {o} : tmu'[p] = tmu[p]
  BY <1>2, <1>7, Parts
<1>15. UNCHANGED <<txns, policy, budget, effects>> /\ xmu' = xmu /\ qmu = None /\ qmu' = c
  BY <1>2, <1>7
<1> QED BY <1>4, <1>9, <1>10, <1>11, <1>12, <1>13, <1>14, <1>15, Own, Parts

\* An evaluation that is over has applied each gate of its operation.
LEMMA ConsumedKeeps ==
    ASSUME XInv, NEW c \in Client, Consumed(c)
    PROVE  XInv'
<1>1. PICK o : o = call[c].obj
  OBVIOUS
<1>2. /\ call[c].pc = "consume" /\ call[c].gate > Len(policy.gates) /\ qmu' = None
      /\ UNCHANGED <<txns, xmu, tmu, st, policy, budget, effects>>
  BY DEF Consumed, Leave, At
<1>3. CallPlace(c) /\ CallPhase(c) /\ CallTokens(c) /\ call[c] \in Eval /\ qmu = c /\ call[c].why # "prepare"
  BY <1>2 DEF XInv, CallOK, CallPlace, Evaluates
<1>4. CASE call[c].why # "commit"
  <2>1. call' = [call EXCEPT ![c] = Idle] /\ txn' = txn
    BY <1>4 DEF Consumed, Leave, Goto
  <2>2. /\ call' = [d \in Client |-> call'[d]] /\ call'[c] = Idle
        /\ \A d \in Client \ {c} : call'[d] = call[d]
    BY <2>1, Parts, PutCall
  <2> QED BY <1>2, <1>3, <2>1, <2>2, IdleOK, Quiet, Parts
<1>5. CASE call[c].why = "commit"
  <2> DEFINE f == [pc |-> "commit", obj |-> o]
             n == txn[o].committed + 1
  <2>1. call' = [call EXCEPT ![c] = f] /\ txn' = [txn EXCEPT ![o].committed = @ + 1]
    BY <1>1, <1>5 DEF Consumed, Leave, Goto
  <2>2. f.pc = "commit" /\ f.obj = o
    OBVIOUS
  <2> HIDE DEF f
  <2>3. For(c, "commit") /\ Mine(c)
    BY <1>2, <1>5 DEF Mine, Committing, For, Evaluates
  <2>4. /\ o \in 1 .. Len(txn) /\ o \in Nat /\ tmu[o] = c /\ ObjPhase(o) /\ ObjTokens(o) /\ ObjRoom(o)
        /\ txn[o].state = "committing" /\ txn[o].committed < txn[o].prepared
        /\ txn[o].staged[n] = "quota"
        /\ txn[o].prepared \in Nat /\ txn[o].committed \in Nat /\ Len(txn[o].staged) \in Nat
    BY <1>1, <1>3, <2>3, Holder DEF CallPhase, Committing
  <2>5. /\ n \in Nat /\ n # 0 /\ n <= txn[o].prepared
        /\ \A i \in Nat : i <= n <=> (i <= txn[o].committed \/ i = n)
    BY <2>4
  <2>6. /\ \A i \in Nat : n < i /\ i <= txn[o].prepared => <<o, i>> \in st
        /\ \A i \in Nat : n < i => Effect(o, i) = {}
        /\ Calm => Effect(o, n) = Passed(call[c].gate) \cap Consumable
    BY <1>1, <1>2, <1>3, <1>5, <2>3 DEF CallTokens
  <2>7. Calm => Effect(o, n) = Full(o, n)
    <3>1. /\ call[c].gate = Len(policy.gates) + 1 /\ Len(policy.gates) \in Nat
          /\ Gates = {policy.gates[i] : i \in 1 .. Len(policy.gates)}
      BY <1>2, <1>3, PolicyParts DEF CallPlace, Evaluates, XInv
    <3>2. call[c].gate - 1 = Len(policy.gates)
      BY <3>1
    <3>3. Passed(call[c].gate) = Gates
      BY <3>1, <3>2 DEF Passed
    <3> QED BY <2>4, <2>6, <3>3 DEF Full, Staged
  <2>8. /\ Writes(o) /\ txn'[o].state = "committing" /\ txn'[o].staged = txn[o].staged
        /\ txn'[o].prepared = txn[o].prepared /\ txn'[o].committed = n
    BY <2>1, <2>4, Parts, PutCommitted
  <2>9. /\ call' = [d \in Client |-> call'[d]] /\ call'[c] = f
        /\ \A d \in Client \ {c} : call'[d] = call[d]
    BY <2>1, Parts, PutCall
  <2>10. (Calm' <=> Calm) /\ moved' = moved
    BY <1>2, SameEffects
  <2>11. \A i \in Nat : Full(o, i)' = Full(o, i)
    BY <1>2, <2>8, SameEffects DEF Full, Staged
  <2> HIDE DEF n
  <2>12. ObjOK(o)'
    <3>1. ObjPhase(o)'
      BY <1>2, <2>4, <2>5, <2>8 DEF ObjPhase, Unapplied
    <3>2. ObjTokens(o)'
      BY <1>2, <2>4, <2>5, <2>7, <2>8, <2>10, <2>11, SameEffects DEF ObjTokens, Unapplied
    <3>3. ObjRoom(o)'
      BY <2>8 DEF ObjRoom
    <3> QED BY <3>1, <3>2, <3>3 DEF ObjOK
  <2>13. CallOK(c)'
    <3>1. Len(txn') = Len(txn) /\ call'[c].pc = "commit" /\ call'[c].obj = o
      BY <2>2, <2>8, <2>9 DEF Writes
    <3>2. CallPlace(c)' /\ CallPhase(c)' /\ CallRoom(c)'
      <4>1. ~Free(o)'
        BY <2>4, <2>5, <2>8 DEF Free
      <4> QED BY <1>2, <2>4, <2>8, <3>1, <4>1
         DEF CallPlace, CallPhase, CallRoom, RoomKept, RoomFound, Places, Mine, Preparing, Committing, For, Evaluates
    <3>3. CallTokens(c)'
      BY <1>2, <2>6, <2>8, <3>1, SameEffects DEF CallTokens, For, Evaluates
    <3> QED BY <3>2, <3>3 DEF CallOK
  <2>14. tmu' \in [Obj -> Client \cup {None}] /\ \A p \in Obj \ {o} : tmu'[p] = tmu[p]
    BY <1>2, Parts
  <2>15. /\ st' \subseteq (1 .. Len(txn)) \X Nat
         /\ \A p \in Nat \ {o}, i \in Nat : <<p, i>> \in st' <=> <<p, i>> \in st
    BY <1>2, Parts
  <2> QED BY <1>2, <1>3, <2>4, <2>8, <2>9, <2>12, <2>13, <2>14, <2>15, Own, Parts
<1> QED BY <1>4, <1>5

\* The other transactions under way are told of a gate that loses its room.
LEMMA Told ==
    ASSUME NEW a, Tell(a)
    PROVE  /\ moved \subseteq moved'
           /\ \A h \in Gates : HasRoom(h) =>
                \/ HasRoom(h)'
                \/ \A p \in 1 .. Len(txn) : p # a /\ txn[p].state \in Underway => p \in moved'
<1>1. moved' = moved \cup {p \in 1 .. Len(txn) : p # a /\ txn[p].state \in Underway /\ Closing # {}}
  BY DEF Tell
<1>2. \A h \in Gates : HasRoom(h) => HasRoom(h)' \/ Closing # {}
  BY DEF Closing
<1> QED BY <1>1, <1>2

\* Outside an evaluation's own step a mishap records it.
LEMMA Recorded ==
    ASSUME NEW m, Beside(m)
    PROVE  /\ mishap \subseteq mishap' /\ m \subseteq mishap'
           /\ qmu # None => \A h \in Gates : HasRoom(h) => HasRoom(h)' \/ h \in mishap'
<1>1. mishap' = mishap \cup m \cup (IF qmu = None THEN {} ELSE Closing)
  BY DEF Beside
<1>2. \A h \in Gates : HasRoom(h) => HasRoom(h)' \/ h \in Closing
  BY DEF Closing
<1> QED BY <1>1, <1>2

\* What drawing one unit on gate g for token <<a, n>> does.
Draws(g, a, n) ==
    /\ spent' \in [Gate -> Nat] /\ spent'[g] = spent[g] + 1
    /\ \A h \in Gate \ {g} : spent'[h] = spent[h]
    /\ limit' = limit /\ unknown' = unknown /\ moved \subseteq moved'
    /\ \A h \in Gates : HasRoom(h) =>
         \/ HasRoom(h)'
         \/ \A p \in 1 .. Len(txn) : p # a /\ txn[p].state \in Underway => p \in moved'
    /\ \A p, i \in Nat : p # a \/ i # n => Effect(p, i)' = Effect(p, i)
    /\ Effect(a, n)' = Effect(a, n) \cup {g}
    /\ \A p, i \in Nat, h \in Gate : <<<<p, i>>, h>> \in applied' => p \in 0 .. Len(txn)

\* Spend does that.
LEMMA SpendParts ==
    ASSUME XInv, NEW g \in Gate, NEW a \in 0 .. Len(txn), NEW n \in Nat, Spend(g, <<a, n>>)
    PROVE  Draws(g, a, n)
<1>1. /\ spent' = [spent EXCEPT ![g] = @ + 1] /\ limit' = limit /\ unknown' = unknown
      /\ applied' = applied \cup {<<<<a, n>>, g>>} /\ Tell(a)
  BY DEF Spend
<1>2. spent \in [Gate -> Nat] /\ Len(txn) \in Nat
  BY Parts
<1>3. \A p, i \in Nat, h \in Gate :
        <<<<p, i>>, h>> \in applied' <=> (<<<<p, i>>, h>> \in applied \/ (p = a /\ i = n /\ h = g))
  BY <1>1
<1>4. \A p, i \in Nat, h \in Gate : <<<<p, i>>, h>> \in applied => p \in 0 .. Len(txn)
  BY Parts, Zenon DEF Shape
<1>5. /\ \A p, i \in Nat : p # a \/ i # n => Effect(p, i)' = Effect(p, i)
      /\ Effect(a, n)' = Effect(a, n) \cup {g}
  <2>1. a \in Nat
    BY <1>2
  <2>2. ASSUME NEW p \in Nat, NEW i \in Nat, p # a \/ i # n PROVE Effect(p, i)' = Effect(p, i)
    BY <1>3, <2>2 DEF Effect
  <2>3. Effect(a, n)' = Effect(a, n) \cup {g}
    BY <1>3, <2>1 DEF Effect
  <2> QED BY <2>2, <2>3
<1>6. /\ moved \subseteq moved'
      /\ \A h \in Gates : HasRoom(h) =>
           \/ HasRoom(h)'
           \/ \A p \in 1 .. Len(txn) : p # a /\ txn[p].state \in Underway => p \in moved'
  BY <1>1, Told
<1>7. /\ spent' \in [Gate -> Nat] /\ spent'[g] = spent[g] + 1
      /\ \A h \in Gate \ {g} : spent'[h] = spent[h]
  BY <1>1, <1>2
<1>8. \A p, i \in Nat, h \in Gate : <<<<p, i>>, h>> \in applied' => p \in 0 .. Len(txn)
  BY <1>3, <1>4
<1> QED BY <1>1, <1>5, <1>6, <1>7, <1>8, Zenon DEF Draws

\* A step of a client between two calls that writes no transaction and no token,
\* but budgets.
LEMMA Aside ==
    ASSUME XInv, NEW c \in Client, call[c].pc = "idle",
           UNCHANGED <<txns, txn, xmu, tmu, qmu, st, policy, call, unknown>>, budget' \in 0 .. MaxCalls,
           spent' \in [Gate -> Nat], limit' \in [Gate -> Nat], limit'["risk"] > 0, RiskWithinBudget',
           \A p, i \in Nat : p # 0 => Effect(p, i)' = Effect(p, i),
           \A p, i \in Nat, h \in Gate : <<<<p, i>>, h>> \in applied' => p \in 0 .. Len(txn),
           moved \subseteq moved', mishap \subseteq mishap', Closes(c, 0)
    PROVE  XInv'
<1>1. Len(txn) \in Nat /\ Shape
  BY Parts
<1>2. Shape'
  BY <1>1 DEF Shape
<1>6. \A p \in 1 .. Len(txn) : p \in Nat /\ p # 0
  BY <1>1
<1>7. \A p \in (1 .. Len(txn)) \ {0}, i \in Nat : Effect(p, i)' = Effect(p, i)
  BY <1>6
<1>8. ~(0 \in 1 .. Len(txn)) /\ Len(txn') >= Len(txn)
  BY <1>1
<1>3. Frame(c, 0)
  BY <1>7, <1>8 DEF Frame
<1>4. CallOK(c)'
  BY DEF CallOK, CallPlace, CallPhase, CallTokens, CallRoom, RoomKept, RoomFound, Places, Mine,
         Preparing, Committing, For, Evaluates
<1>5. \A p \in 1 .. Len(txn') : p \in (1 .. Len(txn)) \ {0}
  BY <1>1
<1> QED BY <1>2, <1>3, <1>4, <1>5, Local

\* A charge of another command is recorded when it closes a gate inside an
\* evaluation.
LEMMA ChargeKeeps ==
    ASSUME XInv, NEW c \in Client, NEW g \in Gate, Charge(c, g)
    PROVE  XInv'
<1>1. /\ call[c].pc = "idle" /\ budget > 0 /\ budget' = budget - 1 /\ Spend(g, <<0, 0>>)
      /\ Beside(IF g = "risk" THEN {"debit"} ELSE {})
      /\ UNCHANGED <<txns, txn, xmu, tmu, qmu, st, policy, call>>
  BY DEF Charge, Start, At, locks
<1>2. Len(txn) \in Nat /\ 0 \in 0 .. Len(txn) /\ Shape /\ RiskWithinBudget /\ 0 \in Nat
  BY Parts DEF XInv
<1>3. Draws(g, 0, 0)
  BY <1>1, <1>2, SpendParts, Zenon
<1>4. budget' \in 0 .. MaxCalls
  BY <1>1, Parts, XTxnBounds
<1>5. /\ mishap \subseteq mishap'
      /\ g = "risk" => "debit" \in mishap'
      /\ qmu # None => \A h \in Gates : HasRoom(h) => HasRoom(h)' \/ h \in mishap'
  <2>1. PICK m : m = (IF g = "risk" THEN {"debit"} ELSE {})
    OBVIOUS
  <2>2. Beside(m)
    BY <1>1, <2>1
  <2>3. /\ mishap \subseteq mishap' /\ m \subseteq mishap'
        /\ qmu # None => \A h \in Gates : HasRoom(h) => HasRoom(h)' \/ h \in mishap'
    BY <2>2, Recorded, Zenon
  <2> QED BY <2>1, <2>3
<1>6. /\ spent' \in [Gate -> Nat] /\ \A h \in Gate \ {g} : spent'[h] = spent[h]
      /\ limit' = limit /\ unknown' = unknown /\ moved \subseteq moved'
      /\ \A h \in Gates : HasRoom(h) =>
           \/ HasRoom(h)'
           \/ \A p \in 1 .. Len(txn) : p # 0 /\ txn[p].state \in Underway => p \in moved'
      /\ \A p, i \in Nat : p # 0 => Effect(p, i)' = Effect(p, i)
      /\ \A p, i \in Nat, h \in Gate : <<<<p, i>>, h>> \in applied' => p \in 0 .. Len(txn)
  BY <1>3 DEF Draws
<1>7. RiskWithinBudget'
  <2>1. CASE g = "risk"
    BY <1>5, <2>1 DEF RiskWithinBudget
  <2>2. CASE g # "risk"
    <3>1. "risk" \in Gate \ {g}
      BY <2>2 DEF Gate
    <3> QED BY <1>2, <1>5, <1>6, <3>1 DEF RiskWithinBudget
  <2> QED BY <2>1, <2>2
<1>8. Closes(c, 0)
  BY <1>5, <1>6 DEF Closes
<1>9. /\ limit' \in [Gate -> Nat] /\ limit'["risk"] > 0
      /\ UNCHANGED <<txns, txn, xmu, tmu, qmu, st, policy, call, unknown>>
  BY <1>1, <1>6, Parts
<1>10. /\ spent' \in [Gate -> Nat] /\ moved \subseteq moved' /\ mishap \subseteq mishap'
       /\ \A p, i \in Nat : p # 0 => Effect(p, i)' = Effect(p, i)
       /\ \A p, i \in Nat, h \in Gate : <<<<p, i>>, h>> \in applied' => p \in 0 .. Len(txn)
  BY <1>5, <1>6
<1>11. call[c].pc = "idle"
  BY <1>1
<1> QED BY <1>4, <1>7, <1>8, <1>9, <1>10, <1>11, Aside

\* What comes back closes no gate.
LEMMA RefillKeeps ==
    ASSUME XInv, NEW c \in Client, NEW g \in Gate, Refill(c, g)
    PROVE  XInv'
<1>1. /\ call[c].pc = "idle" /\ budget > 0 /\ budget' = budget - 1 /\ g # "risk"
      /\ UNCHANGED <<txns, txn, xmu, tmu, qmu, st, policy, call, limit, applied, moved, unknown, mishap>>
  BY DEF Refill, Start, At, locks
<1>2. PICK n \in 0 .. spent[g] - 1 : spent' = [spent EXCEPT ![g] = n]
  BY DEF Refill
<1>3. spent \in [Gate -> Nat] /\ limit \in [Gate -> Nat] /\ limit["risk"] > 0 /\ RiskWithinBudget /\ Gates \subseteq Gate
  BY Parts, PolicyParts DEF XInv
<1>4. /\ spent' \in [Gate -> Nat] /\ spent'["risk"] = spent["risk"]
      /\ \A h \in Gate : spent'[h] <= spent[h]
  BY <1>1, <1>2, <1>3
<1>5. budget' \in 0 .. MaxCalls
  BY <1>1, Parts, XTxnBounds
<1>6. RiskWithinBudget'
  BY <1>1, <1>3, <1>4 DEF RiskWithinBudget
<1>7. Closes(c, 0)
  <2>1. ASSUME NEW h \in Gate, HasRoom(h) PROVE HasRoom(h)'
    <3>1. spent'[h] <= spent[h] /\ spent'[h] \in Nat /\ spent[h] \in Nat /\ limit[h] \in Nat /\ limit'[h] = limit[h]
      BY <1>1, <1>3, <1>4
    <3> QED BY <2>1, <3>1 DEF HasRoom
  <2> QED BY <1>3, <2>1 DEF Closes
<1>8. \A p, i \in Nat : Effect(p, i)' = Effect(p, i)
  BY <1>1 DEF Effect
<1>9. \A p, i \in Nat, h \in Gate : <<<<p, i>>, h>> \in applied' => p \in 0 .. Len(txn)
  BY <1>1, Parts, Zenon DEF Shape
<1>10. /\ UNCHANGED <<txns, txn, xmu, tmu, qmu, st, policy, call, unknown>>
       /\ limit' \in [Gate -> Nat] /\ limit'["risk"] > 0
       /\ moved \subseteq moved' /\ mishap \subseteq mishap'
  BY <1>1, <1>3
<1> QED BY <1>1, <1>4, <1>5, <1>6, <1>7, <1>8, <1>9, <1>10, Aside

\* A budget that is set anew may close its gate, and is then recorded like a
\* charge.
LEMMA SetBudgetKeeps ==
    ASSUME XInv, NEW c \in Client, NEW g \in Gate, NEW n \in Nat, SetBudget(c, g, n)
    PROVE  XInv'
<1>1. /\ call[c].pc = "idle" /\ budget > 0 /\ budget' = budget - 1 /\ Tell(0) /\ Beside({})
      /\ limit' = [limit EXCEPT ![g] = IF g = "risk" /\ n = 0 THEN DefaultRisk ELSE n]
      /\ spent' = IF g = "risk" THEN [spent EXCEPT ![g] = 0] ELSE spent
      /\ UNCHANGED <<txns, txn, xmu, tmu, qmu, st, policy, call, applied, unknown>>
  BY DEF SetBudget, Start, At, locks
<1>2. /\ spent \in [Gate -> Nat] /\ limit \in [Gate -> Nat] /\ limit["risk"] > 0 /\ RiskWithinBudget
      /\ DefaultRisk \in Nat /\ DefaultRisk # 0 /\ "risk" \in Gate
  BY Parts, XTxnBounds DEF XInv, Gate
<1>3. /\ spent' \in [Gate -> Nat] /\ limit' \in [Gate -> Nat]
      /\ g # "risk" => spent'["risk"] = spent["risk"] /\ limit'["risk"] = limit["risk"]
      /\ g = "risk" => spent'["risk"] = 0 /\ limit'["risk"] > 0
  BY <1>1, <1>2
<1>4. budget' \in 0 .. MaxCalls
  BY <1>1, Parts, XTxnBounds
<1>5. /\ mishap \subseteq mishap'
      /\ qmu # None => \A h \in Gates : HasRoom(h) => HasRoom(h)' \/ h \in mishap'
  BY <1>1, Recorded, Zenon
<1>6. /\ moved \subseteq moved'
      /\ \A h \in Gates : HasRoom(h) =>
           \/ HasRoom(h)'
           \/ \A p \in 1 .. Len(txn) : p # 0 /\ txn[p].state \in Underway => p \in moved'
  BY <1>1, Told, Zenon
<1>7. RiskWithinBudget' /\ limit'["risk"] > 0
  BY <1>2, <1>3, <1>5 DEF RiskWithinBudget
<1>8. Closes(c, 0)
  BY <1>5, <1>6 DEF Closes
<1>9. \A p, i \in Nat : Effect(p, i)' = Effect(p, i)
  BY <1>1 DEF Effect
<1>10. \A p, i \in Nat, h \in Gate : <<<<p, i>>, h>> \in applied' => p \in 0 .. Len(txn)
  BY <1>1, Parts, Zenon DEF Shape
<1> QED BY <1>1, <1>3, <1>4, <1>5, <1>6, <1>7, <1>8, <1>9, <1>10, Aside

\* The risk participant debits the budget for a token that is there.
LEMMA CommitGroundKeeps ==
    ASSUME XInv, NEW c \in Client, CommitGround(c)
    PROVE  XInv'
<1>1. PICK o : o = call[c].obj
  OBVIOUS
<1>0. PICK n : n = txn[o].committed + 1
  OBVIOUS
<1>2. /\ call[c].pc = "commit" /\ n <= txn[o].prepared /\ txn[o].staged[n] = "ground"
      /\ st' = st \ {<<o, n>>} /\ UNCHANGED <<txns, xmu, qmu, policy, budget>>
      /\ <<o, n>> \in st => /\ Spend("risk", <<o, n>>) /\ Beside({"debit"})
                            /\ txn' = [txn EXCEPT ![o].committed = @ + 1]
                            /\ UNCHANGED <<call, tmu>>
  BY <1>0, <1>1 DEF CommitGround, At, ToCommit, Staged
<1>3. Mine(c) /\ CallPhase(c) /\ CallTokens(c)
  BY <1>2 DEF Mine, Committing, XInv, CallOK
<1>4. /\ o \in 1 .. Len(txn) /\ o \in Nat /\ tmu[o] = c /\ ObjPhase(o) /\ ObjTokens(o) /\ ObjRoom(o)
      /\ txn[o].state = "committing"
      /\ txn[o].prepared \in Nat /\ txn[o].committed \in Nat /\ Len(txn[o].staged) \in Nat
  BY <1>1, <1>2, <1>3, Holder DEF CallPhase, Committing
<1>5. /\ n \in Nat /\ txn[o].committed < n
      /\ \A i \in Nat : n < i => txn[o].committed < i /\ i # n
      /\ \A i \in Nat : i <= n <=> (i <= txn[o].committed \/ i = n)
      /\ \A i \in Nat : i <= txn[o].committed => i # n
      /\ Len(txn) \in Nat /\ o \in 0 .. Len(txn)
  BY <1>0, <1>4, Parts
<1>6. /\ \A i \in Nat : txn[o].committed < i /\ i <= txn[o].prepared => <<o, i>> \in st
      /\ \A i \in Nat : txn[o].committed < i => Effect(o, i) = {}
  BY <1>1, <1>2, <1>3 DEF CallTokens
<1>7. <<o, n>> \in st
  BY <1>2, <1>5, <1>6
<1>8. /\ Writes(o) /\ txn'[o].state = "committing" /\ txn'[o].staged = txn[o].staged
      /\ txn'[o].prepared = txn[o].prepared /\ txn'[o].committed = n
  BY <1>0, <1>2, <1>4, <1>7, Parts, PutCommitted
<1>9. n \in Nat /\ <<o, n>> \in st /\ Spend("risk", <<o, n>>)
  BY <1>2, <1>5, <1>7
<1>10. /\ st' \subseteq (1 .. Len(txn)) \X Nat
       /\ \A p \in Nat \ {o}, i \in Nat : <<p, i>> \in st' <=> <<p, i>> \in st
       /\ \A i \in Nat : <<o, i>> \in st' <=> (<<o, i>> \in st /\ i # n)
  BY <1>2, <1>4, <1>5, Parts
<1>11. Full(o, n) = {"risk"} /\ \A i \in Nat : Full(o, i)' = Full(o, i)
  BY <1>2, <1>8 DEF Full, Staged, Gates
<1>12. /\ spent' \in [Gate -> Nat] /\ limit' = limit /\ unknown' = unknown /\ moved \subseteq moved'
       /\ \A h \in Gates : HasRoom(h) =>
            \/ HasRoom(h)'
            \/ \A p \in 1 .. Len(txn) : p # o /\ txn[p].state \in Underway => p \in moved'
       /\ \A p, i \in Nat : p # o \/ i # n => Effect(p, i)' = Effect(p, i)
       /\ Effect(o, n)' = Effect(o, n) \cup {"risk"}
       /\ \A p, i \in Nat, h \in Gate : <<<<p, i>>, h>> \in applied' => p \in 0 .. Len(txn)
  <2>1. PICK g \in Gate : g = "risk" /\ Spend(g, <<o, n>>)
    BY <1>9 DEF Gate
  <2>2. Draws(g, o, n)
    BY <1>5, <2>1, SpendParts, Zenon
  <2> QED BY <2>1, <2>2 DEF Draws
<1>13. /\ UNCHANGED <<txns, xmu, qmu, tmu, policy, budget, call>>
       /\ Len(txn') = Len(txn) /\ txn'[o].committed # 0
  <2>1. n # 0
    BY <1>4, <1>5
  <2> QED BY <1>2, <1>7, <1>8, <2>1 DEF Writes
<1>20. /\ mishap \subseteq mishap' /\ "debit" \in mishap'
       /\ qmu # None => \A h \in Gates : HasRoom(h) => HasRoom(h)' \/ h \in mishap'
  <2>1. PICK m : m = {"debit"} /\ Beside(m)
    BY <1>2, <1>7
  <2>2. /\ mishap \subseteq mishap' /\ m \subseteq mishap'
        /\ qmu # None => \A h \in Gates : HasRoom(h) => HasRoom(h)' \/ h \in mishap'
    BY <2>1, Recorded, Zenon
  <2> QED BY <2>1, <2>2
<1>14. Shape'
  BY <1>8, <1>10, <1>12, <1>13, Parts DEF Shape, Writes
<1>15. RiskWithinBudget'
  BY <1>20 DEF RiskWithinBudget
<1>16. Frame(c, o)
  <2>1. Closes(c, o)
    BY <1>12, <1>20 DEF Closes
  <2>2. \A p \in 1 .. Len(txn) : p \in Nat
    BY <1>5
  <2>3. ASSUME NEW p \in (1 .. Len(txn)) \ {o}
        PROVE  /\ txn'[p] = txn[p] /\ tmu'[p] = tmu[p]
               /\ \A i \in Nat : /\ <<p, i>> \in st' <=> <<p, i>> \in st
                                 /\ Effect(p, i)' = Effect(p, i)
    BY <1>8, <1>10, <1>12, <1>13, <2>2 DEF Writes
  <2> QED BY <1>4, <1>5, <1>12, <1>13, <1>20, <2>1, <2>3 DEF Frame
<1>17. ObjOK(o)'
  <2>1. ObjPhase(o)'
    BY <1>2, <1>4, <1>8, <1>13 DEF ObjPhase, Unapplied
  <2>2. Effect(o, n)' = {"risk"}
    BY <1>5, <1>6, <1>12
  <2>3. \A i \in Nat : i # n => Effect(o, i)' = Effect(o, i)
    BY <1>4, <1>12
  <2>4. Calm' => Calm
    BY <1>13, <1>20 DEF Calm
  <2>7. ASSUME Calm', NEW i \in Nat, 0 < i, i <= n PROVE Effect(o, i)' = Full(o, i)'
    <3>1. CASE i = n
      BY <1>11, <2>2, <3>1
    <3>2. CASE i # n
      BY <1>4, <1>5, <1>11, <2>3, <2>4, <2>7, <3>2 DEF ObjTokens
    <3> QED BY <3>1, <3>2
  <2>5. ObjTokens(o)'
    BY <1>4, <1>8, <1>10, <2>7 DEF ObjTokens, Unapplied
  <2>6. ObjRoom(o)'
    BY <1>8 DEF ObjRoom
  <2> QED BY <2>1, <2>5, <2>6 DEF ObjOK
<1>18. CallOK(c)'
  <2>1. call'[c].pc = "commit" /\ call'[c].obj = o
    BY <1>1, <1>2, <1>13
  <2>5. ~Free(o)'
    BY <1>13 DEF Free
  <2>2. CallPlace(c)' /\ CallPhase(c)' /\ CallRoom(c)'
    BY <1>4, <1>8, <1>13, <2>1, <2>5
       DEF CallPlace, CallPhase, CallRoom, RoomKept, RoomFound, Places, Mine, Preparing, Committing, For, Evaluates
  <2>3. \A i \in Nat : n < i => Effect(o, i)' = {}
    BY <1>4, <1>5, <1>6, <1>12
  <2>4. CallTokens(c)'
    BY <1>5, <1>6, <1>8, <1>10, <2>1, <2>3 DEF CallTokens, For, Evaluates
  <2> QED BY <2>2, <2>4 DEF CallOK
<1>19. \A p \in 1 .. Len(txn') : p \notin (1 .. Len(txn)) \ {o} => p = o
  BY <1>13
<1> QED BY <1>14, <1>15, <1>16, <1>17, <1>18, <1>19, Local

\* An evaluation moves on to the next gate.
LEMMA PutGate ==
    ASSUME NEW r \in Eval, r.gate \in Nat
    PROVE  LET f == [r EXCEPT !.gate = @ + 1] IN
           /\ f \in Eval /\ f.pc = r.pc /\ f.why = r.why /\ f.obj = r.obj
           /\ f.gate = r.gate + 1 /\ f.ok = r.ok
<1>1. PICK g \in Nat : g = r.gate + 1
  OBVIOUS
<1> DEFINE f == [r EXCEPT !.gate = g]
<1>2. f \in Eval /\ f.pc = r.pc /\ f.why = r.why /\ f.obj = r.obj /\ f.gate = g /\ f.ok = r.ok
  BY DEF Eval
<1> QED BY <1>1, <1>2, Zenon

\* Peek and charge are one under the quota mutex: a gate that was admitted is
\* drawn on, unless it was closed in between.
LEMMA ConsumeKeeps ==
    ASSUME XInv, NEW c \in Client, Consume(c)
    PROVE  XInv'
<1>1. /\ call[c].pc = "consume" /\ call[c].gate <= Len(policy.gates)
      /\ UNCHANGED <<txns, txn, xmu, tmu, qmu, st, policy, budget, mishap>>
      /\ call' = [call EXCEPT ![c].gate = @ + 1]
  BY DEF Consume, At, locks, effects
<1>2. /\ CallPlace(c) /\ CallPhase(c) /\ CallTokens(c) /\ RoomKept(c) /\ call[c] \in Eval /\ qmu = c
      /\ call[c].why # "prepare" /\ Admitted(call[c].ok)
  BY <1>1 DEF XInv, CallOK, CallRoom, CallPlace, Evaluates
<1>p. /\ Len(policy.gates) \in Nat /\ Gates \subseteq Gate /\ policy.mode \in {"all", "any"}
      /\ Gates = {policy.gates[j] : j \in 1 .. Len(policy.gates)}
      /\ \A j, k \in 1 .. Len(policy.gates) : policy.gates[j] = policy.gates[k] => j = k
  BY PolicyParts DEF XInv
<1>3. call[c].gate \in Nat /\ call[c].why \in {"admit", "commit"}
  BY <1>1, <1>2 DEF Eval
<1>i. PICK i \in 1 .. Len(policy.gates) : i = call[c].gate /\ i + 1 \in 1 .. Len(policy.gates) + 1
  BY <1>1, <1>2, <1>p DEF CallPlace, Evaluates
<1> DEFINE f == [call[c] EXCEPT !.gate = @ + 1]
<1>4. /\ f \in Eval /\ f.pc = call[c].pc /\ f.why = call[c].why /\ f.obj = call[c].obj
      /\ f.gate = call[c].gate + 1 /\ f.ok = call[c].ok
  BY <1>2, <1>3, PutGate, Zenon
<1>5. call' = [call EXCEPT ![c] = f]
  BY <1>1
<1> HIDE DEF f
<1>6. /\ call' = [d \in Client |-> call'[d]] /\ call'[c] = f
      /\ \A d \in Client \ {c} : call'[d] = call[d]
  BY <1>5, Parts, PutCall
<1>7. /\ call'[c] \in Eval /\ call'[c].pc = "consume" /\ call'[c].why = call[c].why
      /\ call'[c].obj = call[c].obj /\ call'[c].gate = i + 1 /\ call'[c].ok = call[c].ok
  BY <1>1, <1>4, <1>6, <1>i
<1>8. PICK g \in Gate : g = policy.gates[i] /\ g \in Gates
  BY <1>i, <1>p
<1>g. Gates' = Gates /\ policy' = policy /\ (Calm' <=> Calm) /\ \A k : Passed(k)' = Passed(k)
  BY <1>1 DEF Gates, Calm, Passed
<1>q. Passed(i + 1) = Passed(i) \cup {g}
  <2>2. ASSUME NEW x PROVE x \in Passed(i + 1) <=> (x \in Passed(i) \/ x = g)
    <3>1. x \in Passed(i + 1) <=> \E j \in 1 .. (i + 1) - 1 : x = policy.gates[j]
      BY SMT DEF Passed
    <3>2. x \in Passed(i) <=> \E j \in 1 .. i - 1 : x = policy.gates[j]
      BY Zenon DEF Passed
    <3>3. i \in 1 .. (i + 1) - 1 /\ (\A j \in 1 .. (i + 1) - 1 : j \in 1 .. i - 1 \/ j = i)
          /\ (\A j \in 1 .. i - 1 : j \in 1 .. (i + 1) - 1)
      BY <1>i
    <3> QED BY <1>8, <3>1, <3>2, <3>3, Zenon
  <2> QED BY <2>2
<1>9. Mine(c)' <=> Mine(c)
  BY <1>1, <1>7 DEF Mine, Preparing, Committing, For, Evaluates
<1>10. CallPlace(c)' /\ CallPhase(c)'
  <2>1. Admitted(call[c].ok)'
    BY <1>2, <1>7, <1>g DEF Admitted
  <2> QED BY <1>1, <1>2, <1>7, <1>9, <1>i, <1>g, <2>1
             DEF CallPlace, CallPhase, Places, Preparing, Committing, For, Evaluates
<1>11. g \in call[c].ok => HasRoom(g) \/ g \in mishap
  BY <1>1, <1>2, <1>8, <1>i DEF RoomKept, Evaluates
<1>12. Calm => g \in call[c].ok /\ (g \in Rechecked => HasRoom(g))
  <2>1. Calm => g \in call[c].ok
    BY <1>2, <1>8 DEF Admitted, Calm
  <2>2. Calm => g \notin mishap \/ g \notin Rechecked
    BY DEF Calm
  <2> QED BY <1>11, <2>1, <2>2
<1>13. PICK o : o = call[c].obj
  OBVIOUS
<1>14. call[c].why = "commit" =>
         /\ o \in 1 .. Len(txn) /\ o \in Nat /\ tmu[o] = c /\ ObjPhase(o) /\ ObjTokens(o)
         /\ txn[o].state = "committing" /\ txn[o].committed \in Nat /\ Mine(c)
         /\ txn[o].committed < txn[o].prepared /\ txn[o].prepared \in Nat
  BY <1>1, <1>2, <1>13, Holder DEF CallPhase, Mine, Committing, For, Evaluates
<1>15. CASE ~ (g \in call[c].ok \cap Consumable /\ (g \in Rechecked => HasRoom(g)))
  <2>1. UNCHANGED effects
    BY <1>8, <1>15, <1>i DEF Consume
  <2>a. \A h : HasRoom(h)' <=> HasRoom(h)
    BY <1>1, <2>1, SameEffects
  <2>b. \A p, n : Effect(p, n)' = Effect(p, n)
    BY <1>1, <2>1, SameEffects
  <2>2. Calm => g \notin Consumable
    BY <1>12, <1>15
  <2>3. Calm => Passed(i + 1) \cap Consumable = Passed(i) \cap Consumable
    BY <1>q, <2>2
  <2>4. CallTokens(c)'
    BY <1>1, <1>2, <1>7, <1>13, <1>g, <1>i, <2>b, <2>3 DEF CallTokens, For, Evaluates
  <2>5. CallRoom(c)'
    <3>1. ASSUME NEW j \in 1 .. Len(policy.gates), policy.gates[j] \in call[c].ok, i + 1 <= j
          PROVE  HasRoom(policy.gates[j])' \/ policy.gates[j] \in mishap
      <4>1. PICK h : h = policy.gates[j]
        OBVIOUS
      <4>2. HasRoom(h)' \/ h \in mishap
        BY <1>1, <1>2, <1>i, <2>a, <3>1, <4>1 DEF RoomKept, Evaluates
      <4>3. policy'.gates[j] = h
        BY <1>1, <4>1
      <4> QED BY <4>1, <4>2, <4>3 DEF HasRoom
    <3>2. RoomKept(c)'
      BY <1>1, <1>7, <3>1 DEF RoomKept, Evaluates
    <3>3. RoomFound(c)'
      BY <1>2, <1>7 DEF RoomFound, For, Evaluates
    <3> QED BY <3>2, <3>3 DEF CallRoom
  <2>6. CallOK(c)'
    BY <1>10, <2>4, <2>5 DEF CallOK
  <2> QED BY <1>1, <1>6, <2>1, <2>6, Quiet, Parts
<1>16. CASE g \in call[c].ok \cap Consumable /\ (g \in Rechecked => HasRoom(g))
  <2>1. PICK a \in 0 .. Len(txn), n \in Nat :
            /\ Spend(g, <<a, n>>)
            /\ call[c].why = "commit" => a = o /\ n = txn[o].committed + 1
            /\ call[c].why = "admit" => a = 0
    <3>1. CASE call[c].why = "commit"
      <4>1. o \in 0 .. Len(txn) /\ txn[o].committed + 1 \in Nat
        BY <1>14, <3>1, Parts
      <4> QED BY <1>8, <1>13, <1>16, <1>i, <3>1, <4>1 DEF Consume, ToCommit
    <3>2. CASE call[c].why = "admit"
      <4>1. 0 \in 0 .. Len(txn) /\ 0 \in Nat
        BY Parts
      <4> QED BY <1>8, <1>16, <1>i, <3>2, <4>1 DEF Consume
    <3> QED BY <1>3, <3>1, <3>2
  <2>2. Draws(g, a, n)
    BY <2>1, SpendParts, Zenon
  <2>3. /\ spent' \in [Gate -> Nat] /\ spent'[g] = spent[g] + 1
        /\ \A h \in Gate \ {g} : spent'[h] = spent[h]
        /\ limit' = limit /\ unknown' = unknown /\ moved \subseteq moved'
        /\ \A h \in Gates : HasRoom(h) =>
             \/ HasRoom(h)'
             \/ \A p \in 1 .. Len(txn) : p # a /\ txn[p].state \in Underway => p \in moved'
        /\ \A p, k \in Nat : p # a \/ k # n => Effect(p, k)' = Effect(p, k)
        /\ Effect(a, n)' = Effect(a, n) \cup {g}
        /\ \A p, k \in Nat, h \in Gate : <<<<p, k>>, h>> \in applied' => p \in 0 .. Len(txn)
    BY <2>2 DEF Draws
  <2>4. Shape'
    BY <1>1, <1>6, <2>3, Parts DEF Shape
  <2>5. RiskWithinBudget'
    <3>1. RiskWithinBudget /\ spent \in [Gate -> Nat] /\ limit \in [Gate -> Nat] /\ "risk" \in Gate
      BY Parts DEF XInv, Gate
    <3>2. CASE g # "risk"
      BY <1>1, <2>3, <3>1, <3>2 DEF RiskWithinBudget
    <3>3. CASE g = "risk"
      <4>1. HasRoom("risk") \/ "risk" \in mishap
        BY <1>11, <1>16, <3>3
      <4>2. HasRoom("risk") => spent["risk"] + 1 < limit["risk"]
        BY DEF HasRoom
      <4> QED BY <1>1, <2>3, <3>1, <3>3, <4>1, <4>2 DEF RiskWithinBudget
    <3> QED BY <3>2, <3>3
  <2>6. Frame(c, a)
    <3>1. Closes(c, a)
      BY <1>2, <2>3 DEF Closes
    <3>2. ASSUME NEW p \in (1 .. Len(txn)) \ {a}
          PROVE  \A k \in Nat : Effect(p, k)' = Effect(p, k)
      BY <2>3, Parts
    <3>3. a \in 1 .. Len(txn) => tmu[a] = c
      BY <1>3, <1>14, <2>1, Parts
    <3> QED BY <1>1, <1>6, <2>3, <3>1, <3>2, <3>3, Parts DEF Frame
  <2>7. CallRoom(c)'
    <3>1. ASSUME NEW j \in 1 .. Len(policy.gates), policy.gates[j] \in call[c].ok, i + 1 <= j
          PROVE  HasRoom(policy.gates[j])' \/ policy.gates[j] \in mishap
      <4>1. PICK h \in Gate : h = policy.gates[j]
        BY <1>p
      <4>2. h # g
        BY <1>8, <1>i, <1>p, <3>1, <4>1
      <4>3. HasRoom(h) \/ h \in mishap
        BY <1>1, <1>2, <1>i, <3>1, <4>1 DEF RoomKept, Evaluates
      <4>4. spent'[h] = spent[h] /\ limit'[h] = limit[h]
        BY <2>3, <4>2
      <4>5. HasRoom(h)' \/ h \in mishap
        BY <4>3, <4>4 DEF HasRoom
      <4>6. policy'.gates[j] = h
        BY <1>1, <4>1
      <4> QED BY <4>1, <4>5, <4>6 DEF HasRoom
    <3>2. RoomKept(c)'
      BY <1>1, <1>7, <3>1 DEF RoomKept, Evaluates
    <3>3. RoomFound(c)'
      BY <1>2, <1>7 DEF RoomFound, For, Evaluates
    <3> QED BY <3>2, <3>3 DEF CallRoom
  <2>8. CASE call[c].why = "admit"
    <3>1. CallTokens(c)'
      BY <1>7, <2>8 DEF CallTokens, For, Evaluates
    <3>2. CallOK(c)'
      BY <1>10, <2>7, <3>1 DEF CallOK
    <3>3. \A p \in 1 .. Len(txn') : p \in (1 .. Len(txn)) \ {a}
      BY <1>1, <2>1, <2>8, Parts
    <3> QED BY <2>4, <2>5, <2>6, <3>2, <3>3, Local
  <2>9. CASE call[c].why = "commit"
    <3>1. /\ a = o /\ n = txn[o].committed + 1 /\ o \in 1 .. Len(txn) /\ o \in Nat
          /\ \A k \in Nat : k # n => Effect(o, k)' = Effect(o, k)
          /\ Effect(o, n)' = Effect(o, n) \cup {g}
      BY <1>14, <2>1, <2>3, <2>9
    <3>2. /\ \A k \in Nat : n < k => k # n
          /\ \A k \in Nat : k <= txn[o].committed => k # n
      BY <1>14, <2>9, <3>1
    <3>4. ObjOK(o)'
      <4>1. ObjPhase(o)'
        BY <1>1, <1>14, <2>9 DEF ObjPhase
      <4>2. \A k \in Nat : Full(o, k)' = Full(o, k)
        BY <1>1, <1>g DEF Full, Staged
      <4>3. ObjTokens(o)'
        BY <1>1, <1>14, <1>g, <2>9, <3>1, <3>2, <4>2 DEF ObjTokens, Unapplied
      <4>4. ObjRoom(o)'
        BY <1>1, <1>14, <2>9, <3>1 DEF ObjRoom
      <4> QED BY <4>1, <4>3, <4>4 DEF ObjOK
    <3>5. CallTokens(c)'
      <4>1. For(c, "commit") /\ call[c].pc = "consume" /\ call'[c].pc = "consume"
            /\ call'[c].obj = o /\ call'[c].why = "commit"
        BY <1>1, <1>7, <1>13, <2>9 DEF For, Evaluates
      <4>2. /\ \A k \in Nat : n < k /\ k <= txn[o].prepared => <<o, k>> \in st
            /\ \A k \in Nat : n < k => Effect(o, k) = {}
            /\ Calm => Effect(o, n) = Passed(i) \cap Consumable
        BY <1>2, <1>13, <1>i, <2>9, <3>1, <4>1 DEF CallTokens
      <4>3. \A k \in Nat : n < k => Effect(o, k)' = {}
        BY <3>1, <3>2, <4>2
      <4>4. Calm => Effect(o, n)' = Passed(i + 1) \cap Consumable
        BY <1>16, <1>q, <3>1, <4>2
      <4>5. txn'[o].committed + 1 = n /\ txn'[o].prepared = txn[o].prepared /\ st' = st
        BY <1>1, <3>1
      <4> QED BY <1>7, <1>g, <4>1, <4>2, <4>3, <4>4, <4>5 DEF CallTokens, For, Evaluates
    <3>6. CallOK(c)'
      BY <1>10, <2>7, <3>5 DEF CallOK
    <3>7. \A p \in 1 .. Len(txn') : p \notin (1 .. Len(txn)) \ {a} => p = o
      BY <1>1, <3>1
    <3> QED BY <2>4, <2>5, <2>6, <3>4, <3>6, <3>7, Local
  <2> QED BY <1>3, <2>8, <2>9
<1> QED BY <1>15, <1>16

----------------------------------------------------------------------------
(* The theorems *)

\* Nothing has been begun.
LEMMA XInit == Init => XInv
<1> SUFFICES ASSUME Init PROVE XInv
  OBVIOUS
<1>1. txn = <<>> /\ Len(txn) = 0 /\ txn \in Seq(Record)
  BY DEF Init
<1>2. Shape
  BY <1>1, XTxnBounds DEF Init, Shape
<1>3. RiskWithinBudget
  BY XTxnBounds DEF Init, RiskWithinBudget, Gate
<1>4. ASSUME NEW c \in Client PROVE CallOK(c)
  <2>1. call[c].pc = "idle"
    BY DEF Init, Idle
  <2> QED BY <2>1 DEF CallOK, CallPlace, CallPhase, CallTokens, CallRoom, RoomKept, RoomFound, Places, Mine,
                      Preparing, Committing, For, Evaluates
<1>5. \A o \in 1 .. Len(txn) : ObjOK(o)
  BY <1>1
<1> QED BY <1>2, <1>3, <1>4, <1>5 DEF XInv

\* Each step keeps the invariant.
LEMMA XStep == XInv /\ [Next]_vars => XInv'
<1> SUFFICES ASSUME XInv, [Next]_vars PROVE XInv'
  OBVIOUS
<1>1. CASE UNCHANGED vars
  <2>1. UNCHANGED <<txns, txn, xmu, tmu, qmu, st, spent, limit, policy, call, budget, applied, moved,
                    unknown, mishap>>
    BY <1>1 DEF vars
  <2>2. Shape' /\ RiskWithinBudget'
    BY <2>1 DEF XInv, Shape, RiskWithinBudget
  <2>3. ASSUME NEW c \in Client PROVE CallOK(c)'
    BY <2>1 DEF XInv, CallOK, CallPlace, CallPhase, CallTokens, CallRoom, RoomKept, RoomFound, Mine,
                Preparing, Committing, For, Evaluates, Admitted, Effect, Calm, HasRoom, Gates, Passed,
                RoomNow, Free, NeedsQuota
  <2>4. ASSUME NEW o \in 1 .. Len(txn') PROVE ObjOK(o)'
    BY <2>1 DEF XInv, ObjOK, ObjPhase, ObjTokens, ObjRoom, Effect, Full, Staged, Calm,
                HasRoom, Gates, RoomNow, Free, NeedsQuota
  <2> QED BY <2>2, <2>3, <2>4 DEF XInv
<1>2. ASSUME NEW c \in Client, Step(c) PROVE XInv'
  BY <1>2, StageAddKeeps, EnterKeeps, AbortKeeps, TokenKeeps, PreparedAllKeeps, PrepareGroundKeeps,
     PrepareQuotaKeeps, CommittedAllKeeps, CommitGroundKeeps, CommitQuotaKeeps, PeekKeeps,
     DecideKeeps, DecideConsumeKeeps, ConsumeKeeps, ConsumedKeeps, PartialKeeps DEF Step
<1>3. ASSUME NEW c \in Client, NEW x \in Xid,
             Begin(c, x) \/ StageEnter(c, x) \/ Forget(c, x) \/ \E verb \in Verb : Lookup(c, x, verb)
      PROVE  XInv'
  BY <1>3, BeginKeeps, StageEnterKeeps, ForgetKeeps, LookupKeeps
<1>4. ASSUME NEW c \in Client, Admit(c) PROVE XInv'
  BY <1>4, AdmitKeeps
<1>5. ASSUME NEW c \in Client, NEW g \in Gates,
             Charge(c, g) \/ Refill(c, g) \/ \E n \in Budgets \cup {0} : SetBudget(c, g, n)
      PROVE  XInv'
  <2>1. g \in Gate
    BY PolicyParts DEF XInv
  <2>2. Budgets \cup {0} \subseteq Nat
    BY XTxnBounds
  <2> QED BY <1>5, <2>1, <2>2, ChargeKeeps, RefillKeeps, SetBudgetKeeps
<1> QED BY <1>1, <1>2, <1>3, <1>4, <1>5 DEF Next

\* So it always holds.
LEMMA XAlways == Spec => []XInv
BY XInit, XStep, PTL DEF Spec

\* What the invariant says of one transaction.
LEMMA AtObject ==
    ASSUME XInv, NEW o \in 1 .. Len(txn)
    PROVE  /\ ObjPhase(o) /\ ObjTokens(o) /\ ObjRoom(o) /\ o \in Nat /\ o \in Obj
           /\ txn[o].state \in States /\ txn[o].staged \in Seq({"quota", "ground"})
           /\ txn[o].prepared \in Nat /\ txn[o].committed \in Nat /\ Len(txn[o].staged) \in Nat
           /\ \A i \in 1 .. Len(txn[o].staged) : i \in Nat /\ 0 < i
<1>1. ObjOK(o) /\ Shape
  BY DEF XInv
<1> QED BY <1>1, Fields DEF ObjOK

\* The invariant has the types and the budgets.
LEMMA XTypes == XInv => BudgetsConsistent
<1> SUFFICES ASSUME XInv PROVE TypeOK /\ RiskWithinBudget
  BY DEF BudgetsConsistent
<1>1. ASSUME NEW o \in 1 .. Len(txn)
      PROVE  /\ txn[o].state \in States /\ txn[o].staged \in Seq({"quota", "ground"})
             /\ 0 <= txn[o].committed /\ txn[o].committed <= txn[o].prepared
             /\ txn[o].prepared <= Len(Staged(o))
             /\ txn[o].state \in {"preparing", "committing"} => tmu[o] # None
  BY AtObject DEF ObjPhase, Staged
<1>2. ASSUME NEW t \in st
      PROVE  t \in Obj \X Nat /\ t[1] <= Len(txn) /\ t[2] \in 1 .. txn[t[1]].prepared
  <2>1. PICK o \in 1 .. Len(txn), i \in Nat : t = <<o, i>>
    BY Parts
  <2>2. 0 < i /\ i <= txn[o].prepared /\ o \in Obj /\ txn[o].prepared \in Nat
    BY <2>1, AtObject DEF ObjTokens
  <2> QED BY <2>1, <2>2, Parts
<1> QED BY <1>1, <1>2, Parts DEF TypeOK, XInv

\* Transactions, tokens, mutexes and budgets keep their types and their order,
\* and admission by QUOTA never overdraws the risk budget
\* (engine/quota_eval.go, QuotaEvaluate under its mutex).
THEOREM BudgetsCorrect == Spec => []BudgetsConsistent
BY XAlways, XTypes, PTL

\* A transaction that answers "committed" has applied every operation staged
\* in it (llmstack/xtxn.go, Commit).
THEOREM CommittedCorrect == Spec => []CommittedIsWhole
<1>1. XInv => CommittedIsWhole
  <2> SUFFICES ASSUME XInv, Calm, NEW o \in 1 .. Len(txn),
                      txn[o].state = "committed", NEW i \in 1 .. Len(Staged(o))
               PROVE  Effect(o, i) = Full(o, i)
    BY DEF CommittedIsWhole, Calm
  <2>1. i \in Nat /\ 0 < i /\ i <= txn[o].committed
    BY AtObject DEF ObjPhase, Staged
  <2> QED BY <2>1, AtObject DEF ObjTokens
<1> QED BY <1>1, XAlways, PTL

\* An aborted transaction has no effect and leaves no token (llmstack/xtxn.go,
\* Abort and the failure path of Prepare).
THEOREM AbortedCorrect == Spec => []AbortedIsNothing
<1>1. XInv => AbortedIsNothing
  <2> SUFFICES ASSUME XInv, NEW o \in 1 .. Len(txn), txn[o].state = "aborted"
               PROVE  /\ \A i \in 1 .. Len(Staged(o)) : Effect(o, i) = {}
                      /\ \A t \in st : t[1] # o
    BY DEF AbortedIsNothing
  <2>1. \A i \in 1 .. Len(Staged(o)) : Effect(o, i) = {}
    BY AtObject DEF ObjTokens, Unapplied, Staged
  <2>2. ASSUME NEW t \in st PROVE t[1] # o
    <3>1. PICK p \in 1 .. Len(txn), i \in Nat : t = <<p, i>>
      BY Parts
    <3>2. txn[p].state # "aborted"
      BY <3>1, AtObject DEF ObjTokens
    <3> QED BY <3>1, <3>2
  <2> QED BY <2>1, <2>2
<1> QED BY <1>1, XAlways, PTL

\* COMMIT fails half-way only when a gate was closed after the transaction began
\* to prepare, by others or by its own earlier operations, and never because a
\* token was gone (llmstack/xtxn.go, Commit; the participants' Commit).
THEOREM PartialCorrect == Spec => []PartialIsContended
<1>1. XInv => PartialIsContended
  <2> SUFFICES ASSUME XInv, NEW o \in 1 .. Len(txn), txn[o].state = "commit_partial"
               PROVE  o \notin unknown /\ (o \in moved \/ txn[o].committed > 0)
    BY DEF PartialIsContended
  <2>1. ~Free(o) /\ txn[o].committed \in Nat
    BY AtObject DEF ObjRoom
  <2> QED BY <2>1, Parts DEF Free
<1> QED BY <1>1, XAlways, PTL

----------------------------------------------------------------------------
(* Idempotent *)

\* The channel of an entry not yet made is open.
Unused == \A r \in Run : r > entries => ~closed[r]

----------------------------------------------------------------------------
(* Types *)

\* The first entries are made by the first callers.
LEMMA InitTypeOK == IdemInit => IdemTypeOK /\ Unused
BY IdempotentBounds DEF IdemInit, IdemTypeOK, Unused, Run, Nil

\* No operation of the store leaves the types, or an entry in flight with a
\* closed channel.
LEMMA StepTypeOK ==
    IdemTypeOK /\ Unused /\ [IdemNext]_idemVars => IdemTypeOK' /\ Unused'
<1> SUFFICES ASSUME IdemTypeOK, Unused, [IdemNext]_idemVars PROVE IdemTypeOK' /\ Unused'
  OBVIOUS
<1> USE IdempotentBounds DEF Nil
<1>b. /\ entries \in Nat /\ MaxRun \in Nat /\ entries <= MaxRun /\ cur \in 0..entries
      /\ now \in Nat /\ now + Ttl \in Nat
      /\ run \in [Conn -> 0..entries] /\ done \in [Run -> Nat]
      /\ result \in [Run -> 0..Nil]
  BY DEF IdemTypeOK
<1>c. cur # 0 => cur \in Run
  BY <1>b DEF Run
<1>0. /\ entries \in Nat /\ entries <= MaxRun /\ cur \in 0..entries /\ now + Ttl \in Nat
      /\ cur # 0 => cur \in Run
      /\ cur # 0 => result[cur] \in 0..Nil
      /\ \A c \in Conn : run[c] \in 0..MaxRun /\ run[c] \in 0..Nil
  BY <1>b, <1>c
<1>d. ASSUME NEW c \in Conn, done' = [done EXCEPT ![run[c]] = now]
      PROVE  done' \in [Run -> Nat]
  BY <1>b, <1>d
<1>a. ASSUME NEW c \in Conn, NEW v \in 0..Nil, Answer(c, v)
      PROVE  /\ pc' \in [Conn -> {"idle", "wait", "run", "replied"}]
             /\ reply' \in [Conn -> 0..Nil]
             /\ \A d \in Conn : pc'[d] = "wait" => pc[d] = "wait"
  BY <1>a DEF Answer, IdemTypeOK
<1>1. ASSUME NEW c \in Conn, AcquireHit(c) PROVE IdemTypeOK' /\ Unused'
  <2>1. /\ Answer(c, result[cur]) /\ result[cur] \in 0..Nil
        /\ since' = [since EXCEPT ![c] = now]
        /\ UNCHANGED <<store, ch, run, now, done, upset>>
    BY <1>0, <1>1 DEF AcquireHit, Called, Live
  <2> QED BY <1>a, <2>1 DEF store, IdemTypeOK, Unused
<1>2. ASSUME NEW c \in Conn, AcquireWait(c) PROVE IdemTypeOK' /\ Unused'
  BY <1>2 DEF AcquireWait, Called, Live, store, IdemTypeOK, Unused, Run
<1>3. ASSUME NEW c \in Conn, AcquireLead(c) PROVE IdemTypeOK' /\ Unused'
  <2>1. /\ entries' = entries + 1 /\ entries' \in 1..MaxRun /\ cur' = entries'
        /\ entries' \in Run
        /\ UNCHANGED <<result, closed, ch, reply, now, done>>
    BY <1>0, <1>3 DEF AcquireLead, Run
  <2>2. /\ inFlight' \in [Run -> BOOLEAN] /\ expires' \in [Run -> Nat]
        /\ pc' \in [Conn -> {"idle", "wait", "run", "replied"}]
        /\ \A d \in Conn : pc'[d] = "wait" => pc[d] = "wait"
        /\ since' \in [Conn -> Nat] /\ upset' \subseteq {"late", "panic"}
    BY <1>0, <1>3, <2>1 DEF AcquireLead, Called, IdemTypeOK
  <2>3. ch' \in [Conn -> 0..entries'] /\ run' \in [Conn -> 0..entries']
    BY <1>0, <1>3, <2>1 DEF AcquireLead, IdemTypeOK
  <2>4. ~closed'[cur'] /\ Unused'
    BY <1>0, <2>1 DEF Unused, Run
  <2> QED BY <1>0, <2>1, <2>2, <2>3, <2>4 DEF IdemTypeOK
<1>4. ASSUME NEW c \in Conn, Woken(c) PROVE IdemTypeOK' /\ Unused'
  <2> DEFINE v == IF cur # 0 /\ ~inFlight[cur] THEN result[cur] ELSE 0
  <2>1. /\ Answer(c, v) /\ v \in 0..Nil
        /\ UNCHANGED <<store, ch, run, now, since, done, upset>>
    BY <1>0, <1>4 DEF Woken
  <2> HIDE DEF v
  <2> QED BY <1>a, <2>1 DEF store, IdemTypeOK, Unused
<1>5. ASSUME NEW c \in Conn, Complete(c) PROVE IdemTypeOK' /\ Unused'
  <2>1. /\ Answer(c, run[c]) /\ cur \in Run /\ cur <= entries
        /\ result' = [result EXCEPT ![cur] = run[c]]
        /\ expires' = [expires EXCEPT ![cur] = now + Ttl]
        /\ inFlight' = [inFlight EXCEPT ![cur] = FALSE]
        /\ closed' = [closed EXCEPT ![cur] = TRUE]
        /\ done' = [done EXCEPT ![run[c]] = now]
        /\ UNCHANGED <<cur, entries, ch, run, now, since, upset>>
    BY <1>0, <1>5 DEF Complete
  <2>2. /\ result' \in [Run -> 0..Nil] /\ expires' \in [Run -> Nat]
        /\ inFlight' \in [Run -> BOOLEAN] /\ closed' \in [Run -> BOOLEAN]
        /\ ~inFlight'[cur]
    BY <1>0, <2>1 DEF IdemTypeOK
  <2>3. Unused'
    BY <1>0, <2>1 DEF Unused, IdemTypeOK, Run
  <2>4. done' \in [Run -> Nat]
    BY <1>d, <2>1
  <2> QED BY <1>0, <1>a, <2>1, <2>2, <2>3, <2>4 DEF IdemTypeOK
<1>6. ASSUME NEW c \in Conn, CompleteMissing(c) PROVE IdemTypeOK' /\ Unused'
  <2> DEFINE e == entries + 1
  <2>1. /\ Answer(c, run[c]) /\ e \in Run /\ e # 0
        /\ result' = [result EXCEPT ![e] = run[c]]
        /\ expires' = [expires EXCEPT ![e] = now + Ttl]
        /\ done' = [done EXCEPT ![run[c]] = now]
        /\ cur' = e /\ entries' = e /\ e \in 0..MaxRun /\ e \in 0..e /\ e > entries
        /\ UNCHANGED <<inFlight, closed, ch, run, now, since, upset>>
    BY <1>0, <1>6 DEF CompleteMissing, Run
  <2>2. /\ result' \in [Run -> 0..Nil] /\ expires' \in [Run -> Nat]
        /\ ~closed[e]
    BY <1>0, <2>1 DEF IdemTypeOK, Unused
  <2>3. Unused'
    BY <1>0, <2>1 DEF Unused, Run
  <2>4. ch' \in [Conn -> 0..entries'] /\ run' \in [Conn -> 0..entries']
    BY <1>0, <2>1 DEF IdemTypeOK
  <2>5. done' \in [Run -> Nat]
    BY <1>d, <2>1
  <2> HIDE DEF e
  <2> QED BY <1>0, <1>a, <2>1, <2>2, <2>3, <2>4, <2>5 DEF IdemTypeOK
<1>7. ASSUME NEW c \in Conn, Discard(c) PROVE IdemTypeOK' /\ Unused'
  <2>1. /\ Answer(c, 0) /\ 0 \in 0..Nil
        /\ UNCHANGED <<inFlight, expires, result, entries, ch, run, now, since, done, upset>>
    BY <1>7 DEF Discard
  <2>2. CASE cur # 0 /\ inFlight[cur]
    <3>1. cur' = 0 /\ closed' = [closed EXCEPT ![cur] = TRUE]
      BY <1>7, <2>2 DEF Discard
    <3>2. Unused' /\ closed' \in [Run -> BOOLEAN] /\ cur' \in 0..entries'
      BY <1>0, <2>1, <2>2, <3>1 DEF Unused, IdemTypeOK, Run
    <3> QED BY <1>a, <2>1, <3>1, <3>2 DEF IdemTypeOK
  <2>3. CASE ~(cur # 0 /\ inFlight[cur])
    <3>1. UNCHANGED <<closed, cur>>
      BY <1>7, <2>3 DEF Discard
    <3> QED BY <1>a, <2>1, <3>1 DEF IdemTypeOK, Unused
  <2> QED BY <2>2, <2>3
<1>8. ASSUME NEW c \in Conn, Panic(c) PROVE IdemTypeOK' /\ Unused'
  BY <1>8 DEF Panic, Answer, store, IdemTypeOK, Unused, Run
<1>9. ASSUME NEW c \in Conn, NextCommand(c) PROVE IdemTypeOK' /\ Unused'
  BY <1>9 DEF NextCommand, store, IdemTypeOK, Unused, Run
<1>10. CASE Tick
  BY <1>10 DEF Tick, store, conns, IdemTypeOK, Unused, Run
<1>11. CASE Sweep
  BY <1>11 DEF Sweep, conns, IdemTypeOK, Unused, Run
<1>12. CASE UNCHANGED idemVars
  BY <1>12 DEF idemVars, store, conns, IdemTypeOK, Unused, Run
<1> QED BY <1>1, <1>2, <1>3, <1>4, <1>5, <1>6, <1>7, <1>8, <1>9, <1>10, <1>11, <1>12 DEF IdemNext, Lead

\* For any clients, window and bounds the store keeps its types, and an entry
\* in flight has an open channel: Complete and Discard never close one twice.
THEOREM TypeCorrect == IdemSpec => []IdemTypeOK
<1>1. IdemInit => IdemTypeOK /\ Unused
  BY InitTypeOK
<1>2. IdemTypeOK /\ Unused /\ [IdemNext]_idemVars => IdemTypeOK' /\ Unused'
  BY StepTypeOK
<1> QED BY <1>1, <1>2, PTL DEF IdemSpec

----------------------------------------------------------------------------
(* Fresh replies *)

\* Times lie in the past, a connection between two calls has no reply, and a
\* leader has a run.
Sane ==
    /\ now > 0
    /\ \A r \in Run : done[r] <= now
    /\ \A c \in Conn :
         /\ since[c] <= now
         /\ pc[c] # "replied" => reply[c] = 0
         /\ pc[c] = "run" => run[c] # 0

\* The entry of the key, once completed, holds the result of a run that was
\* recorded ttl before the entry expires or later, and after everybody who
\* waits began to.
CacheFresh ==
    cur # 0 /\ ~inFlight[cur] =>
        /\ result[cur] \in Run /\ done[result[cur]] # 0
        /\ expires[cur] <= done[result[cur]] + Ttl
        /\ \A c \in Conn : pc[c] = "wait" => done[result[cur]] >= since[c]

FreshInv == Sane /\ CacheFresh /\ RepliesAreFresh

\* The invariant of the replies is kept by each step.
LEMMA StepFresh ==
    IdemTypeOK /\ FreshInv /\ [IdemNext]_idemVars => FreshInv'
<1> SUFFICES ASSUME IdemTypeOK, FreshInv, [IdemNext]_idemVars PROVE FreshInv'
  OBVIOUS
<1> USE IdempotentBounds DEF FreshInv, Nil
<1>0. /\ entries \in Nat /\ MaxRun \in Nat /\ entries <= MaxRun /\ cur \in 0..entries
      /\ now \in Nat /\ Ttl \in Nat /\ Ttl > 0
      /\ run \in [Conn -> 0..entries] /\ done \in [Run -> Nat]
      /\ result \in [Run -> 0..Nil] /\ reply \in [Conn -> 0..Nil]
      /\ since \in [Conn -> Nat] /\ expires \in [Run -> Nat]
      /\ pc \in [Conn -> {"idle", "wait", "run", "replied"}]
      /\ inFlight \in [Run -> BOOLEAN]
  BY DEF IdemTypeOK
<1>a. /\ cur # 0 => cur \in Run
      /\ \A v \in 0..MaxRun : v # 0 => v \in Run
  BY <1>0 DEF Run
<1>1. ASSUME NEW c \in Conn, AcquireHit(c) PROVE FreshInv'
  <2>1. /\ pc[c] = "idle" /\ since' = [since EXCEPT ![c] = now]
        /\ cur # 0 /\ now < expires[cur] /\ ~inFlight[cur]
        /\ pc' = [pc EXCEPT ![c] = "replied"]
        /\ reply' = [reply EXCEPT ![c] = result[cur]]
        /\ UNCHANGED <<store, ch, run, now, done, upset>>
    BY <1>1 DEF AcquireHit, Called, Live, Answer
  <2>2. Sane'
    BY <1>0, <2>1 DEF Sane, store
  <2>3. CacheFresh'
    BY <1>0, <2>1 DEF CacheFresh, store
  <2>4. result[cur] \in Run /\ done[result[cur]] # 0 /\ done[result[cur]] + Ttl > now
    BY <1>0, <1>a, <2>1 DEF CacheFresh
  <2>5. RepliesAreFresh'
    BY <1>0, <2>1, <2>4 DEF RepliesAreFresh
  <2> QED BY <2>2, <2>3, <2>5
<1>2. ASSUME NEW c \in Conn, AcquireWait(c) PROVE FreshInv'
  <2>1. /\ pc[c] = "idle" /\ since' = [since EXCEPT ![c] = now]
        /\ cur # 0 /\ inFlight[cur]
        /\ pc' = [pc EXCEPT ![c] = "wait"]
        /\ UNCHANGED <<store, reply, run, now, done, upset>>
    BY <1>2 DEF AcquireWait, Called, Live
  <2>2. Sane' /\ CacheFresh'
    BY <1>0, <2>1 DEF Sane, CacheFresh, store
  <2>3. RepliesAreFresh'
    BY <1>0, <2>1 DEF RepliesAreFresh, Sane
  <2> QED BY <2>2, <2>3
<1>3. ASSUME NEW c \in Conn, AcquireLead(c) PROVE FreshInv'
  <2>1. /\ pc[c] = "idle" /\ since' = [since EXCEPT ![c] = now]
        /\ entries + 1 \in Run /\ entries + 1 # 0
        /\ cur' = entries + 1 /\ inFlight' = [inFlight EXCEPT ![entries + 1] = TRUE]
        /\ pc' = [pc EXCEPT ![c] = "run"] /\ run' = [run EXCEPT ![c] = entries + 1]
        /\ UNCHANGED <<reply, now, done>>
    BY <1>0, <1>3 DEF AcquireLead, Called, Run
  <2>2. Sane'
    BY <1>0, <2>1 DEF Sane
  <2>3. CacheFresh'
    BY <1>0, <2>1 DEF CacheFresh
  <2>4. RepliesAreFresh'
    BY <1>0, <2>1 DEF RepliesAreFresh, Sane
  <2> QED BY <2>2, <2>3, <2>4
<1>4. ASSUME NEW c \in Conn, Woken(c) PROVE FreshInv'
  <2> DEFINE v == IF cur # 0 /\ ~inFlight[cur] THEN result[cur] ELSE 0
  <2>1. /\ pc[c] = "wait" /\ pc' = [pc EXCEPT ![c] = "replied"]
        /\ reply' = [reply EXCEPT ![c] = v]
        /\ UNCHANGED <<store, ch, run, now, since, done, upset>>
    BY <1>4 DEF Woken, Answer
  <2>2. v # 0 => v \in Run /\ done[v] # 0 /\ done[v] >= since[c]
    BY <1>0, <1>a, <2>1 DEF CacheFresh
  <2> HIDE DEF v
  <2>3. v # 0 => done[v] + Ttl > since[c]
    BY <1>0, <2>2
  <2>4. Sane' /\ CacheFresh'
    BY <1>0, <2>1 DEF Sane, CacheFresh, store
  <2>5. RepliesAreFresh'
    BY <1>0, <2>1, <2>2, <2>3 DEF RepliesAreFresh
  <2> QED BY <2>4, <2>5
<1>5. ASSUME NEW c \in Conn, NEW e \in Run,
             pc[c] = "run", cur' = e, e # 0,
             result' = [result EXCEPT ![e] = run[c]],
             expires' = [expires EXCEPT ![e] = now + Ttl],
             done' = [done EXCEPT ![run[c]] = now],
             Answer(c, run[c]), UNCHANGED <<run, now, since>>
      PROVE  FreshInv'
  <2>1. run[c] \in Run /\ now # 0
    BY <1>0, <1>a, <1>5 DEF Sane
  <2>2. /\ done'[run[c]] = now /\ result'[e] = run[c] /\ expires'[e] = now + Ttl
        /\ \A r \in Run : done'[r] = done[r] \/ done'[r] = now
        /\ \A r \in Run : done'[r] >= done[r] /\ done'[r] <= now
    BY <1>0, <1>5, <2>1 DEF Sane
  <2>3. /\ pc' = [pc EXCEPT ![c] = "replied"] /\ reply' = [reply EXCEPT ![c] = run[c]]
    BY <1>5 DEF Answer
  <2>4. Sane'
    BY <1>0, <1>5, <2>2, <2>3 DEF Sane
  <2>5. CacheFresh'
    BY <1>0, <1>5, <2>1, <2>2, <2>3 DEF CacheFresh, Sane
  <2>6. ASSUME NEW d \in Conn, reply'[d] # 0
        PROVE  reply'[d] \in Run /\ done'[reply'[d]] # 0 /\ done'[reply'[d]] + Ttl > since'[d]
    <3>1. CASE d = c
      BY <1>0, <1>5, <2>1, <2>2, <2>3, <3>1 DEF Sane
    <3>2. CASE d # c
      <4>1. reply'[d] = reply[d] /\ reply[d] \in Run /\ since'[d] = since[d]
        BY <1>0, <1>a, <1>5, <2>3, <2>6, <3>2 DEF RepliesAreFresh
      <4>2. done[reply[d]] # 0 /\ done[reply[d]] + Ttl > since[d]
        BY <2>6, <4>1 DEF RepliesAreFresh
      <4>3. done'[reply[d]] \in Nat /\ done[reply[d]] \in Nat /\ since[d] \in Nat
        BY <1>0, <2>2, <4>1
      <4>4. done'[reply[d]] >= done[reply[d]]
        BY <2>2, <4>1
      <4> QED BY <1>0, <4>1, <4>2, <4>3, <4>4
    <3> QED BY <3>1, <3>2
  <2> QED BY <2>4, <2>5, <2>6 DEF RepliesAreFresh
<1>6. ASSUME NEW c \in Conn, Complete(c) PROVE FreshInv'
  BY <1>a, <1>5, <1>6 DEF Complete
<1>7. ASSUME NEW c \in Conn, CompleteMissing(c) PROVE FreshInv'
  <2>1. entries + 1 \in Run /\ entries + 1 # 0
    BY <1>0, <1>7 DEF CompleteMissing, Run
  <2> QED BY <1>5, <1>7, <2>1 DEF CompleteMissing
<1>8. ASSUME NEW c \in Conn, Discard(c) PROVE FreshInv'
  <2>1. /\ pc[c] = "run" /\ pc' = [pc EXCEPT ![c] = "replied"] /\ reply' = [reply EXCEPT ![c] = 0]
        /\ cur' = cur \/ cur' = 0
        /\ UNCHANGED <<inFlight, expires, result, entries, ch, run, now, since, done, upset>>
    BY <1>8 DEF Discard, Answer
  <2> QED BY <1>0, <2>1 DEF Sane, CacheFresh, RepliesAreFresh
<1>9. ASSUME NEW c \in Conn, Panic(c) PROVE FreshInv'
  <2>1. /\ pc[c] = "run" /\ pc' = [pc EXCEPT ![c] = "replied"] /\ reply' = [reply EXCEPT ![c] = 0]
        /\ UNCHANGED <<store, run, now, since, done>>
    BY <1>9 DEF Panic, Answer
  <2> QED BY <1>0, <2>1 DEF Sane, CacheFresh, RepliesAreFresh, store
<1>10. ASSUME NEW c \in Conn, NextCommand(c) PROVE FreshInv'
  <2>1. /\ pc' = [pc EXCEPT ![c] = "idle"] /\ reply' = [reply EXCEPT ![c] = 0]
        /\ run' = [run EXCEPT ![c] = 0] /\ since' = [since EXCEPT ![c] = 0]
        /\ UNCHANGED <<store, now, done>>
    BY <1>10 DEF NextCommand
  <2>2. Sane' /\ CacheFresh'
    BY <1>0, <2>1 DEF Sane, CacheFresh, store
  <2>3. RepliesAreFresh'
    BY <1>0, <2>1 DEF RepliesAreFresh
  <2> QED BY <2>2, <2>3
<1>11. CASE Tick
  <2>1. now' = now + 1 /\ UNCHANGED <<store, conns, since, done>>
    BY <1>11 DEF Tick
  <2> QED BY <1>0, <2>1 DEF Sane, CacheFresh, RepliesAreFresh, store, conns
<1>12. CASE Sweep
  BY <1>12 DEF Sweep, Sane, CacheFresh, RepliesAreFresh, conns
<1>13. CASE UNCHANGED idemVars
  BY <1>13 DEF idemVars, Sane, CacheFresh, RepliesAreFresh, store, conns
<1> QED BY <1>1, <1>2, <1>3, <1>4, <1>6, <1>7, <1>8, <1>9, <1>10, <1>11, <1>12, <1>13 DEF IdemNext, Lead

\* For any clients, window and bounds a reply from the cache is that of a run
\* that ended after the call began or less than ttl before, though a released
\* waiter looks the key up again whatever became of it.
THEOREM RepliesCorrect == IdemSpec => []RepliesAreFresh
<1>1. IdemInit => FreshInv
  BY IdempotentBounds DEF IdemInit, FreshInv, Sane, CacheFresh, RepliesAreFresh
<1>2. IdemTypeOK /\ FreshInv /\ [IdemNext]_idemVars => FreshInv'
  BY StepFresh
<1>3. FreshInv => RepliesAreFresh
  BY DEF FreshInv
<1>4. IdemSpec => []IdemTypeOK
  BY TypeCorrect
<1> QED BY <1>1, <1>2, <1>3, <1>4, PTL DEF IdemSpec

----------------------------------------------------------------------------
(* One run per window *)

\* Until a upset the one leader's entry is the key's, in flight; and whoever
\* may lead next, because there is no entry or it has expired, comes ttl after
\* every recorded run.
Window ==
    /\ \A c \in Conn : pc[c] = "run" => cur # 0 /\ run[c] = cur /\ inFlight[cur]
    /\ \A c, d \in Conn : pc[c] = "run" /\ pc[d] = "run" => c = d
    /\ \A c \in Conn, r \in Run :
         pc[c] = "run" /\ done[r] # 0 => since[c] >= done[r] + Ttl
    /\ \A r \in Run : done[r] # 0 =>
         /\ cur = 0 => now >= done[r] + Ttl
         /\ cur # 0 /\ ~inFlight[cur] => expires[cur] >= done[r] + Ttl

WindowInv == upset = {} => Window

\* Each step keeps it, or is a upset.
LEMMA StepWindow ==
    IdemTypeOK /\ Sane /\ WindowInv /\ [IdemNext]_idemVars => WindowInv'
<1> SUFFICES ASSUME IdemTypeOK, Sane, WindowInv, [IdemNext]_idemVars, upset' = {} PROVE Window'
  BY DEF WindowInv
<1> USE IdempotentBounds
<1>0. /\ entries \in Nat /\ MaxRun \in Nat /\ entries <= MaxRun /\ cur \in 0..entries
      /\ now \in Nat /\ Ttl \in Nat /\ Ttl > 0
      /\ run \in [Conn -> 0..entries] /\ done \in [Run -> Nat]
      /\ since \in [Conn -> Nat] /\ expires \in [Run -> Nat]
      /\ pc \in [Conn -> {"idle", "wait", "run", "replied"}]
      /\ inFlight \in [Run -> BOOLEAN]
      /\ cur # 0 => cur \in Run
  BY DEF IdemTypeOK, Run
<1>1. ASSUME NEW c \in Conn, AcquireHit(c) PROVE Window'
  <2>1. /\ pc[c] = "idle" /\ since' = [since EXCEPT ![c] = now]
        /\ pc' = [pc EXCEPT ![c] = "replied"]
        /\ UNCHANGED <<store, run, now, done, upset>>
    BY <1>1 DEF AcquireHit, Called, Answer
  <2> QED BY <1>0, <2>1 DEF WindowInv, Window, store
<1>2. ASSUME NEW c \in Conn, AcquireWait(c) PROVE Window'
  <2>1. /\ pc[c] = "idle" /\ since' = [since EXCEPT ![c] = now]
        /\ pc' = [pc EXCEPT ![c] = "wait"]
        /\ UNCHANGED <<store, run, now, done, upset>>
    BY <1>2 DEF AcquireWait, Called
  <2> QED BY <1>0, <2>1 DEF WindowInv, Window, store
<1>3. ASSUME NEW c \in Conn, AcquireLead(c) PROVE Window'
  <2>1. /\ since' = [since EXCEPT ![c] = now] /\ ~(cur # 0 /\ now < expires[cur])
        /\ entries + 1 \in Run /\ entries + 1 # 0
        /\ cur' = entries + 1 /\ inFlight' = [inFlight EXCEPT ![entries + 1] = TRUE]
        /\ pc' = [pc EXCEPT ![c] = "run"] /\ run' = [run EXCEPT ![c] = entries + 1]
        /\ UNCHANGED <<now, done>>
    BY <1>0, <1>3 DEF AcquireLead, Called, Live, Run
  <2>2. upset = {} /\ ~(cur # 0 /\ inFlight[cur])
    BY <1>3 DEF AcquireLead
  <2>3. Window /\ \A d \in Conn : pc[d] # "run"
    BY <2>2 DEF WindowInv, Window
  <2>4. \A r \in Run : done[r] # 0 => now >= done[r] + Ttl
    BY <1>0, <2>1, <2>2, <2>3 DEF Window
  <2> QED BY <1>0, <2>1, <2>3, <2>4 DEF Window
<1>4. ASSUME NEW c \in Conn, Woken(c) PROVE Window'
  <2>1. /\ pc' = [pc EXCEPT ![c] = "replied"]
        /\ UNCHANGED <<store, run, now, since, done, upset>>
    BY <1>4 DEF Woken, Answer
  <2> QED BY <1>0, <2>1 DEF WindowInv, Window, store
<1>5. ASSUME NEW c \in Conn, Complete(c) PROVE Window'
  <2>1. /\ pc[c] = "run" /\ cur # 0 /\ pc' = [pc EXCEPT ![c] = "replied"]
        /\ expires' = [expires EXCEPT ![cur] = now + Ttl]
        /\ done' = [done EXCEPT ![run[c]] = now]
        /\ UNCHANGED <<cur, run, now, since, upset>>
    BY <1>5 DEF Complete, Answer
  <2>2. Window /\ \A d \in Conn : pc'[d] # "run"
    BY <1>0, <2>1 DEF WindowInv, Window
  <2>3. /\ expires'[cur] = now + Ttl /\ run[c] \in Run
        /\ \A r \in Run : done'[r] \in Nat /\ done'[r] <= now
    BY <1>0, <2>1, <2>2 DEF Window, Sane
  <2> QED BY <1>0, <2>1, <2>2, <2>3 DEF Window
<1>6. ASSUME NEW c \in Conn, CompleteMissing(c) PROVE Window'
  BY <1>6 DEF CompleteMissing, WindowInv, Window
<1>7. ASSUME NEW c \in Conn, Discard(c) PROVE Window'
  <2>1. /\ pc[c] = "run" /\ pc' = [pc EXCEPT ![c] = "replied"]
        /\ cur # 0 /\ inFlight[cur] => cur' = 0
        /\ UNCHANGED <<inFlight, expires, run, now, since, done, upset>>
    BY <1>7 DEF Discard, Answer
  <2>2. Window /\ cur # 0 /\ inFlight[cur]
    BY <2>1 DEF WindowInv, Window
  <2>3. cur' = 0 /\ \A d \in Conn : pc'[d] # "run"
    BY <1>0, <2>1, <2>2 DEF Window
  <2>4. \A r \in Run : done[r] # 0 => now >= done[r] + Ttl
    BY <1>0, <2>1, <2>2 DEF Window, Sane
  <2> QED BY <2>1, <2>3, <2>4 DEF Window
<1>8. ASSUME NEW c \in Conn, Panic(c) PROVE Window'
  BY <1>8 DEF Panic
<1>9. ASSUME NEW c \in Conn, NextCommand(c) PROVE Window'
  <2>1. /\ pc[c] = "replied" /\ pc' = [pc EXCEPT ![c] = "idle"]
        /\ run' = [run EXCEPT ![c] = 0] /\ since' = [since EXCEPT ![c] = 0]
        /\ UNCHANGED <<store, now, done, upset>>
    BY <1>9 DEF NextCommand
  <2> QED BY <1>0, <2>1 DEF WindowInv, Window, store
<1>10. CASE Tick
  <2>1. now' = now + 1 /\ UNCHANGED <<store, conns, since, done, upset>>
    BY <1>10 DEF Tick
  <2> QED BY <1>0, <2>1 DEF WindowInv, Window, store, conns
<1>11. CASE Sweep
  <2>1. /\ cur # 0 /\ ~inFlight[cur] /\ now > expires[cur] /\ cur' = 0
        /\ UNCHANGED <<inFlight, expires, conns, now, since, done, upset>>
    BY <1>11 DEF Sweep
  <2>2. Window /\ \A c \in Conn : pc[c] # "run"
    BY <2>1 DEF WindowInv, Window
  <2>3. \A r \in Run : done[r] # 0 => now >= done[r] + Ttl
    BY <1>0, <2>1, <2>2 DEF Window
  <2> QED BY <2>1, <2>2, <2>3 DEF Window, conns
<1>12. CASE UNCHANGED idemVars
  BY <1>12 DEF idemVars, WindowInv, Window, store, conns
<1> QED BY <1>1, <1>2, <1>3, <1>4, <1>5, <1>6, <1>7, <1>8, <1>9, <1>10, <1>11, <1>12 DEF IdemNext, Lead

\* For any clients, window and bounds, until a leader outlives its window or
\* panics, no command is run beside another under the same key or less than
\* ttl after one.
THEOREM OnceCorrect == IdemSpec => []OncePerWindow
<1>1. IdemInit => FreshInv /\ WindowInv
  BY IdempotentBounds DEF IdemInit, FreshInv, Sane, CacheFresh, RepliesAreFresh, WindowInv, Window
<1>2. FreshInv => Sane
  BY DEF FreshInv
<1>3. /\ IdemTypeOK /\ FreshInv /\ [IdemNext]_idemVars => FreshInv'
      /\ IdemTypeOK /\ Sane /\ WindowInv /\ [IdemNext]_idemVars => WindowInv'
  BY StepFresh, StepWindow
<1>4. WindowInv => OncePerWindow
  BY DEF WindowInv, Window, OncePerWindow
<1>5. IdemSpec => []IdemTypeOK
  BY TypeCorrect
<1> QED BY <1>1, <1>2, <1>3, <1>4, <1>5, PTL DEF IdemSpec

============================================================================
