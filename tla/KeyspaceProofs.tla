--------------------------- MODULE KeyspaceProofs ---------------------------
(***************************************************************************)
(* The keyspace: the optimistic check of EXEC (Transaction) and the        *)
(* strings with their sweeps, eviction and locks (Store), for any number   *)
(* of connections, keys, shards and commands.                              *)
(*                                                                         *)
(* Transaction.  GaugeExact is not inductive: a connection is counted      *)
(* while it does not watch yet (WATCH) or no longer (EXEC, before          *)
(* syncWatchGauge).  Settled says at which places of a command the two     *)
(* agree.  ExecAborts rests on VersionsGrow: a version that was bumped     *)
(* after WATCH is larger than the version WATCH read, and stays so.        *)
(*                                                                         *)
(* Store.  CounterExact and BytesExact are inductive with the types of the *)
(* map; the byte counter is the size of a set of (key, place) pairs, so    *)
(* each write adds and removes disjoint finite sets.  NoLockCycle is not   *)
(* inductive; LockOrder is, that every lock held is below every lock still *)
(* to take, and of the commands that wait, the one whose lowest missing    *)
(* shard is highest can go on.                                             *)
(***************************************************************************)
EXTENDS Transaction, Store, FiniteSetTheorems, WellFoundedInduction, TLAPS

Counted == {c \in Conn : contributed[c]}

\* Places at which a connection is counted exactly if it watches.
Settled(c) ==
    \/ pc[c] \in {"idle", "closed", "record"}
    \/ pc[c] \in {"load", "bump"} /\ ~replaying[c]

GaugeInv ==
    /\ watchers = Cardinality(Counted)
    /\ \A c \in Conn : \A k \in Key : watched[c][k] # Absent => contributed[c]
    /\ \A c \in Conn : Settled(c) /\ contributed[c] => Watching(c)
    /\ \A c \in Conn : pc[c] = "watch" => contributed[c] /\ args[c] # <<>>

Inv == TypeOK /\ GaugeInv

----------------------------------------------------------------------------
\* The connections that raised the gauge are finitely many (AddWatcher).
LEMMA CountedFinite == IsFiniteSet(Counted) /\ Cardinality(Counted) \in Nat
BY ConnAssumption, FS_Subset, FS_CardinalityType DEF Counted

\* The gauge follows a connection that starts to be counted.
LEMMA CountIn ==
    ASSUME NEW c \in Conn, TypeOK, ~contributed[c],
           contributed' = [contributed EXCEPT ![c] = TRUE]
    PROVE  Cardinality(Counted)' = Cardinality(Counted) + 1
<1>1. Counted' = Counted \cup {c} /\ c \notin Counted
  BY DEF Counted, TypeOK
<1> QED BY <1>1, CountedFinite, FS_AddElement

\* The gauge follows a connection that stops being counted.
LEMMA CountOut ==
    ASSUME NEW c \in Conn, TypeOK, contributed[c],
           contributed' = [contributed EXCEPT ![c] = FALSE]
    PROVE  Cardinality(Counted)' = Cardinality(Counted) - 1 /\ Cardinality(Counted) > 0
<1>1. Counted' = Counted \ {c} /\ c \in Counted
  BY DEF Counted, TypeOK
<1>2. Cardinality(Counted) # 0
  BY <1>1, CountedFinite, FS_EmptySet
<1>3. Cardinality(Counted \ {c}) = Cardinality(Counted) - 1
  BY <1>1, CountedFinite, FS_RemoveElement
<1>4. Cardinality(Counted)' = Cardinality(Counted) - 1
  BY <1>1, <1>3
<1> QED BY <1>2, <1>4, CountedFinite

\* An assignment that changes nothing leaves the count alone.
LEMMA CountSame ==
    ASSUME contributed' = contributed
    PROVE  Cardinality(Counted)' = Cardinality(Counted)
<1>1. Counted' = Counted BY DEF Counted
<1> QED BY <1>1

----------------------------------------------------------------------------
\* A fresh engine with idle connections satisfies the invariant.
LEMMA InitInv == Init => Inv
<1> SUFFICES ASSUME Init PROVE Inv OBVIOUS
<1>1. TypeOK
  BY DEF Init, TypeOK, Place, Absent
<1>2. Counted = {}
  BY DEF Init, Counted
<1>3. watchers = Cardinality(Counted)
  BY <1>2, FS_EmptySet DEF Init
<1> QED
  BY <1>1, <1>3 DEF Inv, GaugeInv, Init, Settled, Watching

\* The actions that leave the gauge and contributed alone.
Others(c) ==
    \/ Begin(c) \/ Discard(c) \/ Unwatch(c) \/ WatchKey(c)
    \/ (\E cmd \in Cmd : Queue(c, cmd) \/ Write(c, cmd))
    \/ Load(c) \/ BumpKey(c) \/ RecordWrite(c)
    \/ Exec(c) \/ CheckDirty(c) \/ Commit(c) \/ ExecNext(c)

\* Taking a key off WATCH's arguments leaves arguments of the same kind.
LEMMA ArgsLeft ==
    ASSUME NEW S, NEW s \in Seq(S), s # <<>>
    PROVE  /\ Head(s) \in S /\ Tail(s) \in Seq(S)
           /\ Len(s) # 1 => Tail(s) # <<>>
<1>1. Head(s) \in S /\ Tail(s) \in Seq(S) /\ Len(Tail(s)) = Len(s) - 1 /\ Len(s) \in Nat
  OBVIOUS
<1>2. Len(s) # 1 => Len(Tail(s)) # 0
  BY <1>1
<1>3. Len(<<>>) = 0
  OBVIOUS
<1> QED BY <1>1, <1>2, <1>3

\* The history of a key stays a set of keys per connection.
LEMMA MarkType ==
    ASSUME NEW g \in [Conn -> SUBSET Key], NEW k \in Key
    PROVE  Mark(g, k) \in [Conn -> SUBSET Key]
BY DEF Mark

\* A mutation keeps the types of what it assigns.
LEMMA MutateType ==
    ASSUME TypeOK, NEW c \in Conn, NEW cmd \in Cmd, NEW r \in BOOLEAN, Mutate(c, cmd, r)
    PROVE  /\ epoch' \in [Key -> Nat] /\ cur' \in [Conn -> Key]
           /\ replaying' \in [Conn -> BOOLEAN] /\ pc' \in [Conn -> Place]
           /\ changed' \in [Conn -> SUBSET Key] /\ touched' \in [Conn -> SUBSET Key]
<1>1. cmd.key \in Key BY CmdAssumption
<1>2. Mark(changed, cmd.key) \in [Conn -> SUBSET Key] /\ Mark(touched, cmd.key) \in [Conn -> SUBSET Key]
  BY <1>1, MarkType DEF TypeOK
<1>3. changed' \in [Conn -> SUBSET Key] /\ touched' \in [Conn -> SUBSET Key]
  BY <1>2 DEF Mutate, TypeOK
<1>4. epoch' \in [Key -> Nat] /\ cur' \in [Conn -> Key] /\ replaying' \in [Conn -> BOOLEAN]
  BY <1>1 DEF Mutate, TypeOK
<1>5. pc' \in [Conn -> Place]
  BY DEF Mutate, TypeOK, Place, Goto
<1> QED BY <1>3, <1>4, <1>5

\* Every step of a connection that leaves the gauge alone keeps the types.
LEMMA TypeStep ==
    ASSUME TypeOK, NEW c \in Conn, Others(c), pc[c] = "watch" => args[c] # <<>>
    PROVE  TypeOK'
<1> USE CmdAssumption DEF TypeOK, Place, Absent, engine, state, local, ghost, Goto
<1>1. CASE Begin(c)
  BY <1>1 DEF Begin
<1>2. CASE Discard(c)
  BY <1>2 DEF Discard, ClearQueue, ClearWatch
<1>3. CASE Unwatch(c)
  BY <1>3 DEF Unwatch, ClearWatch
<1>4. CASE WatchKey(c)
  <2>1. Head(args[c]) \in Key /\ Tail(args[c]) \in Seq(Key)
    BY <1>4 DEF WatchKey
  <2>2. CASE active[c]
    <3>1. args' = [args EXCEPT ![c] = <<>>] /\ pc' = [pc EXCEPT ![c] = "sync"] /\ UNCHANGED <<watched, changed, touched>>
      BY <1>4, <2>2 DEF WatchKey
    <3>2. args' \in [Conn -> Seq(Key)] /\ pc' \in [Conn -> Place]
      BY <3>1
    <3> QED BY <1>4, <3>1, <3>2 DEF WatchKey
  <2>3. CASE ~active[c]
    <3> DEFINE k == Head(args[c])
    <3>1. /\ args' = [args EXCEPT ![c] = Tail(@)]
          /\ pc' = [pc EXCEPT ![c] = IF Len(args[c]) = 1 THEN "idle" ELSE "watch"]
          /\ watched' = [watched EXCEPT ![c][k] = versions[k]]
          /\ changed' = [changed EXCEPT ![c] = @ \ {k}]
          /\ touched' = [touched EXCEPT ![c] = @ \ {k}]
      BY <1>4, <2>3 DEF WatchKey
    <3>2. versions[k] \in Nat BY <2>1
    <3> HIDE DEF k
    <3>3. args' \in [Conn -> Seq(Key)]
      BY <2>1, <3>1
    <3>4. pc' \in [Conn -> Place]
      BY <3>1
    <3>5. watched' \in [Conn -> [Key -> Nat \cup {Absent}]]
      BY <3>1, <3>2
    <3>6. changed' \in [Conn -> SUBSET Key] /\ touched' \in [Conn -> SUBSET Key]
      BY <3>1
    <3> QED BY <1>4, <3>3, <3>4, <3>5, <3>6 DEF WatchKey
  <2> QED BY <2>2, <2>3
<1>5. ASSUME NEW cmd \in Cmd, Queue(c, cmd) PROVE TypeOK'
  BY <1>5 DEF Queue
<1>6. ASSUME NEW cmd \in Cmd, Write(c, cmd) PROVE TypeOK'
  <2>1. Mutate(c, cmd, FALSE)
    BY <1>6 DEF Write
  <2> QED BY <1>6, <2>1, MutateType DEF Write
<1>7. CASE Load(c)
  <2>1. Mark(touched, cur[c]) \in [Conn -> SUBSET Key]
    BY MarkType
  <2>2. CASE watchers = 0
    BY <1>7, <2>1, <2>2 DEF Load, AfterNotify
  <2>3. CASE watchers # 0
    BY <1>7, <2>3 DEF Load
  <2> QED BY <2>2, <2>3
<1>8. CASE BumpKey(c)
  <2>1. Mark(touched, cur[c]) \in [Conn -> SUBSET Key]
    BY MarkType
  <2> QED BY <1>8, <2>1 DEF BumpKey, AfterNotify
<1>9. CASE RecordWrite(c)
  BY <1>9 DEF RecordWrite
<1>10. CASE Exec(c)
  BY <1>10 DEF Exec, Watched, Watching
<1>11. CASE CheckDirty(c)
  <2>1. PICK k \in unchecked[c] :
          IF versions[k] # watched[c][k]
          THEN /\ dirty' = [dirty EXCEPT ![c] = TRUE]
               /\ unchecked' = [unchecked EXCEPT ![c] = {}]
               /\ Goto(c, "commit")
          ELSE /\ unchecked' = [unchecked EXCEPT ![c] = @ \ {k}]
               /\ Goto(c, IF unchecked[c] = {k} THEN "commit" ELSE "check")
               /\ UNCHANGED dirty
    BY <1>11 DEF CheckDirty
  <2>2. dirty' \in [Conn -> BOOLEAN] /\ unchecked' \in [Conn -> SUBSET Key] /\ pc' \in [Conn -> Place]
    <3>1. CASE versions[k] # watched[c][k]
      BY <2>1, <3>1
    <3>2. CASE versions[k] = watched[c][k]
      <4>1. dirty' = dirty BY <2>1, <3>2
      <4>5. unchecked' = [unchecked EXCEPT ![c] = @ \ {k}] BY <2>1, <3>2
      <4>2. unchecked' \in [Conn -> SUBSET Key] BY <4>5
      <4>3. pc' = [pc EXCEPT ![c] = IF unchecked[c] = {k} THEN "commit" ELSE "check"] BY <2>1, <3>2
      <4>4. pc' \in [Conn -> Place] BY <4>3
      <4> QED BY <4>1, <4>2, <4>4
    <3> QED BY <3>1, <3>2
  <2> QED BY <1>11, <2>2 DEF CheckDirty
<1>12. CASE Commit(c)
  BY <1>12 DEF Commit, ClearQueue, ClearWatch
<1>13. CASE ExecNext(c)
  <2>1. CASE todo[c] = <<>>
    BY <1>13, <2>1 DEF ExecNext
  <2>2. CASE todo[c] # <<>>
    <3>1. Head(todo[c]) \in Cmd /\ Tail(todo[c]) \in Seq(Cmd)
      BY <2>2
    <3>2. Mutate(c, Head(todo[c]), TRUE) /\ todo' = [todo EXCEPT ![c] = Tail(@)]
      BY <1>13, <2>2 DEF ExecNext
    <3>3. todo' \in [Conn -> Seq(Cmd)]
      BY <3>1, <3>2
    <3> QED BY <1>13, <3>1, <3>2, <3>3, MutateType DEF ExecNext
  <2> QED BY <2>1, <2>2
<1> QED
  BY <1>1, <1>2, <1>3, <1>4, <1>5, <1>6, <1>7, <1>8, <1>9, <1>10, <1>11, <1>12, <1>13 DEF Others

\* What the gauge says of the connections survives the actions that neither
\* raise nor drop it.
LEMMA GaugeStep ==
    ASSUME Inv, NEW c \in Conn, Others(c)
    PROVE  GaugeInv'
<1> USE DEF Inv, GaugeInv, TypeOK, Absent, engine, state, local, ghost, Goto
<1>1. contributed' = contributed /\ watchers' = watchers
  BY DEF Others, Begin, Discard, Unwatch, WatchKey, Queue, Write, Load, BumpKey, RecordWrite,
         Exec, CheckDirty, Commit, ExecNext
<1>2. watchers' = Cardinality(Counted)'
  BY <1>1, CountSame
<1> HIDE DEF GaugeInv
<1> DEFINE Rest == /\ \A d \in Conn : \A k \in Key : watched[d][k] # Absent => contributed[d]
                   /\ \A d \in Conn : Settled(d) /\ contributed[d] => Watching(d)
                   /\ \A d \in Conn : pc[d] = "watch" => contributed[d] /\ args[d] # <<>>
<1>0. Rest BY DEF GaugeInv
<1> USE DEF Settled, Watching
<1>3. ASSUME Begin(c) PROVE Rest'
  BY <1>0, <1>1, <1>3 DEF Begin
<1>4. ASSUME Discard(c) PROVE Rest'
  BY <1>0, <1>1, <1>4 DEF Discard, ClearQueue, ClearWatch
<1>5. ASSUME Unwatch(c) PROVE Rest'
  BY <1>0, <1>1, <1>5 DEF Unwatch, ClearWatch
<1>6. ASSUME WatchKey(c) PROVE Rest'
  <2> DEFINE k == Head(args[c])
  <2>1. k \in Key /\ Tail(args[c]) \in Seq(Key) /\ (Len(args[c]) # 1 => Tail(args[c]) # <<>>)
    <3>1. args[c] \in Seq(Key) /\ args[c] # <<>>
      BY <1>0, <1>6 DEF WatchKey
    <3> QED BY <3>1, ArgsLeft
  <2>2. contributed[c]
    BY <1>0, <1>6 DEF WatchKey
  <2>3. CASE active[c]
    <3>1. args' = [args EXCEPT ![c] = <<>>] /\ pc' = [pc EXCEPT ![c] = "sync"] /\ UNCHANGED <<watched, replaying>>
      BY <1>6, <2>3 DEF WatchKey
    <3> QED BY <1>0, <1>1, <3>1
  <2>4. CASE ~active[c]
    <3>1. /\ args' = [args EXCEPT ![c] = Tail(@)]
          /\ pc' = [pc EXCEPT ![c] = IF Len(args[c]) = 1 THEN "idle" ELSE "watch"]
          /\ watched' = [watched EXCEPT ![c][k] = versions[k]]
          /\ replaying' = replaying
      BY <1>6, <2>4 DEF WatchKey
    <3>2. versions[k] \in Nat BY <2>1
    <3>3. watched'[c][k] # Absent
      BY <2>1, <3>1, <3>2
    <3>4. Len(args[c]) # 1 => args'[c] # <<>>
      BY <2>1, <3>1
    <3> HIDE DEF k
    <3>5. \A d \in Conn : \A j \in Key : watched'[d][j] # Absent => contributed'[d]
      BY <1>0, <1>1, <2>2, <3>1
    <3>6. \A d \in Conn : Settled(d)' /\ contributed'[d] => Watching(d)'
      BY <1>0, <1>1, <2>1, <3>1, <3>3
    <3>7. \A d \in Conn : pc'[d] = "watch" => contributed'[d] /\ args'[d] # <<>>
      BY <1>0, <1>1, <2>2, <3>1, <3>4
    <3> QED BY <3>5, <3>6, <3>7
  <2> QED BY <2>3, <2>4
<1>7. ASSUME NEW cmd \in Cmd, Queue(c, cmd) PROVE Rest'
  BY <1>0, <1>1, <1>7 DEF Queue
<1>8. ASSUME NEW cmd \in Cmd, Write(c, cmd) PROVE Rest'
  <2>1. /\ UNCHANGED <<watched, args>> /\ pc[c] = "idle"
        /\ \E l \in {"load", "record"} : pc' = [pc EXCEPT ![c] = l]
        /\ replaying' = [replaying EXCEPT ![c] = FALSE]
    BY <1>8 DEF Write, Mutate
  <2>2. \A d \in Conn : \A k \in Key : watched'[d][k] # Absent => contributed'[d]
    BY <1>0, <1>1, <2>1
  <2>3. \A d \in Conn : Settled(d)' => Settled(d)
    BY <2>1
  <2>4. \A d \in Conn : Settled(d)' /\ contributed'[d] => Watching(d)'
    BY <1>0, <1>1, <2>1, <2>3
  <2>5. \A d \in Conn : pc'[d] = "watch" => contributed'[d] /\ args'[d] # <<>>
    BY <1>0, <1>1, <2>1
  <2> QED BY <2>2, <2>4, <2>5
<1>9. ASSUME Load(c) PROVE Rest'
  <2>1. /\ UNCHANGED <<watched, args, replaying>>
        /\ pc[c] = "load"
        /\ \/ pc' = [pc EXCEPT ![c] = IF replaying[c] THEN "exec" ELSE "record"]
           \/ pc' = [pc EXCEPT ![c] = "bump"]
    BY <1>9 DEF Load, AfterNotify
  <2> QED BY <1>0, <1>1, <2>1
<1>10. ASSUME BumpKey(c) PROVE Rest'
  <2>1. /\ UNCHANGED <<watched, args, replaying>>
        /\ pc[c] = "bump"
        /\ pc' = [pc EXCEPT ![c] = IF replaying[c] THEN "exec" ELSE "record"]
    BY <1>10 DEF BumpKey, AfterNotify
  <2> QED BY <1>0, <1>1, <2>1
<1>11. ASSUME RecordWrite(c) PROVE Rest'
  BY <1>0, <1>1, <1>11 DEF RecordWrite
<1>12. ASSUME Exec(c) PROVE Rest'
  BY <1>0, <1>1, <1>12 DEF Exec
<1>13. ASSUME CheckDirty(c) PROVE Rest'
  <2>1. /\ UNCHANGED <<watched, args, replaying>>
        /\ \E l \in {"check", "commit"} : pc' = [pc EXCEPT ![c] = l]
    BY <1>13 DEF CheckDirty
  <2> QED BY <1>0, <1>1, <2>1
<1>14. ASSUME Commit(c) PROVE Rest'
  BY <1>0, <1>1, <1>14 DEF Commit, ClearQueue, ClearWatch
<1>15. ASSUME ExecNext(c) PROVE Rest'
  <2>1. /\ UNCHANGED <<watched, args>>
        /\ \/ pc' = [pc EXCEPT ![c] = "sync"] /\ UNCHANGED replaying
           \/ /\ \E l \in {"load", "exec"} : pc' = [pc EXCEPT ![c] = l]
              /\ replaying' = [replaying EXCEPT ![c] = TRUE]
    BY <1>15 DEF ExecNext, Mutate
  <2> QED BY <1>0, <1>1, <2>1
<1> HIDE DEF Settled, Watching
<1>16. Rest'
  BY <1>3, <1>4, <1>5, <1>6, <1>7, <1>8, <1>9, <1>10, <1>11, <1>12, <1>13, <1>14, <1>15 DEF Others
<1> QED BY <1>2, <1>16 DEF GaugeInv

\* WATCH raises the gauge.
LEMMA WatchStep ==
    ASSUME Inv, NEW c \in Conn, NEW keys \in WatchArgs, Watch(c, keys)
    PROVE  Inv'
<1> USE DEF Inv, engine, state, local, ghost, Goto
<1>1. keys \in Seq(Key) /\ keys # <<>>
  BY WatchAssumption
<1>2. watchers' = Cardinality(Counted)'
  <2>1. CASE contributed[c]
    <3>1. contributed' = contributed BY <2>1 DEF Watch, TypeOK
    <3> QED BY <2>1, <3>1, CountSame DEF Watch, GaugeInv
  <2>2. CASE ~contributed[c]
    BY <2>2, CountIn DEF Watch, GaugeInv
  <2> QED BY <2>1, <2>2
<1>3. watchers' \in Nat
  BY DEF Watch, TypeOK
<1>4. TypeOK'
  BY <1>1, <1>3 DEF Watch, TypeOK, Place, Absent
<1>5. /\ \A d \in Conn : \A k \in Key : watched'[d][k] # Absent => contributed'[d]
      /\ \A d \in Conn : Settled(d)' /\ contributed'[d] => Watching(d)'
      /\ \A d \in Conn : pc'[d] = "watch" => contributed'[d] /\ args'[d] # <<>>
  BY <1>1 DEF Watch, TypeOK, GaugeInv, Settled, Watching
<1> QED BY <1>2, <1>4, <1>5 DEF GaugeInv

\* syncWatchGauge makes the gauge agree with the watched set.
LEMMA SyncStep ==
    ASSUME Inv, NEW c \in Conn, Sync(c)
    PROVE  Inv'
<1> USE DEF Inv, engine, state, local, ghost, Goto
<1> DEFINE w == Watching(c)
<1>1. w \in BOOLEAN /\ contributed[c] \in BOOLEAN /\ (w => contributed[c])
  BY DEF Watching, TypeOK, GaugeInv
<1>2. contributed' = [contributed EXCEPT ![c] = w]
  BY DEF Sync
<1>3. watchers' = Cardinality(Counted)' /\ watchers' \in Nat
  <2>1. CASE w = contributed[c]
    <3>1. contributed' = contributed BY <1>2, <2>1 DEF TypeOK
    <3>2. watchers' = watchers BY <2>1 DEF Sync
    <3> QED BY <3>1, <3>2, CountSame DEF GaugeInv, TypeOK
  <2>2. CASE w # contributed[c]
    <3>1. ~w /\ contributed[c] BY <1>1, <2>2
    <3> HIDE DEF w
    <3>5. w = FALSE BY <1>1, <3>1
    <3>2. contributed' = [contributed EXCEPT ![c] = FALSE] BY <1>2, <3>5
    <3> USE DEF w
    <3>3. watchers' = watchers - 1 BY <3>1 DEF Sync
    <3>4. Cardinality(Counted)' = Cardinality(Counted) - 1 /\ Cardinality(Counted) > 0
      BY <3>1, <3>2, CountOut
    <3> QED BY <3>3, <3>4, CountedFinite DEF GaugeInv
  <2> QED BY <2>1, <2>2
<1>4. TypeOK'
  BY <1>1, <1>2, <1>3 DEF Sync, TypeOK, Place, Absent
<1>5. UNCHANGED <<watched, args, replaying>> /\ pc' = [pc EXCEPT ![c] = "idle"]
  BY DEF Sync
<1>6. /\ \A d \in Conn : \A k \in Key : watched'[d][k] # Absent => contributed'[d]
      /\ \A d \in Conn : Settled(d)' /\ contributed'[d] => Watching(d)'
      /\ \A d \in Conn : pc'[d] = "watch" => contributed'[d] /\ args'[d] # <<>>
  BY <1>2, <1>5 DEF TypeOK, GaugeInv, Settled, Watching
<1> QED BY <1>3, <1>4, <1>6 DEF GaugeInv

\* A connection that goes away takes its share of the gauge along.
LEMMA DisconnectStep ==
    ASSUME Inv, NEW c \in Conn, Disconnect(c)
    PROVE  Inv'
<1> USE DEF Inv, engine, state, local, ghost, Goto
<1>1. contributed' = [contributed EXCEPT ![c] = FALSE]
  BY DEF Disconnect
<1>2. watchers' = Cardinality(Counted)' /\ watchers' \in Nat
  <2>1. CASE ~contributed[c]
    <3>1. contributed' = contributed BY <1>1, <2>1 DEF TypeOK
    <3>2. watchers' = watchers BY <2>1 DEF Disconnect
    <3> QED BY <3>1, <3>2, CountSame DEF GaugeInv, TypeOK
  <2>2. CASE contributed[c]
    <3>1. watchers' = watchers - 1 BY <2>2 DEF Disconnect
    <3>2. Cardinality(Counted)' = Cardinality(Counted) - 1 /\ Cardinality(Counted) > 0
      BY <1>1, <2>2, CountOut
    <3> QED BY <3>1, <3>2, CountedFinite DEF GaugeInv
  <2> QED BY <2>1, <2>2
<1>3. TypeOK'
  BY <1>1, <1>2 DEF Disconnect, ClearQueue, ClearWatch, TypeOK, Place, Absent
<1>4. /\ \A d \in Conn : \A k \in Key : watched'[d][k] # Absent => contributed'[d]
      /\ \A d \in Conn : Settled(d)' /\ contributed'[d] => Watching(d)'
      /\ \A d \in Conn : pc'[d] = "watch" => contributed'[d] /\ args'[d] # <<>>
  BY <1>1 DEF Disconnect, ClearQueue, ClearWatch, TypeOK, GaugeInv, Settled, Watching
<1> QED BY <1>2, <1>3, <1>4 DEF GaugeInv

\* Types and gauge survive every step of every connection.
LEMMA NextInv == Inv /\ [Next]_vars => Inv'
<1> SUFFICES ASSUME Inv, [Next]_vars PROVE Inv' OBVIOUS
<1>1. CASE UNCHANGED vars
  <2>1. Counted' = Counted BY <1>1 DEF vars, Counted
  <2> QED
    BY <1>1, <2>1 DEF Inv, TypeOK, GaugeInv, Settled, Watching, vars, engine, state, local, ghost
<1>2. ASSUME NEW c \in Conn, Step(c) PROVE Inv'
  <2>1. CASE Others(c)
    <3>1. pc[c] = "watch" => args[c] # <<>> BY DEF Inv, GaugeInv
    <3> QED BY <2>1, <3>1, TypeStep, GaugeStep DEF Inv
  <2>2. CASE \E keys \in WatchArgs : Watch(c, keys)
    BY <2>2, WatchStep
  <2>3. CASE Sync(c)
    BY <2>3, SyncStep
  <2>4. CASE Disconnect(c)
    BY <2>4, DisconnectStep
  <2> QED BY <1>2, <2>1, <2>2, <2>3, <2>4 DEF Step, Others
<1> QED BY <1>1, <1>2 DEF Next

\* ... so they hold throughout every behaviour.
LEMMA Invariance == Spec => []Inv
BY InitInv, NextInv, PTL DEF Spec

\* Types are kept on every behaviour; the gauge never goes below zero.
THEOREM TypeCorrect == Spec => []TypeOK
<1>1. Inv => TypeOK BY DEF Inv
<1> QED BY <1>1, Invariance, PTL

\* The gauge is exact: it counts the connections that watch, on every path
\* through WATCH, UNWATCH, EXEC, DISCARD, RESET and a disconnect.
THEOREM GaugeCorrect == Spec => []GaugeExact
<1>1. Inv => GaugeExact
  BY DEF Inv, GaugeInv, GaugeExact, Settled, Watching, Counted, TypeOK
<1> QED BY <1>1, Invariance, PTL

----------------------------------------------------------------------------
(* The optimistic check *)

\* Versions only grow, so a key notified since WATCH has outgrown the version
\* WATCH read; until EXEC has looked at it, it is still to be looked at.
WatchInv ==
    /\ \A c \in Conn : \A k \in Key : watched[c][k] <= versions[k]
    /\ \A c \in Conn : \A k \in touched[c] :
          watched[c][k] # Absent /\ watched[c][k] < versions[k]
    /\ \A c \in Conn : pc[c] = "check" => touched[c] \subseteq unchecked[c]
    /\ \A c \in Conn : pc[c] = "commit" => dirty[c] \/ touched[c] = {}

\* A write that finds the gauge at zero has nobody to tell.
LEMMA NobodyWatches ==
    ASSUME Inv, watchers = 0, NEW k \in Key
    PROVE  Mark(touched, k) = touched
<1>1. Counted = {}
  BY CountedFinite, FS_EmptySet DEF Inv, GaugeInv
<1>2. \A c \in Conn : watched[c][k] = Absent
  BY <1>1 DEF Inv, GaugeInv, Counted
<1> QED BY <1>2 DEF Mark, Inv, TypeOK

\* What WatchInv says survives a step that leaves its variables alone but
\* for the place of one connection, which does not enter the check.
LEMMA Elsewhere ==
    ASSUME Inv, WatchInv, NEW c \in Conn, NEW l, l \notin {"check", "commit"},
           pc' = [pc EXCEPT ![c] = l],
           UNCHANGED <<watched, versions, touched>>,
           \A d \in Conn \ {c} : unchecked'[d] = unchecked[d] /\ dirty'[d] = dirty[d]
    PROVE  WatchInv'
BY DEF Inv, TypeOK, WatchInv

\* Clearing the watched set of a connection that leaves the transaction.
LEMMA Cleared ==
    ASSUME Inv, WatchInv, NEW c \in Conn, NEW l, l \notin {"check", "commit"},
           pc' = [pc EXCEPT ![c] = l], ClearWatch(c), UNCHANGED <<versions, unchecked>>
    PROVE  WatchInv'
BY DEF Inv, TypeOK, WatchInv, ClearWatch, Absent

\* What a watched key's version shows survives every step: a bump makes it
\* differ, and nothing but a new WATCH makes it agree again.
LEMMA WatchInvStep ==
    ASSUME Inv, WatchInv, NEW c \in Conn, Step(c)
    PROVE  WatchInv'
<1> USE DEF engine, state, local, ghost, Goto
<1>1. ASSUME Begin(c) PROVE WatchInv'
  BY <1>1 DEF Begin, Inv, TypeOK, WatchInv
<1>2. ASSUME Discard(c) PROVE WatchInv'
  BY <1>2, Cleared DEF Discard
<1>3. ASSUME Unwatch(c) PROVE WatchInv'
  BY <1>3, Cleared DEF Unwatch
<1>4. ASSUME Disconnect(c) PROVE WatchInv'
  BY <1>4, Cleared DEF Disconnect
<1>5. ASSUME NEW cmd \in Cmd, Queue(c, cmd) PROVE WatchInv'
  BY <1>5 DEF Queue, Inv, TypeOK, WatchInv
<1>6. ASSUME NEW cmd \in Cmd, Write(c, cmd) PROVE WatchInv'
  <2>1. \E l \in {"load", "record"} : pc' = [pc EXCEPT ![c] = l]
    BY <1>6 DEF Write, Mutate
  <2> QED BY <1>6, <2>1, Elsewhere DEF Write, Mutate
<1>7. ASSUME NEW keys \in WatchArgs, Watch(c, keys) PROVE WatchInv'
  BY <1>7, Elsewhere DEF Watch
<1>8. ASSUME WatchKey(c) PROVE WatchInv'
  <2>1. CASE active[c]
    BY <1>8, <2>1, Elsewhere DEF WatchKey
  <2>2. CASE ~active[c]
    <3> DEFINE k == Head(args[c])
    <3>1. /\ pc' = [pc EXCEPT ![c] = IF Len(args[c]) = 1 THEN "idle" ELSE "watch"]
          /\ watched' = [watched EXCEPT ![c][k] = versions[k]]
          /\ touched' = [touched EXCEPT ![c] = @ \ {k}]
          /\ UNCHANGED <<versions, unchecked, dirty>>
      BY <1>8, <2>2 DEF WatchKey
    <3>2. k \in Key
      <4>1. args[c] \in Seq(Key) /\ args[c] # <<>>
        BY <1>8 DEF Inv, GaugeInv, TypeOK, WatchKey
      <4> QED BY <4>1, ArgsLeft
    <3>3. pc[c] = "watch" BY <1>8 DEF WatchKey
    <3> HIDE DEF k
    <3>4. \A d \in Conn : \A j \in Key : watched'[d][j] <= versions'[j]
      BY <3>1, <3>2 DEF Inv, TypeOK, WatchInv
    <3>5. \A d \in Conn : \A j \in touched'[d] : watched'[d][j] # Absent /\ watched'[d][j] < versions'[j]
      BY <3>1, <3>2 DEF Inv, TypeOK, WatchInv
    <3>6. /\ \A d \in Conn : pc'[d] = "check" => touched'[d] \subseteq unchecked'[d]
          /\ \A d \in Conn : pc'[d] = "commit" => dirty'[d] \/ touched'[d] = {}
      BY <3>1, <3>2, <3>3 DEF Inv, TypeOK, WatchInv
    <3> QED BY <3>4, <3>5, <3>6 DEF WatchInv
  <2> QED BY <2>1, <2>2
<1>9. ASSUME Sync(c) PROVE WatchInv'
  BY <1>9, Elsewhere DEF Sync
<1>10. ASSUME Load(c) PROVE WatchInv'
  <2>1. touched' = touched
    BY <1>10, NobodyWatches DEF Load, Inv, TypeOK
  <2>2. \E l \in {"exec", "record", "bump"} : pc' = [pc EXCEPT ![c] = l]
    BY <1>10 DEF Load, AfterNotify
  <2> QED BY <1>10, <2>1, <2>2, Elsewhere DEF Load
<1>11. ASSUME BumpKey(c) PROVE WatchInv'
  <2> DEFINE k == cur[c]
  <2>1. k \in Key BY DEF Inv, TypeOK
  <2>2. /\ versions' = [versions EXCEPT ![k] = @ + 1]
        /\ touched' = Mark(touched, k)
        /\ UNCHANGED <<watched, unchecked, dirty>>
    BY <1>11 DEF BumpKey
  <2>3. \E l \in {"exec", "record"} : pc' = [pc EXCEPT ![c] = l]
    BY <1>11 DEF BumpKey, AfterNotify
  <2>4. pc[c] = "bump" BY <1>11 DEF BumpKey
  <2> HIDE DEF k
  <2>5. \A j \in Key : versions[j] \in Nat /\ versions'[j] \in Nat /\ versions[j] <= versions'[j]
    BY <2>1, <2>2 DEF Inv, TypeOK
  <2>6. versions'[k] = versions[k] + 1
    BY <2>1, <2>2 DEF Inv, TypeOK
  <2>7. \A d \in Conn : \A j \in Key : watched[d][j] \in Int
    BY DEF Inv, TypeOK, Absent
  <2>8. \A d \in Conn : \A j \in Key : watched'[d][j] <= versions'[j]
    BY <2>2, <2>5, <2>7 DEF WatchInv
  <2>9. \A d \in Conn : \A j \in touched'[d] :
           /\ j \in Key
           /\ j \in touched[d] \/ (j = k /\ watched[d][k] # Absent)
    BY <2>1, <2>2 DEF Mark, Inv, TypeOK
  <2>10. \A d \in Conn : \A j \in touched'[d] : watched'[d][j] # Absent /\ watched'[d][j] < versions'[j]
    <3> TAKE d \in Conn
    <3> TAKE j \in touched'[d]
    <3>1. CASE j \in touched[d]
      <4>1. watched[d][j] # Absent /\ watched[d][j] < versions[j] BY <3>1 DEF WatchInv
      <4> QED BY <2>2, <2>5, <2>7, <2>9, <4>1
    <3>2. CASE j = k /\ watched[d][k] # Absent
      <4>1. watched[d][k] <= versions[k] BY <2>1 DEF WatchInv
      <4> QED BY <2>1, <2>2, <2>5, <2>6, <2>7, <3>2, <4>1
    <3> QED BY <2>9, <3>1, <3>2
  <2>11. \A d \in Conn : pc'[d] \in {"check", "commit"} => pc'[d] = pc[d] /\ touched'[d] = touched[d]
    BY <2>2, <2>3, <2>4 DEF Mark, Inv, TypeOK
  <2> QED BY <2>2, <2>8, <2>10, <2>11 DEF WatchInv
<1>12. ASSUME RecordWrite(c) PROVE WatchInv'
  BY <1>12, Elsewhere DEF RecordWrite
<1>13. ASSUME Exec(c) PROVE WatchInv'
  <2>1. touched[c] \subseteq Watched(c)
    BY DEF Inv, TypeOK, WatchInv, Watched
  <2>2. ~Watching(c) => Watched(c) = {}
    BY DEF Watching, Watched
  <2>3. /\ unchecked' = [unchecked EXCEPT ![c] = Watched(c)]
        /\ pc' = [pc EXCEPT ![c] = IF Watching(c) THEN "check" ELSE "commit"]
        /\ UNCHANGED <<watched, versions, touched, dirty>>
    BY <1>13 DEF Exec
  <2> QED BY <2>1, <2>2, <2>3 DEF Inv, TypeOK, WatchInv
<1>14. ASSUME CheckDirty(c) PROVE WatchInv'
  <2>1. PICK k \in unchecked[c] :
          IF versions[k] # watched[c][k]
          THEN /\ dirty' = [dirty EXCEPT ![c] = TRUE]
               /\ unchecked' = [unchecked EXCEPT ![c] = {}]
               /\ Goto(c, "commit")
          ELSE /\ unchecked' = [unchecked EXCEPT ![c] = @ \ {k}]
               /\ Goto(c, IF unchecked[c] = {k} THEN "commit" ELSE "check")
               /\ UNCHANGED dirty
    BY <1>14 DEF CheckDirty
  <2>2. pc[c] = "check" /\ UNCHANGED <<watched, versions, touched>>
    BY <1>14 DEF CheckDirty
  <2>3. CASE versions[k] # watched[c][k]
    BY <2>1, <2>2, <2>3 DEF Inv, TypeOK, WatchInv
  <2>4. CASE versions[k] = watched[c][k]
    <3>1. k \notin touched[c]
      <4>1. k \in Key /\ versions[k] \in Nat BY DEF Inv, TypeOK
      <4> QED BY <2>4, <4>1 DEF WatchInv
    <3>2. touched[c] \subseteq unchecked[c] \ {k}
      BY <2>2, <3>1 DEF WatchInv
    <3>3. /\ unchecked' = [unchecked EXCEPT ![c] = @ \ {k}]
          /\ pc' = [pc EXCEPT ![c] = IF unchecked[c] = {k} THEN "commit" ELSE "check"]
          /\ dirty' = dirty
      BY <2>1, <2>4
    <3>4. \A d \in Conn : pc'[d] = "check" => touched'[d] \subseteq unchecked'[d]
      BY <2>2, <3>2, <3>3 DEF Inv, TypeOK, WatchInv
    <3>5. \A d \in Conn : pc'[d] = "commit" => dirty'[d] \/ touched'[d] = {}
      BY <2>2, <3>2, <3>3 DEF Inv, TypeOK, WatchInv
    <3> QED BY <2>2, <3>4, <3>5 DEF WatchInv
  <2> QED BY <2>3, <2>4
<1>15. ASSUME Commit(c) PROVE WatchInv'
  <2>1. \E l \in {"sync", "exec"} : pc' = [pc EXCEPT ![c] = l]
    BY <1>15 DEF Commit
  <2> QED BY <1>15, <2>1, Cleared DEF Commit
<1>16. ASSUME ExecNext(c) PROVE WatchInv'
  <2>1. CASE todo[c] = <<>>
    BY <1>16, <2>1, Elsewhere DEF ExecNext
  <2>2. CASE todo[c] # <<>>
    <3>1. \E l \in {"load", "exec"} : pc' = [pc EXCEPT ![c] = l]
      BY <1>16, <2>2 DEF ExecNext, Mutate
    <3> QED BY <1>16, <2>2, <3>1, Elsewhere DEF ExecNext, Mutate
  <2> QED BY <2>1, <2>2
<1> QED
  BY <1>1, <1>2, <1>3, <1>4, <1>5, <1>6, <1>7, <1>8, <1>9, <1>10, <1>11, <1>12, <1>13, <1>14, <1>15, <1>16
     DEF Step

\* ... so it holds throughout, whichever write commands notify.
LEMMA WatchInvariance == Spec => []WatchInv
<1>1. Init => WatchInv
  BY DEF Init, WatchInv, Absent
<1>2. Inv /\ WatchInv /\ [Next]_vars => WatchInv'
  <2> SUFFICES ASSUME Inv, WatchInv, [Next]_vars PROVE WatchInv' OBVIOUS
  <2>1. CASE UNCHANGED vars
    BY <2>1 DEF WatchInv, vars, engine, state, local, ghost
  <2>2. CASE Next
    BY <2>2, WatchInvStep DEF Next
  <2> QED BY <2>1, <2>2
<1> QED BY <1>1, <1>2, Invariance, PTL DEF Spec

\* A step of a connection moves that connection only.
LEMMA OnePlace ==
    ASSUME TypeOK, NEW c \in Conn, Step(c), NEW d \in Conn, d # c
    PROVE  pc'[d] = pc[d]
<1> USE DEF TypeOK, Goto
<1>1. CASE Begin(c) \/ \E cmd \in Cmd : Queue(c, cmd)
  BY <1>1 DEF Begin, Queue
<1>2. CASE Discard(c) \/ Unwatch(c) \/ Disconnect(c) \/ Sync(c) \/ RecordWrite(c) \/ Exec(c) \/ Commit(c)
  BY <1>2 DEF Discard, Unwatch, Disconnect, Sync, RecordWrite, Exec, Commit
<1>3. CASE (\E keys \in WatchArgs : Watch(c, keys)) \/ WatchKey(c) \/ Load(c) \/ BumpKey(c)
  BY <1>3 DEF Watch, WatchKey, Load, BumpKey
<1>4. CASE (\E cmd \in Cmd : Write(c, cmd)) \/ ExecNext(c)
  BY <1>4 DEF Write, ExecNext, Mutate
<1>5. CASE CheckDirty(c)
  BY <1>5 DEF CheckDirty
<1> QED BY <1>1, <1>2, <1>3, <1>4, <1>5 DEF Step

\* A notification that finished since WATCH shows in the version table,
\* whatever the interleaving of the writers' loads of the gauge with WATCH
\* (BumpKey, AddWatcher), and whatever commands run that notify nobody.
THEOREM NotificationsShowCorrect == Spec => []NotificationsShow
<1>1. Inv /\ WatchInv => NotificationsShow
  <2> SUFFICES ASSUME Inv, WatchInv, NEW c \in Conn, NEW k \in touched[c]
               PROVE  versions[k] # watched[c][k]
    BY DEF NotificationsShow
  <2>1. k \in Key /\ versions[k] \in Nat /\ watched[c][k] < versions[k]
    BY DEF Inv, TypeOK, WatchInv
  <2> QED BY <2>1
<1> QED BY <1>1, Invariance, WatchInvariance, PTL

\* ... and EXEC never runs its queue past such a notification.
THEOREM ExecAbortsCorrect == Spec => ExecAborts
<1>1. Inv /\ WatchInv /\ [Next]_vars => [\A c \in Conn : Runs(c) => touched[c] = {}]_vars
  <2> SUFFICES ASSUME Inv, WatchInv, Next, NEW c \in Conn, Runs(c)
               PROVE  touched[c] = {}
    OBVIOUS
  <2>1. PICK d \in Conn : Step(d) BY DEF Next
  <2>2. pc[c] = "commit" /\ pc'[c] = "exec" BY DEF Runs
  <2>3. dirty[c] \/ touched[c] = {} BY <2>2 DEF WatchInv
  <2>4. dirty[c] => pc'[c] # "exec"
    <3>1. c = d
      BY <2>1, <2>2, OnePlace DEF Inv
    <3>2. Commit(c)
      BY <2>1, <2>2, <3>1 DEF Step, Begin, Discard, Unwatch, Disconnect, Queue, Write, Watch,
           WatchKey, Sync, Load, BumpKey, RecordWrite, Exec, CheckDirty, ExecNext
    <3> QED BY <3>2 DEF Commit, Goto, Inv, TypeOK
  <2> QED BY <2>2, <2>3, <2>4
<1> QED BY <1>1, Invariance, WatchInvariance, PTL DEF Spec, ExecAborts

----------------------------------------------------------------------------
(* Mutations whose notification is still on its way *)

\* A watched key mutated since WATCH has outgrown the version WATCH read, or
\* will once the writer that is on its way arrives.
MissInv ==
    \A c \in Conn : \A k \in changed[c] :
        watched[c][k] # Absent /\ (watched[c][k] < versions[k] \/ InFlight(k))

\* A step of a connection that is not notifying, and leaves alone what the
\* invariant speaks of.
LEMMA Bystander ==
    ASSUME Inv, MissInv, NEW c \in Conn, pc[c] \notin {"load", "bump"}, NEW l,
           pc' = [pc EXCEPT ![c] = l], UNCHANGED <<watched, versions, changed, cur>>
    PROVE  MissInv'
<1>1. \A k \in Key : InFlight(k) => InFlight(k)'
  BY DEF Inv, TypeOK, InFlight
<1> QED BY <1>1 DEF Inv, TypeOK, MissInv

\* ... or that forgets its watched keys.
LEMMA Forgets ==
    ASSUME Inv, MissInv, NEW c \in Conn, pc[c] \notin {"load", "bump"}, NEW l,
           pc' = [pc EXCEPT ![c] = l], ClearWatch(c), UNCHANGED <<versions, cur>>
    PROVE  MissInv'
<1>1. \A k \in Key : InFlight(k) => InFlight(k)'
  BY DEF Inv, TypeOK, InFlight
<1> QED BY <1>1 DEF Inv, TypeOK, MissInv, ClearWatch

\* A mutation by a command that fires is in flight from its first moment; one
\* by a command that does not adds nothing, and takes no writer off its way.
LEMMA MutateMiss ==
    ASSUME Inv, MissInv, NEW c \in Conn, pc[c] \notin {"load", "bump"},
           NEW cmd \in Cmd, NEW r \in BOOLEAN, Mutate(c, cmd, r),
           UNCHANGED <<versions, watched>>
    PROVE  MissInv'
<1>1. cmd.key \in Key BY CmdAssumption
<1>2. /\ \E l \in {"load", "exec", "record"} : pc' = [pc EXCEPT ![c] = l]
      /\ cur' = [cur EXCEPT ![c] = cmd.key]
  BY DEF Mutate, Goto
<1>3. \A k \in Key : InFlight(k) => InFlight(k)'
  BY <1>2 DEF Inv, TypeOK, InFlight
<1>4. CASE cmd.fires
  <2>1. pc' = [pc EXCEPT ![c] = "load"] /\ changed' = Mark(changed, cmd.key)
    BY <1>4 DEF Mutate, Goto
  <2>2. InFlight(cmd.key)'
    BY <1>1, <1>2, <2>1 DEF Inv, TypeOK, InFlight
  <2>3. \A d \in Conn : \A k \in changed'[d] :
           k \in Key /\ (k \in changed[d] \/ (k = cmd.key /\ watched[d][k] # Absent))
    BY <1>1, <2>1 DEF Mark, Inv, TypeOK
  <2> QED BY <1>3, <2>2, <2>3 DEF MissInv
<1>5. CASE ~cmd.fires
  <2>1. changed' = changed
    BY <1>5 DEF Mutate
  <2> QED BY <1>3, <2>1 DEF Inv, TypeOK, MissInv
<1> QED BY <1>4, <1>5

\* What the versions do not show is in flight, after every step.
LEMMA MissStep ==
    ASSUME Inv, WatchInv, MissInv, NEW c \in Conn, Step(c)
    PROVE  MissInv'
<1> USE DEF engine, state, local, ghost, Goto
<1>1. ASSUME Begin(c) \/ \E cmd \in Cmd : Queue(c, cmd) PROVE MissInv'
  BY <1>1 DEF Begin, Queue, MissInv, InFlight
<1>2. ASSUME Discard(c) \/ Unwatch(c) PROVE MissInv'
  BY <1>2, Forgets DEF Discard, Unwatch
<1>3. ASSUME Disconnect(c) PROVE MissInv'
  BY <1>3, Forgets DEF Disconnect
<1>4. ASSUME Commit(c) PROVE MissInv'
  BY <1>4, Forgets DEF Commit
<1>5. ASSUME NEW cmd \in Cmd, Write(c, cmd) PROVE MissInv'
  BY <1>5, MutateMiss DEF Write
<1>6. ASSUME NEW keys \in WatchArgs, Watch(c, keys) PROVE MissInv'
  BY <1>6, Bystander DEF Watch
<1>7. ASSUME WatchKey(c) PROVE MissInv'
  <2>1. CASE active[c]
    BY <1>7, <2>1, Bystander DEF WatchKey
  <2>2. CASE ~active[c]
    <3> DEFINE k == Head(args[c])
    <3>1. /\ pc[c] = "watch" /\ \E l \in {"idle", "watch"} : pc' = [pc EXCEPT ![c] = l]
          /\ watched' = [watched EXCEPT ![c][k] = versions[k]]
          /\ changed' = [changed EXCEPT ![c] = @ \ {k}]
          /\ UNCHANGED <<versions, cur>>
      BY <1>7, <2>2 DEF WatchKey
    <3>2. \A j \in Key : InFlight(j) => InFlight(j)'
      BY <3>1 DEF Inv, TypeOK, InFlight
    <3> HIDE DEF k
    <3>3. \A d \in Conn : \A j \in changed'[d] :
             j \in Key /\ j \in changed[d] /\ watched'[d][j] = watched[d][j]
      BY <3>1 DEF Inv, TypeOK
    <3> QED BY <3>1, <3>2, <3>3 DEF MissInv
  <2> QED BY <2>1, <2>2
<1>8. ASSUME Sync(c) \/ RecordWrite(c) PROVE MissInv'
  BY <1>8, Bystander DEF Sync, RecordWrite
<1>9. ASSUME Load(c) PROVE MissInv'
  <2>1. CASE watchers = 0
    <3>1. Counted = {}
      BY <2>1, CountedFinite, FS_EmptySet DEF Inv, GaugeInv
    <3>2. \A d \in Conn : \A k \in Key : watched[d][k] = Absent
      BY <3>1 DEF Inv, GaugeInv, Counted
    <3>3. \A d \in Conn : changed[d] = {}
      BY <3>2 DEF MissInv, Inv, TypeOK
    <3> QED BY <1>9, <3>3 DEF Load, MissInv
  <2>2. CASE watchers # 0
    <3>1. pc' = [pc EXCEPT ![c] = "bump"] /\ UNCHANGED <<watched, versions, changed, cur>>
      BY <1>9, <2>2 DEF Load
    <3>2. \A k \in Key : InFlight(k) => InFlight(k)'
      BY <3>1 DEF Inv, TypeOK, InFlight
    <3> QED BY <3>1, <3>2 DEF Inv, TypeOK, MissInv
  <2> QED BY <2>1, <2>2
<1>10. ASSUME BumpKey(c) PROVE MissInv'
  <2> DEFINE k == cur[c]
  <2>1. k \in Key BY DEF Inv, TypeOK
  <2>2. /\ versions' = [versions EXCEPT ![k] = @ + 1]
        /\ \E l \in {"exec", "record"} : pc' = [pc EXCEPT ![c] = l]
        /\ UNCHANGED <<watched, changed, cur>>
    BY <1>10 DEF BumpKey, AfterNotify
  <2>3. \A j \in Key : j # k /\ InFlight(j) => InFlight(j)'
    BY <2>2 DEF Inv, TypeOK, InFlight
  <2> HIDE DEF k
  <2>4. /\ \A j \in Key : j # k => versions'[j] = versions[j]
        /\ versions[k] \in Nat /\ versions'[k] = versions[k] + 1
    BY <2>1, <2>2 DEF Inv, TypeOK
  <2>5. \A d \in Conn : watched[d][k] \in Int /\ watched[d][k] <= versions[k]
    BY <2>1 DEF Inv, TypeOK, WatchInv, Absent
  <2>6. \A d \in Conn : watched[d][k] < versions'[k]
    BY <2>4, <2>5
  <2> QED BY <2>2, <2>3, <2>4, <2>6 DEF MissInv, Inv, TypeOK
<1>11. ASSUME Exec(c) PROVE MissInv'
  BY <1>11, Bystander DEF Exec
<1>12. ASSUME CheckDirty(c) PROVE MissInv'
  <2>1. /\ pc[c] = "check" /\ \E l \in {"check", "commit"} : pc' = [pc EXCEPT ![c] = l]
        /\ UNCHANGED <<watched, versions, changed, cur>>
    BY <1>12 DEF CheckDirty
  <2> QED BY <2>1, Bystander
<1>13. ASSUME ExecNext(c) PROVE MissInv'
  <2>1. CASE todo[c] = <<>>
    BY <1>13, <2>1, Bystander DEF ExecNext
  <2>2. CASE todo[c] # <<>>
    <3>1. Head(todo[c]) \in Cmd
      BY <2>2 DEF Inv, TypeOK
    <3> QED BY <1>13, <2>2, <3>1, MutateMiss DEF ExecNext
  <2> QED BY <2>1, <2>2
<1> QED
  BY <1>1, <1>2, <1>3, <1>4, <1>5, <1>6, <1>7, <1>8, <1>9, <1>10, <1>11, <1>12, <1>13
     DEF Step

\* EXEC can miss a mutation of a watched key by a command that notifies only
\* while its writer is between the shard and the version table, never one that
\* has been answered; commands that notify nobody may run at any point.
THEOREM MissesAreInFlightCorrect == Spec => []MissesAreInFlight
<1>1. Init => MissInv
  BY DEF Init, MissInv
<1>2. Inv /\ WatchInv /\ MissInv /\ [Next]_vars => MissInv'
  <2> SUFFICES ASSUME Inv, WatchInv, MissInv, [Next]_vars PROVE MissInv' OBVIOUS
  <2>1. CASE UNCHANGED vars
    BY <2>1 DEF MissInv, InFlight, vars, engine, state, local, ghost
  <2>2. CASE Next
    BY <2>2, MissStep DEF Next
  <2> QED BY <2>1, <2>2
<1>3. Inv /\ MissInv => MissesAreInFlight
  <2> SUFFICES ASSUME Inv, MissInv, NEW c \in Conn, NEW k \in changed[c], ~InFlight(k)
               PROVE  versions[k] # watched[c][k]
    BY DEF MissesAreInFlight
  <2>1. k \in Key /\ versions[k] \in Nat /\ watched[c][k] < versions[k]
    BY DEF Inv, TypeOK, MissInv
  <2> QED BY <2>1
<1> QED BY <1>1, <1>2, <1>3, Invariance, WatchInvariance, PTL DEF Spec

----------------------------------------------------------------------------
(* Least and greatest shards *)

\* Among sets of shards one contains no other strictly.
LEMMA SmallestSet ==
    ASSUME NEW S, S # {}, NEW f \in [S -> SUBSET Shard]
    PROVE  \E x \in S : \A y \in S : f[y] \subseteq f[x] => f[y] = f[x]
<1> DEFINE T == {f[x] : x \in S}
<1>1. \A X \in SUBSET Shard : IsFiniteSet(X)
  BY FS_Subset, ShardAssumption
<1>2. T \subseteq FiniteSubsetsOf(Shard)
  BY <1>1 DEF FiniteSubsetsOf
<1>3. T # {}
  OBVIOUS
<1>4. IsWellFoundedOn(StrictSubsetOrdering(Shard), FiniteSubsetsOf(Shard))
  BY FS_StrictSubsetOrderingWellFounded
<1> HIDE DEF T
<1>5. PICK X \in T : \A Y \in T : <<Y, X>> \notin StrictSubsetOrdering(Shard)
  BY <1>2, <1>3, <1>4, WFMin
<1> USE DEF T
<1>6. PICK x \in S : X = f[x]
  OBVIOUS
<1>7. ASSUME NEW y \in S, f[y] \subseteq f[x], f[y] # f[x] PROVE FALSE
  <2>1. <<f[y], f[x]>> \notin StrictSubsetOrdering(Shard)
    BY <1>5, <1>6
  <2>2. f[x] \subseteq Shard /\ f[y] \subseteq Shard
    OBVIOUS
  <2> QED BY <1>7, <2>1, <2>2 DEF StrictSubsetOrdering
<1> QED BY <1>7

\* A set of shards has a lowest index.
LEMMA LowestShard ==
    ASSUME NEW S \in SUBSET Shard, S # {}
    PROVE  /\ \E s \in S : \A t \in S : s <= t
           /\ Lowest(S) \in S /\ \A t \in S : Lowest(S) <= t
<1> DEFINE f == [x \in S |-> {s \in S : s < x}]
<1>1. f \in [S -> SUBSET Shard]
  OBVIOUS
<1>2. PICK x \in S : \A y \in S : f[y] \subseteq f[x] => f[y] = f[x]
  <2> HIDE DEF f
  <2> QED BY <1>1, SmallestSet
<1>3. ASSUME NEW y \in S, y < x PROVE FALSE
  <2>1. f[y] \subseteq f[x]
    <3>1. ASSUME NEW s \in S, s < y PROVE s < x
      <4>1. s \in Nat /\ x \in Nat /\ y \in Nat
        BY ShardAssumption
      <4> QED BY <1>3, <3>1, <4>1
    <3> QED BY <3>1
  <2>2. y \in f[x] /\ y \notin f[y]
    BY <1>3, ShardAssumption
  <2> QED BY <1>2, <2>1, <2>2
<1>4. \A t \in S : x <= t
  BY <1>3, ShardAssumption
<1> QED BY <1>4 DEF Lowest

\* Among numbered things one has the highest shard.
LEMMA HighestShard ==
    ASSUME NEW S, S # {}, NEW m \in [S -> Shard]
    PROVE  \E x \in S : \A y \in S : m[y] <= m[x]
<1> DEFINE f == [x \in S |-> {s \in Shard : s > m[x]}]
<1>1. f \in [S -> SUBSET Shard]
  OBVIOUS
<1>2. PICK x \in S : \A y \in S : f[y] \subseteq f[x] => f[y] = f[x]
  <2> HIDE DEF f
  <2> QED BY <1>1, SmallestSet
<1>3. ASSUME NEW y \in S, m[y] > m[x] PROVE FALSE
  <2>0. m[x] \in Nat /\ m[y] \in Nat /\ m[y] \in Shard
    BY ShardAssumption
  <2>1. f[y] \subseteq f[x]
    <3>1. ASSUME NEW s \in Shard, s > m[y] PROVE s > m[x]
      <4>1. s \in Nat
        BY ShardAssumption
      <4> QED BY <1>3, <2>0, <3>1, <4>1
    <3> QED BY <3>1
  <2>2. m[y] \in f[x] /\ m[y] \notin f[y]
    BY <1>3, <2>0
  <2> QED BY <1>2, <2>1, <2>2
<1>4. \A y \in S : m[x] \in Nat /\ m[y] \in Nat
  BY ShardAssumption
<1> QED BY <1>3, <1>4

----------------------------------------------------------------------------
(* Bytes of a map *)

\* Stored and BytesOf for any map of the keyspace.
BytesIn(d, K) == UNION {{k} \X (1 .. d[k].bytes) : k \in K \cap DOMAIN d}
Bytes(d, K)   == Cardinality(BytesIn(d, K))

Sized(d) == DOMAIN d \subseteq StoreKey /\ \A k \in DOMAIN d : d[k].bytes \in Nat

\* BytesOf counts the bytes of the map.
LEMMA BytesOfData == BytesOf(StoreKey) = Bytes(data, StoreKey) /\ \A K : BytesOf(K) = Bytes(data, K)
BY DEF BytesOf, Stored, Bytes, BytesIn

\* The bytes of a map are finitely many.
LEMMA BytesFinite ==
    ASSUME NEW d, Sized(d), NEW K
    PROVE  IsFiniteSet(BytesIn(d, K)) /\ Bytes(d, K) \in Nat
<1> DEFINE P(k) == {k} \X (1 .. d[k].bytes)
           L == K \cap DOMAIN d
           X == {P(k) : k \in L}
<1>1. IsFiniteSet(L)
  BY FS_Subset, KeyAssumption DEF Sized
<1>2. IsFiniteSet(X)
  <2> DEFINE g == [k \in L |-> P(k)]
  <2>1. g \in Surjection(L, X)
    BY DEF Surjection
  <2> QED BY <1>1, <2>1, FS_Surjection
<1>3. \A k \in L : IsFiniteSet(P(k))
  <2> TAKE k \in L
  <2>1. d[k].bytes \in Nat /\ 1 \in Int /\ d[k].bytes \in Int
    BY DEF Sized
  <2>2. IsFiniteSet(1 .. d[k].bytes)
    BY <2>1, FS_Interval
  <2>3. IsFiniteSet({k})
    BY FS_Singleton
  <2> QED BY <2>2, <2>3, FS_Product
<1>4. \A x \in X : IsFiniteSet(x)
  BY <1>3
<1>5. IsFiniteSet(UNION X)
  BY <1>2, <1>4, FS_UNION
<1>6. BytesIn(d, K) = UNION X
  BY DEF BytesIn
<1>7. IsFiniteSet(BytesIn(d, K))
  BY <1>5, <1>6
<1> QED BY <1>7, FS_CardinalityType DEF Bytes

\* Disjoint sets of keys add up.
LEMMA BytesSplit ==
    ASSUME NEW d, Sized(d), NEW K, NEW L, K \cap L = {}
    PROVE  Bytes(d, K \cup L) = Bytes(d, K) + Bytes(d, L)
<1>1. IsFiniteSet(BytesIn(d, K)) /\ IsFiniteSet(BytesIn(d, L))
  BY BytesFinite
<1>2. BytesIn(d, K \cup L) = BytesIn(d, K) \cup BytesIn(d, L)
  BY DEF BytesIn
<1>3. BytesIn(d, K) \cap BytesIn(d, L) = {}
  <2> SUFFICES ASSUME NEW p, p \in BytesIn(d, K), p \in BytesIn(d, L) PROVE FALSE
    BY Zenon
  <2>1. PICK k \in K : p \in {k} \X (1 .. d[k].bytes)
    BY DEF BytesIn
  <2>2. PICK l \in L : p \in {l} \X (1 .. d[l].bytes)
    BY DEF BytesIn
  <2>3. k = p[1] /\ l = p[1]
    BY <2>1, <2>2
  <2> QED BY <2>3
<1>4. Cardinality({}) = 0
  BY FS_EmptySet
<1>5. Cardinality(BytesIn(d, K) \cup BytesIn(d, L))
        = Cardinality(BytesIn(d, K)) + Cardinality(BytesIn(d, L)) - Cardinality({})
  BY <1>1, <1>3, FS_Union
<1>6. Cardinality(BytesIn(d, K)) \in Nat /\ Cardinality(BytesIn(d, L)) \in Nat
  BY <1>1, FS_CardinalityType
<1>7. Cardinality(BytesIn(d, K) \cup BytesIn(d, L))
        = Cardinality(BytesIn(d, K)) + Cardinality(BytesIn(d, L))
  <2> DEFINE A == BytesIn(d, K)
             B == BytesIn(d, L)
             ca == Cardinality(A)
             cb == Cardinality(B)
             cu == Cardinality(A \cup B)
             c0 == Cardinality({})
  <2>1. ca \in Nat /\ cb \in Nat /\ c0 = 0 /\ cu = ca + cb - c0
    BY <1>4, <1>5, <1>6
  <2> HIDE DEF ca, cb, cu, c0
  <2>2. cu = ca + cb
    BY <2>1
  <2> QED BY <2>2 DEF ca, cb, cu
<1> QED BY <1>2, <1>7, Zenon DEF Bytes

\* Maps that agree on the sizes of some keys.
LEMMA BytesSame ==
    ASSUME NEW d, NEW e, NEW K, K \cap DOMAIN d = K \cap DOMAIN e,
           \A k \in K \cap DOMAIN d : d[k].bytes = e[k].bytes
    PROVE  Bytes(d, K) = Bytes(e, K)
<1>1. BytesIn(d, K) = BytesIn(e, K)
  BY DEF BytesIn
<1> QED BY <1>1 DEF Bytes

\* Keys of one size.
LEMMA BytesEqual ==
    ASSUME NEW d, NEW K, IsFiniteSet(K), K \subseteq DOMAIN d, NEW n \in Nat,
           \A k \in K : d[k].bytes = n
    PROVE  Bytes(d, K) = n * Cardinality(K) /\ Cardinality(K) \in Nat
<1>1. BytesIn(d, K) = K \X (1 .. n)
  BY DEF BytesIn
<1>2. IsFiniteSet(1 .. n) /\ Cardinality(1 .. n) = n
  BY FS_Interval
<1>3. Cardinality(K \X (1 .. n)) = Cardinality(K) * Cardinality(1 .. n)
  BY <1>2, FS_Product
<1>4. Cardinality(K) \in Nat
  BY FS_CardinalityType
<1> QED BY <1>1, <1>2, <1>3, <1>4 DEF Bytes

\* The bytes of one key are the size of its entry.
LEMMA BytesOne ==
    ASSUME NEW d, NEW k \in DOMAIN d, d[k].bytes \in Nat
    PROVE  Bytes(d, {k}) = d[k].bytes
<1>1. IsFiniteSet({k}) /\ Cardinality({k}) = 1
  BY FS_Singleton
<1>2. Bytes(d, {k}) = d[k].bytes * 1
  BY <1>1, BytesEqual
<1> QED BY <1>2

\* Absent keys have no bytes.
LEMMA BytesNone ==
    ASSUME NEW d, NEW K, K \cap DOMAIN d = {}
    PROVE  Bytes(d, K) = 0
<1>1. BytesIn(d, K) = {}
  BY DEF BytesIn
<1> QED BY <1>1, FS_EmptySet DEF Bytes

\* One key gets another entry.
LEMMA BytesPutOne ==
    ASSUME NEW d, Sized(d), NEW e, Sized(e), NEW k \in StoreKey,
           DOMAIN e = DOMAIN d \cup {k}, \A j \in DOMAIN d : j # k => e[j].bytes = d[j].bytes
    PROVE  /\ Bytes(e, StoreKey) = Bytes(d, StoreKey) - Bytes(d, {k}) + e[k].bytes
           /\ Bytes(d, {k}) = IF k \in DOMAIN d THEN d[k].bytes ELSE 0
           /\ Bytes(d, {k}) \in Nat /\ Bytes(d, StoreKey) \in Nat
<1> DEFINE R == StoreKey \ {k}
<1>1. R \cap {k} = {} /\ R \cup {k} = StoreKey
  OBVIOUS
<1>2. /\ Bytes(d, R \cup {k}) = Bytes(d, R) + Bytes(d, {k})
      /\ Bytes(e, R \cup {k}) = Bytes(e, R) + Bytes(e, {k})
  BY <1>1, BytesSplit
<1>3. Bytes(d, R) = Bytes(e, R)
  <2>1. R \cap DOMAIN d = R \cap DOMAIN e
    OBVIOUS
  <2>2. \A j \in R \cap DOMAIN d : d[j].bytes = e[j].bytes
    OBVIOUS
  <2> HIDE DEF R
  <2> QED BY <2>1, <2>2, BytesSame
<1>4. Bytes(e, {k}) = e[k].bytes /\ e[k].bytes \in Nat
  BY BytesOne DEF Sized
<1>5. Bytes(d, {k}) = IF k \in DOMAIN d THEN d[k].bytes ELSE 0
  <2>1. CASE k \in DOMAIN d
    BY <2>1, BytesOne DEF Sized
  <2>2. CASE k \notin DOMAIN d
    BY <2>2, BytesNone
  <2> QED BY <2>1, <2>2
<1>6. Bytes(d, R) \in Nat /\ Bytes(d, {k}) \in Nat /\ Bytes(d, StoreKey) \in Nat
  BY BytesFinite
<1> HIDE DEF R
<1>7. Bytes(d, StoreKey) = Bytes(d, R) + Bytes(d, {k}) /\ Bytes(e, StoreKey) = Bytes(d, R) + e[k].bytes
  BY <1>1, <1>2, <1>3, <1>4
<1> QED BY <1>4, <1>5, <1>6, <1>7

\* Keys are put.
LEMMA BytesPut ==
    ASSUME NEW d, Sized(d), NEW e, Sized(e), NEW K \in SUBSET StoreKey,
           DOMAIN e = DOMAIN d \cup K, \A j \in DOMAIN d : j \notin K => e[j].bytes = d[j].bytes
    PROVE  Bytes(e, StoreKey) = Bytes(d, StoreKey) - Bytes(d, K) + Bytes(e, K)
<1> DEFINE R == StoreKey \ K
<1>1. R \cap K = {} /\ R \cup K = StoreKey
  OBVIOUS
<1>2. /\ Bytes(d, R \cup K) = Bytes(d, R) + Bytes(d, K)
      /\ Bytes(e, R \cup K) = Bytes(e, R) + Bytes(e, K)
  BY <1>1, BytesSplit
<1>3. Bytes(d, R) = Bytes(e, R)
  <2>1. R \cap DOMAIN d = R \cap DOMAIN e
    OBVIOUS
  <2>2. \A j \in R \cap DOMAIN d : d[j].bytes = e[j].bytes
    OBVIOUS
  <2> HIDE DEF R
  <2> QED BY <2>1, <2>2, BytesSame
<1>4. Bytes(d, R) \in Nat /\ Bytes(d, K) \in Nat /\ Bytes(e, K) \in Nat
  BY BytesFinite
<1> HIDE DEF R
<1>5. Bytes(d, StoreKey) = Bytes(d, R) + Bytes(d, K) /\ Bytes(e, StoreKey) = Bytes(d, R) + Bytes(e, K)
  BY <1>1, <1>2, <1>3
<1> QED BY <1>4, <1>5

\* Keys of two bytes are put.
LEMMA BytesPutTwo ==
    ASSUME NEW d, Sized(d), NEW e, Sized(e), NEW K \in SUBSET StoreKey,
           DOMAIN e = DOMAIN d \cup K, \A j \in DOMAIN d : j \notin K => e[j].bytes = d[j].bytes,
           \A k \in K : e[k].bytes = 2
    PROVE  Bytes(e, StoreKey) = Bytes(d, StoreKey) - Bytes(d, K) + 2 * Cardinality(K)
<1>1. Bytes(e, StoreKey) = Bytes(d, StoreKey) - Bytes(d, K) + Bytes(e, K)
  BY BytesPut
<1>2. IsFiniteSet(K) /\ K \subseteq DOMAIN e
  BY FS_Subset, KeyAssumption
<1>3. PICK n \in Nat : n = 2
  OBVIOUS
<1>4. \A k \in K : e[k].bytes = n
  BY <1>3
<1>5. Bytes(e, K) = n * Cardinality(K)
  BY <1>2, <1>4, BytesEqual
<1> QED BY <1>1, <1>3, <1>5

\* Keys go.
LEMMA BytesGone ==
    ASSUME NEW d, Sized(d), NEW e, Sized(e), NEW K \in SUBSET StoreKey,
           DOMAIN e = DOMAIN d \ K, \A j \in DOMAIN e : e[j].bytes = d[j].bytes
    PROVE  Bytes(e, StoreKey) = Bytes(d, StoreKey) - Bytes(d, K)
<1> DEFINE R == StoreKey \ K
<1>1. R \cap K = {} /\ R \cup K = StoreKey
  OBVIOUS
<1>2. /\ Bytes(d, R \cup K) = Bytes(d, R) + Bytes(d, K)
      /\ Bytes(e, R \cup K) = Bytes(e, R) + Bytes(e, K)
  BY <1>1, BytesSplit
<1>3. Bytes(d, R) = Bytes(e, R)
  <2>1. R \cap DOMAIN d = R \cap DOMAIN e
    BY DEF Sized
  <2>2. \A j \in R \cap DOMAIN d : d[j].bytes = e[j].bytes
    OBVIOUS
  <2> HIDE DEF R
  <2> QED BY <2>1, <2>2, BytesSame
<1>4. Bytes(e, K) = 0
  <2>1. K \cap DOMAIN e = {}
    OBVIOUS
  <2> QED BY <2>1, BytesNone
<1>5. Bytes(d, R) \in Nat /\ Bytes(d, K) \in Nat
  BY BytesFinite
<1> HIDE DEF R
<1>6. Bytes(d, StoreKey) = Bytes(d, R) + Bytes(d, K) /\ Bytes(e, StoreKey) = Bytes(d, R) + Bytes(e, K)
  BY <1>1, <1>2, <1>3
<1>7. Bytes(e, StoreKey) = Bytes(d, R)
  BY <1>4, <1>5, <1>6
<1> QED BY <1>5, <1>6, <1>7

----------------------------------------------------------------------------
(* The inductive invariant *)

\* The map and its counters; the clients' jobs and locks; the clocks and loops.
ValueTypes == /\ DOMAIN data \subseteq StoreKey /\ \A k \in DOMAIN data : data[k] \in Entry
              /\ bytes \in Int /\ ref \in [StoreKey -> Nat]
              /\ lagging \subseteq StoreKey /\ tainted \subseteq StoreKey
              /\ mishap \subseteq {"ghost", "self"}
ValueInv   == ValueTypes /\ CounterExact /\ BytesExact

JobTypes == /\ job \in [Client -> Job]
            /\ need \in [Client -> SUBSET Shard] /\ held \in [Client -> SUBSET Shard]

\* Locks are held by commands that lock several shards, and every lock held is
\* below every lock still to take.
LockOrder == \A c \in Client : /\ held[c] # {} => Locking(c)
                               /\ \A s \in held[c], t \in need[c] : s < t
JobInv    == JobTypes /\ LockOrder

\* The sweep looks at the clock once, before the scan.
LoopInv == /\ now \in Nat /\ cached \in Nat /\ cached <= now
           /\ sweep \in SweepState /\ evict \in EvictState /\ budget \in Nat
           /\ sweep.pc # "wait" => sweep.at <= now

StoreInv == ValueInv /\ JobInv /\ LoopInv

\* The inductive invariant, by its parts.
LEMMA StoreInvTypes == StoreInv <=> StoreTypeOK /\ CounterExact /\ BytesExact /\ LockOrder
                                      /\ (sweep.pc # "wait" => sweep.at <= now)
BY DEF StoreInv, ValueInv, ValueTypes, JobInv, JobTypes, LoopInv, StoreTypeOK

----------------------------------------------------------------------------
(* Values and bytes *)

\* The types of the fields of an entry.
LEMMA EntryFields ==
    \A e : e \in Entry => /\ e.str \in Nat /\ e.int \in Nat /\ e.isInt \in BOOLEAN
                          /\ e.exp \in Nat /\ e.bytes \in Nat
BY DEF Entry

\* A record of typed fields is an entry.
LEMMA EntryMade ==
    \A s, i, x, b \in Nat : \A p \in BOOLEAN :
      [str |-> s, int |-> i, isInt |-> p, exp |-> x, bytes |-> b] \in Entry
BY DEF Entry

\* The map holds entries with a size.
LEMMA DataSized == ValueTypes => Sized(data)
BY EntryFields DEF ValueTypes, Sized

\* A step that leaves the map, its counter and its history alone.
LEMMA ValueKept ==
    ASSUME ValueInv, UNCHANGED <<data, bytes, ref, lagging, tainted, mishap>>
    PROVE  ValueInv'
<1>1. ValueTypes'
  BY DEF ValueInv, ValueTypes
<1>2. CounterExact'
  BY DEF ValueInv, CounterExact, Shown
<1>3. BytesExact'
  BY DEF ValueInv, BytesExact, BytesOf, Stored
<1> QED BY <1>1, <1>2, <1>3 DEF ValueInv

\* One key is written.
LEMMA ValueOne ==
    ASSUME ValueInv, NEW k \in StoreKey,
           DOMAIN data' = DOMAIN data \cup {k},
           \A j \in DOMAIN data : j # k => data'[j] = data[j],
           data'[k] \in Entry,
           ref' \in [StoreKey -> Nat], \A j \in StoreKey : j # k => ref'[j] = ref[j],
           lagging' \subseteq lagging \cup {k}, lagging \subseteq lagging' \cup {k},
           tainted' \subseteq tainted \cup {k}, tainted \subseteq tainted' \cup {k},
           k \notin tainted' => /\ Shown(data'[k]) = ref'[k]
                                /\ k \notin lagging' => data'[k].str = ref'[k],
           mishap \subseteq mishap', mishap' \subseteq {"ghost", "self"},
           bytes' \in Int,
           mishap' = {} => bytes' = bytes - BytesOf({k}) + data'[k].bytes
    PROVE  ValueInv'
<1>1. ValueTypes'
  BY DEF ValueInv, ValueTypes
<1>2. CounterExact'
  BY DEF ValueInv, ValueTypes, CounterExact, Shown
<1>3. BytesExact'
  <2> SUFFICES ASSUME mishap' = {} PROVE bytes' = Bytes(data', StoreKey)
    BY DEF BytesExact, BytesOf, Stored, Bytes, BytesIn
  <2>1. bytes = Bytes(data, StoreKey) /\ bytes' = bytes - Bytes(data, {k}) + data'[k].bytes
    BY BytesOfData DEF ValueInv, BytesExact
  <2>2. Sized(data) /\ Sized(data')
    BY <1>1, DataSized, EntryFields DEF ValueInv, ValueTypes, Sized
  <2>3. \A j \in DOMAIN data : j # k => data'[j].bytes = data[j].bytes
    OBVIOUS
  <2>4. Bytes(data', StoreKey) = Bytes(data, StoreKey) - Bytes(data, {k}) + data'[k].bytes
    BY <2>2, <2>3, BytesPutOne
  <2> QED BY <2>1, <2>4
<1> QED BY <1>1, <1>2, <1>3 DEF ValueInv

\* A fresh string under every key of K.
LEMMA ValueFresh ==
    ASSUME ValueInv, NEW K \in SUBSET StoreKey, NEW exp \in Nat,
           data' = Put(K, Fresh(1, exp)), Wrote(K, 1),
           mishap \subseteq mishap', mishap' \subseteq {"ghost", "self"},
           bytes' \in Int,
           mishap' = {} => bytes' = bytes - BytesOf(K) + Size(1) * Cardinality(K)
    PROVE  ValueInv'
<1> DEFINE e == Fresh(1, exp)
<1>0. Size(1) = 2 /\ Size(1) \in Nat
  BY DEF Size
<1>1. e \in Entry /\ e.str = 1 /\ e.isInt = FALSE /\ e.bytes = 2
  <2>1. e = [str |-> 1, int |-> 0, isInt |-> FALSE, exp |-> exp, bytes |-> 2]
    BY <1>0 DEF Fresh
  <2>2. 1 \in Nat /\ 0 \in Nat /\ 2 \in Nat /\ FALSE \in BOOLEAN
    OBVIOUS
  <2>3. e \in Entry
    BY <2>1, <2>2, EntryMade, Zenon
  <2> QED BY <2>1, <2>3
<1>2. /\ DOMAIN data' = DOMAIN data \cup K
      /\ \A k \in K : data'[k] = e
      /\ \A j \in DOMAIN data : j \notin K => data'[j] = data[j]
  BY DEF Put
<1>3. /\ ref' \in [StoreKey -> Nat] /\ \A k \in K : ref'[k] = 1
      /\ \A j \in StoreKey \ K : ref'[j] = ref[j]
      /\ lagging' = lagging \ K /\ tainted' = tainted \ K
  BY DEF Wrote, ValueInv, ValueTypes
<1> HIDE DEF e
<1>4. ValueTypes'
  BY <1>1, <1>2, <1>3 DEF ValueInv, ValueTypes
<1>5. CounterExact'
  BY <1>1, <1>2, <1>3 DEF ValueInv, ValueTypes, CounterExact, Shown
<1>6. BytesExact'
  <2> SUFFICES ASSUME mishap' = {} PROVE bytes' = Bytes(data', StoreKey)
    BY DEF BytesExact, BytesOf, Stored, Bytes, BytesIn
  <2>1. bytes = Bytes(data, StoreKey) /\ bytes' = bytes - Bytes(data, K) + 2 * Cardinality(K)
    BY <1>0, BytesOfData DEF ValueInv, BytesExact
  <2>2. Sized(data) /\ Sized(data')
    BY <1>4, DataSized, EntryFields DEF ValueInv, ValueTypes, Sized
  <2>3. /\ \A j \in DOMAIN data : j \notin K => data'[j].bytes = data[j].bytes
        /\ \A k \in K : data'[k].bytes = 2
    BY <1>1, <1>2
  <2>4. DOMAIN data' = DOMAIN data \cup K
    BY <1>2
  <2>5. Bytes(data', StoreKey) = Bytes(data, StoreKey) - Bytes(data, K) + 2 * Cardinality(K)
    BY <2>2, <2>3, <2>4, BytesPutTwo
  <2> QED BY <2>1, <2>5
<1> QED BY <1>4, <1>5, <1>6 DEF ValueInv

\* Keys are removed.
LEMMA ValueGone ==
    ASSUME ValueInv, NEW K \in SUBSET StoreKey, data' = Without(K),
           bytes' \in Int, mishap = {} => bytes' = bytes - BytesOf(K),
           UNCHANGED <<ref, lagging, tainted, mishap>>
    PROVE  ValueInv'
<1>1. DOMAIN data' = DOMAIN data \ K /\ \A j \in DOMAIN data' : data'[j] = data[j]
  BY DEF Without
<1>2. ValueTypes'
  BY <1>1 DEF ValueInv, ValueTypes
<1>3. CounterExact'
  BY <1>1 DEF ValueInv, ValueTypes, CounterExact, Shown
<1>4. BytesExact'
  <2> SUFFICES ASSUME mishap = {} PROVE bytes' = Bytes(data', StoreKey)
    BY DEF BytesExact, BytesOf, Stored, Bytes, BytesIn
  <2>1. bytes = Bytes(data, StoreKey) /\ bytes' = bytes - Bytes(data, K)
    BY BytesOfData DEF ValueInv, BytesExact
  <2>2. Sized(data) /\ Sized(data')
    BY <1>2, DataSized, EntryFields DEF ValueInv, ValueTypes, Sized
  <2>3. \A j \in DOMAIN data' : data'[j].bytes = data[j].bytes
    BY <1>1
  <2>4. Bytes(data', StoreKey) = Bytes(data, StoreKey) - Bytes(data, K)
    BY <1>1, <2>2, <2>3, BytesGone
  <2> QED BY <2>1, <2>4
<1> QED BY <1>2, <1>3, <1>4 DEF ValueInv

\* The size of what is stored is a number.
LEMMA BytesOfType == ASSUME ValueTypes, NEW K PROVE BytesOf(K) \in Nat
BY DataSized, BytesFinite, BytesOfData

----------------------------------------------------------------------------
(* Commands on one key *)

\* What a command on one key subtracts.
LEMMA BytesOfOne ==
    ASSUME ValueTypes, NEW k
    PROVE  BytesOf({k}) = IF Has(k) THEN data[k].bytes ELSE 0
<1>1. CASE Has(k)
  <2>1. k \in DOMAIN data /\ data[k].bytes \in Nat
    BY <1>1, EntryFields DEF Has, ValueTypes
  <2> QED BY <1>1, <2>1, BytesOne, BytesOfData
<1>2. CASE ~Has(k)
  <2>1. {k} \cap DOMAIN data = {}
    BY <1>2 DEF Has
  <2> QED BY <1>2, <2>1, BytesNone, BytesOfData
<1> QED BY <1>1, <1>2

\* One fresh string.
LEMMA FreshOne == \A k : Size(1) * Cardinality({k}) = Size(1) /\ Size(1) \in Nat
<1> TAKE k
<1>1. Cardinality({k}) = 1 /\ Size(1) = 2
  BY FS_Singleton DEF Size
<1> QED BY <1>1

\* A size is a number.
LEMMA SizeType == \A v : Size(v) \in Nat
BY DEF Size

\* A deadline is a time.
LEMMA DeadlineType ==
    ASSUME LoopInv, NEW ttl \in {0, 1} PROVE Deadline(ttl) \in Nat
BY DEF LoopInv, Deadline

\* Unless a ghost is noted, no key of K is present and expired.
LEMMA NoGhost ==
    ASSUME ValueTypes, NEW K, Ghost(K)
    PROVE  /\ mishap \subseteq mishap' /\ mishap' \subseteq {"ghost", "self"}
           /\ mishap' = {} => \A k \in K : Has(k) => Live(k)
BY DEF Ghost, ValueTypes

\* A command leaves the clocks and the loops alone.
LEMMA CommandRest ==
    ASSUME StoreInv, NEW what, Call(what), UNCHANGED <<clocks, loops>>
    PROVE  LoopInv'
<1>1. budget' \in Nat
  BY DEF StoreInv, LoopInv, Call
<1> QED BY <1>1 DEF StoreInv, LoopInv, clocks, loops

\* A step that leaves the jobs and their locks alone.
LEMMA JobKept ==
    ASSUME JobInv, UNCHANGED jobs PROVE JobInv'
BY DEF JobInv, JobTypes, LockOrder, Locking, jobs

\* SET.
LEMMA StepSet ==
    ASSUME StoreInv, NEW k \in StoreKey, NEW ttl \in {0, 1}, Set(k, ttl)
    PROVE  StoreInv'
<1>1. ValueInv'
  <2>1. ValueInv /\ ValueTypes /\ LoopInv
    BY DEF StoreInv, ValueInv
  <2>2. Deadline(ttl) \in Nat
    BY <2>1, DeadlineType
  <2>3. bytes' = bytes - BytesOf({k}) + Size(1) * Cardinality({k}) /\ bytes' \in Int
    <3>1. Size(1) * Cardinality({k}) = Size(1) /\ Size(1) \in Nat
      BY FreshOne
    <3>2. BytesOf({k}) \in Nat /\ bytes \in Int
      BY <2>1, BytesOfType DEF ValueTypes
    <3>3. bytes' = bytes - BytesOf({k}) + Size(1)
      BY DEF Set
    <3>4. bytes' \in Int
      BY <3>1, <3>2, <3>3
    <3> QED BY <3>1, <3>3, <3>4
  <2>4. /\ data' = Put({k}, Fresh(1, Deadline(ttl))) /\ Wrote({k}, 1) /\ mishap' = mishap
        /\ mishap \subseteq {"ghost", "self"} /\ {k} \in SUBSET StoreKey
    BY <2>1 DEF Set, ValueTypes
  <2> QED BY <2>1, <2>2, <2>3, <2>4, ValueFresh
<1> QED BY <1>1, JobKept, CommandRest DEF Set, StoreInv

\* A fresh string where no live entry is, as SETNX, APPEND and INCRBYFLOAT make
\* it.
LEMMA FreshWhenGone ==
    ASSUME StoreInv, NEW K \in SUBSET StoreKey, NEW exp \in Nat, \A k \in K : ~Live(k),
           data' = Put(K, Fresh(1, exp)), Wrote(K, 1), Ghost(K),
           bytes' = bytes + Size(1) * Cardinality(K)
    PROVE  ValueInv'
<1>1. ValueInv /\ ValueTypes
  BY DEF StoreInv, ValueInv
<1>2. /\ mishap \subseteq mishap' /\ mishap' \subseteq {"ghost", "self"}
      /\ mishap' = {} => \A k \in K : ~Has(k)
  BY <1>1, NoGhost
<1>3. mishap' = {} => BytesOf(K) = 0
  <2> HAVE mishap' = {}
  <2>1. K \cap DOMAIN data = {}
    BY <1>2 DEF Has
  <2> QED BY <2>1, BytesNone, BytesOfData
<1>4. Size(1) * Cardinality(K) \in Nat /\ bytes \in Int
  <2>1. Cardinality(K) \in Nat /\ Size(1) = 2
    BY FS_Subset, FS_CardinalityType, KeyAssumption DEF Size
  <2> QED BY <1>1, <2>1 DEF ValueTypes
<1>5. bytes' \in Int /\ (mishap' = {} => bytes' = bytes - BytesOf(K) + Size(1) * Cardinality(K))
  <2> DEFINE n == Size(1) * Cardinality(K)
  <2>1. n \in Nat /\ bytes' = bytes + n
    BY <1>4
  <2> HIDE DEF n
  <2>2. bytes' \in Int /\ (mishap' = {} => bytes' = bytes - BytesOf(K) + n)
    BY <1>3, <1>4, <2>1
  <2> QED BY <2>2 DEF n
<1> QED BY <1>1, <1>2, <1>5, ValueFresh

\* What is subtracted for a live entry is right when no ghost is noted.
LEMMA LiveBytes ==
    ASSUME ValueTypes, NEW k, Ghost({k})
    PROVE  /\ (IF Live(k) THEN data[k].bytes ELSE 0) \in Nat
           /\ mishap' = {} => (IF Live(k) THEN data[k].bytes ELSE 0) = BytesOf({k})
<1>1. mishap' = {} => (Has(k) => Live(k))
  BY NoGhost
<1>2. Live(k) => Has(k)
  BY DEF Live
<1>3. Has(k) => data[k].bytes \in Nat
  BY EntryFields DEF ValueTypes, Has
<1> QED BY <1>1, <1>2, <1>3, BytesOfOne

\* SETNX.
LEMMA StepSetNX ==
    ASSUME StoreInv, NEW k \in StoreKey, NEW ttl \in {0, 1}, SetNX(k, ttl)
    PROVE  StoreInv'
<1>1. ValueInv'
  <2>1. Deadline(ttl) \in Nat
    BY DeadlineType DEF StoreInv
  <2>2. bytes' = bytes + Size(1) * Cardinality({k})
    <3>1. Size(1) * Cardinality({k}) = Size(1)
      BY FreshOne
    <3>2. bytes' = bytes + Size(1)
      BY DEF SetNX
    <3> QED BY <3>1, <3>2
  <2>3. /\ \A j \in {k} : ~Live(j)
        /\ data' = Put({k}, Fresh(1, Deadline(ttl))) /\ Wrote({k}, 1) /\ Ghost({k})
        /\ {k} \in SUBSET StoreKey
    BY DEF SetNX
  <2> QED BY <2>1, <2>2, <2>3, FreshWhenGone
<1> QED BY <1>1, JobKept, CommandRest DEF SetNX, StoreInv

\* GETSET.
LEMMA StepGetSet ==
    ASSUME StoreInv, NEW k \in StoreKey, GetSet(k)
    PROVE  StoreInv'
<1>1. ValueInv'
  <2>1. ValueInv /\ ValueTypes
    BY DEF StoreInv, ValueInv
  <2>2. bytes' \in Int /\ (mishap' = {} => bytes' = bytes - BytesOf({k}) + Size(1) * Cardinality({k}))
    <3> DEFINE b == IF Live(k) THEN data[k].bytes ELSE 0
    <3>1. b \in Nat /\ (mishap' = {} => b = BytesOf({k}))
      BY <2>1, LiveBytes DEF GetSet
    <3>2. bytes' = bytes - b + Size(1) /\ bytes \in Int
      BY <2>1 DEF GetSet, ValueTypes
    <3>3. Size(1) * Cardinality({k}) = Size(1) /\ Size(1) \in Nat
      BY FreshOne
    <3> HIDE DEF b
    <3>4. bytes' \in Int
      BY <3>1, <3>2, <3>3
    <3> QED BY <3>1, <3>2, <3>3, <3>4
  <2>3. /\ data' = Put({k}, Fresh(1, 0)) /\ Wrote({k}, 1) /\ Ghost({k})
        /\ {k} \in SUBSET StoreKey /\ 0 \in Nat
    BY DEF GetSet
  <2>4. mishap \subseteq mishap' /\ mishap' \subseteq {"ghost", "self"}
    BY <2>1, <2>3, NoGhost
  <2> QED BY <2>1, <2>2, <2>3, <2>4, ValueFresh
<1> QED BY <1>1, JobKept, CommandRest DEF GetSet, StoreInv

\* An entry gets another value, of another size.
LEMMA LiveReplace ==
    ASSUME ValueInv, NEW k \in StoreKey, Live(k), NEW e \in Entry,
           DOMAIN data' = DOMAIN data, data'[k] = e,
           \A j \in DOMAIN data : j # k => data'[j] = data[j],
           bytes' = bytes - data[k].bytes + e.bytes,
           NEW n \in Nat, ref' = [ref EXCEPT ![k] = n],
           lagging' \subseteq lagging \cup {k}, lagging \subseteq lagging' \cup {k},
           tainted' \subseteq tainted \cup {k}, tainted \subseteq tainted' \cup {k},
           k \notin tainted' => Shown(e) = n /\ (k \notin lagging' => e.str = n),
           mishap' = mishap
    PROVE  ValueInv'
<1>1. k \in DOMAIN data /\ ValueTypes
  BY DEF Live, Has, ValueInv
<1>2. /\ DOMAIN data' = DOMAIN data \cup {k}
      /\ data'[k] = e
      /\ \A j \in DOMAIN data : j # k => data'[j] = data[j]
  BY <1>1
<1>3. ref' \in [StoreKey -> Nat] /\ ref'[k] = n /\ \A j \in StoreKey : j # k => ref'[j] = ref[j]
  BY <1>1 DEF ValueTypes
<1>4. BytesOf({k}) = data[k].bytes /\ data[k].bytes \in Nat /\ e.bytes \in Nat
  BY <1>1, BytesOfOne, EntryFields DEF Has, ValueTypes
<1>5. bytes' \in Int /\ bytes' = bytes - BytesOf({k}) + data'[k].bytes
  BY <1>1, <1>2, <1>4 DEF ValueTypes
<1>6. k \notin tainted' => Shown(data'[k]) = ref'[k] /\ (k \notin lagging' => data'[k].str = ref'[k])
  BY <1>2, <1>3
<1>7. mishap \subseteq mishap' /\ mishap' \subseteq {"ghost", "self"}
  BY <1>1 DEF ValueTypes
<1> QED BY <1>2, <1>3, <1>5, <1>6, <1>7, ValueOne

\* The same, by an assignment to the entry (APPEND, INCRBYFLOAT).
LEMMA LiveRewrite ==
    ASSUME ValueInv, NEW k \in StoreKey, Live(k), NEW e \in Entry,
           data' = [data EXCEPT ![k] = e],
           bytes' = bytes - data[k].bytes + e.bytes,
           NEW n \in Nat, ref' = [ref EXCEPT ![k] = n],
           lagging' \subseteq lagging \cup {k}, lagging \subseteq lagging' \cup {k},
           tainted' \subseteq tainted \cup {k}, tainted \subseteq tainted' \cup {k},
           k \notin tainted' => Shown(e) = n /\ (k \notin lagging' => e.str = n),
           mishap' = mishap
    PROVE  ValueInv'
<1>1. k \in DOMAIN data
  BY DEF Live, Has
<1>2. /\ DOMAIN data' = DOMAIN data /\ data'[k] = e
      /\ \A j \in DOMAIN data : j # k => data'[j] = data[j]
  BY <1>1
<1> QED BY <1>2, LiveReplace

\* APPEND.
LEMMA StepAppend ==
    ASSUME StoreInv, NEW k \in StoreKey, AppendStr(k)
    PROVE  StoreInv'
<1>1. ValueInv /\ ValueTypes
  BY DEF StoreInv, ValueInv
<1>2. CASE Live(k)
  <2>1. PICK v \in Nat : v = 10 * data[k].str + 1
    BY <1>1, <1>2, EntryFields DEF Live, Has, ValueTypes
  <2>2. PICK b \in Nat : b = Size(v)
    BY <2>1, SizeType
  <2>3. PICK e \in Entry : e = [data[k] EXCEPT !.str = v, !.isInt = FALSE, !.bytes = b]
    <3>1. data[k] \in Entry /\ FALSE \in BOOLEAN
      BY <1>1, <1>2 DEF Live, Has, ValueTypes
    <3> QED BY <3>1 DEF Entry
  <2>4. PICK n \in Nat : n = 10 * ref[k] + 1
    BY <1>1 DEF ValueTypes
  <2>5. data' = [data EXCEPT ![k] = e] /\ bytes' = bytes - data[k].bytes + b
    BY <1>2, <2>1, <2>2, <2>3 DEF AppendStr
  <2>6. e.bytes = b /\ e.str = v /\ e.isInt = FALSE
    BY <1>1, <1>2, <2>3 DEF Live, Has, ValueTypes, Entry
  <2>7. FromStr(k, n) /\ mishap' = mishap
    BY <1>2, <2>4 DEF AppendStr
  <2>8. /\ ref' = [ref EXCEPT ![k] = n]
        /\ lagging' \subseteq lagging \cup {k} /\ lagging \subseteq lagging' \cup {k}
        /\ tainted' \subseteq tainted \cup {k} /\ tainted \subseteq tainted' \cup {k}
    BY <2>7 DEF FromStr
  <2>9. k \notin tainted' => Shown(e) = n /\ e.str = n
    <3> HAVE k \notin tainted'
    <3>1. k \notin lagging /\ k \notin tainted
      BY <2>7 DEF FromStr
    <3>2. data[k].str = ref[k]
      BY <1>1, <1>2, <3>1 DEF ValueInv, CounterExact, Live, Has
    <3> QED BY <2>1, <2>4, <2>6, <3>2 DEF Shown
  <2>10. bytes' = bytes - data[k].bytes + e.bytes
    BY <2>5, <2>6
  <2>11. ValueInv'
    BY <1>1, <1>2, <2>5, <2>7, <2>8, <2>9, <2>10, LiveRewrite
  <2> QED BY <2>11, JobKept, CommandRest DEF AppendStr, StoreInv
<1>3. CASE ~Live(k)
  <2>1. bytes' = bytes + Size(1) * Cardinality({k})
    <3>1. Size(1) * Cardinality({k}) = Size(1)
      BY FreshOne
    <3>2. bytes' = bytes + Size(1)
      BY <1>3 DEF AppendStr
    <3> QED BY <3>1, <3>2
  <2>2. /\ \A j \in {k} : ~Live(j)
        /\ data' = Put({k}, Fresh(1, 0)) /\ Wrote({k}, 1) /\ Ghost({k})
        /\ {k} \in SUBSET StoreKey /\ 0 \in Nat
    BY <1>3 DEF AppendStr
  <2>3. ValueInv'
    BY <2>1, <2>2, FreshWhenGone
  <2> QED BY <2>3, JobKept, CommandRest DEF AppendStr, StoreInv
<1> QED BY <1>2, <1>3

\* INCRBYFLOAT.
LEMMA StepIncrByFloat ==
    ASSUME StoreInv, NEW k \in StoreKey, IncrByFloat(k)
    PROVE  StoreInv'
<1>1. ValueInv /\ ValueTypes
  BY DEF StoreInv, ValueInv
<1>2. CASE Live(k)
  <2>1. PICK v \in Nat : v = data[k].str + 1
    BY <1>1, <1>2, EntryFields DEF Live, Has, ValueTypes
  <2>2. PICK b \in Nat : b = Size(v)
    BY <2>1, SizeType
  <2>3. PICK e \in Entry : e = [data[k] EXCEPT !.str = v, !.bytes = b]
    <3>1. data[k] \in Entry
      BY <1>1, <1>2 DEF Live, Has, ValueTypes
    <3> QED BY <3>1 DEF Entry
  <2>4. PICK n \in Nat : n = ref[k] + 1
    BY <1>1 DEF ValueTypes
  <2>5. data' = [data EXCEPT ![k] = e] /\ bytes' = bytes - data[k].bytes + b
    BY <1>2, <2>1, <2>2, <2>3 DEF IncrByFloat
  <2>6. e.bytes = b /\ e.str = v /\ e.isInt = data[k].isInt
    BY <1>1, <1>2, <2>3 DEF Live, Has, ValueTypes, Entry
  <2>7. /\ mishap' = mishap /\ lagging' = lagging
        /\ tainted' = IF data[k].isInt THEN tainted \cup {k} ELSE tainted
    BY <1>2 DEF IncrByFloat
  <2>8. ref' = [ref EXCEPT ![k] = n]
    BY <1>1, <1>2, <2>4 DEF IncrByFloat, ValueTypes
  <2>9. k \notin tainted' => Shown(e) = n /\ e.str = n
    <3> HAVE k \notin tainted'
    <3>1. ~data[k].isInt /\ k \notin tainted
      BY <2>7
    <3>2. data[k].str = ref[k]
      BY <1>1, <1>2, <3>1 DEF ValueInv, CounterExact, Live, Has, Shown
    <3> QED BY <2>1, <2>4, <2>6, <3>1, <3>2 DEF Shown
  <2>10. bytes' = bytes - data[k].bytes + e.bytes
    BY <2>5, <2>6
  <2>11. /\ lagging' \subseteq lagging \cup {k} /\ lagging \subseteq lagging' \cup {k}
         /\ tainted' \subseteq tainted \cup {k} /\ tainted \subseteq tainted' \cup {k}
    BY <2>7
  <2>12. ValueInv'
    BY <1>1, <1>2, <2>5, <2>7, <2>8, <2>9, <2>10, <2>11, LiveRewrite
  <2> QED BY <2>12, JobKept, CommandRest DEF IncrByFloat, StoreInv
<1>3. CASE ~Live(k)
  <2>1. bytes' = bytes + Size(1) * Cardinality({k})
    <3>1. Size(1) * Cardinality({k}) = Size(1)
      BY FreshOne
    <3>2. bytes' = bytes + Size(1)
      BY <1>3 DEF IncrByFloat
    <3> QED BY <3>1, <3>2
  <2>2. /\ \A j \in {k} : ~Live(j)
        /\ data' = Put({k}, Fresh(1, 0)) /\ Wrote({k}, 1) /\ Ghost({k})
        /\ {k} \in SUBSET StoreKey /\ 0 \in Nat
    BY <1>3 DEF IncrByFloat
  <2>3. ValueInv'
    BY <2>1, <2>2, FreshWhenGone
  <2> QED BY <2>3, JobKept, CommandRest DEF IncrByFloat, StoreInv
<1> QED BY <1>2, <1>3

\* An entry changes and its size does not.
LEMMA LiveTouch ==
    ASSUME ValueInv, NEW k \in StoreKey, Has(k), NEW e \in Entry, e.bytes = data[k].bytes,
           data' = [data EXCEPT ![k] = e], bytes' = bytes,
           NEW n \in Nat, ref' = [ref EXCEPT ![k] = n],
           lagging' \subseteq lagging \cup {k}, lagging \subseteq lagging',
           tainted' = tainted,
           k \notin tainted => Shown(e) = n /\ (k \notin lagging' => e.str = n),
           mishap' = mishap
    PROVE  ValueInv'
<1>1. k \in DOMAIN data /\ ValueTypes
  BY DEF Has, ValueInv
<1>2. /\ DOMAIN data' = DOMAIN data \cup {k}
      /\ data'[k] = e
      /\ \A j \in DOMAIN data : j # k => data'[j] = data[j]
  BY <1>1
<1>3. ref' \in [StoreKey -> Nat] /\ ref'[k] = n /\ \A j \in StoreKey : j # k => ref'[j] = ref[j]
  BY <1>1 DEF ValueTypes
<1>4. BytesOf({k}) = data[k].bytes /\ data[k].bytes \in Nat /\ bytes \in Int
  BY <1>1, BytesOfOne, EntryFields DEF Has, ValueTypes
<1>5. bytes' \in Int /\ bytes' = bytes - BytesOf({k}) + data'[k].bytes
  BY <1>2, <1>4
<1>6. k \notin tainted' => Shown(data'[k]) = ref'[k] /\ (k \notin lagging' => data'[k].str = ref'[k])
  BY <1>2, <1>3
<1>7. mishap \subseteq mishap' /\ mishap' \subseteq {"ghost", "self"}
  BY <1>1 DEF ValueTypes
<1> QED BY <1>2, <1>3, <1>5, <1>6, <1>7, ValueOne

\* DEL, and the deletes of the loops.
LEMMA ValueRemove ==
    ASSUME ValueInv, NEW K \in SUBSET StoreKey, Remove(K), UNCHANGED history
    PROVE  ValueInv'
<1>1. BytesOf(K) \in Nat /\ bytes \in Int
  BY BytesOfType DEF ValueInv, ValueTypes
<1>2. data' = Without(K) /\ bytes' = bytes - BytesOf(K)
  BY DEF Remove
<1>3. bytes' \in Int
  BY <1>1, <1>2
<1> QED BY <1>2, <1>3, ValueGone DEF history

\* DEL.
LEMMA StepDel ==
    ASSUME StoreInv, NEW k \in StoreKey, Del(k)
    PROVE  StoreInv'
<1>1. ValueInv'
  <2>1. {k} \in SUBSET StoreKey /\ Remove({k}) /\ UNCHANGED history
    BY DEF Del
  <2> QED BY <2>1, ValueRemove DEF StoreInv
<1> QED BY <1>1, JobKept, CommandRest DEF Del, StoreInv

\* EXPIRE and PERSIST.
LEMMA StepExpire ==
    ASSUME StoreInv, NEW k \in StoreKey, NEW ttl \in {0, 1}, Expire(k, ttl)
    PROVE  StoreInv'
<1>1. ValueInv /\ ValueTypes /\ LoopInv /\ k \in DOMAIN data
  BY DEF StoreInv, ValueInv, Expire, Has
<1>2. PICK x \in Nat : x = Deadline(ttl)
  BY <1>1, DeadlineType
<1>3. PICK e \in Entry : e = [data[k] EXCEPT !.exp = x]
  <2>1. data[k] \in Entry
    BY <1>1 DEF ValueTypes
  <2> QED BY <2>1 DEF Entry
<1>4. e.bytes = data[k].bytes /\ e.str = data[k].str /\ e.int = data[k].int /\ e.isInt = data[k].isInt
  BY <1>1, <1>3 DEF ValueTypes, Entry
<1>5. data' = [data EXCEPT ![k] = e]
  BY <1>2, <1>3 DEF Expire
<1>6. PICK n \in Nat : n = ref[k]
  BY <1>1 DEF ValueTypes
<1>7. ref' = [ref EXCEPT ![k] = n] /\ lagging' = lagging /\ tainted' = tainted /\ mishap' = mishap
  BY <1>1, <1>6 DEF Expire, history, ValueTypes
<1>8. k \notin tainted => Shown(e) = n /\ (k \notin lagging' => e.str = n)
  BY <1>1, <1>4, <1>6, <1>7 DEF ValueInv, CounterExact, Shown
<1>9. ValueInv'
  BY <1>1, <1>4, <1>5, <1>7, <1>8, LiveTouch DEF Expire
<1> QED BY <1>9, JobKept, CommandRest DEF Expire, StoreInv

\* The atomic add of INCR.
LEMMA ValueBump ==
    ASSUME ValueInv, NEW k \in StoreKey, Promoted(k), Bump(k)
    PROVE  ValueInv'
<1>1. ValueTypes /\ k \in DOMAIN data /\ data[k].isInt
  BY DEF ValueInv, Promoted, Live, Has
<1>2. PICK i \in Nat : i = data[k].int + 1
  BY <1>1, EntryFields DEF ValueTypes
<1>3. PICK e \in Entry : e = [data[k] EXCEPT !.int = i]
  <2>1. data[k] \in Entry
    BY <1>1 DEF ValueTypes
  <2> QED BY <2>1 DEF Entry
<1>4. e.bytes = data[k].bytes /\ e.int = i /\ e.isInt = data[k].isInt
  BY <1>1, <1>3 DEF ValueTypes, Entry
<1>5. data' = [data EXCEPT ![k] = e]
  BY <1>2, <1>3 DEF Bump
<1>6. PICK n \in Nat : n = ref[k] + 1
  BY <1>1 DEF ValueTypes
<1>7. /\ ref' = [ref EXCEPT ![k] = n] /\ lagging' = lagging \cup {k}
      /\ tainted' = tainted /\ mishap' = mishap /\ bytes' = bytes
  BY <1>1, <1>6 DEF Bump, ValueTypes
<1>8. k \notin tainted => Shown(e) = n
  <2> HAVE k \notin tainted
  <2>1. data[k].int = ref[k]
    BY <1>1 DEF ValueInv, CounterExact, Shown
  <2> QED BY <1>1, <1>2, <1>4, <1>6, <2>1 DEF Shown
<1> QED BY <1>1, <1>4, <1>5, <1>7, <1>8, LiveTouch DEF Has

\* The fast path of INCR.
LEMMA StepIncrFast ==
    ASSUME StoreInv, NEW k \in StoreKey, IncrFast(k)
    PROVE  StoreInv'
<1>1. ValueInv'
  BY ValueBump DEF StoreInv, IncrFast
<1> QED BY <1>1, JobKept, CommandRest DEF IncrFast, StoreInv

\* The locked attempt of INCR parses Str and promotes the entry.
LEMMA ValueParse ==
    ASSUME ValueInv, NEW k \in StoreKey, Parse(k)
    PROVE  ValueInv'
<1>1. ValueTypes /\ Ghost({k})
  BY DEF ValueInv, Parse
<1>2. CASE Live(k)
  <2>0. k \in DOMAIN data /\ data[k] \in Entry
    BY <1>1, <1>2 DEF Live, Has, ValueTypes
  <2>1. PICK v \in Nat : v = data[k].str + 1
    BY <2>0, EntryFields
  <2>2. PICK b \in Nat : b = Size(v)
    BY <2>1, SizeType
  <2>3. PICK x \in Nat : x = data[k].exp
    BY <2>0, EntryFields
  <2>4. PICK e \in Entry : e = [str |-> v, int |-> v, isInt |-> TRUE, exp |-> x, bytes |-> b]
    <3>1. TRUE \in BOOLEAN
      OBVIOUS
    <3> QED BY <3>1, EntryMade
  <2>5. PICK n \in Nat : n = ref[k] + 1
    BY <1>1 DEF ValueTypes
  <2>6. /\ DOMAIN data' = DOMAIN data /\ data'[k] = e
        /\ \A j \in DOMAIN data : j # k => data'[j] = data[j]
    <3>1. data' = Put({k}, e)
      BY <1>2, <2>1, <2>2, <2>3, <2>4 DEF Parse
    <3> QED BY <2>0, <3>1 DEF Put
  <2>7. e.bytes = b /\ e.str = v /\ e.int = v /\ e.isInt = TRUE
    BY <2>4
  <2>8. bytes' = bytes - data[k].bytes + e.bytes
    BY <1>2, <2>1, <2>2, <2>7 DEF Parse
  <2>9. FromStr(k, n) /\ mishap' = mishap
    BY <1>2, <2>5 DEF Parse, Ghost
  <2>10. /\ ref' = [ref EXCEPT ![k] = n]
         /\ lagging' \subseteq lagging \cup {k} /\ lagging \subseteq lagging' \cup {k}
         /\ tainted' \subseteq tainted \cup {k} /\ tainted \subseteq tainted' \cup {k}
    BY <2>9 DEF FromStr
  <2>11. k \notin tainted' => Shown(e) = n /\ e.str = n
    <3> HAVE k \notin tainted'
    <3>1. k \notin lagging /\ k \notin tainted
      BY <2>9 DEF FromStr
    <3>2. data[k].str = ref[k]
      BY <2>0, <3>1 DEF ValueInv, CounterExact
    <3> QED BY <2>1, <2>5, <2>7, <3>2 DEF Shown
  <2> QED BY <1>2, <2>6, <2>8, <2>9, <2>10, <2>11, LiveReplace
<1>3. CASE ~Live(k)
  <2>1. PICK b \in Nat : b = Size(1)
    BY SizeType
  <2>2. PICK e \in Entry : e = [str |-> 1, int |-> 1, isInt |-> TRUE, exp |-> 0, bytes |-> b]
    <3>1. TRUE \in BOOLEAN /\ 0 \in Nat /\ 1 \in Nat
      OBVIOUS
    <3> QED BY <3>1, EntryMade
  <2>3. /\ data' = Put({k}, e) /\ bytes' = bytes - 0 + b /\ Wrote({k}, 1)
    BY <1>3, <2>1, <2>2 DEF Parse
  <2>4. /\ DOMAIN data' = DOMAIN data \cup {k} /\ data'[k] = e
        /\ \A j \in DOMAIN data : j # k => data'[j] = data[j]
    BY <2>3 DEF Put
  <2>5. /\ ref' \in [StoreKey -> Nat] /\ ref'[k] = 1 /\ \A j \in StoreKey : j # k => ref'[j] = ref[j]
        /\ lagging' \subseteq lagging \cup {k} /\ lagging \subseteq lagging' \cup {k}
        /\ tainted' \subseteq tainted \cup {k} /\ tainted \subseteq tainted' \cup {k}
    BY <1>1, <2>3 DEF Wrote, ValueTypes
  <2>6. e.bytes = b /\ e.str = 1 /\ Shown(e) = 1
    BY <2>2 DEF Shown
  <2>7. /\ mishap \subseteq mishap' /\ mishap' \subseteq {"ghost", "self"}
        /\ mishap' = {} => BytesOf({k}) = 0
    <3>1. /\ mishap \subseteq mishap' /\ mishap' \subseteq {"ghost", "self"}
          /\ mishap' = {} => ~Has(k)
      BY <1>1, <1>3, NoGhost
    <3> QED BY <1>1, <3>1, BytesOfOne
  <2>8. bytes' \in Int /\ (mishap' = {} => bytes' = bytes - BytesOf({k}) + data'[k].bytes)
    BY <1>1, <2>3, <2>4, <2>6, <2>7 DEF ValueTypes
  <2>9. data'[k] \in Entry /\ Shown(data'[k]) = ref'[k] /\ data'[k].str = ref'[k]
    BY <2>4, <2>5, <2>6
  <2> QED BY <2>4, <2>5, <2>7, <2>8, <2>9, ValueOne
<1> QED BY <1>2, <1>3

----------------------------------------------------------------------------
(* Jobs and locks *)

\* The jobs the commands begin.
LEMMA JobMade ==
    /\ [kind |-> "idle"] \in Job /\ [kind |-> "mset"] \in Job
    /\ [kind |-> "msetnx"] \in Job /\ [kind |-> "flushall"] \in Job
    /\ \A k \in StoreKey : [kind |-> "incr", key |-> k] \in Job
    /\ \A a, b \in StoreKey : [kind |-> "rename", src |-> a, dst |-> b] \in Job
BY DEF Job

\* The keys a job carries.
LEMMA JobFields ==
    \A j \in Job : /\ j.kind = "incr" => j.key \in StoreKey
                   /\ j.kind = "rename" => j.src \in StoreKey /\ j.dst \in StoreKey
BY DEF Job

\* A client that starts a command, or that is through with one, holds no lock.
LEMMA JobSet ==
    ASSUME JobInv, NEW c \in Client, NEW j \in Job, NEW S \in SUBSET Shard, NEW H,
           job' = [job EXCEPT ![c] = j], need' = [need EXCEPT ![c] = S],
           held' = [held EXCEPT ![c] = H], H = {}
    PROVE  JobInv'
<1>1. JobTypes'
  BY DEF JobInv, JobTypes
<1>2. LockOrder'
  <2> SUFFICES ASSUME NEW d \in Client
               PROVE  /\ held'[d] # {} => Locking(d)'
                      /\ \A s \in held'[d], t \in need'[d] : s < t
    BY DEF LockOrder
  <2>1. CASE d = c
    BY <2>1 DEF JobInv, JobTypes
  <2>2. CASE d # c
    <3>1. held'[d] = held[d] /\ need'[d] = need[d] /\ job'[d] = job[d]
      BY <2>2 DEF JobInv, JobTypes
    <3>2. Locking(d)' <=> Locking(d)
      BY <3>1 DEF Locking
    <3> QED BY <3>1, <3>2 DEF JobInv, LockOrder
  <2> QED BY <2>1, <2>2
<1> QED BY <1>1, <1>2 DEF JobInv

\* A client that waits for no lock starts a job.
LEMMA JobBegun ==
    ASSUME JobInv, NEW c \in Client, ~Locking(c), NEW j \in Job, NEW S \in SUBSET Shard,
           BeginJob(c, j, S)
    PROVE  JobInv'
<1>1. held[c] = {} /\ held = [held EXCEPT ![c] = {}]
  BY DEF JobInv, JobTypes, LockOrder
<1>2. job' = [job EXCEPT ![c] = j] /\ need' = [need EXCEPT ![c] = S] /\ held' = [held EXCEPT ![c] = {}]
  BY <1>1 DEF BeginJob
<1> QED BY <1>2, JobSet

\* A failed first attempt of INCR.
LEMMA StepIncrMiss ==
    ASSUME StoreInv, NEW c \in Client, NEW k \in StoreKey, IncrMiss(c, k)
    PROVE  StoreInv'
<1>1. ValueInv'
  BY ValueKept DEF StoreInv, IncrMiss, history
<1>2. JobInv'
  <2>1. [kind |-> "incr", key |-> k] \in Job
    BY JobMade
  <2>2. ~Locking(c) /\ {} \in SUBSET Shard
    BY DEF IncrMiss, Idle, Locking
  <2> QED BY <2>1, <2>2, JobBegun DEF IncrMiss, StoreInv
<1> QED BY <1>1, <1>2, CommandRest DEF IncrMiss, StoreInv

\* A step that leaves the clocks, the loops and the budget alone.
LEMMA LoopKept ==
    ASSUME LoopInv, UNCHANGED <<clocks, loops, budget>> PROVE LoopInv'
BY DEF LoopInv, clocks, loops

\* The second attempt of INCR.
LEMMA StepIncrSlow ==
    ASSUME StoreInv, NEW c \in Client, IncrSlow(c)
    PROVE  StoreInv'
<1>1. job[c] \in Job /\ job[c].key \in StoreKey /\ ~Locking(c) /\ JobInv
  BY JobFields DEF StoreInv, JobInv, JobTypes, IncrSlow, Locking
<1>2. ValueInv'
  BY <1>1, ValueBump, ValueParse DEF StoreInv, IncrSlow
<1>3. JobInv'
  <2>1. held[c] = {} /\ held = [held EXCEPT ![c] = {}] /\ need = [need EXCEPT ![c] = need[c]]
        /\ need[c] \in SUBSET Shard
    BY <1>1 DEF JobInv, JobTypes, LockOrder
  <2>2. [kind |-> "idle"] \in Job
    BY JobMade
  <2>3. job' = [job EXCEPT ![c] = [kind |-> "idle"]] /\ need' = [need EXCEPT ![c] = need[c]]
        /\ held' = [held EXCEPT ![c] = {}]
    BY <2>1 DEF IncrSlow, Done
  <2> QED BY <1>1, <2>1, <2>2, <2>3, JobSet
<1> QED BY <1>2, <1>3, LoopKept DEF StoreInv, IncrSlow

\* MSET starts.
LEMMA StepMSetBegin ==
    ASSUME StoreInv, NEW c \in Client, MSetBegin(c)
    PROVE  StoreInv'
<1>1. ValueInv'
  BY ValueKept DEF StoreInv, MSetBegin, history
<1>2. JobInv'
  <2>1. [kind |-> "mset"] \in Job
    BY JobMade
  <2>2. ~Locking(c) /\ Shard \in SUBSET Shard
    BY DEF MSetBegin, Idle, Locking
  <2> QED BY <2>1, <2>2, JobBegun DEF MSetBegin, StoreInv
<1> QED BY <1>1, <1>2, CommandRest DEF MSetBegin, StoreInv

\* MSET writes the keys of one shard.
LEMMA StepMSetShard ==
    ASSUME StoreInv, NEW c \in Client, NEW s \in Shard, MSetShard(c, s)
    PROVE  StoreInv'
<1>1. ValueInv'
  <2>1. ValueInv /\ ValueTypes
    BY DEF StoreInv, ValueInv
  <2>2. Keys(s) \in SUBSET StoreKey
    BY DEF Keys
  <2> DEFINE K == Keys(s)
  <2>3. Size(1) = 2 /\ BytesOf(K) \in Nat /\ Cardinality(K) \in Nat /\ bytes \in Int
    BY <2>1, <2>2, BytesOfType, FS_Subset, FS_CardinalityType, KeyAssumption DEF Size, ValueTypes
  <2>4. /\ data' = Put(K, Fresh(1, 0)) /\ Wrote(K, 1) /\ mishap' = mishap
        /\ bytes' = bytes - BytesOf(K) + Size(1) * Cardinality(K)
    BY DEF MSetShard
  <2>5. bytes' \in Int
    BY <2>3, <2>4
  <2>6. mishap \subseteq mishap' /\ mishap' \subseteq {"ghost", "self"} /\ 0 \in Nat
    BY <2>1, <2>4 DEF ValueTypes
  <2> HIDE DEF K
  <2> QED BY <2>1, <2>2, <2>4, <2>5, <2>6, ValueFresh DEF K
<1>2. JobInv'
  <2>1. JobInv /\ ~Locking(c)
    BY DEF StoreInv, MSetShard, Locking
  <2>2. PICK j \in Job : job' = [job EXCEPT ![c] = j]
    <3>1. CASE need[c] = {s}
      BY <3>1, JobMade DEF MSetShard, Done
    <3>2. CASE need[c] # {s}
      <4>1. job[c] \in Job /\ job = [job EXCEPT ![c] = job[c]]
        BY <2>1 DEF JobInv, JobTypes
      <4> QED BY <3>2, <4>1 DEF MSetShard
    <3> QED BY <3>1, <3>2
  <2>3. PICK S \in SUBSET Shard : need' = [need EXCEPT ![c] = S]
    <3>1. need[c] \ {s} \in SUBSET Shard
      BY <2>1 DEF JobInv, JobTypes
    <3> QED BY <3>1 DEF MSetShard
  <2>4. held' = [held EXCEPT ![c] = {}]
    BY <2>1 DEF JobInv, JobTypes, LockOrder, MSetShard
  <2> QED BY <2>1, <2>2, <2>3, <2>4, JobSet
<1> QED BY <1>1, <1>2, LoopKept DEF StoreInv, MSetShard

\* A command that locks several shards starts.
LEMMA StepLockBegin ==
    ASSUME StoreInv, NEW c \in Client, LockBegin(c)
    PROVE  StoreInv'
<1>1. ValueInv'
  BY ValueKept DEF StoreInv, LockBegin, history
<1>2. PICK what : Call(what)
  BY DEF LockBegin
<1>3. JobInv'
  <2>1. ~Locking(c) /\ JobInv
    BY DEF LockBegin, Idle, Locking, StoreInv
  <2>2. PICK j \in Job, S \in SUBSET Shard : BeginJob(c, j, S)
    <3>1. ASSUME NEW src \in StoreKey, NEW dst \in StoreKey,
                 BeginJob(c, [kind |-> "rename", src |-> src, dst |-> dst], Shards({src, dst}))
          PROVE  \E j \in Job, S \in SUBSET Shard : BeginJob(c, j, S)
      <4>1. Shards({src, dst}) \in SUBSET Shard
        BY ShardAssumption DEF Shards
      <4>2. [kind |-> "rename", src |-> src, dst |-> dst] \in Job
        BY JobMade
      <4> QED BY <3>1, <4>1, <4>2
    <3>2. ASSUME NEW j \in Job, BeginJob(c, j, Shard)
          PROVE  \E i \in Job, S \in SUBSET Shard : BeginJob(c, i, S)
      BY <3>2
    <3>3. [kind |-> "msetnx"] \in Job /\ [kind |-> "flushall"] \in Job
      BY JobMade
    <3> QED BY <3>1, <3>2, <3>3 DEF LockBegin
  <2> QED BY <2>1, <2>2, JobBegun
<1> QED BY <1>1, <1>2, <1>3, CommandRest DEF LockBegin, StoreInv

\* The lowest shard still needed is locked.
LEMMA StepLock ==
    ASSUME StoreInv, NEW c \in Client, NEW s \in Shard, Lock(c, s)
    PROVE  StoreInv'
<1>1. ValueInv'
  BY ValueKept DEF StoreInv, Lock, history
<1>2. JobInv /\ JobTypes /\ Locking(c) /\ s \in Nat
  BY ShardAssumption DEF StoreInv, JobInv, Lock
<1>3. JobTypes'
  BY <1>2 DEF JobTypes, Lock
<1>4. LockOrder'
  <2> SUFFICES ASSUME NEW d \in Client
               PROVE  /\ held'[d] # {} => Locking(d)'
                      /\ \A x \in held'[d], y \in need'[d] : x < y
    BY DEF LockOrder
  <2>1. Locking(d)' <=> Locking(d)
    BY DEF Lock, Locking
  <2>2. CASE d = c
    <3>1. held'[c] = held[c] \cup {s} /\ need'[c] = need[c] \ {s}
      BY <1>2 DEF JobTypes, Lock
    <3>2. ASSUME NEW x \in held[c] \cup {s}, NEW y \in need[c] \ {s} PROVE x < y
      <4>1. y \in Nat /\ s <= y /\ s \in need[c]
        BY <1>2, ShardAssumption DEF JobTypes, Lock
      <4>2. CASE x \in held[c]
        BY <1>2, <4>2 DEF JobInv, LockOrder
      <4>3. CASE x = s
        BY <1>2, <4>1, <4>3
      <4> QED BY <4>2, <4>3
    <3> QED BY <1>2, <2>1, <2>2, <3>1, <3>2
  <2>3. CASE d # c
    <3>1. held'[d] = held[d] /\ need'[d] = need[d]
      BY <1>2, <2>3 DEF JobTypes, Lock
    <3> QED BY <1>2, <2>1, <3>1 DEF JobInv, LockOrder
  <2> QED BY <2>2, <2>3
<1>5. JobInv'
  BY <1>3, <1>4 DEF JobInv
<1> QED BY <1>1, <1>5, LoopKept DEF StoreInv, Lock

\* RENAME moves the entry.
LEMMA ValueRename ==
    ASSUME ValueInv, NEW src \in StoreKey, NEW dst \in StoreKey, Rename(src, dst)
    PROVE  ValueInv'
<1>1. ValueTypes
  BY DEF ValueInv
<1>2. CASE ~Live(src)
  BY <1>2, ValueKept DEF Rename, history
<1>3. CASE Live(src)
  <2>1. src \in DOMAIN data /\ data[src] \in Entry
    BY <1>1, <1>3 DEF Live, Has, ValueTypes
  <2>2. /\ DOMAIN data' = (DOMAIN data \ {src}) \cup {dst} /\ data'[dst] = data[src]
        /\ \A j \in DOMAIN data \ {src} : j # dst => data'[j] = data[j]
    BY <1>3 DEF Rename
  <2>3. /\ ref' = [ref EXCEPT ![dst] = ref[src]]
        /\ lagging' = (lagging \ {dst}) \cup (IF src \in lagging THEN {dst} ELSE {})
        /\ tainted' = (tainted \ {dst}) \cup (IF src \in tainted THEN {dst} ELSE {})
        /\ mishap' = IF src = dst THEN mishap \cup {"self"} ELSE mishap
        /\ bytes' = bytes - BytesOf({dst})
    BY <1>3 DEF Rename
  <2>4. /\ ref' \in [StoreKey -> Nat] /\ ref'[dst] = ref[src]
        /\ \A j \in StoreKey : j # dst => ref'[j] = ref[j]
    BY <1>1, <2>3 DEF ValueTypes
  <2>5. ValueTypes'
    <3>1. DOMAIN data' \subseteq StoreKey /\ \A k \in DOMAIN data' : data'[k] \in Entry
      BY <1>1, <2>1, <2>2 DEF ValueTypes
    <3>2. bytes' \in Int
      BY <1>1, <2>3, BytesOfType DEF ValueTypes
    <3>3. lagging' \subseteq StoreKey /\ tainted' \subseteq StoreKey /\ mishap' \subseteq {"ghost", "self"}
      BY <1>1, <2>3 DEF ValueTypes
    <3> QED BY <2>4, <3>1, <3>2, <3>3 DEF ValueTypes
  <2>6. CounterExact'
    <3> SUFFICES ASSUME NEW k \in DOMAIN data', k \notin tainted'
                 PROVE  Shown(data'[k]) = ref'[k] /\ (k \notin lagging' => data'[k].str = ref'[k])
      BY DEF CounterExact, Shown
    <3>1. CASE k = dst
      <4>1. src \notin tainted /\ (k \notin lagging' => src \notin lagging)
        BY <2>3, <3>1
      <4> QED BY <2>1, <2>2, <2>4, <3>1, <4>1 DEF ValueInv, CounterExact
    <3>2. CASE k # dst
      <4>1. k \in DOMAIN data /\ k \notin tainted /\ (k \notin lagging' => k \notin lagging)
        BY <2>2, <2>3, <3>2
      <4>2. data'[k] = data[k] /\ ref'[k] = ref[k]
        BY <1>1, <2>2, <2>4, <3>2, <4>1 DEF ValueTypes
      <4> QED BY <4>1, <4>2 DEF ValueInv, CounterExact
    <3> QED BY <3>1, <3>2
  <2>7. BytesExact'
    <3> SUFFICES ASSUME mishap' = {} PROVE bytes' = Bytes(data', StoreKey)
      BY DEF BytesExact, BytesOf, Stored, Bytes, BytesIn
    <3>1. mishap = {} /\ src # dst
      BY <2>3
    <3>2. bytes = Bytes(data, StoreKey) /\ bytes' = bytes - Bytes(data, {dst})
      BY <2>3, <3>1, BytesOfData DEF ValueInv, BytesExact
    <3> DEFINE e == Without({src})
    <3>3. /\ DOMAIN e = DOMAIN data \ {src}
          /\ \A j \in DOMAIN e : e[j] = data[j]
      BY DEF Without
    <3>4. Sized(data) /\ Sized(data')
      BY <1>1, <2>5, DataSized, EntryFields DEF ValueTypes, Sized
    <3> HIDE DEF e
    <3>5. Sized(e) /\ \A j \in DOMAIN e : e[j].bytes = data[j].bytes
      BY <3>3, <3>4 DEF Sized
    <3>6. Bytes(e, StoreKey) = Bytes(data, StoreKey) - Bytes(data, {src})
      BY <3>3, <3>4, <3>5, BytesGone
    <3>7. DOMAIN data' = DOMAIN e \cup {dst} /\ \A j \in DOMAIN e : j # dst => data'[j].bytes = e[j].bytes
      BY <2>2, <3>3
    <3>8. /\ Bytes(data', StoreKey) = Bytes(e, StoreKey) - Bytes(e, {dst}) + data'[dst].bytes
          /\ Bytes(e, StoreKey) \in Nat
      <4>1. PICK m : m = data'
        OBVIOUS
      <4>2. /\ Sized(m) /\ Sized(e) /\ DOMAIN m = DOMAIN e \cup {dst}
            /\ \A j \in DOMAIN e : j # dst => m[j].bytes = e[j].bytes
        BY <3>4, <3>5, <3>7, <4>1
      <4>3. /\ Bytes(m, StoreKey) = Bytes(e, StoreKey) - Bytes(e, {dst}) + m[dst].bytes
            /\ Bytes(e, StoreKey) \in Nat
        BY <4>2, BytesPutOne
      <4> QED BY <4>1, <4>3
    <3>9. Bytes(e, {dst}) = Bytes(data, {dst})
      <4>1. {dst} \cap DOMAIN e = {dst} \cap DOMAIN data
        BY <3>1, <3>3
      <4> QED BY <3>5, <4>1, BytesSame
    <3>10. Bytes(data, {src}) = data'[dst].bytes /\ data'[dst].bytes \in Nat
      BY <2>1, <2>2, BytesOne, EntryFields
    <3>11. Bytes(data, StoreKey) \in Nat /\ Bytes(data, {dst}) \in Nat
      BY <3>4, BytesFinite
    <3>12. Bytes(data', StoreKey) = Bytes(data, StoreKey) - Bytes(data, {dst})
      BY <3>6, <3>8, <3>9, <3>10, <3>11
    <3> QED BY <3>2, <3>12
  <2> QED BY <2>5, <2>6, <2>7 DEF ValueInv
<1> QED BY <1>2, <1>3

\* MSETNX writes all keys or none.
LEMMA ValueMSetNX ==
    ASSUME StoreInv, MSetNX
    PROVE  ValueInv'
<1>1. CASE \E k \in StoreKey : Live(k)
  BY <1>1, ValueKept DEF MSetNX, StoreInv, history
<1>2. CASE \A k \in StoreKey : ~Live(k)
  <2>1. /\ data' = Put(StoreKey, Fresh(1, 0)) /\ Wrote(StoreKey, 1) /\ Ghost(StoreKey)
        /\ bytes' = bytes + Size(1) * Cardinality(StoreKey)
        /\ StoreKey \in SUBSET StoreKey /\ 0 \in Nat
    BY <1>2 DEF MSetNX
  <2> QED BY <1>2, <2>1, FreshWhenGone
<1> QED BY <1>1, <1>2

\* FLUSHALL.
LEMMA ValueFlushAll ==
    ASSUME ValueInv, FlushAll
    PROVE  ValueInv'
<1>1. bytes' = 0 /\ data' = Without(StoreKey) /\ UNCHANGED <<ref, lagging, tainted, mishap>>
  BY DEF FlushAll, history
<1>2. mishap = {} => bytes = BytesOf(StoreKey)
  BY DEF ValueInv, BytesExact
<1>3. BytesOf(StoreKey) \in Nat
  BY BytesOfType DEF ValueInv
<1>4. mishap = {} => bytes' = bytes - BytesOf(StoreKey)
  BY <1>1, <1>2, <1>3
<1>5. bytes' \in Int /\ StoreKey \in SUBSET StoreKey
  BY <1>1
<1> QED BY <1>1, <1>4, <1>5, ValueGone

\* All locks are held.
LEMMA StepApply ==
    ASSUME StoreInv, NEW c \in Client, Apply(c)
    PROVE  StoreInv'
<1>1. job[c] \in Job /\ JobInv /\ ValueInv
  BY DEF StoreInv, JobInv, JobTypes
<1>2. ValueInv'
  <2>1. CASE job[c].kind = "rename" /\ Rename(job[c].src, job[c].dst)
    <3>1. job[c].src \in StoreKey /\ job[c].dst \in StoreKey
      BY <1>1, <2>1, JobFields
    <3> QED BY <1>1, <2>1, <3>1, ValueRename
  <2>2. CASE MSetNX
    BY <2>2, ValueMSetNX
  <2>3. CASE FlushAll
    BY <1>1, <2>3, ValueFlushAll
  <2> QED BY <2>1, <2>2, <2>3 DEF Apply
<1>3. JobInv'
  <2>1. /\ job' = [job EXCEPT ![c] = [kind |-> "idle"]]
        /\ held' = [held EXCEPT ![c] = {}]
    BY DEF Apply, Done
  <2>2. need' = [need EXCEPT ![c] = need[c]] /\ need[c] \in SUBSET Shard
    BY <1>1 DEF JobInv, JobTypes, Apply
  <2>3. [kind |-> "idle"] \in Job
    BY JobMade
  <2> QED BY <1>1, <2>1, <2>2, <2>3, JobSet
<1> QED BY <1>2, <1>3, LoopKept DEF StoreInv, Apply

----------------------------------------------------------------------------
(* The loops *)

\* A step of one of the loops.
LEMMA LoopStep ==
    ASSUME LoopInv, UNCHANGED <<clocks, budget>>, sweep' \in SweepState, evict' \in EvictState,
           sweep'.pc # "wait" => sweep'.at <= now
    PROVE  LoopInv'
BY DEF LoopInv, clocks

\* The locals of the sweep while it is at work.
Sweeps == [pc : {"scan", "delete"}, at : Nat, left : (SUBSET Shard) \ {{}}, cand : SUBSET StoreKey]

\* What holds of the locals while the sweep is at work.
LEMMA Sweeping ==
    ASSUME LoopInv, sweep.pc # "wait"
    PROVE  /\ sweep \in Sweeps /\ sweep.at <= now
           /\ sweep.left \in SUBSET Shard /\ sweep.left # {} /\ sweep.cand \in SUBSET StoreKey
<1>1. sweep \in SweepState /\ sweep.at <= now
  BY DEF LoopInv
<1>2. sweep \in Sweeps
  BY <1>1 DEF SweepState, Sweeps
<1> QED BY <1>1, <1>2 DEF Sweeps

\* The states of the sweep.
LEMMA SweepMade ==
    /\ SweepIdle \in SweepState /\ SweepIdle.pc = "wait"
    /\ Sweeps \subseteq SweepState
BY DEF SweepIdle, SweepState, Sweeps

\* A sweep goes on to another shard, or to the deletes, with the time it began.
LEMMA SweepOn ==
    ASSUME NEW r \in Sweeps, NEW l \in (SUBSET Shard) \ {{}}, NEW x \in SUBSET StoreKey
    PROVE  /\ [r EXCEPT !.left = l] \in Sweeps /\ [r EXCEPT !.left = l].at = r.at
           /\ [r EXCEPT !.pc = "delete", !.cand = x] \in Sweeps
           /\ [r EXCEPT !.pc = "delete", !.cand = x].at = r.at
           /\ [r EXCEPT !.pc = "scan", !.left = l, !.cand = x] \in Sweeps
           /\ [r EXCEPT !.pc = "scan", !.left = l, !.cand = x].at = r.at
<1>1. [r EXCEPT !.left = l] \in Sweeps /\ [r EXCEPT !.left = l].at = r.at
  BY DEF Sweeps
<1>2. PICK p \in {"scan", "delete"}, q \in {"scan", "delete"} : p = "scan" /\ q = "delete"
  OBVIOUS
<1>3. [r EXCEPT !.pc = q, !.cand = x] \in Sweeps /\ [r EXCEPT !.pc = q, !.cand = x].at = r.at
  BY DEF Sweeps
<1>4. /\ [r EXCEPT !.pc = p, !.left = l, !.cand = x] \in Sweeps
      /\ [r EXCEPT !.pc = p, !.left = l, !.cand = x].at = r.at
  BY DEF Sweeps
<1> QED BY <1>1, <1>2, <1>3, <1>4

\* ttlLoop wakes up and reads the clock.
LEMMA StepSweepTick ==
    ASSUME StoreInv, SweepTick
    PROVE  StoreInv'
<1>1. ValueInv'
  BY ValueKept DEF StoreInv, SweepTick, history
<1>2. LoopInv'
  <2>1. LoopInv /\ now \in Nat /\ evict \in EvictState
    BY DEF StoreInv, LoopInv
  <2>2. PICK s : s = [pc |-> "scan", at |-> now, left |-> Shard, cand |-> {}]
    OBVIOUS
  <2>3. s \in SweepState
    <3>1. "scan" \in {"scan", "delete"} /\ Shard \in (SUBSET Shard) \ {{}} /\ {} \in SUBSET StoreKey
      BY ShardAssumption
    <3>2. s \in Sweeps
      BY <2>1, <2>2, <3>1 DEF Sweeps
    <3> QED BY <3>2, SweepMade
  <2>4. s.at <= now
    BY <2>1, <2>2
  <2>5. sweep' = s /\ evict' = evict /\ UNCHANGED <<clocks, budget>>
    BY <2>2 DEF SweepTick
  <2> QED BY <2>1, <2>3, <2>4, <2>5, LoopStep
<1> QED BY <1>1, <1>2, JobKept DEF StoreInv, SweepTick

\* ttlLoop collects the expired keys of a shard.
LEMMA StepSweepScan ==
    ASSUME StoreInv, SweepScan
    PROVE  StoreInv'
<1>1. ValueInv'
  BY ValueKept DEF StoreInv, SweepScan, history
<1>2. LoopInv'
  <2>1. LoopInv /\ evict \in EvictState /\ sweep.pc = "scan"
    BY DEF StoreInv, LoopInv, SweepScan
  <2>2. /\ sweep \in Sweeps /\ sweep.at <= now
        /\ sweep.left \in SUBSET Shard /\ sweep.left # {}
    BY <2>1, Sweeping
  <2>3. PICK s : s = Lowest(sweep.left)
    OBVIOUS
  <2>4. s \in sweep.left
    BY <2>2, <2>3, LowestShard
  <2>5. PICK x \in SUBSET StoreKey : x = {k \in Keys(s) : Has(k) /\ Expired(data[k], sweep.at)}
    BY DEF Keys
  <2>6. \/ sweep' = [sweep EXCEPT !.pc = "delete", !.cand = x]
        \/ sweep' = SweepIdle
        \/ sweep' = [sweep EXCEPT !.left = @ \ {s}] /\ sweep.left # {s}
    BY <2>3, <2>5, Zenon DEF SweepScan
  <2>7. sweep' \in SweepState /\ (sweep'.pc # "wait" => sweep'.at <= now)
    <3>1. PICK t : t = sweep'
      OBVIOUS
    <3>2. CASE t = [sweep EXCEPT !.pc = "delete", !.cand = x]
      <4>1. t \in Sweeps /\ t.at = sweep.at
        BY <2>2, <3>2, SweepOn
      <4> QED BY <2>2, <3>1, <4>1, SweepMade
    <3>3. CASE t = SweepIdle
      BY <3>1, <3>3, SweepMade
    <3>4. CASE t = [sweep EXCEPT !.left = @ \ {s}] /\ sweep.left # {s}
      <4>1. PICK l \in (SUBSET Shard) \ {{}} : l = sweep.left \ {s}
        BY <2>2, <2>4, <3>4
      <4>2. t = [sweep EXCEPT !.left = l]
        BY <3>4, <4>1
      <4>3. t \in Sweeps /\ t.at = sweep.at
        BY <2>2, <4>2, SweepOn
      <4> QED BY <2>2, <3>1, <4>3, SweepMade
    <3> QED BY <2>6, <3>1, <3>2, <3>3, <3>4
  <2>8. evict' = evict /\ UNCHANGED <<clocks, budget>>
    BY DEF SweepScan
  <2> QED BY <2>1, <2>7, <2>8, LoopStep
<1> QED BY <1>1, <1>2, JobKept DEF StoreInv, SweepScan

\* ttlLoop deletes the candidates that are expired still.
LEMMA StepSweepDelete ==
    ASSUME StoreInv, SweepDelete
    PROVE  StoreInv'
<1>1. LoopInv /\ evict \in EvictState /\ sweep.pc = "delete"
  BY DEF StoreInv, LoopInv, SweepDelete
<1>2. /\ sweep \in Sweeps /\ sweep.at <= now
      /\ sweep.left \in SUBSET Shard /\ sweep.left # {} /\ sweep.cand \in SUBSET StoreKey
  BY <1>1, Sweeping
<1>3. ValueInv'
  <2>1. PICK K \in SUBSET StoreKey : K = {k \in sweep.cand : Has(k) /\ Expired(data[k], sweep.at)}
    BY <1>2
  <2>2. Remove(K) /\ UNCHANGED history
    BY <2>1 DEF SweepDelete
  <2> QED BY <2>2, ValueRemove DEF StoreInv
<1>4. LoopInv'
  <2>1. PICK s : s = Lowest(sweep.left)
    OBVIOUS
  <2>2. s \in sweep.left
    BY <1>2, <2>1, LowestShard
  <2>3. \/ sweep' = SweepIdle
        \/ sweep' = [sweep EXCEPT !.pc = "scan", !.left = @ \ {s}, !.cand = {}] /\ sweep.left # {s}
    BY <2>1, Zenon DEF SweepDelete
  <2>4. sweep' \in SweepState /\ (sweep'.pc # "wait" => sweep'.at <= now)
    <3>1. PICK t : t = sweep'
      OBVIOUS
    <3>2. CASE t = SweepIdle
      BY <3>1, <3>2, SweepMade
    <3>3. CASE t = [sweep EXCEPT !.pc = "scan", !.left = @ \ {s}, !.cand = {}] /\ sweep.left # {s}
      <4>1. PICK l \in (SUBSET Shard) \ {{}}, x \in SUBSET StoreKey : l = sweep.left \ {s} /\ x = {}
        BY <1>2, <2>2, <3>3
      <4>2. t = [sweep EXCEPT !.pc = "scan", !.left = l, !.cand = x]
        BY <3>3, <4>1
      <4>3. t \in Sweeps /\ t.at = sweep.at
        BY <1>2, <4>2, SweepOn
      <4> QED BY <1>2, <3>1, <4>3, SweepMade
    <3> QED BY <2>3, <3>1, <3>2, <3>3
  <2>5. evict' = evict /\ UNCHANGED <<clocks, budget>>
    BY DEF SweepDelete
  <2> QED BY <1>1, <2>4, <2>5, LoopStep
<1> QED BY <1>3, <1>4, JobKept DEF StoreInv, SweepDelete

\* The states of the eviction loop.
LEMMA EvictMade ==
    /\ EvictIdle \in EvictState
    /\ \A l \in SUBSET Shard, x \in SUBSET StoreKey :
         [pc |-> "scan", left |-> l, snap |-> x] \in EvictState
BY DEF EvictIdle, EvictState

\* evictLoop finds the store over its cap.
LEMMA StepEvictCheck ==
    ASSUME StoreInv, EvictCheck
    PROVE  StoreInv'
<1>1. ValueInv'
  BY ValueKept DEF StoreInv, EvictCheck, history
<1>2. LoopInv'
  <2>1. LoopInv /\ sweep' = sweep /\ now' = now /\ UNCHANGED <<clocks, budget>>
    BY DEF StoreInv, EvictCheck, clocks
  <2>2. evict' \in EvictState
    <3>1. Shard \in SUBSET Shard /\ {} \in SUBSET StoreKey
      OBVIOUS
    <3> QED BY <3>1, EvictMade DEF EvictCheck
  <2> QED BY <2>1, <2>2, LoopStep DEF LoopInv
<1> QED BY <1>1, <1>2, JobKept DEF StoreInv, EvictCheck

\* evictLoop takes the snapshot of a shard.
LEMMA StepEvictScan ==
    ASSUME StoreInv, EvictScan
    PROVE  StoreInv'
<1>1. ValueInv'
  BY ValueKept DEF StoreInv, EvictScan, history
<1>2. LoopInv'
  <2>1. /\ LoopInv /\ sweep' = sweep /\ now' = now /\ UNCHANGED <<clocks, budget>>
        /\ evict \in EvictState /\ evict.pc = "scan"
    BY DEF StoreInv, EvictScan, clocks, LoopInv
  <2>2. evict \in [pc : {"scan"}, left : SUBSET Shard, snap : SUBSET StoreKey]
    BY <2>1 DEF EvictState
  <2>3. PICK l \in SUBSET Shard : l = evict.left \ {Lowest(evict.left)}
    BY <2>2
  <2>4. PICK x \in SUBSET StoreKey : x = evict.snap \cup {k \in Keys(Lowest(evict.left)) : Live(k)}
    BY <2>2 DEF Keys
  <2>5. evict' = [evict EXCEPT !.left = l, !.snap = x]
    BY <2>3, <2>4 DEF EvictScan
  <2>6. evict' \in [pc : {"scan"}, left : SUBSET Shard, snap : SUBSET StoreKey]
    BY <2>2, <2>5
  <2>7. evict' \in EvictState
    BY <2>6 DEF EvictState
  <2> QED BY <2>1, <2>7, LoopStep DEF LoopInv
<1> QED BY <1>1, <1>2, JobKept DEF StoreInv, EvictScan

\* evictLoop evicts a key of the snapshot.
LEMMA StepEvictDel ==
    ASSUME StoreInv, EvictDel
    PROVE  StoreInv'
<1>1. /\ LoopInv /\ sweep' = sweep /\ now' = now /\ UNCHANGED <<clocks, budget>>
      /\ evict \in EvictState /\ evict.pc = "scan"
  BY DEF StoreInv, EvictDel, clocks, LoopInv
<1>2. ValueInv'
  <2>1. CASE UNCHANGED <<data, bytes>>
    BY <2>1, ValueKept DEF StoreInv, EvictDel, history
  <2>2. CASE \E k \in evict.snap : Unlocked(ShardOf[k]) /\ Remove({k})
    <3>1. evict.snap \in SUBSET StoreKey
      BY <1>1 DEF EvictState
    <3>2. PICK k \in evict.snap : Remove({k})
      BY <2>2
    <3>3. {k} \in SUBSET StoreKey /\ UNCHANGED history
      BY <3>1 DEF EvictDel
    <3> QED BY <3>2, <3>3, ValueRemove DEF StoreInv
  <2> QED BY <2>1, <2>2 DEF EvictDel
<1>3. LoopInv'
  <2>1. evict' \in EvictState
    BY EvictMade DEF EvictDel
  <2> QED BY <1>1, <2>1, LoopStep DEF LoopInv
<1> QED BY <1>2, <1>3, JobKept DEF StoreInv, EvictDel

\* The clock and its cached copy.
LEMMA StepClock ==
    ASSUME StoreInv, Tick \/ Refresh
    PROVE  StoreInv'
<1>1. ValueInv'
  BY ValueKept DEF StoreInv, Tick, Refresh, history
<1>2. LoopInv'
  <2>1. /\ LoopInv /\ now \in Nat /\ cached \in Nat /\ cached <= now /\ UNCHANGED <<loops, budget>>
    BY DEF StoreInv, LoopInv, Tick, Refresh
  <2>2. now' \in Nat /\ cached' \in Nat /\ cached' <= now' /\ now <= now'
    BY <2>1 DEF Tick, Refresh
  <2>3. sweep.pc # "wait" => sweep.at \in Nat /\ sweep.at <= now
    BY <2>1, Sweeping DEF Sweeps
  <2>4. sweep.pc # "wait" => sweep.at <= now'
    BY <2>1, <2>2, <2>3
  <2> QED BY <2>1, <2>2, <2>4 DEF LoopInv, loops
<1> QED BY <1>1, <1>2, JobKept DEF StoreInv, Tick, Refresh

\* A step that changes nothing.
LEMMA StepStutter ==
    ASSUME StoreInv, UNCHANGED storeVars PROVE StoreInv'
<1>1. UNCHANGED <<data, bytes, ref, lagging, tainted, mishap>> /\ UNCHANGED jobs
      /\ UNCHANGED <<clocks, loops, budget>>
  BY DEF storeVars, history
<1> QED BY <1>1, ValueKept, JobKept, LoopKept DEF StoreInv

\* The invariant holds of the empty keyspace.
LEMMA StoreStarts == StoreInit => StoreInv
<1> SUFFICES ASSUME StoreInit PROVE StoreInv
  OBVIOUS
<1>1. DOMAIN data = {} /\ bytes = 0
  BY DEF StoreInit
<1>2. ValueInv
  <2>1. ValueTypes
    BY <1>1, StoreBounds DEF StoreInit, ValueTypes
  <2>2. CounterExact
    BY <1>1 DEF CounterExact
  <2>3. BytesExact
    <3>1. StoreKey \cap DOMAIN data = {}
      BY <1>1
    <3> QED BY <1>1, <3>1, BytesNone, BytesOfData DEF BytesExact
  <2> QED BY <2>1, <2>2, <2>3 DEF ValueInv
<1>3. JobInv
  BY JobMade DEF StoreInit, JobInv, JobTypes, LockOrder
<1>4. LoopInv
  BY SweepMade, EvictMade, StoreBounds DEF StoreInit, LoopInv
<1> QED BY <1>2, <1>3, <1>4 DEF StoreInv

----------------------------------------------------------------------------
(* Every step *)

\* Every action preserves the invariant.
LEMMA StoreStep ==
    ASSUME StoreInv, StoreNext PROVE StoreInv'
<1>1. ASSUME Command PROVE StoreInv'
  <2>1. ASSUME NEW k \in StoreKey, NEW ttl \in {0, 1}, Set(k, ttl) \/ SetNX(k, ttl) \/ Expire(k, ttl)
        PROVE  StoreInv'
    BY <2>1, StepSet, StepSetNX, StepExpire
  <2>2. ASSUME NEW k \in StoreKey,
               GetSet(k) \/ AppendStr(k) \/ IncrByFloat(k) \/ Del(k) \/ IncrFast(k)
        PROVE  StoreInv'
    BY <2>2, StepGetSet, StepAppend, StepIncrByFloat, StepDel, StepIncrFast
  <2>3. ASSUME NEW c \in Client,
               MSetBegin(c) \/ LockBegin(c) \/ \E k \in StoreKey : IncrMiss(c, k)
        PROVE  StoreInv'
    BY <2>3, StepMSetBegin, StepLockBegin, StepIncrMiss
  <2> QED BY <1>1, <2>1, <2>2, <2>3 DEF Command
<1>2. ASSUME NEW c \in Client, ClientStep(c) PROVE StoreInv'
  BY <1>2, StepIncrSlow, StepApply, StepMSetShard, StepLock DEF ClientStep
<1>3. ASSUME SweepStep PROVE StoreInv'
  BY <1>3, StepSweepTick, StepSweepScan, StepSweepDelete DEF SweepStep
<1>4. ASSUME EvictStep PROVE StoreInv'
  BY <1>4, StepEvictCheck, StepEvictScan, StepEvictDel DEF EvictStep
<1> QED BY <1>1, <1>2, <1>3, <1>4, StepClock DEF StoreNext

\* The inductive invariant of the keyspace holds in every reachable state:
\* the map, its byte counter and its history of values, the clients' locks in
\* shard order, the clocks and the locals of ttlLoop and evictLoop.
THEOREM StoreInductive == StoreSpec => []StoreInv
<1>1. StoreInv /\ [StoreNext]_storeVars => StoreInv'
  BY StoreStep, StepStutter
<1> QED BY <1>1, StoreStarts, PTL DEF StoreSpec

\* INCR's two paths lose no increment: what GET answers, and Str unless the fast
\* path ran since, is what the commands add up to (Store.Incr, Store.Append,
\* Store.Rename, expiry and eviction).
THEOREM CounterCorrect == StoreSpec => []CounterExact
<1>1. StoreInv => CounterExact
  BY DEF StoreInv, ValueInv
<1> QED BY <1>1, StoreInductive, PTL

\* Store.bytes, on which evictLoop acts, is the size of what is stored, whatever
\* the order of writes, deletes, renames, sweeps and evictions.
THEOREM BytesCorrect == StoreSpec => []BytesExact
<1>1. StoreInv => BytesExact
  BY DEF StoreInv, ValueInv
<1> QED BY <1>1, StoreInductive, PTL

\* The client whose lowest missing shard is highest can go on.
LEMMA NobodyStuck == StoreInv => NoLockCycle
<1> SUFFICES ASSUME StoreInv, NEW c0 \in Client, Locking(c0)
             PROVE  \E c \in Client : Locking(c) /\
                      (need[c] = {} \/ \E s \in need[c] : Unlocked(s) /\ \A t \in need[c] : s <= t)
  BY DEF NoLockCycle
<1> DEFINE L == {c \in Client : Locking(c)}
           m == [c \in L |-> Lowest(need[c])]
<1>0. JobTypes /\ LockOrder
  BY DEF StoreInv, JobInv
<1>1. CASE \E c \in L : need[c] = {}
  BY <1>1
<1>2. CASE \A c \in L : need[c] # {}
  <2>1. \A c \in L : need[c] \in SUBSET Shard /\ Lowest(need[c]) \in need[c]
                     /\ \A t \in need[c] : Lowest(need[c]) <= t
    BY <1>0, <1>2, LowestShard DEF JobTypes
  <2>2. m \in [L -> Shard] /\ L # {}
    BY <2>1
  <2>3. \E x \in L : \A y \in L : m[y] <= m[x]
    <3> HIDE DEF L, m
    <3> QED BY <2>2, HighestShard
  <2>4. PICK c \in L : \A d \in L : Lowest(need[d]) <= Lowest(need[c])
    BY <2>3
  <2>5. ASSUME NEW d \in Client, Lowest(need[c]) \in held[d] PROVE FALSE
    <3>1. d \in L
      BY <1>0, <2>5 DEF LockOrder
    <3>2. Lowest(need[c]) < Lowest(need[d])
      BY <1>0, <2>1, <2>5, <3>1 DEF LockOrder
    <3>3. Lowest(need[d]) <= Lowest(need[c]) /\ Lowest(need[d]) \in Nat /\ Lowest(need[c]) \in Nat
      BY <2>1, <2>4, <3>1, ShardAssumption
    <3> QED BY <3>2, <3>3
  <2>6. Unlocked(Lowest(need[c]))
    BY <2>5 DEF Unlocked
  <2> QED BY <2>1, <2>6
<1> QED BY <1>1, <1>2

\* Commands on several shards never wait for each other in a cycle (lockTwoW,
\* lockShardsW, lockAllW), and all state keeps its type.
THEOREM LocksCorrect == StoreSpec => []LocksConsistent
<1>1. StoreInv => LocksConsistent
  BY NobodyStuck, StoreInvTypes DEF LocksConsistent
<1> QED BY <1>1, StoreInductive, PTL

\* The step that ends the deletes of a shard removes expired keys only.
LEMMA SweepSpares ==
    ASSUME StoreInv, StoreNext, sweep.pc = "delete", sweep' # sweep
    PROVE  \A k \in DOMAIN data \ DOMAIN data' : Expired(data[k], now)
<1>1. SweepDelete
  BY DEF StoreNext, Command, Set, SetNX, Expire, GetSet, AppendStr, IncrByFloat, Del, IncrFast,
         MSetBegin, LockBegin, IncrMiss, ClientStep, IncrSlow, Apply, MSetShard, Lock,
         SweepStep, SweepTick, SweepScan, EvictStep, EvictCheck, EvictScan, EvictDel,
         Tick, Refresh, loops
<1>2. sweep.at \in Nat /\ sweep.at <= now /\ now \in Nat
  BY Sweeping DEF StoreInv, LoopInv, Sweeps
<1>3. ASSUME NEW k \in DOMAIN data \ DOMAIN data' PROVE Expired(data[k], now)
  <2>1. Expired(data[k], sweep.at)
    BY <1>1, <1>3 DEF SweepDelete, Remove, Without
  <2>2. data[k].exp \in Nat
    BY EntryFields DEF StoreInv, ValueInv, ValueTypes
  <2> QED BY <1>2, <2>1, <2>2 DEF Expired
<1> QED BY <1>3

\* ttlLoop deletes a key only while it is expired, also when it was written,
\* renamed or given a deadline between the scan and the delete.
THEOREM SweepCorrect == StoreSpec => SweepSparesLive
<1>1. StoreInv /\ [StoreNext]_storeVars =>
        [sweep.pc = "delete" /\ sweep' # sweep =>
           \A k \in DOMAIN data \ DOMAIN data' : Expired(data[k], now)]_storeVars
  BY SweepSpares
<1> QED BY <1>1, StoreInductive, PTL DEF StoreSpec, SweepSparesLive

=============================================================================
