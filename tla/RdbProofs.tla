------------------------------ MODULE RdbProofs ------------------------------
(***************************************************************************)
(* Rdb keeps its types; the snapshot file loads after any crash as long as *)
(* no two savers share the temporary name; what was reported saved stays   *)
(* in it; Stop saves the keyspace.  For any inodes and bounds.             *)
(***************************************************************************)
EXTENDS Rdb, TLAPS

\* Past the export a saver has exactly one keyspace in hand.
Shapes == \A p \in Saver : pc[p] \notin {"idle", "export"} => \E K \in SUBSET Nat : snap[p] = {K}

-----------------------------------------------------------------------------
(* Types *)

\* The start with no file at all.
LEMMA InitTypeOK == Init => TypeOK /\ Shapes
<1> SUFFICES ASSUME Init PROVE TypeOK /\ Shapes
  OBVIOUS
<1>1. \A p \in Saver : fd[p] # None <=> Open(p)
  BY DEF Init, Open
<1>2. content \in [Inode -> [Block -> SUBSET SUBSET Nat]]
  BY DEF Init, Blank
<1>3. TypeOK
  BY <1>1, <1>2, RdbBounds DEF Init, TypeOK
<1>4. Shapes
  BY DEF Init, Shapes
<1> QED BY <1>3, <1>4

\* No step of a saver, of the shutdown or of the disk leaves the types.
LEMMA StepTypeOK == TypeOK /\ Shapes /\ [Next]_vars => TypeOK' /\ Shapes'
<1> SUFFICES ASSUME TypeOK, Shapes, [Next]_vars PROVE TypeOK' /\ Shapes'
  OBVIOUS
<1> USE RdbBounds
<1>0. /\ \A p \in Saver : Open(p) => fd[p] \in Inode
      /\ \A p \in Saver : snap[p] \in SUBSET SUBSET Nat
  BY DEF TypeOK
<1>a. ASSUME NEW p \in Saver, End(p), mishap' \subseteq {"shared", "older", "undone", "final", "unread"},
             data' \in SUBSET Nat, saved' \in SUBSET Nat, due' \in SUBSET Nat,
             exports' \in Nat, newest' \in Nat, nth' \in [Saver -> Nat],
             {path', tmp', diskPath'} \subseteq Inode \cup {None},
             dirty' = dirty, content' = content, up' = up,
             writes' \in Nat, saves' \in Nat, faults' \in Nat
      PROVE  TypeOK' /\ Shapes'
  <2>1. /\ pc' = [pc EXCEPT ![p] = "idle"] /\ snap' = [snap EXCEPT ![p] = {}]
        /\ fd' = [fd EXCEPT ![p] = None] /\ busy' \in BOOLEAN
        /\ stop' \in {"no", "called", "final", "done"}
    BY <1>a DEF End, TypeOK
  <2>2. /\ pc' \in [Saver -> {"idle", "export", "create", "first", "second", "sync", "rename"}]
        /\ fd' \in [Saver -> Inode \cup {None}] /\ snap' \in [Saver -> SUBSET SUBSET Nat]
    BY <2>1 DEF TypeOK
  <2>3. \A q \in Saver : fd'[q] # None <=> Open(q)'
    BY <2>1 DEF TypeOK, Open
  <2>4. Shapes'
    BY <2>1 DEF TypeOK, Shapes
  <2> QED BY <1>a, <2>1, <2>2, <2>3, <2>4 DEF TypeOK
<1>b. ASSUME NEW p \in Saver, NEW there \in {"export", "create", "second", "sync", "rename"},
             pc' = [pc EXCEPT ![p] = there],
             Open(p) <=> there \in {"second", "sync", "rename"},
             pc[p] \in {"idle", "export"} => there \in {"export"},
             UNCHANGED <<snap, fd>>
      PROVE  /\ pc' \in [Saver -> {"idle", "export", "create", "first", "second", "sync", "rename"}]
             /\ \A q \in Saver : fd'[q] # None <=> Open(q)'
             /\ Shapes'
  BY <1>b DEF TypeOK, Shapes, Open
<1>1. CASE Write
  <2>1. /\ writes' = writes + 1 /\ data' = data \cup {writes + 1}
        /\ UNCHANGED <<files, savers, up, stop, saves, faults, history>>
    BY <1>1 DEF Write
  <2>2. writes' \in Nat /\ data' \in SUBSET Nat
    BY <2>1 DEF TypeOK
  <2> QED BY <2>1, <2>2 DEF TypeOK, Shapes, Open, files, savers, history, order
<1>2. ASSUME NEW p \in Saver, Begin(p), busy' \in BOOLEAN,
             UNCHANGED <<keyspace, files, snap, fd, up, stop, faults, history>>
      PROVE  TypeOK' /\ Shapes'
  <2>1. pc[p] = "idle" /\ pc' = [pc EXCEPT ![p] = "export"] /\ saves' \in Nat
    BY <1>2 DEF Begin, TypeOK
  <2>2. ~Open(p)
    BY <2>1 DEF Open
  <2> QED BY <1>2, <1>b, <2>1, <2>2 DEF TypeOK, Shapes, keyspace, files, history, order
<1>3. CASE Save
  BY <1>2, <1>3 DEF Save, Saver, TypeOK
<1>4. CASE BgSave
  BY <1>2, <1>4 DEF BgSave, Saver
<1>5. CASE Tick
  BY <1>2, <1>5 DEF Tick, Saver, TypeOK
<1>6. ASSUME NEW p \in Saver, Export(p) PROVE TypeOK' /\ Shapes'
  <2>1. /\ snap' = [snap EXCEPT ![p] = {data}] /\ pc' = [pc EXCEPT ![p] = "create"]
        /\ pc[p] = "export" /\ exports' = exports + 1 /\ nth' = [nth EXCEPT ![p] = exports']
        /\ UNCHANGED <<keyspace, files, fd, busy, up, stop, saves, faults, saved, due, newest, mishap>>
    BY <1>6 DEF Export
  <2>2. /\ snap' \in [Saver -> SUBSET SUBSET Nat] /\ exports' \in Nat /\ nth' \in [Saver -> Nat]
        /\ pc' \in [Saver -> {"idle", "export", "create", "first", "second", "sync", "rename"}]
    BY <2>1 DEF TypeOK
  <2>3. \A q \in Saver : fd'[q] # None <=> Open(q)'
    BY <2>1 DEF TypeOK, Open
  <2>4. Shapes'
    BY <2>1 DEF TypeOK, Shapes
  <2> QED BY <2>1, <2>2, <2>3, <2>4 DEF TypeOK, keyspace, files
<1>7. ASSUME NEW p \in Saver, Create(p) PROVE TypeOK' /\ Shapes'
  <2>1. PICK i \in Inode :
           /\ tmp' = i /\ fd' = [fd EXCEPT ![p] = i]
           /\ content' = [content EXCEPT ![i] = Blank] /\ dirty' = [dirty EXCEPT ![i] = {}]
    BY <1>7 DEF Create, Free, TypeOK
  <2>2. /\ pc[p] = "create" /\ pc' = [pc EXCEPT ![p] = "first"]
        /\ mishap' \subseteq {"shared", "older", "undone", "final", "unread"}
        /\ UNCHANGED <<keyspace, path, diskPath, snap, busy, up, stop, saves, faults, saved, due, order>>
    BY <1>7 DEF Create, TypeOK
  <2>3. content' \in [Inode -> [Block -> SUBSET SUBSET Nat]] /\ dirty' \in [Inode -> SUBSET Block]
    BY <2>1 DEF Blank, TypeOK
  <2>4. \A q \in Saver : fd'[q] # None <=> Open(q)'
    BY <2>1, <2>2 DEF TypeOK, Open
  <2>5. /\ pc' \in [Saver -> {"idle", "export", "create", "first", "second", "sync", "rename"}]
        /\ fd' \in [Saver -> Inode \cup {None}]
        /\ Shapes'
    BY <2>1, <2>2 DEF TypeOK, Shapes
  <2> QED BY <2>1, <2>2, <2>3, <2>4, <2>5 DEF TypeOK, keyspace, order
<1>8. ASSUME NEW p \in Saver, NEW b \in Block, Put(p, b), Open(p)
      PROVE  content' \in [Inode -> [Block -> SUBSET SUBSET Nat]] /\ dirty' \in [Inode -> SUBSET Block]
  BY <1>0, <1>8 DEF Put, TypeOK
<1>9. ASSUME NEW p \in Saver, Encode(p) \/ FinishGzip(p) PROVE TypeOK' /\ Shapes'
  <2>1. /\ \E there \in {"second", "sync"} : pc' = [pc EXCEPT ![p] = there]
        /\ \E b \in Block : Put(p, b)
        /\ pc[p] \in {"first", "second"}
        /\ UNCHANGED <<keyspace, path, tmp, diskPath, snap, fd, busy, up, stop, saves, faults, history>>
    BY <1>9 DEF Encode, FinishGzip, Block
  <2>2. Open(p)
    BY <2>1 DEF Open
  <2> QED BY <1>8, <1>b, <2>1, <2>2 DEF TypeOK, Shapes, keyspace, history, order
<1>10. ASSUME NEW p \in Saver, Sync(p) PROVE TypeOK' /\ Shapes'
  <2>1. /\ pc[p] = "sync" /\ pc' = [pc EXCEPT ![p] = "rename"]
        /\ dirty' = [dirty EXCEPT ![fd[p]] = {}]
        /\ UNCHANGED <<keyspace, content, path, tmp, diskPath, snap, fd, busy, up, stop, saves, faults, history>>
    BY <1>10 DEF Sync
  <2>2. Open(p) /\ dirty' \in [Inode -> SUBSET Block]
    BY <1>0, <2>1 DEF Open, TypeOK
  <2> QED BY <1>b, <2>1, <2>2 DEF TypeOK, Shapes, keyspace, history, order
<1>11. ASSUME NEW p \in Saver, Rename(p) PROVE TypeOK' /\ Shapes'
  <2>1. /\ path' = tmp /\ tmp' = None /\ diskPath' \in {diskPath, path} /\ End(p)
        /\ saved' = saved \cup UNION snap[p] /\ newest' \in {newest, nth[p]}
        /\ mishap' \subseteq mishap \cup {"older"}
        /\ UNCHANGED <<keyspace, content, dirty, up, saves, faults, due, exports, nth>>
    BY <1>11 DEF Rename
  <2>2. saved' \in SUBSET Nat
    BY <1>0, <2>1 DEF TypeOK
  <2>3. /\ mishap' \subseteq {"shared", "older", "undone", "final", "unread"}
        /\ {path', tmp', diskPath'} \subseteq Inode \cup {None}
        /\ data' \in SUBSET Nat /\ due' \in SUBSET Nat
        /\ writes' \in Nat /\ saves' \in Nat /\ faults' \in Nat
        /\ exports' \in Nat /\ newest' \in Nat /\ nth' \in [Saver -> Nat]
    BY <2>1 DEF TypeOK, keyspace
  <2> QED BY <1>a, <2>1, <2>2, <2>3
<1>12. ASSUME NEW p \in Saver, RenameMissing(p) \/ Fail(p) \/ FailKeeps(p) PROVE TypeOK' /\ Shapes'
  <2>1. /\ End(p) /\ mishap' \subseteq mishap \cup {"final"}
        /\ tmp' = tmp \/ tmp' = None
        /\ faults' = faults \/ (faults > 0 /\ faults' = faults - 1)
        /\ UNCHANGED <<keyspace, content, dirty, path, diskPath, up, saves, saved, due, order>>
    BY <1>12 DEF RenameMissing, Fail, FailKeeps, Failed, Fault, files
  <2>2. /\ mishap' \subseteq {"shared", "older", "undone", "final", "unread"}
        /\ {path', tmp', diskPath'} \subseteq Inode \cup {None}
        /\ data' \in SUBSET Nat /\ saved' \in SUBSET Nat /\ due' \in SUBSET Nat
        /\ exports' \in Nat /\ newest' \in Nat /\ nth' \in [Saver -> Nat]
        /\ writes' \in Nat /\ saves' \in Nat /\ faults' \in Nat
    BY <2>1 DEF TypeOK, keyspace, order
  <2> QED BY <1>a, <2>1, <2>2
<1>13. CASE Stop
  <2>1. /\ due' \in {due, data} /\ stop' \in {"called", "done"} /\ saves' = saves + 1
        /\ UNCHANGED <<keyspace, files, savers, up, faults, saved, order, mishap>>
    BY <1>13 DEF Stop
  <2>2. due' \in SUBSET Nat /\ saves' \in Nat
    BY <2>1 DEF TypeOK
  <2> QED BY <2>1, <2>2 DEF TypeOK, Shapes, Open, keyspace, files, savers, order
<1>14. CASE FinalSave
  <2>1. /\ "tick" \in Saver /\ pc["tick"] = "idle" /\ pc' = [pc EXCEPT !["tick"] = "export"]
        /\ stop' = "final"
        /\ UNCHANGED <<keyspace, files, snap, fd, busy, up, saves, faults, history>>
    BY <1>14 DEF FinalSave, Saver
  <2>2. ~Open("tick")
    BY <2>1 DEF Open
  <2> QED BY <1>b, <2>1, <2>2 DEF TypeOK, Shapes, keyspace, files, history, order
<1>15. ASSUME Down, stop' = "no", faults' \in Nat, content' \in [Inode -> [Block -> SUBSET SUBSET Nat]],
              dirty' \in [Inode -> SUBSET Block], {path', tmp', diskPath'} \subseteq Inode \cup {None},
              mishap' \subseteq {"shared", "older", "undone", "final", "unread"}
       PROVE  TypeOK' /\ Shapes'
  <2>1. \A p \in Saver : pc'[p] = "idle" /\ fd'[p] = None /\ snap'[p] = {}
    BY <1>15 DEF Down
  <2>2. \A p \in Saver : fd'[p] # None <=> Open(p)'
    BY <2>1 DEF Open
  <2>3. Shapes'
    BY <2>1 DEF Shapes
  <2> QED BY <1>15, <2>2, <2>3 DEF Down, TypeOK, order
<1>16. CASE Kill
  <2>1. faults' \in Nat /\ UNCHANGED <<files, mishap>> /\ Down /\ stop' = "no"
    BY <1>16 DEF Kill, Fault, TypeOK
  <2> QED BY <1>15, <2>1 DEF TypeOK, files
<1>17. CASE PowerLoss
  <2>1. faults' \in Nat /\ Down /\ stop' = "no" /\ dirty' = [i \in Inode |-> {}]
    BY <1>17 DEF PowerLoss, Fault, TypeOK
  <2>2. /\ {path', tmp', diskPath'} \subseteq Inode \cup {None}
        /\ mishap' \subseteq {"shared", "older", "undone", "final", "unread"}
    BY <1>17 DEF PowerLoss, TypeOK
  <2>3. PICK lost \in SUBSET Block :
           content' = [i \in Inode |-> [b \in Block |->
               IF b \in lost \cap dirty[i] THEN {} ELSE content[i][b]]]
    BY <1>17 DEF PowerLoss
  <2>4. content' \in [Inode -> [Block -> SUBSET SUBSET Nat]]
    BY <2>3 DEF TypeOK
  <2> QED BY <1>15, <2>1, <2>2, <2>4
<1>18. CASE Restart
  <2>1. InFile \in SUBSET Nat
    <3>1. CASE path = None
      BY <3>1 DEF InFile
    <3>2. CASE path # None
      <4>1. path \in Inode /\ 1 \in Block
        BY <3>2 DEF TypeOK, Block
      <4>2. content[path][1] \in SUBSET SUBSET Nat
        BY <4>1 DEF TypeOK
      <4> QED BY <3>2, <4>2 DEF InFile
    <3> QED BY <3>1, <3>2
  <2>2. /\ up' = TRUE /\ data' \in {InFile, {}} /\ faults' \in Nat
        /\ mishap' \subseteq mishap \cup {"unread"}
        /\ UNCHANGED <<writes, files, savers, stop, saves, saved, due, order>>
    BY <1>18 DEF Restart, Fault, TypeOK
  <2> QED BY <2>1, <2>2 DEF TypeOK, Shapes, Open, files, savers, order
<1>19. CASE UNCHANGED vars
  BY <1>19 DEF vars, TypeOK, Shapes, Open, keyspace, files, savers, history, order
<1> QED BY <1>1, <1>3, <1>4, <1>5, <1>6, <1>7, <1>9, <1>10, <1>11, <1>12, <1>13, <1>14,
           <1>16, <1>17, <1>18, <1>19 DEF Next, SaverStep

\* For any inodes and bounds the savers' fields keep their types, and
\* a saver has a file open exactly between Create and its return.
THEOREM TypeCorrect == Spec => []TypeOK
<1>1. Spec => [](TypeOK /\ Shapes)
  BY InitTypeOK, StepTypeOK, PTL DEF Spec
<1> QED BY <1>1, PTL

-----------------------------------------------------------------------------
(* The file loads *)

\* One saver at a time has a file open, and it is the one the temporary name
\* refers to, apart from the snapshot and from what the disk has for it; it is
\* filled block by block and clean when it is renamed.
Stages ==
    /\ \A p, q \in Saver : Open(p) /\ Open(q) => p = q
    /\ \A p \in Saver : Open(p) => tmp = fd[p]
    /\ tmp # None => tmp # path /\ tmp # diskPath
    /\ \A p \in Saver :
         /\ pc[p] \in {"second", "sync", "rename"} => content[fd[p]][1] = snap[p]
         /\ pc[p] \in {"sync", "rename"} => content[fd[p]][2] = snap[p]
         /\ pc[p] = "rename" => dirty[fd[p]] = {}

\* A snapshot file is whole and on disk, the current one and the one a power
\* failure may bring back.
Kept == \A i \in {path, diskPath} : i # None => Whole(i) /\ dirty[i] = {}

FileInv == "shared" \notin mishap => Stages /\ Kept

\* Each step keeps it, or two savers share the name.
LEMMA StepFile == TypeOK /\ Shapes /\ FileInv /\ [Next]_vars => FileInv'
<1> SUFFICES ASSUME TypeOK, Shapes, FileInv, [Next]_vars, "shared" \notin mishap'
             PROVE  Stages' /\ Kept'
  BY DEF FileInv
<1> USE RdbBounds
<1>0. /\ \A p \in Saver : Open(p) => fd[p] \in Inode
      /\ \A p \in Saver : fd[p] # None <=> Open(p)
      /\ content \in [Inode -> [Block -> SUBSET SUBSET Nat]] /\ dirty \in [Inode -> SUBSET Block]
      /\ pc \in [Saver -> {"idle", "export", "create", "first", "second", "sync", "rename"}]
      /\ fd \in [Saver -> Inode \cup {None}] /\ snap \in [Saver -> SUBSET SUBSET Nat]
      /\ path \in Inode \cup {None} /\ tmp \in Inode \cup {None} /\ diskPath \in Inode \cup {None}
      /\ 1 \in Block /\ 2 \in Block
  BY DEF TypeOK, Shapes, Block
<1>a. ASSUME "shared" \notin mishap,
             \A p \in Saver : pc'[p] = pc[p] \/ (~Open(p) /\ ~Open(p)'),
             \A p \in Saver : Open(p) => snap'[p] = snap[p] /\ fd'[p] = fd[p],
             UNCHANGED files
      PROVE  Stages' /\ Kept'
  <2>1. Stages /\ Kept
    BY <1>a DEF FileInv
  <2>2. \A p \in Saver : Open(p)' => Open(p) /\ pc'[p] = pc[p] /\ snap'[p] = snap[p] /\ fd'[p] = fd[p]
    BY <1>a DEF Open
  <2>3. \A p \in Saver : pc'[p] \in {"second", "sync", "rename"} => Open(p)'
    BY DEF Open
  <2>4. Stages'
    BY <1>a, <2>1, <2>2, <2>3 DEF Stages, files
  <2>5. Kept'
    BY <1>a, <2>1 DEF Kept, Whole, files
  <2> QED BY <2>4, <2>5
<1>b. ASSUME "shared" \notin mishap, \A p \in Saver : ~Open(p)',
             \A i \in Inode : dirty[i] = {} => content'[i] = content[i] /\ dirty'[i] = {},
             \/ tmp' = None
             \/ tmp' \in {tmp, None} /\ path' \in {path, diskPath} /\ diskPath' \in {path, diskPath},
             \A i \in {path', diskPath'} : i \in {path, diskPath} \/ (i \in Inode /\ Whole(i) /\ dirty[i] = {})
      PROVE  Stages' /\ Kept'
  <2>1. Stages /\ Kept
    BY <1>b DEF FileInv
  <2>2. Stages'
    BY <1>b, <2>1 DEF Stages, Open
  <2>3. \A i \in {path', diskPath'} : i # None => i \in Inode /\ Whole(i) /\ dirty[i] = {}
    BY <1>0, <1>b, <2>1 DEF Kept
  <2>4. Kept'
    BY <1>b, <2>3 DEF Kept, Whole
  <2> QED BY <2>2, <2>4
<1>1. ASSUME NEW p \in Saver, pc[p] \in {"idle", "export", "create"},
             pc' = [pc EXCEPT ![p] = "export"] \/ pc' = [pc EXCEPT ![p] = "create"] \/ pc' = pc,
             \A q \in Saver : q # p => snap'[q] = snap[q],
             UNCHANGED <<files, fd, mishap>>
      PROVE  Stages' /\ Kept'
  <2>1. \A q \in Saver : pc'[q] = pc[q] \/ (~Open(q) /\ ~Open(q)')
    BY <1>0, <1>1 DEF Open
  <2>2. \A q \in Saver : Open(q) => snap'[q] = snap[q] /\ fd'[q] = fd[q]
    BY <1>1 DEF Open
  <2> QED BY <1>1, <1>a, <2>1, <2>2
<1>2. CASE Save \/ BgSave \/ Tick \/ FinalSave
  BY <1>1, <1>2 DEF Save, BgSave, Tick, FinalSave, Begin, Saver, history
<1>3. ASSUME NEW p \in Saver, Export(p) PROVE Stages' /\ Kept'
  <2>1. /\ pc[p] = "export"
        /\ pc' = [pc EXCEPT ![p] = "create"] \/ pc' = pc
        /\ \A q \in Saver : q # p => snap'[q] = snap[q]
        /\ UNCHANGED <<files, fd, mishap>>
    BY <1>0, <1>3 DEF Export, history
  <2> QED BY <1>1, <2>1
<1>4. ASSUME NEW p \in Saver, Create(p) PROVE Stages' /\ Kept'
  <2>1. "shared" \notin mishap /\ \A q \in Saver : ~Open(q)
    BY <1>4 DEF Create
  <2>2. Stages /\ Kept
    BY <2>1 DEF FileInv
  <2>3. PICK i \in IF tmp # None THEN {tmp} ELSE Free :
           /\ tmp' = i /\ fd' = [fd EXCEPT ![p] = i]
           /\ content' = [content EXCEPT ![i] = Blank] /\ dirty' = [dirty EXCEPT ![i] = {}]
    BY <1>4 DEF Create
  <2>4. i # path /\ i # diskPath /\ i \in Inode
    BY <1>0, <2>2, <2>3 DEF Stages, Free
  <2>5. /\ pc[p] = "create" /\ pc' = [pc EXCEPT ![p] = "first"] /\ UNCHANGED <<path, diskPath, snap>>
    BY <1>4 DEF Create
  <2>6. \A q \in Saver : (Open(q)' => q = p) /\ pc'[q] \notin {"second", "sync", "rename"}
    BY <1>0, <2>1, <2>5 DEF Open
  <2>7. Stages'
    BY <1>0, <2>3, <2>4, <2>5, <2>6 DEF Stages
  <2>8. Kept'
    BY <1>0, <2>2, <2>3, <2>4, <2>5 DEF Kept, Whole
  <2> QED BY <2>7, <2>8
<1>5. ASSUME NEW p \in Saver, Encode(p) \/ FinishGzip(p) \/ Sync(p) PROVE Stages' /\ Kept'
  <2>1. /\ Open(p) /\ UNCHANGED <<path, tmp, diskPath, snap, fd, mishap>>
    BY <1>5 DEF Encode, FinishGzip, Sync, Open, history
  <2>2. Stages /\ Kept
    BY <2>1 DEF FileInv
  <2> DEFINE i == fd[p]
  <2>3. i \in Inode /\ i = tmp /\ i # path /\ i # diskPath
    BY <1>0, <2>1, <2>2 DEF Stages
  <2>4. \A q \in Saver : q # p => ~Open(q)
    BY <2>1, <2>2 DEF Stages
  <2>5. /\ \E there \in {"second", "sync", "rename"} : pc' = [pc EXCEPT ![p] = there]
        /\ \A j \in Inode : j # i => content'[j] = content[j] /\ dirty'[j] = dirty[j]
    BY <1>0, <1>5, <2>3 DEF Encode, FinishGzip, Sync, Put
  <2>6. \A q \in Saver : Open(q)' => q = p
    BY <1>0, <2>4, <2>5 DEF Open
  <2>7. /\ pc'[p] \in {"second", "sync", "rename"} => content'[i][1] = snap[p]
        /\ pc'[p] \in {"sync", "rename"} => content'[i][2] = snap[p]
        /\ pc'[p] = "rename" => dirty'[i] = {}
    <3>1. CASE Encode(p)
      BY <1>0, <2>3, <3>1 DEF Encode, Put
    <3>2. CASE FinishGzip(p)
      BY <1>0, <2>2, <2>3, <3>2 DEF FinishGzip, Put, Stages
    <3>3. CASE Sync(p)
      BY <1>0, <2>2, <2>3, <3>3 DEF Sync, Stages
    <3> QED BY <1>5, <3>1, <3>2, <3>3
  <2>8. Stages'
    BY <2>1, <2>3, <2>6, <2>7 DEF Stages, Open
  <2>9. Kept'
    BY <1>0, <2>1, <2>2, <2>3, <2>5 DEF Kept, Whole
  <2> QED BY <2>8, <2>9
<1>6. ASSUME NEW p \in Saver, Rename(p) PROVE Stages' /\ Kept'
  <2>1. /\ pc[p] = "rename" /\ path' = tmp /\ tmp' = None /\ "shared" \notin mishap
        /\ tmp # None /\ pc' = [pc EXCEPT ![p] = "idle"]
        /\ diskPath' \in {diskPath, path} /\ UNCHANGED <<content, dirty>>
    BY <1>6 DEF Rename, End
  <2>2. Stages /\ Kept /\ Open(p)
    BY <2>1 DEF FileInv, Open
  <2>3. \A q \in Saver : ~Open(q)'
    BY <1>0, <2>1, <2>2 DEF Stages, Open
  <2>4. tmp \in Inode /\ content[tmp][1] = snap[p] /\ content[tmp][2] = snap[p] /\ dirty[tmp] = {}
    BY <1>0, <2>1, <2>2 DEF Stages
  <2>5. snap[p] # {}
    BY <2>1 DEF Shapes
  <2>6. Whole(tmp)
    BY <2>4, <2>5 DEF Whole
  <2> QED BY <1>b, <2>1, <2>3, <2>4, <2>6
<1>7. ASSUME NEW p \in Saver, RenameMissing(p) \/ Fail(p) PROVE Stages' /\ Kept'
  <2>1. /\ Open(p) /\ "shared" \notin mishap /\ pc' = [pc EXCEPT ![p] = "idle"]
        /\ tmp' \in {tmp, None} /\ UNCHANGED <<content, dirty, path, diskPath>>
    BY <1>7 DEF RenameMissing, Fail, Failed, End, Open, files
  <2>2. \A q \in Saver : ~Open(q)'
    BY <1>0, <2>1 DEF FileInv, Stages, Open
  <2> QED BY <1>b, <2>1, <2>2
<1>11. ASSUME NEW p \in Saver, FailKeeps(p) PROVE Stages' /\ Kept'
  <2>1. /\ pc[p] \in {"create", "rename"} /\ pc' = [pc EXCEPT ![p] = "idle"]
        /\ snap' = [snap EXCEPT ![p] = {}] /\ fd' = [fd EXCEPT ![p] = None]
        /\ "shared" \notin mishap /\ UNCHANGED files
    BY <1>11 DEF FailKeeps, Failed, End
  <2>2. CASE pc[p] = "create"
    <3>1. \A q \in Saver : pc'[q] = pc[q] \/ (~Open(q) /\ ~Open(q)')
      BY <1>0, <2>1, <2>2 DEF Open
    <3>2. \A q \in Saver : Open(q) => snap'[q] = snap[q] /\ fd'[q] = fd[q]
      BY <1>0, <2>1, <2>2 DEF Open
    <3> QED BY <1>a, <2>1, <3>1, <3>2
  <2>3. CASE pc[p] = "rename"
    <3>1. \A q \in Saver : ~Open(q)'
      BY <1>0, <2>1, <2>3 DEF FileInv, Stages, Open
    <3> QED BY <1>b, <2>1, <3>1 DEF files
  <2> QED BY <2>1, <2>2, <2>3
<1>8. CASE Stop \/ Restart \/ UNCHANGED vars \/ Write
  <2>1. UNCHANGED <<files, savers>> /\ "shared" \notin mishap
    BY <1>8 DEF Stop, Restart, Write, vars, history
  <2> QED BY <1>a, <2>1 DEF savers
<1>9. CASE Kill
  <2>1. "shared" \notin mishap /\ UNCHANGED files /\ \A p \in Saver : pc'[p] = "idle"
    BY <1>9 DEF Kill, Down
  <2>2. \A p \in Saver : ~Open(p)'
    BY <2>1 DEF Open
  <2> QED BY <1>b, <2>1, <2>2 DEF files
<1>10. CASE PowerLoss
  <2>1. /\ "shared" \notin mishap /\ \A p \in Saver : pc'[p] = "idle"
        /\ path' \in {path, diskPath} /\ diskPath' = path' /\ tmp' = tmp
        /\ dirty' = [i \in Inode |-> {}]
    BY <1>10 DEF PowerLoss, Down
  <2>2. \A p \in Saver : ~Open(p)'
    BY <2>1 DEF Open
  <2>3. PICK lost \in SUBSET Block :
           content' = [i \in Inode |-> [b \in Block |->
               IF b \in lost \cap dirty[i] THEN {} ELSE content[i][b]]]
    BY <1>10 DEF PowerLoss
  <2>4. ASSUME NEW i \in Inode, dirty[i] = {} PROVE content'[i] = content[i] /\ dirty'[i] = {}
    <3>1. content'[i] = [b \in Block |-> content[i][b]]
      BY <2>3, <2>4
    <3> QED BY <1>0, <2>1, <3>1
  <2> QED BY <1>b, <2>1, <2>2, <2>4
<1> QED BY <1>2, <1>3, <1>4, <1>5, <1>6, <1>7, <1>8, <1>9, <1>10, <1>11 DEF Next, SaverStep

\* For any inodes and bounds: as long as no two savers have the
\* temporary name open at once, the snapshot file is absent or loads, through
\* kills, power failures and failing file operations at any instruction.
THEOREM FileCorrect == Spec => []FileLoads
<1>1. Init => FileInv
  BY DEF Init, FileInv, Stages, Kept, Open
<1>2. Spec => [](TypeOK /\ Shapes /\ FileInv)
  BY <1>1, InitTypeOK, StepTypeOK, StepFile, PTL DEF Spec
<1>3. FileInv => FileLoads
  BY DEF FileInv, Kept, FileLoads
<1> QED BY <1>2, <1>3, PTL

-----------------------------------------------------------------------------
(* What was saved stays *)

Past(p) == pc[p] \notin {"idle", "export"}

\* Of two exports under way the later one includes the earlier; every export is
\* of a keyspace the present one comes of.
Lineage ==
    /\ ~up => \A p \in Saver : pc[p] = "idle"
    /\ \A p \in Saver : Past(p) => nth[p] <= exports /\ UNION snap[p] \subseteq data
    /\ \A p, q \in Saver : Past(p) /\ Past(q) /\ nth[q] <= nth[p] => UNION snap[q] \subseteq UNION snap[p]

\* The keyspace of a step that is no start only grows, until the process ends.
LEMMA StepLineage == TypeOK /\ Shapes /\ Lineage /\ [Next]_vars => Lineage'
<1> SUFFICES ASSUME TypeOK, Shapes, Lineage, [Next]_vars PROVE Lineage'
  OBVIOUS
<1> USE RdbBounds
<1>0. /\ exports \in Nat /\ nth \in [Saver -> Nat] /\ snap \in [Saver -> SUBSET SUBSET Nat]
      /\ pc \in [Saver -> {"idle", "export", "create", "first", "second", "sync", "rename"}]
  BY DEF TypeOK
<1>a. ASSUME ~up' => \A p \in Saver : pc'[p] = "idle",
             \A p \in Saver : Past(p)' => Past(p) /\ snap'[p] = snap[p],
             \A p \in Saver : Past(p)' => data \subseteq data',
             UNCHANGED <<exports, nth>>
      PROVE  Lineage'
  BY <1>a DEF Lineage
<1>1. CASE Write
  <2>1. data \subseteq data' /\ UNCHANGED <<up, pc, snap, exports, nth>>
    BY <1>1 DEF Write, savers, history, order
  <2> QED BY <1>a, <2>1 DEF Lineage, Past
<1>2. ASSUME NEW p \in Saver, Begin(p), UNCHANGED <<data, snap, up, exports, nth>> PROVE Lineage'
  BY <1>0, <1>2, <1>a DEF Begin, Lineage, Past
<1>3. CASE Save \/ BgSave \/ Tick
  BY <1>2, <1>3 DEF Save, BgSave, Tick, Saver, keyspace, history, order
<1>4. CASE FinalSave
  <2>1. /\ up /\ pc' = [pc EXCEPT !["tick"] = "export"]
        /\ UNCHANGED <<data, snap, up, exports, nth>>
    BY <1>4 DEF FinalSave, keyspace, history, order
  <2> QED BY <1>0, <1>a, <2>1 DEF Lineage, Past
<1>5. ASSUME NEW p \in Saver, Export(p) PROVE Lineage'
  <2>1. /\ pc[p] = "export" /\ snap' = [snap EXCEPT ![p] = {data}]
        /\ exports' = exports + 1 /\ nth' = [nth EXCEPT ![p] = exports + 1]
        /\ pc' = [pc EXCEPT ![p] = "create"] /\ UNCHANGED <<data, up>>
    BY <1>5 DEF Export, keyspace
  <2>2. up /\ UNION snap'[p] = data' /\ nth'[p] = exports + 1
    BY <1>0, <2>1 DEF Lineage
  <2>3. \A q \in Saver : q # p => /\ snap'[q] = snap[q] /\ nth'[q] = nth[q]
                                  /\ Past(q)' <=> Past(q)
    BY <1>0, <2>1 DEF Past
  <2>4. \A q \in Saver : Past(q)' => nth'[q] <= exports' /\ UNION snap'[q] \subseteq data'
    BY <1>0, <2>1, <2>2, <2>3 DEF Lineage
  <2>5. \A q, r \in Saver : Past(q)' /\ Past(r)' /\ nth'[r] <= nth'[q] =>
            UNION snap'[r] \subseteq UNION snap'[q]
    <3> SUFFICES ASSUME NEW q \in Saver, NEW r \in Saver, Past(q)', Past(r)', nth'[r] <= nth'[q]
                 PROVE  UNION snap'[r] \subseteq UNION snap'[q]
      OBVIOUS
    <3>1. CASE q = p
      BY <2>2, <2>4, <3>1
    <3>2. CASE q # p /\ r = p
      <4>1. nth[q] <= exports /\ nth[q] \in Nat
        BY <1>0, <2>3, <3>2 DEF Lineage
      <4> QED BY <1>0, <2>2, <2>3, <3>2, <4>1
    <3>3. CASE q # p /\ r # p
      BY <2>3, <3>3 DEF Lineage
    <3> QED BY <3>1, <3>2, <3>3
  <2> QED BY <2>2, <2>1, <2>4, <2>5 DEF Lineage
<1>6. ASSUME NEW p \in Saver, Create(p) \/ Encode(p) \/ FinishGzip(p) \/ Sync(p) PROVE Lineage'
  <2>1. /\ Past(p) /\ UNCHANGED <<data, up, snap, exports, nth>>
        /\ \E there \in {"first", "second", "sync", "rename"} : pc' = [pc EXCEPT ![p] = there]
    BY <1>6 DEF Create, Encode, FinishGzip, Sync, Past, keyspace, history, order
  <2> QED BY <1>0, <1>a, <2>1 DEF Lineage, Past
<1>7. ASSUME NEW p \in Saver, End(p), UNCHANGED <<data, up, exports, nth>> PROVE Lineage'
  <2>1. \A q \in Saver : pc'[q] = "idle" \/ (pc'[q] = pc[q] /\ snap'[q] = snap[q])
    BY <1>0, <1>7 DEF End
  <2> QED BY <1>7, <1>a, <2>1 DEF Lineage, Past
<1>8. CASE \E p \in Saver : Rename(p) \/ RenameMissing(p) \/ Fail(p) \/ FailKeeps(p)
  BY <1>7, <1>8 DEF Rename, RenameMissing, Fail, FailKeeps, keyspace, order
<1>9. CASE Kill \/ PowerLoss
  <2>1. (\A p \in Saver : pc'[p] = "idle") /\ UNCHANGED <<exports, nth>>
    BY <1>9 DEF Kill, PowerLoss, Down, order
  <2> QED BY <1>a, <2>1 DEF Past
<1>10. CASE Restart
  <2>1. /\ UNCHANGED <<pc, snap, exports, nth>> /\ \A p \in Saver : pc[p] = "idle"
    BY <1>10 DEF Restart, savers, order, Lineage
  <2> QED BY <1>a, <2>1 DEF Past
<1>11. CASE Stop \/ UNCHANGED vars
  <2>1. UNCHANGED <<data, up, pc, snap, exports, nth>>
    BY <1>11 DEF Stop, vars, keyspace, savers, history, order
  <2> QED BY <1>a, <2>1 DEF Lineage, Past
<1> QED BY <1>1, <1>3, <1>4, <1>5, <1>6, <1>8, <1>9, <1>10, <1>11 DEF Next, SaverStep

\* As long as no two savers share the temporary name and no power failure takes
\* back a rename, a step leaves the snapshot file and what it holds alone, or
\* renames the finished export of a saver over it.
LEMMA PathSteps ==
    ASSUME TypeOK, Shapes, FileInv, [Next]_vars, mishap' \cap {"shared", "undone"} = {}
    PROVE  \/ InFile' = InFile /\ UNCHANGED <<saved, newest>>
           \/ \E p \in Saver : Rename(p) /\ Past(p) /\ InFile' = UNION snap[p]
<1> USE RdbBounds
<1> DEFINE Same == path' = path /\ (path # None => content'[path] = content[path])
                   /\ UNCHANGED <<saved, newest>>
<1>0. Same => InFile' = InFile /\ UNCHANGED <<saved, newest>>
  BY DEF InFile
<1>2. CASE UNCHANGED <<path, content, saved, newest>>
  BY <1>0, <1>2
<1>3. ASSUME NEW p \in Saver, Create(p) PROVE Same
  <2>1. "shared" \notin mishap /\ \A q \in Saver : ~Open(q)
    BY <1>3 DEF Create
  <2>2. PICK i \in IF tmp # None THEN {tmp} ELSE Free : content' = [content EXCEPT ![i] = Blank]
    BY <1>3 DEF Create
  <2>3. i # path
    BY <2>1, <2>2 DEF FileInv, Stages, Free
  <2> QED BY <1>3, <2>2, <2>3 DEF Create, TypeOK, order
<1>4. ASSUME NEW p \in Saver, Encode(p) \/ FinishGzip(p) PROVE Same
  <2>1. Open(p) /\ UNCHANGED <<path, saved, newest, mishap>>
    BY <1>4 DEF Encode, FinishGzip, Open, history, order
  <2>2. fd[p] = tmp /\ fd[p] # None /\ fd[p] # path
    BY <2>1 DEF FileInv, Stages, TypeOK
  <2>3. path # None => content'[path] = content[path]
    BY <1>4, <2>2 DEF Encode, FinishGzip, Put, TypeOK
  <2> QED BY <2>1, <2>3
<1>5. ASSUME NEW p \in Saver, Rename(p) PROVE Past(p) /\ InFile' = UNION snap[p]
  <2>1. /\ pc[p] = "rename" /\ path' = tmp /\ tmp # None /\ "shared" \notin mishap
        /\ content' = content
    BY <1>5 DEF Rename
  <2>2. fd[p] = tmp /\ content[tmp][1] = snap[p]
    BY <2>1 DEF FileInv, Stages, Open
  <2> QED BY <2>1, <2>2 DEF InFile, Past
<1>6. CASE PowerLoss
  <2>1. /\ "shared" \notin mishap /\ path' \in {path, diskPath} /\ path' = path
        /\ UNCHANGED <<saved, newest>>
    BY <1>6 DEF PowerLoss, Down, order
  <2>2. ASSUME path # None PROVE content'[path] = content[path]
    <3>1. dirty[path] = {} /\ path \in Inode
      BY <2>1, <2>2 DEF FileInv, Kept, TypeOK
    <3>2. content'[path] = [b \in Block |-> content[path][b]]
      BY <1>6, <3>1 DEF PowerLoss
    <3> QED BY <3>1, <3>2 DEF TypeOK
  <2> QED BY <1>0, <2>1, <2>2
<1>7. CASE \/ Write \/ Save \/ BgSave \/ Tick \/ Stop \/ FinalSave \/ Kill \/ Restart \/ UNCHANGED vars
           \/ \E p \in Saver : Export(p) \/ Sync(p) \/ RenameMissing(p) \/ Fail(p) \/ FailKeeps(p)
  BY <1>2, <1>7 DEF Write, Save, BgSave, Tick, Stop, FinalSave, Kill, Down, Restart, vars,
                    Export, Sync, RenameMissing, Fail, FailKeeps, files, history, order
<1> QED BY <1>0, <1>3, <1>4, <1>5, <1>6, <1>7 DEF Next, SaverStep

\* The keyspace comes of what the file holds, and so does every export taken
\* since the one in the file.
SavedInv ==
    mishap \subseteq {"final"} =>
        /\ saved \subseteq InFile
        /\ up => InFile \subseteq data
        /\ \A p \in Saver : Past(p) /\ nth[p] >= newest => InFile \subseteq UNION snap[p]

\* Each step keeps it, or is a mishap.
LEMMA StepSaved ==
    TypeOK /\ Shapes /\ FileInv /\ Lineage /\ SavedInv /\ [Next]_vars => SavedInv'
<1> SUFFICES ASSUME TypeOK, Shapes, FileInv, Lineage, SavedInv, [Next]_vars, mishap' \subseteq {"final"}
             PROVE  SavedInv'
  BY DEF SavedInv
<1> USE RdbBounds
<1>0. /\ exports \in Nat /\ newest \in Nat /\ nth \in [Saver -> Nat]
      /\ snap \in [Saver -> SUBSET SUBSET Nat]
      /\ pc \in [Saver -> {"idle", "export", "create", "first", "second", "sync", "rename"}]
  BY DEF TypeOK
<1>1. mishap \subseteq mishap'
  BY DEF Next, SaverStep, Write, Save, BgSave, Tick, Stop, FinalSave, Kill, Restart, vars, PowerLoss,
         Export, Create, Encode, FinishGzip, Sync, Rename, RenameMissing, Fail, FailKeeps, Failed, history
<1>2. /\ saved \subseteq InFile
      /\ up => InFile \subseteq data
      /\ \A p \in Saver : Past(p) /\ nth[p] >= newest => InFile \subseteq UNION snap[p]
  BY <1>1 DEF SavedInv
<1>a. ASSUME InFile' = InFile, UNCHANGED <<saved, newest>>,
             up' => InFile \subseteq data',
             \A p \in Saver : Past(p)' => \/ Past(p) /\ snap'[p] = snap[p] /\ nth'[p] = nth[p]
                                          \/ InFile \subseteq UNION snap'[p]
      PROVE  SavedInv'
  BY <1>2, <1>a DEF SavedInv
<1>3. \/ InFile' = InFile /\ UNCHANGED <<saved, newest>>
      \/ \E p \in Saver : Rename(p) /\ Past(p) /\ InFile' = UNION snap[p]
  BY PathSteps
<1>4. ASSUME NEW p \in Saver, Rename(p), Past(p), InFile' = UNION snap[p] PROVE SavedInv'
  <2>1. /\ pc' = [pc EXCEPT ![p] = "idle"] /\ snap' = [snap EXCEPT ![p] = {}]
        /\ saved' = saved \cup UNION snap[p]
        /\ newest' = IF nth[p] > newest THEN nth[p] ELSE newest
        /\ ~(nth[p] < newest)
        /\ UNCHANGED <<data, up, nth>>
    BY <1>4 DEF Rename, End, keyspace
  <2>2. nth[p] >= newest /\ newest' = nth[p]
    BY <1>0, <2>1
  <2>3. InFile \subseteq UNION snap[p]
    BY <1>2, <1>4, <2>2
  <2>4. saved' \subseteq InFile'
    BY <1>2, <1>4, <2>1, <2>3
  <2>5. InFile' \subseteq data'
    BY <1>4, <2>1 DEF Lineage
  <2>6. \A q \in Saver : Past(q)' => Past(q) /\ snap'[q] = snap[q]
    BY <1>0, <2>1 DEF Past
  <2>7. \A q \in Saver : Past(q)' /\ nth'[q] >= newest' => InFile' \subseteq UNION snap'[q]
    BY <1>0, <1>4, <2>1, <2>2, <2>6 DEF Lineage
  <2> QED BY <2>4, <2>5, <2>7 DEF SavedInv
<1>5. CASE InFile' = InFile /\ UNCHANGED <<saved, newest>>
  <2>1. CASE Write
    <3>1. data \subseteq data' /\ UNCHANGED <<up, pc, snap, nth>>
      BY <2>1 DEF Write, savers, history, order
    <3> QED BY <1>2, <1>5, <1>a, <3>1 DEF Past
  <2>2. ASSUME NEW p \in Saver, Export(p) PROVE SavedInv'
    <3>1. /\ pc[p] = "export" /\ snap' = [snap EXCEPT ![p] = {data}] /\ nth' = [nth EXCEPT ![p] = exports']
          /\ pc' = [pc EXCEPT ![p] = "create"] /\ UNCHANGED <<data, up>>
      BY <2>2 DEF Export, keyspace
    <3>2. up /\ InFile \subseteq UNION snap'[p]
      BY <1>0, <1>2, <3>1 DEF Lineage
    <3>3. \A q \in Saver : q # p => snap'[q] = snap[q] /\ nth'[q] = nth[q] /\ (Past(q)' => Past(q))
      BY <1>0, <3>1 DEF Past
    <3> QED BY <1>2, <1>5, <1>a, <3>1, <3>2, <3>3
  <2>3. ASSUME NEW p \in Saver, Create(p) \/ Encode(p) \/ FinishGzip(p) \/ Sync(p) PROVE SavedInv'
    <3>1. /\ Past(p) /\ UNCHANGED <<data, up, snap, nth>>
          /\ \E there \in {"first", "second", "sync", "rename"} : pc' = [pc EXCEPT ![p] = there]
      BY <2>3 DEF Create, Encode, FinishGzip, Sync, Past, keyspace, history, order
    <3>2. \A q \in Saver : Past(q)' => Past(q)
      BY <1>0, <3>1 DEF Past
    <3> QED BY <1>2, <1>5, <1>a, <3>1, <3>2
  <2>4. ASSUME NEW p \in Saver, Rename(p) \/ RenameMissing(p) \/ Fail(p) \/ FailKeeps(p) PROVE SavedInv'
    <3>1. End(p) /\ UNCHANGED <<data, up, nth>>
      BY <2>4 DEF Rename, RenameMissing, Fail, FailKeeps, keyspace, order
    <3>2. \A q \in Saver : Past(q)' => Past(q) /\ snap'[q] = snap[q]
      BY <1>0, <3>1 DEF End, Past
    <3> QED BY <1>2, <1>5, <1>a, <3>1, <3>2
  <2>5. ASSUME NEW p \in Saver, pc' = [pc EXCEPT ![p] = "export"], UNCHANGED <<data, up, snap, nth>>
        PROVE  SavedInv'
    <3>1. \A q \in Saver : Past(q)' => Past(q)
      BY <1>0, <2>5 DEF Past
    <3> QED BY <1>2, <1>5, <1>a, <2>5, <3>1
  <2>6. CASE Save \/ BgSave \/ Tick \/ FinalSave
    BY <2>5, <2>6 DEF Save, BgSave, Tick, FinalSave, Begin, Saver, keyspace, history, order
  <2>7. CASE Stop \/ UNCHANGED vars
    <3>1. UNCHANGED <<data, up, pc, snap, nth>>
      BY <2>7 DEF Stop, vars, keyspace, savers, history, order
    <3> QED BY <1>2, <1>5, <1>a, <3>1 DEF Past
  <2>8. CASE Kill \/ PowerLoss
    <3>1. ~up' /\ \A p \in Saver : pc'[p] = "idle"
      BY <2>8 DEF Kill, PowerLoss, Down
    <3> QED BY <1>5, <1>a, <3>1 DEF Past
  <2>9. CASE Restart
    <3>1. /\ UNCHANGED <<pc, snap, nth>> /\ ~up /\ "unread" \notin mishap'
      BY <2>9 DEF Restart, savers, order
    <3>2. data' = IF path # None /\ Whole(path) THEN InFile ELSE {}
      BY <2>9, <3>1 DEF Restart
    <3>3. path # None => Whole(path)
      BY <1>1 DEF FileInv, Kept
    <3>4. InFile \subseteq data'
      BY <3>2, <3>3 DEF InFile
    <3> QED BY <1>5, <1>a, <3>1, <3>4 DEF Lineage, Past
  <2> QED BY <2>1, <2>2, <2>3, <2>4, <2>6, <2>7, <2>8, <2>9 DEF Next, SaverStep
<1> QED BY <1>3, <1>4, <1>5

\* What the proofs about the file's contents start from.
LEMMA InitSaved == Init => FileInv /\ Lineage /\ SavedInv
<1> SUFFICES ASSUME Init PROVE FileInv /\ Lineage /\ SavedInv
  OBVIOUS
<1>1. FileInv
  BY DEF Init, FileInv, Stages, Kept, Open
<1>2. Lineage
  BY DEF Init, Lineage, Past
<1>3. SavedInv
  BY DEF Init, SavedInv, Past, InFile
<1> QED BY <1>1, <1>2, <1>3

\* For any inodes and bounds: what a SaveNow has reported saved stays in the
\* file, through failing calls, kills and restarts, until two savers share the
\* temporary name, one renames after a later export was renamed, a power
\* failure takes back a rename, or a start cannot read the file.
THEOREM SavedCorrect == Spec => []SavedStays
<1>1. Spec => [](TypeOK /\ Shapes /\ FileInv /\ Lineage /\ SavedInv)
  BY InitTypeOK, InitSaved, StepTypeOK, StepFile, StepLineage, StepSaved, PTL DEF Spec
<1>2. SavedInv => SavedStays
  BY DEF SavedInv, SavedStays
<1> QED BY <1>1, <1>2, PTL

-----------------------------------------------------------------------------
(* The snapshot of Stop *)

\* After Stop was called the keyspace only grows; the last save exports no less
\* than it was then, and a later rename has no less either.
StopInv ==
    /\ ~up => stop = "no"
    /\ stop # "no" => due \subseteq data
    /\ stop = "final" /\ Past("tick") => due \subseteq UNION snap["tick"]
    /\ stop = "no" => due = {}
    /\ StopSavesAll

\* Each step keeps it, or is a mishap.
LEMMA StepStop ==
    TypeOK /\ Shapes /\ FileInv /\ Lineage /\ SavedInv /\ StopInv /\ [Next]_vars => StopInv'
<1> SUFFICES ASSUME TypeOK, Shapes, FileInv, Lineage, SavedInv, StopInv, [Next]_vars PROVE StopInv'
  OBVIOUS
<1> USE RdbBounds
<1>0. /\ nth \in [Saver -> Nat] /\ snap \in [Saver -> SUBSET SUBSET Nat] /\ "tick" \in Saver
      /\ pc \in [Saver -> {"idle", "export", "create", "first", "second", "sync", "rename"}]
      /\ newest \in Nat
  BY DEF TypeOK, Saver
<1> DEFINE Parts == /\ ~up => stop = "no"
                    /\ stop # "no" => due \subseteq data
                    /\ stop = "final" /\ Past("tick") => due \subseteq UNION snap["tick"]
                    /\ stop = "no" => due = {}
<1>1. Parts
  BY DEF StopInv
<1>2. Parts'
  <2>1. CASE Write
    <3>1. data \subseteq data' /\ UNCHANGED <<up, stop, due, pc, snap>>
      BY <2>1 DEF Write, savers, history
    <3> QED BY <1>1, <3>1 DEF Past
  <2>2. ASSUME NEW p \in Saver, Export(p) PROVE Parts'
    <3>1. /\ pc[p] = "export" /\ snap' = [snap EXCEPT ![p] = {data}]
          /\ pc' = [pc EXCEPT ![p] = "create"] /\ UNCHANGED <<data, up, stop, due>>
      BY <2>2 DEF Export, keyspace
    <3>2. CASE p = "tick"
      <4>1. UNION snap'["tick"] = data
        BY <1>0, <3>1, <3>2
      <4> QED BY <1>1, <3>1, <4>1
    <3>3. CASE p # "tick"
      <4>1. snap'["tick"] = snap["tick"] /\ pc'["tick"] = pc["tick"]
        BY <1>0, <3>1, <3>3
      <4> QED BY <1>1, <3>1, <4>1 DEF Past
    <3> QED BY <3>2, <3>3
  <2>3. ASSUME NEW p \in Saver, Create(p) \/ Encode(p) \/ FinishGzip(p) \/ Sync(p) PROVE Parts'
    <3>1. /\ Past(p) /\ UNCHANGED <<up, stop, due, data, snap>>
          /\ \E there \in {"first", "second", "sync", "rename"} : pc' = [pc EXCEPT ![p] = there]
      BY <2>3 DEF Create, Encode, FinishGzip, Sync, Past, keyspace, history
    <3>2. Past("tick")' => Past("tick")
      BY <1>0, <3>1 DEF Past
    <3> QED BY <1>1, <3>1, <3>2
  <2>4. ASSUME NEW p \in Saver, Rename(p) \/ RenameMissing(p) \/ Fail(p) \/ FailKeeps(p) PROVE Parts'
    <3>1. End(p) /\ UNCHANGED <<up, due, data>>
      BY <2>4 DEF Rename, RenameMissing, Fail, FailKeeps, keyspace
    <3>2. /\ stop' = "final" => stop = "final"
          /\ (stop' = "no") <=> (stop = "no")
          /\ Past("tick")' => Past("tick") /\ snap'["tick"] = snap["tick"]
      BY <1>0, <3>1 DEF End, TypeOK, Past
    <3> QED BY <1>1, <3>1, <3>2
  <2>5. ASSUME NEW p \in Saver, Begin(p), UNCHANGED <<up, stop, due, data, snap>> PROVE Parts'
    <3>1. Past("tick")' => Past("tick")
      BY <1>0, <2>5 DEF Begin, Past
    <3> QED BY <1>1, <2>5, <3>1
  <2>6. CASE Save \/ BgSave \/ Tick
    BY <2>5, <2>6 DEF Save, BgSave, Tick, Saver, keyspace, history
  <2>7. CASE Stop
    <3>1. /\ up /\ stop = "no" /\ stop' \in {"called", "done"} /\ due' \in {data, due}
          /\ UNCHANGED <<up, data>>
      BY <2>7 DEF Stop, keyspace
    <3> QED BY <1>1, <3>1
  <2>8. CASE FinalSave
    <3>1. /\ up /\ stop' = "final" /\ stop = "called"
          /\ pc' = [pc EXCEPT !["tick"] = "export"] /\ UNCHANGED <<up, data, due>>
      BY <2>8 DEF FinalSave, keyspace, history
    <3>2. ~Past("tick")'
      BY <1>0, <3>1 DEF Past
    <3> QED BY <1>1, <3>1, <3>2
  <2>9. CASE Kill \/ PowerLoss
    <3>1. stop' = "no" /\ due' = {}
      BY <2>9 DEF Kill, PowerLoss, Down
    <3> QED BY <3>1
  <2>10. CASE Restart
    <3>1. stop = "no" /\ UNCHANGED <<stop, due>>
      BY <1>1, <2>10 DEF Restart
    <3> QED BY <1>1, <3>1
  <2>11. CASE UNCHANGED vars
    BY <1>1, <2>11 DEF vars, keyspace, savers, history, Past
  <2> QED BY <2>1, <2>2, <2>3, <2>4, <2>6, <2>7, <2>8, <2>9, <2>10, <2>11 DEF Next, SaverStep
<1>3. StopSavesAll'
  <2> SUFFICES ASSUME stop' = "done", mishap' = {} PROVE due' \subseteq InFile'
    BY DEF StopSavesAll
  <2>1. mishap = {}
    BY DEF Next, SaverStep, Write, Save, BgSave, Tick, Stop, FinalSave, Kill, Restart, vars, PowerLoss,
           Export, Create, Encode, FinishGzip, Sync, Rename, RenameMissing, Fail, FailKeeps, Failed, history
  <2>2. \/ InFile' = InFile /\ UNCHANGED <<saved, newest>>
        \/ \E p \in Saver : Rename(p) /\ Past(p) /\ InFile' = UNION snap[p]
    BY PathSteps
  <2>3. CASE Stop
    BY <1>1, <2>3 DEF Stop
  <2>4. ASSUME NEW p \in Saver, Rename(p), Past(p), InFile' = UNION snap[p] PROVE due' \subseteq InFile'
    <3>1. due' = due /\ ~(nth[p] < newest) /\ (stop = "done" \/ (p = "tick" /\ stop = "final"))
      BY <2>1, <2>4 DEF Rename, End
    <3>2. CASE p = "tick" /\ stop = "final"
      BY <1>1, <2>4, <3>1, <3>2
    <3>3. CASE stop = "done"
      <4>1. due \subseteq InFile
        BY <2>1, <3>3 DEF StopInv, StopSavesAll
      <4>2. InFile \subseteq UNION snap[p]
        BY <1>0, <2>1, <2>4, <3>1 DEF SavedInv
      <4> QED BY <2>4, <3>1, <4>1, <4>2
    <3> QED BY <3>1, <3>2, <3>3
  <2>5. ASSUME NEW p \in Saver, RenameMissing(p) \/ Fail(p) \/ FailKeeps(p), InFile' = InFile
        PROVE  due' \subseteq InFile'
    <3>1. stop = "done" /\ due' = due
      BY <2>5 DEF RenameMissing, Fail, FailKeeps, Failed, End
    <3> QED BY <2>1, <2>5, <3>1 DEF StopInv, StopSavesAll
  <2>6. ASSUME NEW p \in Saver, Rename(p), InFile' = InFile, saved' = saved, newest' = newest
        PROVE  due' \subseteq InFile'
    <3>1. due' = due /\ (stop = "done" \/ (p = "tick" /\ stop = "final")) /\ saved' = saved \cup UNION snap[p]
          /\ pc[p] = "rename"
      BY <2>6 DEF Rename, End
    <3>2. CASE stop = "done"
      BY <2>1, <2>6, <3>1, <3>2 DEF StopInv, StopSavesAll
    <3>3. CASE p = "tick" /\ stop = "final"
      <4>1. due \subseteq UNION snap[p]
        BY <1>1, <3>1, <3>3 DEF Past
      <4>2. UNION snap[p] \subseteq saved /\ saved \subseteq InFile
        BY <2>1, <2>6, <3>1 DEF SavedInv
      <4> QED BY <2>6, <3>1, <4>1, <4>2
    <3> QED BY <3>1, <3>2, <3>3
  <2>7. CASE \/ Write \/ Save \/ BgSave \/ Tick \/ FinalSave \/ Kill \/ PowerLoss \/ Restart \/ UNCHANGED vars
             \/ \E p \in Saver : Export(p) \/ Create(p) \/ Encode(p) \/ FinishGzip(p) \/ Sync(p)
    <3>1. stop = "done" /\ due' = due
      BY <2>7 DEF Write, Save, BgSave, Tick, FinalSave, Kill, PowerLoss, Restart, vars,
                  Export, Create, Encode, FinishGzip, Sync, history
    <3>2. due \subseteq InFile
      BY <2>1, <3>1 DEF StopInv, StopSavesAll
    <3>3. \A p \in Saver : ~Rename(p) \/ stop' = stop
      BY <3>1 DEF Rename, End
    <3>4. CASE InFile' = InFile
      BY <3>1, <3>2, <3>4
    <3> QED BY <2>2, <2>4, <3>1, <3>4
  <2> QED BY <2>2, <2>3, <2>4, <2>5, <2>6, <2>7 DEF Next, SaverStep
<1> QED BY <1>2, <1>3 DEF StopInv

\* For any inodes and bounds, short of a mishap: when Stop returns, the file
\* holds at least the keyspace of the moment it was called, though a save of
\* the ticker may be under way and connections go on writing.
THEOREM StopCorrect == Spec => []StopSavesAll
<1>1. Init => StopInv
  BY DEF Init, StopInv, StopSavesAll
<1>2. Spec => [](TypeOK /\ Shapes /\ FileInv /\ Lineage /\ SavedInv /\ StopInv)
  BY <1>1, InitTypeOK, InitSaved, StepTypeOK, StepFile, StepLineage, StepSaved, StepStop, PTL DEF Spec
<1>3. StopInv => StopSavesAll
  BY DEF StopInv
<1> QED BY <1>2, <1>3, PTL

==============================================================================
