-------------------------------- MODULE Rdb --------------------------------
(***************************************************************************)
(* RDB snapshots (persistence/rdb.go and their callers in the engine):     *)
(* SAVE on a connection, BGSAVE behind its busy flag, the ticker and the   *)
(* final snapshot of Stop all run SaveNow, which exports the keyspace at   *)
(* one moment, writes one temporary file name, syncs and renames.          *)
(*                                                                         *)
(* A file name refers to an inode, as os.Create truncates the inode a name *)
(* already has, an open file outlives its name and a rename moves the name *)
(* only.  A keyspace is the set of the writes it comes of, so that one     *)
(* includes another exactly when it descends from it.  A snapshot fills    *)
(* two blocks, each empty or holding one keyspace; the gzip reader accepts *)
(* a file whose blocks come from one snapshot.                             *)
(***************************************************************************)
EXTENDS Naturals

CONSTANTS Inode, None,
          Periodic,   \* BOOLEAN: Cfg.RDBIntervalSec is positive
          MaxWrite,   \* bound on writes
          MaxSave,    \* bound on snapshots and calls of Stop
          MaxFault    \* bound on failing file operations, power failures and kills

ASSUME RdbBounds ==
    /\ {MaxWrite, MaxSave, MaxFault} \subseteq Nat
    /\ Periodic \in BOOLEAN /\ None \notin Inode

Saver == {"conn", "bg", "tick"}
Block == {1, 2}

VARIABLES
    data, writes,       \* the keyspace; the writes so far
    pc, snap, fd,       \* of each SaveNow: where it is, its export, its open file
    busy,               \* Engine.bgSaveBusy
    content, dirty,     \* of each inode: its blocks, the ones not on disk
    path, tmp,          \* the inode each file name refers to
    diskPath,           \* what the disk holds for path
    up,                 \* the process runs
    stop,               \* of RDB.Stop: "no", "called", "final", "done"
    saved,              \* history: the writes in snapshots reported saved
    due,                \* history: the keyspace when Stop was called
    exports, nth,       \* history: the exports so far, the number of each saver's
    newest,             \* history: the latest export whose file was renamed
    saves, faults,
    mishap              \* history, a set: "shared", two savers had the temporary
                        \* name at once; "older", an export was renamed after a
                        \* later one had been; "undone", a power failure took
                        \* back a rename; "final", the last save failed;
                        \* "unread", a start could not read a whole file

keyspace == <<data, writes>>
files    == <<content, dirty, path, tmp, diskPath>>
savers   == <<pc, snap, fd, busy>>
order    == <<exports, nth, newest>>
history  == <<saved, due, order, mishap>>
vars     == <<keyspace, files, savers, up, stop, saves, faults, history>>

Blank   == [b \in Block |-> {}]
Open(p) == pc[p] \in {"first", "second", "sync", "rename"}

\* LoadRDB: a whole snapshot or an error.
Whole(i) == content[i][1] # {} /\ content[i][1] = content[i][2]

\* The keyspace the file holds, nothing when there is none.
InFile == IF path = None THEN {} ELSE UNION content[path][1]

\* Inodes no name and no open file refers to.
Free == Inode \ ({path, tmp, diskPath} \cup {fd[p] : p \in Saver})

Fault == faults > 0 /\ faults' = faults - 1

----------------------------------------------------------------------------
Write ==
    /\ up /\ writes < MaxWrite
    /\ writes' = writes + 1
    /\ data' = data \cup {writes'}
    /\ UNCHANGED <<files, savers, up, stop, saves, faults, history>>

----------------------------------------------------------------------------
(* SaveNow *)

Begin(p) ==
    /\ up /\ pc[p] = "idle" /\ saves < MaxSave
    /\ saves' = saves + 1
    /\ pc' = [pc EXCEPT ![p] = "export"]

\* SAVE, and SHUTDOWN SAVE
Save == Begin("conn") /\ UNCHANGED <<keyspace, files, snap, fd, busy, up, stop, faults, history>>

BgSave ==
    /\ ~busy /\ busy' = TRUE
    /\ Begin("bg")
    /\ UNCHANGED <<keyspace, files, snap, fd, up, stop, faults, history>>

Tick ==
    /\ Periodic /\ stop \in {"no", "called"}
    /\ Begin("tick")
    /\ UNCHANGED <<keyspace, files, snap, fd, busy, up, stop, faults, history>>

\* KV.Export holds every shard's lock while it copies.
Export(p) ==
    /\ pc[p] = "export"
    /\ snap' = [snap EXCEPT ![p] = {data}]
    /\ exports' = exports + 1 /\ nth' = [nth EXCEPT ![p] = exports']
    /\ pc' = [pc EXCEPT ![p] = "create"]
    /\ UNCHANGED <<keyspace, files, fd, busy, up, stop, saves, faults, saved, due, newest, mishap>>

\* os.Create: the inode the name has is truncated, else a new one is made.
Create(p) ==
    /\ pc[p] = "create"
    /\ \E i \in IF tmp # None THEN {tmp} ELSE Free :
         /\ tmp' = i
         /\ fd' = [fd EXCEPT ![p] = i]
         /\ content' = [content EXCEPT ![i] = Blank]
         /\ dirty' = [dirty EXCEPT ![i] = {}]
    /\ mishap' = IF \E q \in Saver : Open(q) THEN mishap \cup {"shared"} ELSE mishap
    /\ pc' = [pc EXCEPT ![p] = "first"]
    /\ UNCHANGED <<keyspace, path, diskPath, snap, busy, up, stop, saves, faults, saved, due, order>>

Put(p, b) ==
    /\ content' = [content EXCEPT ![fd[p]][b] = snap[p]]
    /\ dirty' = [dirty EXCEPT ![fd[p]] = @ \cup {b}]

\* Encode
Encode(p) ==
    /\ pc[p] = "first"
    /\ Put(p, 1)
    /\ pc' = [pc EXCEPT ![p] = "second"]
    /\ UNCHANGED <<keyspace, path, tmp, diskPath, snap, fd, busy, up, stop, saves, faults, history>>

\* Slip: the file is not synced.
SlipFinishUnsynced(p) ==
    /\ pc[p] = "second"
    /\ Put(p, 2)
    /\ pc' = [pc EXCEPT ![p] = "rename"]
    /\ UNCHANGED <<keyspace, path, tmp, diskPath, snap, fd, busy, up, stop, saves, faults, history>>

\* gz.Close writes what is left.
FinishGzip(p) ==
    /\ pc[p] = "second"
    /\ Put(p, 2)
    /\ pc' = [pc EXCEPT ![p] = "sync"]
    /\ UNCHANGED <<keyspace, path, tmp, diskPath, snap, fd, busy, up, stop, saves, faults, history>>

Sync(p) ==
    /\ pc[p] = "sync"
    /\ dirty' = [dirty EXCEPT ![fd[p]] = {}]
    /\ pc' = [pc EXCEPT ![p] = "rename"]
    /\ UNCHANGED <<keyspace, content, path, tmp, diskPath, snap, fd, busy, up, stop, saves, faults, history>>

\* SaveNow returns to its caller: the connection, the goroutine that lowers
\* the busy flag, or the loop, which ends after the final snapshot.
End(p) ==
    /\ pc' = [pc EXCEPT ![p] = "idle"] /\ snap' = [snap EXCEPT ![p] = {}]
    /\ fd' = [fd EXCEPT ![p] = None]
    /\ busy' = (busy /\ p # "bg")
    /\ stop' = IF p = "tick" /\ stop = "final" THEN "done" ELSE stop

\* The rename of whatever the temporary name refers to, and the new LASTSAVE.
\* The disk may have the name it had before by now.
Rename(p) ==
    /\ pc[p] = "rename" /\ tmp # None
    /\ path' = tmp /\ tmp' = None /\ diskPath' \in {diskPath, path}
    /\ saved' = saved \cup UNION snap[p]
    /\ newest' = IF nth[p] > newest THEN nth[p] ELSE newest
    /\ mishap' = IF nth[p] < newest THEN mishap \cup {"older"} ELSE mishap
    /\ End(p)
    /\ UNCHANGED <<keyspace, content, dirty, up, saves, faults, due, exports, nth>>

\* Whether p is the last save, whose error Stop ignores.
Failed(p) == mishap' = IF p = "tick" /\ stop = "final" THEN mishap \cup {"final"} ELSE mishap

\* Another saver has renamed or removed the temporary file.
RenameMissing(p) ==
    /\ pc[p] = "rename" /\ tmp = None
    /\ Failed(p) /\ End(p)
    /\ UNCHANGED <<keyspace, files, up, saves, faults, saved, due, order>>

\* Slip: the snapshot itself is removed.
SlipFailRemovesPath(p) ==
    /\ pc[p] \in {"first", "second", "sync"} /\ Fault
    /\ path' = None
    /\ Failed(p) /\ End(p)
    /\ UNCHANGED <<keyspace, content, dirty, tmp, diskPath, up, saves, saved, due, order>>

\* Encode, gz.Close or Sync fails, as on a full disk: the temporary name is
\* removed if that works, whoever's it is.
Fail(p) ==
    /\ pc[p] \in {"first", "second", "sync"} /\ Fault
    /\ tmp' \in {tmp, None}
    /\ Failed(p) /\ End(p)
    /\ UNCHANGED <<keyspace, content, dirty, path, diskPath, up, saves, saved, due, order>>

\* os.Create, f.Close or the rename fails: the file stays as it is.
FailKeeps(p) ==
    /\ pc[p] \in {"create", "rename"} /\ Fault
    /\ Failed(p) /\ End(p)
    /\ UNCHANGED <<keyspace, files, up, saves, saved, due, order>>

SaverStep(p) ==
    \/ Export(p) \/ Create(p) \/ Encode(p) \/ FinishGzip(p) \/ Sync(p)
    \/ Rename(p) \/ RenameMissing(p)

----------------------------------------------------------------------------
(* Shutdown, crashes, restart *)

\* RDB.Stop: without a ticker Start has closed doneCh already.
Stop ==
    /\ up /\ stop = "no" /\ saves < MaxSave
    /\ saves' = saves + 1
    /\ stop' = IF Periodic THEN "called" ELSE "done"
    /\ due' = IF Periodic THEN data ELSE due
    /\ UNCHANGED <<keyspace, files, savers, up, faults, saved, order, mishap>>

\* Slip: the loop returns at once.
SlipStopNoSave ==
    /\ up /\ stop = "called" /\ pc["tick"] = "idle"
    /\ stop' = "done"
    /\ UNCHANGED <<keyspace, files, savers, up, saves, faults, history>>

\* The loop sees stopCh and saves a last time.
FinalSave ==
    /\ up /\ stop = "called" /\ pc["tick"] = "idle"
    /\ stop' = "final"
    /\ pc' = [pc EXCEPT !["tick"] = "export"]
    /\ UNCHANGED <<keyspace, files, snap, fd, busy, up, saves, faults, history>>

Down ==
    /\ up /\ up' = FALSE
    /\ pc' = [p \in Saver |-> "idle"] /\ fd' = [p \in Saver |-> None]
    /\ snap' = [p \in Saver |-> {}] /\ busy' = FALSE
    /\ data' = {} /\ due' = {}
    /\ UNCHANGED <<writes, saves, saved, order>>

\* The process is killed, or exits after Stop; the files stay.
Kill ==
    /\ Fault \/ (stop = "done" /\ UNCHANGED faults)
    /\ Down
    /\ stop' = "no"
    /\ UNCHANGED <<files, mishap>>

\* Any of the dirty blocks may be lost, and the rename too: nothing syncs the
\* directory.
PowerLoss ==
    /\ Fault
    /\ Down
    /\ stop' = "no"
    /\ \E lost \in SUBSET Block :
           content' = [i \in Inode |-> [b \in Block |->
               IF b \in lost \cap dirty[i] THEN {} ELSE content[i][b]]]
    /\ dirty' = [i \in Inode |-> {}]
    /\ path' \in {path, diskPath} /\ diskPath' = path'
    /\ mishap' = IF path' # path THEN mishap \cup {"undone"} ELSE mishap
    /\ UNCHANGED tmp

\* EnablePersistence: a file that does not load is only reported, be it that
\* opening or reading it fails.
Restart ==
    /\ ~up /\ up' = TRUE
    /\ \/ /\ data' = IF path # None /\ Whole(path) THEN InFile ELSE {}
          /\ UNCHANGED <<faults, mishap>>
       \/ /\ path # None /\ Fault
          /\ data' = {}
          /\ mishap' = mishap \cup {"unread"}
    /\ UNCHANGED <<writes, files, savers, stop, saves, saved, due, order>>

----------------------------------------------------------------------------
Init ==
    /\ data = {} /\ writes = 0
    /\ pc = [p \in Saver |-> "idle"] /\ snap = [p \in Saver |-> {}] /\ fd = [p \in Saver |-> None]
    /\ busy = FALSE
    /\ content = [i \in Inode |-> Blank] /\ dirty = [i \in Inode |-> {}]
    /\ path = None /\ tmp = None /\ diskPath = None
    /\ up = TRUE /\ stop = "no"
    /\ saved = {} /\ due = {}
    /\ exports = 0 /\ nth = [p \in Saver |-> 0] /\ newest = 0
    /\ saves = 0 /\ faults = MaxFault /\ mishap = {}

Next ==
    \/ Write \/ Save \/ BgSave \/ Tick \/ Stop \/ FinalSave
    \/ \E p \in Saver : SaverStep(p) \/ Fail(p) \/ FailKeeps(p)
    \/ Kill \/ PowerLoss \/ Restart

Spec == Init /\ [][Next]_vars

----------------------------------------------------------------------------
(* Properties *)

\* Types; a saver has a file open exactly between Create and its return.
TypeOK ==
    /\ data \in SUBSET Nat /\ saved \in SUBSET Nat /\ due \in SUBSET Nat
    /\ pc \in [Saver -> {"idle", "export", "create", "first", "second", "sync", "rename"}]
    /\ snap \in [Saver -> SUBSET SUBSET Nat]
    /\ content \in [Inode -> [Block -> SUBSET SUBSET Nat]]
    /\ exports \in Nat /\ newest \in Nat /\ nth \in [Saver -> Nat]
    /\ fd \in [Saver -> Inode \cup {None}]
    /\ \A p \in Saver : fd[p] # None <=> Open(p)
    /\ {path, tmp, diskPath} \subseteq Inode \cup {None}
    /\ dirty \in [Inode -> SUBSET Block]
    /\ busy \in BOOLEAN /\ up \in BOOLEAN
    /\ stop \in {"no", "called", "final", "done"}
    /\ writes \in Nat /\ saves \in Nat /\ faults \in Nat
    /\ mishap \subseteq {"shared", "older", "undone", "final", "unread"}

\* rdb.go promises that a crash during a write cannot corrupt the file.  It
\* holds, through every crash, power failure and failing write, as long as no
\* two savers have the temporary name open at once.
FileLoads == "shared" \notin mishap => path = None \/ Whole(path)

\* What a SaveNow has reported saved stays in the file: whatever replaces it
\* comes of it, through failing calls, kills and restarts.  It takes that no
\* two savers shared the temporary name, that exports were renamed in the order
\* they were taken, that a power failure left the renames and that every start
\* could read the file.
SavedStays == mishap \subseteq {"final"} => saved \subseteq InFile

\* When Stop returns, the file has the keyspace as it was when Stop was
\* called, or a later one, short of the mishaps.
StopSavesAll == stop = "done" /\ mishap = {} => due \subseteq InFile

============================================================================
