-------------------------------- MODULE Aof --------------------------------
(***************************************************************************)
(* The append-only file: persistence/aof.go, and RecordWrite,              *)
(* EnablePersistence and BGRewriteAOF of engine/engine.go.                 *)
(*                                                                         *)
(* A write is a number, and a keyspace the sequence of the writes it has   *)
(* seen.  A record is two units, its halves, so that a file can end in the *)
(* middle of one.  Bytes are in the bufio buffer, in the file, or on disk: *)
(* the first `synced' units of the file are on disk.  A killed process     *)
(* loses the buffer; a power failure also loses an unsynced tail.          *)
(*                                                                         *)
(* A write, a sync, a rename or the reopen after it may fail.  A completed *)
(* rename is on disk.                                                      *)
(***************************************************************************)
EXTENDS Integers, Sequences

CONSTANTS Writer,        \* connections that write
          Policies,      \* values of appendfsync: "always", "everysec", "no"
          Unserialized,  \* writes of a type writeAOFSnapshot does not emit (vectors)
          MaxWrite,      \* bound on writes
          MaxCrash,      \* bound on crashes and failing file operations
          MaxRewrite     \* bound on BGREWRITEAOF calls

ASSUME PolicyAssumption == Policies \subseteq {"always", "everysec", "no"}
ASSUME AofBounds        == {MaxWrite, MaxCrash, MaxRewrite} \subseteq Nat

VARIABLES
    policy,    \* AOF.policy, fixed at the start
    data,      \* the keyspace; while the server is down, as the stop left it
    issued,    \* number of the last write
    wpc, wid,  \* writers: next step, the write
    acked,     \* history: writes whose client has the reply
    ticked,    \* history: writes in the log at the last completed flush and sync
    bufw,      \* bufio.Writer
    file,      \* the file as a process sees it
    synced,    \* units of it that a power failure leaves alone
    phase,     \* "up", "closed" (AOF.Close has run, or the file or its writer
               \* has failed; connections go on) or "down"
    rw, snap,  \* BGRewriteAOF: next step, the exported keyspace
    mishap,    \* history, a set: "torn", a restart found a defect; "spliced",
               \* one found bytes behind a half record; "raced", a
               \* write overlapped a rewrite; "late", one came to a closed log;
               \* "failed", the file refused one; "crossed", two overlapped;
               \* "partial", a rewrite left a key out
    budget     \* crashes and file errors, and rewrites left

writers == <<issued, wpc, wid>>
log     == <<bufw, file, synced>>
rewrite == <<rw, snap>>
aofVars == <<policy, data, writers, acked, ticked, log, phase, rewrite, mishap, budget>>

ElementsOf(s) == {s[i] : i \in DOMAIN s}

\* The record of a command, or of a whole snapshot: the writes it replays.
Record(ids) == <<[ids |-> ids, part |-> 1], [ids |-> ids, part |-> 2]>>

\* Whole records before the first defect: a missing second half, or bytes
\* that follow a half record.
Whole(f, n) == \A i \in 1 .. n : /\ f[2 * i - 1].part = 1
                                 /\ f[2 * i] = [ids |-> f[2 * i - 1].ids, part |-> 2]
Records(f)  == CHOOSE n \in 0 .. Len(f) \div 2 :
                 Whole(f, n) /\ \A m \in 0 .. Len(f) \div 2 : Whole(f, m) => m <= n

\* The first N sequences of ss one after the other.
UpTo(ss, N)   == LET upTo[n \in 0 .. N] == IF n = 0 THEN <<>> ELSE upTo[n - 1] \o ss[n]
                 IN  upTo
Joined(ss, N) == UpTo(ss, N)[N]

\* What Replay builds of the records before the first defect, in their order.
Replay(f) == Joined([i \in 1 .. Records(f) |-> f[2 * i].ids], Records(f))

\* Bytes follow a half record.
Spliced(f) == Len(f) > 2 * Records(f) + 1

\* A write that nobody made: readCommand takes the lengths a half record
\* declares from the bytes that follow it, and may get a command of both.
Stray == 0

\* What Replay may build.  Behind a half record it stops at an error, with or
\* without a stray write, or it comes to the start of a later record and reads
\* on from there.
Replays(f) ==
    {Replay(f)} \cup
      IF Spliced(f) THEN {Replay(f) \o <<Stray>> \o Replay(SubSeq(f, n, Len(f))) :
                            n \in 2 * Records(f) + 2 .. Len(f) + 1}
      ELSE {}

\* What writeAOFSnapshot emits of a keyspace.
Emitted(s) == Joined([i \in DOMAIN s |-> IF s[i] \in Unserialized THEN <<>> ELSE <<s[i]>>],
                     Len(s))

Spend(what) == budget[what] > 0 /\ budget' = [budget EXCEPT ![what] = @ - 1]

\* The writes executed and not yet handed to the log.
Unlogged == {wid[w] : w \in {v \in Writer : wpc[v] = "append"}}

----------------------------------------------------------------------------
(* The write path; a connection is served until the process exits. *)

\* dispatch: the command takes effect.
Mutate(w) ==
    /\ phase # "down" /\ wpc[w] = "idle" /\ issued < MaxWrite
    /\ issued' = issued + 1
    /\ data' = Append(data, issued + 1)
    /\ wid' = [wid EXCEPT ![w] = issued + 1]
    /\ wpc' = [wpc EXCEPT ![w] = "append"]
    /\ mishap' = mishap \cup {m \in {"raced", "crossed"} :
                                \/ m = "raced" /\ rw = "install"
                                \/ m = "crossed" /\ Unlogged # {}}
    /\ UNCHANGED <<policy, acked, ticked, log, phase, rewrite, budget>>

\* Slip: "always" flushes and does not sync.
SlipFlushOnly(w) ==
    LET all == bufw \o Record(<<wid[w]>>) IN
    /\ phase # "down" /\ wpc[w] = "append"
    /\ IF phase = "up" /\ policy = "always"
       THEN file' = file \o all /\ bufw' = <<>> /\ UNCHANGED synced
       ELSE bufw' = (IF phase = "up" THEN all ELSE bufw) /\ UNCHANGED <<file, synced>>
    /\ wpc' = [wpc EXCEPT ![w] = "reply"]
    /\ mishap' = IF phase = "closed" THEN mishap \cup {"late"} ELSE mishap
    /\ UNCHANGED <<policy, data, issued, wid, acked, ticked, phase, rewrite, budget>>

\* RecordWrite and AOF.Append, under the file's mutex: "always" flushes and
\* syncs.  On a closed file both fail, and RecordWrite drops the error; what
\* is in the buffer then stays there for good.
AppendRecord(w) ==
    LET all == bufw \o Record(<<wid[w]>>) IN
    /\ phase # "down" /\ wpc[w] = "append"
    /\ IF phase = "up" /\ policy = "always"
       THEN file' = file \o all /\ bufw' = <<>> /\ synced' = Len(file) + Len(all)
       ELSE bufw' = (IF phase = "up" THEN all ELSE bufw) /\ UNCHANGED <<file, synced>>
    /\ wpc' = [wpc EXCEPT ![w] = "reply"]
    /\ mishap' = IF phase = "closed" THEN mishap \cup {"late"} ELSE mishap
    /\ UNCHANGED <<policy, data, issued, wid, acked, ticked, phase, rewrite, budget>>

\* With "always" the flush may stop anywhere, and the bufio.Writer then refuses
\* everything, or the sync may fail; again the error is dropped.
AppendFails(w) ==
    LET all == Record(<<wid[w]>>) IN
    /\ phase = "up" /\ policy = "always" /\ wpc[w] = "append" /\ Spend("crash")
    /\ \E n \in 0 .. Len(all) :
         /\ file' = file \o SubSeq(all, 1, n)
         /\ phase' = IF n < Len(all) THEN "closed" ELSE "up"
    /\ wpc' = [wpc EXCEPT ![w] = "reply"]
    /\ mishap' = mishap \cup {"failed"}
    /\ UNCHANGED <<policy, data, issued, wid, acked, ticked, bufw, synced, rewrite>>

\* The reply leaves the server after RecordWrite.
Reply(w) ==
    /\ phase # "down" /\ wpc[w] = "reply"
    /\ acked' = acked \cup {wid[w]}
    /\ wpc' = [wpc EXCEPT ![w] = "idle"]
    /\ UNCHANGED <<policy, data, issued, wid, ticked, log, phase, rewrite, mishap, budget>>

\* A full bufio.Writer writes through, whatever record it is in.
Spill ==
    /\ phase = "up" /\ bufw # <<>>
    /\ file' = Append(file, Head(bufw))
    /\ bufw' = Tail(bufw)
    /\ UNCHANGED <<policy, data, writers, acked, ticked, synced, phase, rewrite, mishap, budget>>

\* flushLoop's ticker.
Tick ==
    /\ phase = "up" /\ policy # "no"
    /\ file' = file \o bufw /\ bufw' = <<>>
    /\ synced' = Len(file) + Len(bufw)
    /\ ticked' = ElementsOf(data) \ Unlogged
    /\ UNCHANGED <<policy, data, writers, acked, phase, rewrite, mishap, budget>>

\* The flush of the ticker, of a rewrite or of a full buffer stops in the
\* middle; the bufio.Writer keeps the rest and its error.
FlushFails ==
    /\ phase = "up" /\ bufw # <<>> /\ Spend("crash")
    /\ \E n \in 0 .. Len(bufw) - 1 :
         file' = file \o SubSeq(bufw, 1, n) /\ bufw' = SubSeq(bufw, n + 1, Len(bufw))
    /\ phase' = "closed"
    /\ UNCHANGED <<policy, data, writers, acked, ticked, synced, rewrite, mishap>>

----------------------------------------------------------------------------
(* BGREWRITEAOF *)

\* One at a time, by bgRewriteBusy.
RewriteStart ==
    /\ phase # "down" /\ rw = "none" /\ Spend("rewrite")
    /\ rw' = "export"
    /\ UNCHANGED <<policy, data, writers, acked, ticked, log, phase, snap, mishap>>

\* Slip: the export stops one write short.
SlipExportShort ==
    /\ phase # "down" /\ rw = "export"
    /\ snap' = Emitted(SubSeq(data, 1, Len(data) - 1))
    /\ mishap' = mishap \cup {m \in {"raced", "partial"} :
                                \/ m = "raced" /\ Unlogged # {}
                                \/ m = "partial" /\ ElementsOf(data) \cap Unserialized # {}}
    /\ rw' = "install"
    /\ UNCHANGED <<policy, data, writers, acked, ticked, log, phase, budget>>

\* Store.Export with every shard locked, through writeAOFSnapshot to the
\* temporary file, which is synced and closed.
Export ==
    /\ phase # "down" /\ rw = "export"
    /\ snap' = Emitted(data)
    /\ mishap' = mishap \cup {m \in {"raced", "partial"} :
                                \/ m = "raced" /\ Unlogged # {}
                                \/ m = "partial" /\ ElementsOf(data) \cap Unserialized # {}}
    /\ rw' = "install"
    /\ UNCHANGED <<policy, data, writers, acked, ticked, log, phase, budget>>

\* Under the file's mutex: flush and close the old file, rename the new one
\* over it, and go on appending to that.
Install ==
    /\ phase = "up" /\ rw = "install"
    /\ file' = Record(snap) /\ synced' = 2 /\ bufw' = <<>>
    /\ rw' = "none" /\ snap' = <<>>
    /\ UNCHANGED <<policy, data, writers, acked, ticked, phase, mishap, budget>>

\* The temporary file cannot be created, written, synced or closed.
TempFails ==
    /\ phase # "down" /\ rw # "none" /\ Spend("crash")
    /\ rw' = "none" /\ snap' = <<>>
    /\ UNCHANGED <<policy, data, writers, acked, ticked, log, phase, mishap>>

\* The close of the old file fails, or the rename, after which the old file is
\* opened again if it can be.
RenameFails ==
    /\ phase = "up" /\ rw = "install" /\ Spend("crash")
    /\ file' = file \o bufw /\ bufw' = <<>>
    /\ rw' = "none" /\ snap' = <<>>
    /\ phase' \in {"up", "closed"}
    /\ UNCHANGED <<policy, data, writers, acked, ticked, synced, mishap>>

\* The new file cannot be opened: the log is left with a closed one.
ReopenFails ==
    /\ phase = "up" /\ rw = "install" /\ Spend("crash")
    /\ file' = Record(snap) /\ synced' = 2 /\ bufw' = <<>>
    /\ rw' = "none" /\ snap' = <<>>
    /\ phase' = "closed"
    /\ UNCHANGED <<policy, data, writers, acked, ticked, mishap>>

\* On a closed or failed file the flush or the close fails, and the rewrite
\* gives up.
InstallFails ==
    /\ phase = "closed" /\ rw = "install"
    /\ rw' = "none" /\ snap' = <<>>
    /\ UNCHANGED <<policy, data, writers, acked, ticked, log, phase, mishap, budget>>

----------------------------------------------------------------------------
(* Crashes, shutdown, restart; a crash after AOF.Close does what Exit does. *)

Down ==
    /\ phase' = "down"
    /\ bufw' = <<>>
    /\ rw' = "none" /\ snap' = <<>>
    /\ wpc' = [w \in Writer |-> "idle"]
    /\ UNCHANGED <<policy, data, issued, wid, acked, ticked, mishap>>

\* The process is killed; the page cache survives.
Kill ==
    /\ phase = "up" /\ Spend("crash")
    /\ Down
    /\ UNCHANGED <<file, synced>>

\* Power is lost, possibly while an unfinished Append was being written: any
\* part of the unsynced tail may have reached the disk.
PowerLoss ==
    /\ phase = "up" /\ Spend("crash")
    /\ Down
    /\ \E tail \in {file} \cup {file \o bufw \o Record(<<id>>) : id \in Unlogged} :
         \E n \in synced .. Len(tail) : file' = SubSeq(tail, 1, n) /\ synced' = n

\* Engine.Stop after the listener is closed: AOF.Close flushes the buffer,
\* and syncs it unless the policy is "no".  Open connections are not waited for.
Close ==
    /\ phase = "up"
    /\ file' = file \o bufw /\ bufw' = <<>>
    /\ synced' = IF policy = "no" THEN synced ELSE Len(file) + Len(bufw)
    /\ ticked' = ElementsOf(data) \ Unlogged
    /\ phase' = "closed"
    /\ UNCHANGED <<policy, data, writers, acked, rewrite, mishap, budget>>

\* main returns.
Exit ==
    /\ phase = "closed"
    /\ Down
    /\ UNCHANGED <<file, synced, budget>>

\* What a replay of the file meets.
Defects(f) == {m \in {"torn", "spliced"} :
                 \/ m = "torn" /\ Len(f) # 2 * Records(f)
                 \/ m = "spliced" /\ Spliced(f)}

\* Slip: a record cut short is applied.
SlipReplayTorn ==
    /\ phase = "down"
    /\ data' = Replay(file) \o (IF Len(file) % 2 = 1 THEN Append(file[Len(file)].ids, issued)
                                ELSE <<>>)
    /\ mishap' = mishap \cup Defects(file)
    /\ phase' = "up"
    /\ UNCHANGED <<policy, writers, acked, ticked, log, rewrite, budget>>

\* EnablePersistence: replay, with a warning at a defect, and open the same
\* file for appending, whatever it ends in.
Restart ==
    /\ phase = "down"
    /\ data' \in Replays(file)
    /\ mishap' = mishap \cup Defects(file)
    /\ phase' = "up"
    /\ UNCHANGED <<policy, writers, acked, ticked, log, rewrite, budget>>

----------------------------------------------------------------------------
AofInit ==
    /\ policy \in Policies
    /\ data = <<>> /\ issued = 0
    /\ wpc = [w \in Writer |-> "idle"] /\ wid = [w \in Writer |-> 0]
    /\ acked = {} /\ ticked = {}
    /\ bufw = <<>> /\ file = <<>> /\ synced = 0
    /\ phase = "up" /\ rw = "none" /\ snap = <<>> /\ mishap = {}
    /\ budget = [crash |-> MaxCrash, rewrite |-> MaxRewrite]

AofNext ==
    \/ \E w \in Writer : Mutate(w) \/ AppendRecord(w) \/ AppendFails(w) \/ Reply(w)
    \/ Spill \/ Tick \/ FlushFails
    \/ RewriteStart \/ Export \/ Install \/ TempFails \/ RenameFails \/ ReopenFails \/ InstallFails
    \/ Kill \/ PowerLoss \/ Close \/ Exit \/ Restart

AofSpec == AofInit /\ [][AofNext]_aofVars

----------------------------------------------------------------------------
(* Properties *)

Id   == {Stray} \cup 1 .. MaxWrite
Unit == [ids : Seq(Id), part : {1, 2}]

\* Types; the synced part of the file is a part of the file.
AofTypeOK ==
    /\ policy \in Policies
    /\ data \in Seq(Id) /\ issued \in 0 .. MaxWrite
    /\ wpc \in [Writer -> {"idle", "append", "reply"}] /\ wid \in [Writer -> Id]
    /\ acked \subseteq Id /\ ticked \subseteq Id
    /\ bufw \in Seq(Unit) /\ file \in Seq(Unit) /\ synced \in 0 .. Len(file)
    /\ phase \in {"up", "closed", "down"} /\ rw \in {"none", "export", "install"}
    /\ snap \in Seq(Id) /\ mishap \subseteq {"torn", "spliced", "raced", "late", "failed", "crossed", "partial"}

\* With appendfsync always, a write whose client has the reply is never lost:
\* the keyspace holds it, whatever crashes and restarts lie behind.
AckedSurvive == policy = "always" /\ phase = "up" => acked \subseteq ElementsOf(data)

\* What was in the log at a completed tick or close is never lost, unless the
\* policy is "no".
TickedSurvive == policy # "no" /\ phase = "up" => ticked \subseteq ElementsOf(data)

\* AckedSurvive fails in five ways only: an append behind a torn record, a
\* write overlapping a rewrite, a rewrite with a type it does not emit, a
\* write after AOF.Close or after the file was lost, a write the file refused.
\* Writes that cross each other lose nothing, nor does a rename that fails.
\* The same holds of TickedSurvive.
LostOnlyByMishap == mishap \subseteq {"crossed"} => AckedSurvive /\ TickedSurvive

\* A restart brings back a prefix of the writes, none skipped, repeated,
\* reordered or made up, wherever in a record the file was cut, also when an
\* earlier restart found the cut or the file was lost; short of a record that
\* was appended behind a cut and is read now, or was by an earlier restart, of
\* writes that overlapped each other or a rewrite, and of a rewrite that left a
\* key out.
RestartIsPrefix ==
    [][phase = "down" /\ phase' = "up" /\ mishap' \subseteq {"torn", "late", "failed"}
         => Len(data') <= Len(data) /\ \A i \in DOMAIN data' : data'[i] = data[i]]_aofVars

\* "durability tracks the live state" (writeset.go): with no write under way
\* the log, buffer included, replays to the keyspace, short of a mishap.
LogTracksData ==
    mishap = {} /\ phase # "down" /\ Unlogged = {} => Replay(file \o bufw) = data

\* The log's fields keep their types, the synced part of the file is a part of
\* it, and file and buffer together are the log of the keyspace.
LogConsistent == AofTypeOK /\ LogTracksData

============================================================================
