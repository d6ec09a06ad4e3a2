----------------------------- MODULE Idempotent -----------------------------
(***************************************************************************)
(* IDEMPOTENT key ttl command (primitives/idempotent.go, idempotentCmd):   *)
(* the first connection becomes the leader and runs the command, later     *)
(* ones wait for it on the entry's channel or get the cached reply, until  *)
(* the entry expires.  Entries of different keys never meet: the model has *)
(* one key.  A run of the command is a number, which is also its reply.    *)
(***************************************************************************)
EXTENDS Naturals

CONSTANTS Conn,       \* connections
          Ttl,        \* the window, in ticks
          MaxTime,    \* bound on time
          MaxRun      \* bound on entries made

ASSUME IdempotentBounds == {Ttl, MaxTime, MaxRun} \subseteq Nat /\ Ttl > 0

Run == 1..MaxRun
Nil == MaxRun + 1     \* what the field result of an entry in flight holds

VARIABLES
    cur,        \* entries[key]: the entry's number, 0 when there is none
    inFlight, expires, result, closed,   \* of each entry; closed is its channel
    pc, ch,     \* of each connection: where it is, the channel it waits on
    reply,      \* the reply it is given: the number of a run, 0 for an error
    run,        \* the run it is leading
    entries,    \* entries made
    now,
    since,      \* history: when each connection's call began
    done,       \* history: when each run's result was recorded, 0 before
    upset       \* history, a set: "late", an entry expired in flight; "panic",
                \* the command of a leader panicked

store    == <<cur, inFlight, expires, result, closed, entries>>
conns    == <<pc, ch, reply, run>>
idemVars == <<store, conns, now, since, done, upset>>

Live == cur # 0 /\ now < expires[cur]
Answer(c, r) == pc' = [pc EXCEPT ![c] = "replied"] /\ reply' = [reply EXCEPT ![c] = r]

----------------------------------------------------------------------------
(* Acquire *)

Called(c) == pc[c] = "idle" /\ since' = [since EXCEPT ![c] = now]

\* Slip: the age of a completed entry is left to the sweep.
SlipHitStale(c) ==
    /\ Called(c) /\ cur # 0 /\ ~inFlight[cur]
    /\ Answer(c, result[cur])
    /\ UNCHANGED <<store, ch, run, now, done, upset>>

AcquireHit(c) ==
    /\ Called(c) /\ Live /\ ~inFlight[cur]
    /\ Answer(c, result[cur])
    /\ UNCHANGED <<store, ch, run, now, done, upset>>

AcquireWait(c) ==
    /\ Called(c) /\ Live /\ inFlight[cur]
    /\ pc' = [pc EXCEPT ![c] = "wait"] /\ ch' = [ch EXCEPT ![c] = cur]
    /\ UNCHANGED <<store, reply, run, now, done, upset>>

\* No entry, or one past its time, in flight or not.
AcquireLead(c) ==
    /\ Called(c) /\ ~Live /\ entries < MaxRun
    /\ entries' = entries + 1 /\ cur' = entries'
    /\ inFlight' = [inFlight EXCEPT ![entries'] = TRUE]
    /\ expires' = [expires EXCEPT ![entries'] = now + Ttl]
    /\ pc' = [pc EXCEPT ![c] = "run"] /\ run' = [run EXCEPT ![c] = entries']
    /\ upset' = IF cur # 0 /\ inFlight[cur] THEN upset \cup {"late"} ELSE upset
    /\ UNCHANGED <<result, closed, ch, reply, now, done>>

\* The channel is closed: look the key up again, whatever its age.
Woken(c) ==
    /\ pc[c] = "wait" /\ closed[ch[c]]
    /\ Answer(c, IF cur # 0 /\ ~inFlight[cur] THEN result[cur] ELSE 0)
    /\ UNCHANGED <<store, ch, run, now, since, done, upset>>

----------------------------------------------------------------------------
(* The leader *)

\* Slip: the waiters are not released.
SlipCompleteQuiet(c) ==
    /\ pc[c] = "run" /\ cur # 0
    /\ result' = [result EXCEPT ![cur] = run[c]]
    /\ expires' = [expires EXCEPT ![cur] = now + Ttl]
    /\ inFlight' = [inFlight EXCEPT ![cur] = FALSE]
    /\ done' = [done EXCEPT ![run[c]] = now]
    /\ Answer(c, run[c])
    /\ UNCHANGED <<cur, closed, entries, ch, run, now, since, upset>>

\* The command has run: Complete fills whatever entry the key has by now.
Complete(c) ==
    /\ pc[c] = "run" /\ cur # 0
    /\ result' = [result EXCEPT ![cur] = run[c]]
    /\ expires' = [expires EXCEPT ![cur] = now + Ttl]
    /\ inFlight' = [inFlight EXCEPT ![cur] = FALSE] /\ closed' = [closed EXCEPT ![cur] = TRUE]
    /\ done' = [done EXCEPT ![run[c]] = now]
    /\ Answer(c, run[c])
    /\ UNCHANGED <<cur, entries, ch, run, now, since, upset>>

\* Complete after another leader's Discard has dropped the entry: a new one.
CompleteMissing(c) ==
    /\ pc[c] = "run" /\ cur = 0 /\ entries < MaxRun
    /\ entries' = entries + 1 /\ cur' = entries'
    /\ result' = [result EXCEPT ![entries'] = run[c]]
    /\ expires' = [expires EXCEPT ![entries'] = now + Ttl]
    /\ done' = [done EXCEPT ![run[c]] = now]
    /\ Answer(c, run[c])
    /\ UNCHANGED <<inFlight, closed, ch, run, now, since, upset>>

\* The command has failed: Discard drops the entry if it is in flight, the
\* leader's own or not.
Discard(c) ==
    /\ pc[c] = "run"
    /\ IF cur # 0 /\ inFlight[cur]
       THEN closed' = [closed EXCEPT ![cur] = TRUE] /\ cur' = 0
       ELSE UNCHANGED <<closed, cur>>
    /\ Answer(c, 0)
    /\ UNCHANGED <<inFlight, expires, result, entries, ch, run, now, since, done, upset>>

\* The command panics: the connection's goroutine recovers and closes it, and
\* the entry stays in flight.
Panic(c) ==
    /\ pc[c] = "run"
    /\ Answer(c, 0)
    /\ upset' = upset \cup {"panic"}
    /\ UNCHANGED <<store, ch, run, now, since, done>>

\* The connection's next command.
NextCommand(c) ==
    /\ pc[c] = "replied"
    /\ pc' = [pc EXCEPT ![c] = "idle"] /\ reply' = [reply EXCEPT ![c] = 0]
    /\ ch' = [ch EXCEPT ![c] = 0] /\ run' = [run EXCEPT ![c] = 0]
    /\ since' = [since EXCEPT ![c] = 0]
    /\ UNCHANGED <<store, now, done, upset>>

----------------------------------------------------------------------------
Tick == now < MaxTime /\ now' = now + 1 /\ UNCHANGED <<store, conns, since, done, upset>>

\* Slip: the sweep asks for the age only.
SlipSweepInFlight ==
    /\ cur # 0 /\ now > expires[cur]
    /\ cur' = 0
    /\ UNCHANGED <<inFlight, expires, result, closed, entries, conns, now, since, done, upset>>

\* sweepLoop
Sweep ==
    /\ cur # 0 /\ ~inFlight[cur] /\ now > expires[cur]
    /\ cur' = 0
    /\ UNCHANGED <<inFlight, expires, result, closed, entries, conns, now, since, done, upset>>

IdemInit ==
    /\ cur = 0 /\ entries = 0 /\ now = 1
    /\ inFlight = [r \in Run |-> FALSE] /\ closed = [r \in Run |-> FALSE]
    /\ expires = [r \in Run |-> 0] /\ result = [r \in Run |-> Nil]
    /\ pc = [c \in Conn |-> "idle"] /\ ch = [c \in Conn |-> 0]
    /\ reply = [c \in Conn |-> 0] /\ run = [c \in Conn |-> 0]
    /\ since = [c \in Conn |-> 0] /\ done = [r \in Run |-> 0]
    /\ upset = {}

\* idempotentCmd once Acquire has made the connection the leader.
Lead(c) == Complete(c) \/ CompleteMissing(c) \/ Discard(c) \/ Panic(c)

IdemNext ==
    \/ \E c \in Conn : AcquireHit(c) \/ AcquireWait(c) \/ AcquireLead(c) \/ Woken(c) \/ Lead(c) \/ NextCommand(c)
    \/ Tick \/ Sweep

IdemSpec == IdemInit /\ [][IdemNext]_idemVars

\* A command ends, one way or another, and a closed channel wakes its readers.
IdemFairSpec == IdemSpec /\ \A c \in Conn : WF_idemVars(Lead(c)) /\ WF_idemVars(Woken(c))

----------------------------------------------------------------------------
(* Properties *)

\* Types; an entry in flight has an open channel, so that Complete and Discard
\* never close one twice.
IdemTypeOK ==
    /\ cur \in 0..entries /\ entries \in 0..MaxRun
    /\ inFlight \in [Run -> BOOLEAN] /\ closed \in [Run -> BOOLEAN]
    /\ expires \in [Run -> Nat] /\ result \in [Run -> 0..Nil] /\ done \in [Run -> Nat]
    /\ pc \in [Conn -> {"idle", "wait", "run", "replied"}]
    /\ ch \in [Conn -> 0..entries] /\ \A c \in Conn : pc[c] = "wait" => ch[c] # 0
    /\ reply \in [Conn -> 0..Nil] /\ run \in [Conn -> 0..entries]
    /\ cur # 0 => ~(inFlight[cur] /\ closed[cur])
    /\ now \in Nat /\ since \in [Conn -> Nat]
    /\ upset \subseteq {"late", "panic"}

\* "Run <command> at most once per (key, ttl-ms) window": no run is under way
\* while another is, nor one begun less than ttl after the end of another.
OncePerWindow ==
    upset = {} =>
        \A c \in Conn : pc[c] = "run" =>
            /\ \A d \in Conn \ {c} : pc[d] # "run"
            /\ \A r \in Run : done[r] # 0 => since[c] >= done[r] + Ttl

\* A reply taken from the cache is that of a run, never the nil of an entry that
\* is in flight, and the run ended after the call began or less than ttl before.
RepliesAreFresh ==
    \A c \in Conn : reply[c] # 0 =>
        reply[c] \in Run /\ done[reply[c]] # 0 /\ done[reply[c]] + Ttl > since[c]

\* "releases anyone waiting on the same id": nobody waits for ever, unless the
\* leader outlived its window or panicked.
WaitersReturn ==
    \A c \in Conn : pc[c] = "wait" ~> pc[c] # "wait" \/ upset # {}

============================================================================
