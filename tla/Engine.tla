------------------------------- MODULE Engine -------------------------------
(***************************************************************************)
(* Engine.Put and ExecuteFlush, called by several clients, over the log's  *)
(* file and the memtable's slice; with writes that fail, restarts and      *)
(* power failures.                                                         *)
(*                                                                         *)
(* Source: internal/engine/engine.go.  The log, the memtable and the data  *)
(* file have a lock each, Engine has none: every call it makes is a step.  *)
(* No program of the repository constructs an Engine; a client is whoever  *)
(* calls Put.                                                              *)
(***************************************************************************)
EXTENDS WAL, Memtable, FiniteSets

CONSTANTS
    Clients,
    maxEntries,    \* the memtable's limit
    MaxWrites,     \* bound: calls of Put
    MaxFaults,     \* bound: calls that fail
    MaxRestarts    \* bound: restarts

ASSUME EngineAssumption ==
    /\ IsFiniteSet(Clients)
    /\ maxEntries \in Nat \ {0}
    /\ MaxWrites \in Nat /\ MaxFaults \in Nat /\ MaxRestarts \in Nat

VARIABLES
    mem,           \* the memtable's slice
    disk,          \* the slices written to the data file, synced
    pc,            \* per client: the next call of its Put
    cur,           \* per client: the write it is about
    batch,         \* per client: the slice a flush took out of the memtable
    faults,
    restarts,
    acked,         \* history: the writes whose Put returned nil
    overlapped,    \* history: the writes whose Put ran while another one did
    dropped,       \* history: the writes that only the log held when WriteSegment had failed
    boot,          \* history: number of writes when the process was started
    forfeited      \* history: the writes given up by a failure, a restart or a second
                   \* flush at the same time

history == <<acked, overlapped, dropped, boot, forfeited>>
engineVars == <<mem, disk, pc, cur, batch, faults, restarts>>
vars == <<walVars, engineVars, history>>

IsSlice(slice) ==
    \A i \in DOMAIN slice : slice[i].v \in DOMAIN writes /\ slice[i].key = writes[slice[i].v].key

\* Every write the engine holds on to is one that was logged under its key.
EngineTypeOK ==
    /\ WALTypeOK
    /\ IsSlice(mem) /\ Len(mem) <= maxEntries + Cardinality(Clients) - 1
    /\ \A i \in DOMAIN disk : disk[i] # <<>> /\ IsSlice(disk[i])
    /\ \A c \in Clients : IsSlice(batch[c])
    /\ pc \in [Clients -> {"idle", "mem", "check", "flush", "write", "truncate"}]
    /\ cur \in [Clients -> {0} \cup DOMAIN writes]
    /\ faults \in 0 .. MaxFaults /\ restarts \in 0 .. MaxRestarts
    /\ acked \cup overlapped \cup dropped \cup forfeited \subseteq DOMAIN writes
    /\ boot \in 0 .. Len(writes)

Init ==
    /\ WALInit
    /\ mem = <<>>
    /\ disk = <<>>
    /\ pc = [c \in Clients |-> "idle"]
    /\ cur = [c \in Clients |-> 0]
    /\ batch = [c \in Clients |-> <<>>]
    /\ faults = 0
    /\ restarts = 0
    /\ acked = {} /\ overlapped = {} /\ dropped = {} /\ boot = 0 /\ forfeited = {}

Fault == faults < MaxFaults /\ faults' = faults + 1

Goto(c, label) == pc' = [pc EXCEPT ![c] = label]

-----------------------------------------------------------------------------
(***************************************************************************)
(* Put.                                                                    *)
(***************************************************************************)
\* wal.LogPut succeeds.
LogPut(c, k) ==
    LET others == {d \in Clients \ {c} : pc[d] # "idle"}
    IN  /\ pc[c] = "idle"
        /\ Len(writes) < MaxWrites
        /\ Write(NewEntry(k))
        /\ cur' = [cur EXCEPT ![c] = Len(writes) + 1]
        /\ Goto(c, "mem")
        /\ overlapped' = IF others = {} THEN overlapped
                         ELSE overlapped \cup {Len(writes) + 1} \cup {cur[d] : d \in others}
        /\ UNCHANGED <<mem, disk, batch, faults, restarts, acked, dropped, boot, forfeited>>

\* wal.LogPut fails, and Put with it; the memtable does not see the entry.
LogPutFails(c, k) ==
    /\ pc[c] = "idle"
    /\ Len(writes) < MaxWrites
    /\ Fault
    /\ WriteFails(NewEntry(k))
    /\ UNCHANGED <<mem, disk, pc, cur, batch, restarts, history>>

MemPut(c) ==
    /\ pc[c] = "mem"
    /\ mem' = Upsert(mem, Entry(writes[cur[c]].key, cur[c]))
    /\ Goto(c, "check")
    /\ UNCHANGED <<walVars, disk, cur, batch, faults, restarts, history>>

\* Put returns nil.
Ack(c) ==
    /\ Goto(c, "idle")
    /\ acked' = acked \cup {cur[c]}

Flushing(c) == pc[c] \in {"flush", "write", "truncate"}

\* Two flushes at once put every write in the log at risk: the one that finds the
\* memtable empty truncates the log before the other has written its slice.
CheckShouldFlush(c) ==
    /\ pc[c] = "check"
    /\ \/ /\ Len(mem) >= maxEntries
          /\ Goto(c, "flush")
          /\ forfeited' = IF \E d \in Clients : Flushing(d) THEN DOMAIN writes ELSE forfeited
          /\ UNCHANGED acked
       \/ /\ Len(mem) < maxEntries
          /\ Ack(c)
          /\ UNCHANGED forfeited
    /\ UNCHANGED <<walVars, mem, disk, cur, batch, faults, restarts, overlapped, dropped, boot>>

-----------------------------------------------------------------------------
(***************************************************************************)
(* ExecuteFlush.                                                           *)
(***************************************************************************)
\* Mutant of Flush: the memtable is not emptied.
FlushMutant(c) ==
    /\ pc[c] = "flush"
    /\ batch' = [batch EXCEPT ![c] = mem]
    /\ Goto(c, "write")
    /\ UNCHANGED <<walVars, mem, disk, cur, faults, restarts, history>>

\* mem.Flush: the slice is nil when another flush has emptied the memtable.
Flush(c) ==
    /\ pc[c] = "flush"
    /\ batch' = [batch EXCEPT ![c] = mem]
    /\ mem' = <<>>
    /\ Goto(c, "write")
    /\ UNCHANGED <<walVars, disk, cur, faults, restarts, history>>

\* Mutant of WriteSegment: an empty slice is written too.
WriteSegmentMutant(c) ==
    /\ pc[c] = "write"
    /\ disk' = Append(disk, batch[c])
    /\ batch' = [batch EXCEPT ![c] = <<>>]
    /\ Goto(c, "truncate")
    /\ UNCHANGED <<walVars, mem, cur, faults, restarts, history>>

\* WriteSegment succeeds; for an empty slice it writes nothing and succeeds as well.
\* The metadata it returns is not registered with a tracker.
WriteSegment(c) ==
    /\ pc[c] = "write"
    /\ disk' = IF batch[c] = <<>> THEN disk ELSE Append(disk, batch[c])
    /\ batch' = [batch EXCEPT ![c] = <<>>]
    /\ Goto(c, "truncate")
    /\ UNCHANGED <<walVars, mem, cur, faults, restarts, history>>

\* The writes in the log that are lost with a slice: its own, and the older ones of
\* its keys, which it does not hold any more.
LostWith(slice) ==
    {n \in {log[i].n : i \in DOMAIN log} :
        \E j \in DOMAIN slice : slice[j].key = writes[n].key /\ slice[j].v >= n}

\* WriteSegment fails, and Put with it: the slice is gone from memory.
WriteSegmentFails(c) ==
    /\ pc[c] = "write"
    /\ batch[c] # <<>>
    /\ Fault
    /\ batch' = [batch EXCEPT ![c] = <<>>]
    /\ dropped' = dropped \cup LostWith(batch[c])
    /\ Goto(c, "idle")
    /\ UNCHANGED <<walVars, mem, disk, cur, restarts, acked, overlapped, boot, forfeited>>

\* A truncation gives up what the log alone still held: the slices that were
\* dropped, and what was written before the last restart.
Forfeit == forfeited' = forfeited \cup dropped \cup 1 .. boot

\* Mutant of TruncateLog: the log may be truncated before the segment is written.
TruncateLogMutant(c) ==
    /\ pc[c] \in {"write", "truncate"}
    /\ Truncate
    /\ Forfeit
    /\ IF pc[c] = "write" THEN UNCHANGED <<pc, acked>> ELSE Ack(c)
    /\ UNCHANGED <<mem, disk, cur, batch, faults, restarts, overlapped, dropped, boot>>

TruncateLog(c) ==
    /\ pc[c] = "truncate"
    /\ Truncate
    /\ Forfeit
    /\ Ack(c)
    /\ UNCHANGED <<mem, disk, cur, batch, faults, restarts, overlapped, dropped, boot>>

\* wal.Truncate fails, and Put with it, though its entry is stored.
TruncateLogFails(c) ==
    /\ pc[c] = "truncate"
    /\ Fault
    /\ TruncateFails
    /\ Forfeit
    /\ Goto(c, "idle")
    /\ UNCHANGED <<mem, disk, cur, batch, restarts, acked, overlapped, dropped, boot>>

-----------------------------------------------------------------------------
(***************************************************************************)
(* Restarts.  The log is opened again, to append; nothing calls ReadAll.   *)
(***************************************************************************)
StartAgain ==
    /\ restarts < MaxRestarts
    /\ restarts' = restarts + 1
    /\ mem' = <<>>
    /\ pc' = [c \in Clients |-> "idle"]
    /\ batch' = [c \in Clients |-> <<>>]
    /\ boot' = Len(writes)
    /\ UNCHANGED <<disk, cur, faults, acked, overlapped, dropped>>

\* The process ends and is started again; the file has all that was written.
Restart ==
    /\ StartAgain
    /\ UNCHANGED <<walVars, forfeited>>

\* The machine fails, with what was not synced.
PowerFailure ==
    /\ StartAgain
    /\ LosesTail
    /\ forfeited' = DOMAIN writes

Next ==
    \/ \E c \in Clients :
        \/ \E k \in Keys : LogPut(c, k) \/ LogPutFails(c, k)
        \/ MemPut(c) \/ CheckShouldFlush(c)
        \/ Flush(c) \/ WriteSegment(c) \/ WriteSegmentFails(c)
        \/ TruncateLog(c) \/ TruncateLogFails(c)
    \/ Restart
    \/ PowerFailure

Spec == Init /\ [][Next]_vars

-----------------------------------------------------------------------------
(***************************************************************************)
(* Properties.                                                             *)
(***************************************************************************)
\* A log in which nothing was written behind a torn record reads back as a whole or
\* not at all: ReadAll returns every record, in order, or an error if the last one
\* is cut short; it never drops a record in silence.
LogReadsBack ==
    (\A i \in DOMAIN log : i < Len(log) => Complete(log[i])) =>
        IF Torn THEN ReadAll.status = "error"
        ELSE ReadAll = [status |-> "ok", entries |-> [i \in DOMAIN log |-> log[i].n]]

\* The last write of k in a sequence of writes, 0 if there is none.
LastOf(k, ns) ==
    LET places == {i \in DOMAIN ns : ns[i] # 0 /\ writes[ns[i]].key = k}
    IN  IF places = {} THEN 0 ELSE ns[Max(places)]

\* The writes in the segments, the oldest segment first.
StoredWrites == FlattenSeq([i \in DOMAIN disk |-> [j \in DOMAIN disk[i] |-> disk[i][j].v]])

\* What a recovery finds for k: the log, replayed on top of the segments.
Recovered(k) ==
    LET logged == LastOf(k, ReadAll.entries)
        stored == LastOf(k, StoredWrites)
    IN  IF logged # 0 THEN logged ELSE stored

\* An acknowledged Put that no other Put overlapped survives: at every step a
\* recovery would find its value or a newer one, unless the log holds a torn record,
\* two flushes have run at once, or a truncation has thrown away what a failed flush
\* or a restart had left to the log alone.  (Puts that overlap are not promised this:
\* the flush of one truncates the record another has just logged.)
AckedRecoverable ==
    \A n \in acked \ (overlapped \cup forfeited) :
        ~ Torn => Recovered(writes[n].key) >= n

\* The slice that putting writes ns into an empty memtable, one after the other, makes.
Replayed(ns) ==
    LET upTo[i \in 0 .. Len(ns)] ==
            IF i = 0 THEN <<>> ELSE Upsert(upTo[i - 1], Entry(writes[ns[i]].key, ns[i]))
    IN  upTo[Len(ns)]

\* Replaying the log rebuilds the memtable exactly: while nothing has failed and no
\* Puts have overlapped, the log between two calls of Put holds the writes since the
\* last flush and nothing else.
ReplayRebuildsMemtable ==
    /\ faults = 0 /\ restarts = 0 /\ overlapped = {}
    /\ \A c \in Clients : pc[c] = "idle"
    => mem = Replayed(ReadAll.entries)

-----------------------------------------------------------------------------
(***************************************************************************)
(* What the repository says and the code does not do.                      *)
(***************************************************************************)
\* "Only truncate WAL after disk write is confirmed" (engine.go): a truncation takes no
\* record out of the log whose write, or a newer one of its key, is not in a segment.
TruncatesStoredOnly ==
    [][log' # log /\ (\E c \in Clients : pc[c] = "truncate" /\ pc'[c] = "idle") =>
        \A i \in DOMAIN log : Complete(log[i]) =>
            LastOf(writes[log[i].n].key, StoredWrites) >= log[i].n]_vars
=============================================================================
