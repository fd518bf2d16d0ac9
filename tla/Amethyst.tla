------------------------------ MODULE Amethyst ------------------------------
(***************************************************************************)
(* The running program: the main goroutine works through the phases of a   *)
(* workload (writes, flushes, reads, at the end perhaps one compaction of  *)
(* its own) while the background goroutine compacts.                       *)
(*                                                                         *)
(* Source: cmd/amethystd/main.go, with the calls it makes into the write-  *)
(* ahead log, the memtable, the SSTable writer and reader and the tracker. *)
(* Only the main goroutine touches the log and the memtable, so a write is *)
(* one step up to the point where the tracker or the data file changes.    *)
(***************************************************************************)
EXTENDS Compaction

CONSTANTS
    Workload,     \* the -workload flag, or "client"
    maxEntries,   \* the -memtable-entries flag
    MaxWrites,    \* bound: client writes
    MaxClock      \* bound: seconds that pass

VARIABLES
    phases,       \* what main still has to do
    mpc,          \* where main is in its loop body
    mem,          \* the memtable
    buf,          \* the entries a flush took out of the memtable
    flushed,      \* ID of the segment a flush has written, 0 for none
    wal,          \* the log, see Log
    latest,       \* history: the last entry written for each key
    writes,       \* client writes so far
    rd,           \* the point lookup in progress
    stop          \* stopCompaction is closed

mainVars == <<phases, mpc, mem, buf, flushed, wal, latest, writes, rd, stop>>
vars == <<trackerVars, compactionVars, mainVars>>

(***************************************************************************)
(* The workloads as sequences of phases.  "populate" writes every key once *)
(* in ascending order, "overwrite" writes arbitrary keys, "flush" is the   *)
(* "final flush", "mixed" reads and writes, "compact" plans and executes   *)
(* one compaction on the main goroutine.  "client" is not one of main's    *)
(* workloads: it drives the same loops and also deletes, with the calls    *)
(* wal.LogDelete and memtable.Delete that main never makes.                *)
(***************************************************************************)
runShift == <<"populate", "overwrite", "flush", "read", "overwrite", "flush", "read">>
runPureWrite == <<"populate", "flush">>
runPureRead == <<"populate", "flush", "read">>
runMixed == <<"populate", "flush", "mixed", "compact">>
runReadHeavy == <<"populate", "flush", "mixed", "compact">>
runWriteHeavy == <<"populate", "flush", "mixed", "compact">>
runZipfian == <<"populate", "flush", "read">>

Workloads ==
    [shift |-> runShift, pureWrite |-> runPureWrite, pureRead |-> runPureRead,
     mixed |-> runMixed, readHeavy |-> runReadHeavy, writeHeavy |-> runWriteHeavy,
     zipfian |-> runZipfian, client |-> <<"client">>]

Phase == {"populate", "overwrite", "flush", "read", "mixed", "compact", "client"}

\* The log: the entries that can be read back (their file order is their Version
\* order), whether a torn record ends it, and, as history, the entries written since
\* it was last emptied that it cannot give back.
Log == [entries : SUBSET (Keys \X Int), unlogged : SUBSET (Keys \X Int), torn : BOOLEAN]

EmptyLog == [entries |-> {}, unlogged |-> {}, torn |-> FALSE]

ASSUME WorkloadAssumption == Workload \in DOMAIN Workloads
ASSUME MainAssumption ==
    maxEntries \in Nat \ {0} /\ MaxClock \in Nat
    /\ MaxWrites \in Nat /\ MaxWrites >= Cardinality(Keys)

NoRead == [key |-> 0, segs |-> <<>>, rest |-> <<>>, hit |-> Absent]

MainTypeOK ==
    /\ phases \in Seq(Phase)
    /\ mpc \in {"run", "write", "register", "truncate", "reading", "compacting", "done"}
    /\ mem \in Table
    /\ buf \in Table
    /\ flushed \in {0} \cup SegmentID
    /\ wal \in Log
    /\ latest \in Table
    /\ writes \in Nat
    /\ rd \in [key : Keys \cup {0}, segs : Seq(SegmentID), rest : Seq(SegmentID), hit : Int]
    /\ mpc = "reading" => rd.key \in Keys
    /\ mpc = "compacting" => phases # <<>>
    /\ stop \in BOOLEAN

Init ==
    /\ TrackerInit
    /\ CompactionInit
    /\ phases = Workloads[Workload]
    /\ mpc = "run"
    /\ mem = EmptyTable
    /\ buf = EmptyTable
    /\ flushed = 0
    /\ wal = EmptyLog
    /\ latest = EmptyTable
    /\ writes = 0
    /\ rd = NoRead
    /\ stop = FALSE

InPhase(P) == mpc = "run" /\ phases # <<>> /\ Head(phases) \in P

\* The keys of main's liveKeys map.
liveKeys == ValueKeys(latest)

-----------------------------------------------------------------------------
(***************************************************************************)
(* Writes.                                                                 *)
(***************************************************************************)
\* Mutant of ShouldFlush: an off-by-one lets the memtable reach its limit.
ShouldFlushMutant(table) == Cardinality(KeysOf(table)) > maxEntries

ShouldFlush(table) == Cardinality(KeysOf(table)) >= maxEntries

Recorded(k, e) == [wal EXCEPT !.entries = @ \cup {<<k, e>>}]

NotRecorded(k, e, torn) ==
    [wal EXCEPT !.unlogged = @ \cup {<<k, e>>}, !.torn = torn]

\* Mutant of Logged: a key that is already in the memtable is not logged again.
LoggedMutant(k, e) == {IF mem[k] = Absent THEN Recorded(k, e) ELSE wal}

\* Mutant of Logged: deletes are not logged.
LoggedPutsMutant(k, e) == {IF e > 0 THEN Recorded(k, e) ELSE wal}

\* LogPut and LogDelete append to the log; what comes behind a torn record cannot be
\* read back.  A write that fails leaves nothing or a part of its record, and main
\* drops the error.
Logged(k, e) ==
    {IF wal.torn THEN NotRecorded(k, e, TRUE) ELSE Recorded(k, e)}
        \cup {NotRecorded(k, e, torn) : torn \in {t \in {wal.torn, TRUE} : "log" \in Faults}}

\* Log the entry, put it into the memtable; a full memtable starts a flush.
WriteEntry(k, e) ==
    LET table == [mem EXCEPT ![k] = e]
    IN  /\ writes < MaxWrites
        /\ writes' = writes + 1
        /\ wal' \in Logged(k, e)
        /\ latest' = [latest EXCEPT ![k] = e]
        /\ IF ShouldFlush(table)
           THEN mem' = EmptyTable /\ buf' = table /\ mpc' = "write"
           ELSE mem' = table /\ UNCHANGED <<buf, mpc>>
        /\ UNCHANGED <<phases, flushed, rd, stop>>
        /\ UNCHANGED compactionVars
        /\ UNCHANGED trackerVars

Populate ==
    /\ InPhase({"populate"})
    /\ \E k \in Keys \ KeysOf(latest) :
        /\ \A j \in Keys \ KeysOf(latest) : k <= j
        /\ WriteEntry(k, writes + 1)

Put(k) ==
    /\ InPhase({"overwrite", "mixed", "client"})
    /\ WriteEntry(k, writes + 1)

Delete(k) ==
    /\ InPhase({"client"})
    /\ WriteEntry(k, - (writes + 1))

\* Mutant of FlushWrite: a failed write is taken for a written one.
FlushWriteMutant ==
    /\ mpc = "write"
    /\ \/ /\ AppendSegment(NewSegment(buf, TIERED, 0, clock, "flush"))
          /\ flushed' = Len(segs) + 1
          /\ mpc' = "register"
          /\ UNCHANGED <<faults, buf>>
       \/ /\ MayFail("append")
          /\ faults' = faults + 1
          /\ mpc' = "truncate"
          /\ buf' = EmptyTable
          /\ UNCHANGED flushed
          /\ UNCHANGED trackerVars
    /\ UNCHANGED <<clock, currentPolicy, switches, panicked, inCompaction, pc, todo, plan,
                   merged, newSeg>>
    /\ UNCHANGED <<phases, mem, wal, latest, writes, rd, stop>>

\* WriteSegment of a flush.  main ignores its error and dereferences the nil
\* segment it then gets.
FlushWrite ==
    /\ mpc = "write"
    /\ \/ /\ AppendSegment(NewSegment(buf, TIERED, 0, clock, "flush"))
          /\ flushed' = Len(segs) + 1
          /\ mpc' = "register"
          /\ UNCHANGED <<faults, panicked>>
       \/ /\ MayFail("append")
          /\ faults' = faults + 1
          /\ panicked' = TRUE
          /\ UNCHANGED <<mpc, flushed>>
          /\ UNCHANGED trackerVars
    /\ UNCHANGED <<clock, currentPolicy, switches, inCompaction, pc, todo, plan, merged, newSeg>>
    /\ UNCHANGED <<phases, mem, buf, wal, latest, writes, rd, stop>>

FlushRegister ==
    /\ mpc = "register"
    /\ mpc' = "truncate"
    /\ RegisterSegment(flushed)
    /\ buf' = EmptyTable
    /\ flushed' = 0
    /\ UNCHANGED <<phases, mem, wal, latest, writes, rd, stop>>
    /\ UNCHANGED compactionVars

\* main drops the error of a truncation too, which then leaves the log as it was.
FlushTruncate ==
    /\ mpc = "truncate"
    /\ mpc' = "run"
    /\ wal' = EmptyLog \/ ("log" \in Faults /\ UNCHANGED wal)
    /\ UNCHANGED <<phases, mem, buf, flushed, latest, writes, rd, stop>>
    /\ UNCHANGED compactionVars
    /\ UNCHANGED trackerVars

\* The loop of the current phase is over.
NextPhase ==
    /\ \/ InPhase({"populate"}) /\ KeysOf(latest) = Keys
       \/ InPhase({"overwrite", "read", "mixed", "client"})
    /\ phases' = Tail(phases)
    /\ UNCHANGED <<mpc, mem, buf, flushed, wal, latest, writes, rd, stop>>
    /\ UNCHANGED compactionVars
    /\ UNCHANGED trackerVars

\* The final flush writes only a full memtable.  The write loops never leave one behind
\* (main would be stuck here in the model), so it flushes nothing.
FinalFlush ==
    /\ InPhase({"flush"})
    /\ ~ ShouldFlush(mem)
    /\ phases' = Tail(phases)
    /\ UNCHANGED <<mpc, mem, buf, flushed, wal, latest, writes, rd, stop>>
    /\ UNCHANGED compactionVars
    /\ UNCHANGED trackerVars

-----------------------------------------------------------------------------
(***************************************************************************)
(* Point lookups.  They start from the list of candidate segments; the     *)
(* memtable is not consulted.                                              *)
(***************************************************************************)
ReadStart(k) ==
    /\ InPhase({"read", "mixed", "client"})
    /\ mpc' = "reading"
    /\ \E order \in GetSegmentsForKey(k) :
        rd' = [key |-> k, segs |-> order, rest |-> order, hit |-> Absent]
    /\ UNCHANGED <<phases, mem, buf, flushed, wal, latest, writes, stop>>
    /\ UNCHANGED compactionVars
    /\ UNCHANGED trackerVars

ReadOver == rd.rest = <<>> \/ rd.hit # Absent

\* What Reader.Get finds: nothing in a segment that has become obsolete.
Probe(seg, k) == IF seg \in obsolete THEN Absent ELSE Lookup(segs[seg], k)

ReadSegment ==
    /\ mpc = "reading"
    /\ ~ ReadOver
    /\ \/ /\ rd' = [rd EXCEPT !.rest = Tail(@), !.hit = Probe(Head(rd.rest), rd.key)]
          /\ UNCHANGED faults
       \/ /\ Head(rd.rest) \notin obsolete
          /\ MayFail("mmap")
          /\ faults' = faults + 1
          /\ rd' = [rd EXCEPT !.rest = Tail(@)]
    /\ UNCHANGED <<phases, mpc, mem, buf, flushed, wal, latest, writes, stop>>
    /\ UNCHANGED <<clock, currentPolicy, switches, panicked, inCompaction, pc, todo,
                   plan, merged, newSeg>>
    /\ UNCHANGED trackerVars

ReadReturn ==
    /\ mpc = "reading"
    /\ ReadOver
    /\ mpc' = "run"
    /\ rd' = NoRead
    /\ UNCHANGED <<phases, mem, buf, flushed, wal, latest, writes, stop>>
    /\ UNCHANGED compactionVars
    /\ UNCHANGED trackerVars

-----------------------------------------------------------------------------
(***************************************************************************)
(* Compaction: the calls of the two goroutines and what they do with the   *)
(* result.                                                                 *)
(***************************************************************************)
BackgroundTick ==
    /\ MaybePlan("bg")
    /\ UNCHANGED mainVars

BackgroundResult ==
    /\ pc["bg"] \in Results
    /\ pc' = [pc EXCEPT !["bg"] = "idle"]
    /\ UNCHANGED <<clock, currentPolicy, switches, faults, panicked, inCompaction,
                   todo, plan, merged, newSeg>>
    /\ UNCHANGED mainVars
    /\ UNCHANGED trackerVars

BackgroundStop ==
    /\ stop
    /\ Goto("bg", "idle", "stopped")
    /\ UNCHANGED <<clock, currentPolicy, switches, faults, panicked, inCompaction,
                   todo, plan, merged, newSeg>>
    /\ UNCHANGED mainVars
    /\ UNCHANGED trackerVars

MainCompact ==
    /\ InPhase({"compact"})
    /\ MaybePlan("main")
    /\ mpc' = "compacting"
    /\ UNCHANGED <<phases, mem, buf, flushed, wal, latest, writes, rd, stop>>

\* main ignores Execute's error and dereferences the segment.
MainResult ==
    /\ mpc = "compacting"
    /\ pc["main"] \in Results
    /\ pc' = [pc EXCEPT !["main"] = "idle"]
    /\ panicked' = (pc["main"] = "err")
    /\ mpc' = "run"
    /\ phases' = Tail(phases)
    /\ UNCHANGED <<mem, buf, flushed, wal, latest, writes, rd, stop>>
    /\ UNCHANGED <<clock, currentPolicy, switches, faults, inCompaction, todo, plan,
                   merged, newSeg>>
    /\ UNCHANGED trackerVars

\* The workload has returned: main closes stopCompaction.
MainDone ==
    /\ mpc = "run"
    /\ phases = <<>>
    /\ mpc' = "done"
    /\ stop' = TRUE
    /\ UNCHANGED <<phases, mem, buf, flushed, wal, latest, writes, rd>>
    /\ UNCHANGED compactionVars
    /\ UNCHANGED trackerVars

Second ==
    /\ clock < MaxClock
    /\ clock' = clock + 1
    /\ UNCHANGED <<currentPolicy, switches, faults, panicked, inCompaction, pc, todo,
                   plan, merged, newSeg>>
    /\ UNCHANGED mainVars
    /\ UNCHANGED trackerVars

BackgroundStep ==
    \/ BackgroundTick \/ BackgroundResult \/ BackgroundStop
    \/ Compact("bg") /\ UNCHANGED mainVars

MainStep ==
    \/ Populate \/ (\E k \in Keys : Put(k) \/ Delete(k) \/ ReadStart(k))
    \/ FlushWrite \/ FlushRegister \/ FlushTruncate
    \/ NextPhase \/ FinalFlush
    \/ ReadSegment \/ ReadReturn
    \/ MainCompact \/ (Compact("main") /\ UNCHANGED mainVars) \/ MainResult
    \/ MainDone

\* The process has ended: both goroutines are through, or one has panicked.
Ended ==
    /\ panicked \/ (mpc = "done" /\ pc["bg"] = "stopped")
    /\ UNCHANGED vars

Next ==
    \/ ~ panicked /\ (BackgroundStep \/ MainStep \/ Second)
    \/ Ended

\* The Go scheduler runs the background goroutine and the ticker keeps firing.
Fairness == WF_vars(~ panicked /\ BackgroundStep)

Spec == Init /\ [][Next]_vars

FairSpec == Spec /\ Fairness
=============================================================================
