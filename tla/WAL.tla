-------------------------------- MODULE WAL ---------------------------------
(***************************************************************************)
(* The write-ahead log as a file of encoded records, and what ReadAll      *)
(* makes of it, torn records included.                                     *)
(*                                                                         *)
(* Source: internal/wal/wal.go.  Every method holds the log's lock, so     *)
(* each is one step.  A record takes two units for its header, one for its *)
(* key and its value's length for the value; the unit <<n, i>> is the i-th *)
(* one of the record of write n.  The header holds the two lengths and the *)
(* tombstone byte: LogDelete writes a record without a value.              *)
(***************************************************************************)
EXTENDS Integers, Sequences, SequencesExt

CONSTANTS
    Keys,
    ValueLengths   \* the lengths of the values that are written, one after the other

ASSUME LogAssumption ==
    Keys \subseteq Nat /\ ValueLengths \in Seq(Nat) /\ ValueLengths # <<>>

VARIABLES
    writes,        \* history: the entry of each call of write, in the order of the calls
    log            \* what the file holds: [n, len] for the first len units of record n

walVars == <<writes, log>>

HeaderLength == 2
KeyLength == 1

WALEntry == [key : Keys, vLen : ToSet(ValueLengths)]

\* The next entry, for key k.
NewEntry(k) ==
    [key |-> k, vLen |-> ValueLengths[1 + (Len(writes) % Len(ValueLengths))]]

\* The number of units "write" writes for write n: header, key, value.
RecordLength(n) == HeaderLength + KeyLength + writes[n].vLen

Complete(r) == r.len = RecordLength(r.n)

Torn == \E i \in DOMAIN log : ~ Complete(log[i])

WALTypeOK ==
    /\ writes \in Seq(WALEntry)
    /\ \A i \in DOMAIN log : log[i].n \in DOMAIN writes /\ log[i].len \in 1 .. RecordLength(log[i].n)

WALInit == writes = <<>> /\ log = <<>>

-----------------------------------------------------------------------------
\* The call of write that logs entry e succeeds with all three of its writes to the
\* file.
Write(e) ==
    /\ writes' = Append(writes, e)
    /\ log' = Append(log, [n |-> Len(writes) + 1, len |-> HeaderLength + KeyLength + e.vLen])

\* One of the three writes fails: a part of the record, or nothing, is in the file.
WriteFails(e) ==
    /\ writes' = Append(writes, e)
    /\ \E n \in 0 .. HeaderLength + KeyLength + e.vLen - 1 :
        log' = IF n = 0 THEN log ELSE Append(log, [n |-> Len(writes) + 1, len |-> n])

Truncate ==
    /\ log' = <<>>
    /\ UNCHANGED writes

\* Truncate returns an error: from the truncation, or from the seek after it.
TruncateFails ==
    /\ log' \in {log, <<>>}
    /\ UNCHANGED writes

\* The machine fails: nothing was synced, and any rest of the file may be missing.
LosesTail ==
    /\ \/ \E i \in 0 .. Len(log) - 1 : log' = SubSeq(log, 1, i)
       \/ \E i \in 1 .. Len(log) : \E n \in 1 .. log[i].len - 1 :
              log' = Append(SubSeq(log, 1, i - 1), [log[i] EXCEPT !.len = n])
    /\ UNCHANGED writes

-----------------------------------------------------------------------------
Bytes == FlattenSeq([i \in DOMAIN log |-> [j \in 1 .. log[i].len |-> <<log[i].n, j>>]])

\* The length of the value as the header of record n states it.
ValueSpan(n) == writes[n].vLen

\* Mutant of ShortRead: a record that ends early ends the log.
ShortReadMutant == [status |-> "ok", entries |-> <<>>]

\* What ReadAll returns when a ReadFull comes up short: an error and no entries.
ShortRead == [status |-> "error", entries |-> <<>>]

\* ReadAll: the entries read, each by the number of its write, 0 for one that nobody
\* wrote.  When the nine bytes read as a header were not written as one, the
\* lengths in it are arbitrary and so is what follows: "unknown".
ReadAll ==
    LET bytes == Bytes
        End == Len(bytes) + 1
        IsHeader(p) == bytes[p][2] = 1 /\ bytes[p + 1] = <<bytes[p][1], 2>>
        Next(p) == p + HeaderLength + KeyLength + ValueSpan(bytes[p][1])
        EntryAt(p) ==
            IF \A i \in p .. Next(p) - 1 : bytes[i] = <<bytes[p][1], i - p + 1>>
            THEN bytes[p][1] ELSE 0
        Prepend(e, rest) ==
            [rest EXCEPT !.entries = IF rest.status = "ok" THEN <<e>> \o @ ELSE <<>>]
        from[p \in 1 .. End] ==
            CASE p = End -> [status |-> "ok", entries |-> <<>>]
              [] p < End /\ p + HeaderLength > End -> ShortRead
              [] p + HeaderLength <= End /\ ~ IsHeader(p) ->
                    [status |-> "unknown", entries |-> <<>>]
              [] OTHER -> IF Next(p) > End THEN ShortRead
                          ELSE Prepend(EntryAt(p), from[Next(p)])
    IN  from[1]
=============================================================================
