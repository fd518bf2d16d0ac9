---------------------------- MODULE VersionStore ----------------------------
(***************************************************************************)
(* What the storage engine keeps of what its client wrote, seen from       *)
(* outside: for every key the set of written versions that are still       *)
(* stored somewhere.  A write adds a version and may replace only the      *)
(* newest one (in the memtable); compaction may drop versions of any keys  *)
(* but never the last one of a key, and never brings one back.             *)
(***************************************************************************)
EXTENDS Integers, FiniteSets, FiniteSetsExt

CONSTANT Keys

VARIABLES
    kept,    \* the versions stored for each key
    written  \* writes so far; the n-th write has version n

storeVars == <<kept, written>>

StoreInit ==
    /\ kept = [k \in Keys |-> {}]
    /\ written = 0

\* What a write of k may leave of the versions kept before it.
Remainders(k) == {kept[k]} \cup {kept[k] \ {v} : v \in {Max(kept[k] \cup {0})}}

StorePut(k) ==
    /\ written' = written + 1
    /\ \E rest \in Remainders(k) : kept' = [kept EXCEPT ![k] = rest \cup {written + 1}]

StoreDelete(k) ==
    /\ written' = written + 1
    /\ \E rest \in Remainders(k) : kept' = [kept EXCEPT ![k] = rest]

StoreCompact ==
    /\ UNCHANGED written
    /\ kept' \in [Keys -> SUBSET (1..written)]
    /\ \A k \in Keys : kept'[k] \subseteq kept[k] /\ (kept[k] # {} => kept'[k] # {})

StoreNext == StoreCompact \/ \E k \in Keys : StorePut(k) \/ StoreDelete(k)

StoreSpec == StoreInit /\ [][StoreNext]_storeVars
=============================================================================
