----------------------------- MODULE FencedCache -----------------------------
(***************************************************************************)
(* What invalidation promises, without keys, counters, tags, reads or      *)
(* sessions: a cache of one result per statement.  A result stands for     *)
(* some units (rows, or whole tables).  A commit owes an invalidation of   *)
(* the units that it writes.  Until it is paid, the cache may answer from  *)
(* before the commit; from then on it may not, and no result that was      *)
(* dropped ever comes back.                                                *)
(***************************************************************************)
EXTENDS Integers

CONSTANTS
    Rows,       \* primary keys, of all tables
    Units,      \* what an invalidation names
    UnitOf,     \* the unit of a row
    Stmts,      \* SELECT statements
    CoversOf    \* rows the statement looks at, of any table

VARIABLES
    floor,      \* floor[r]: the write of row r that must not be missed, 0 for none
    owed,       \* units that some commit has still to invalidate
    found       \* the results that a lookup finds

fenceVars == <<floor, owed, found>>

Result == [stmt : Stmts, units : SUBSET Units, result : [Rows -> Nat]]

Fresh(f) ==
    \A r \in CoversOf[f.stmt] :
        UnitOf[r] \in f.units \ owed => f.result[r] >= floor[r]

Init ==
    /\ floor = [r \in Rows |-> 0]
    /\ owed = {}
    /\ found = {}

(* A commit owes the units of the rows that it gives a new floor.           *)
Commit ==
    /\ floor' \in [Rows -> Nat]
    /\ owed \subseteq owed' /\ owed' \subseteq Units
    /\ \A r \in Rows : floor'[r] \in {0, floor[r]} \/ UnitOf[r] \in owed'
    /\ UNCHANGED found

(* Every result that stands for one of the units U goes, and perhaps others:*)
(* with no unit at all, results expire or are evicted by other means.       *)
Invalidate(U) ==
    /\ owed \ U \subseteq owed' /\ owed' \subseteq owed
    /\ found' \subseteq {f \in found : f.units \cap U = {}}
    /\ UNCHANGED floor

(* A statement gets a result, which misses nothing that is not owed.        *)
Store(f) ==
    /\ f \in Result
    /\ Fresh(f)
    /\ found' = {g \in found : g.stmt # f.stmt} \cup {f}
    /\ UNCHANGED <<floor, owed>>

Next ==
    \/ Commit
    \/ \E U \in SUBSET Units : Invalidate(U)
    \/ \E f \in found' : Store(f)

Spec == Init /\ [][Next]_fenceVars

TypeOK ==
    /\ floor \in [Rows -> Nat]
    /\ owed \subseteq Units
    /\ found \subseteq Result

(* No lookup misses a write that is committed and invalidated.              *)
NothingMissed == \A f \in found : Fresh(f)

=============================================================================
