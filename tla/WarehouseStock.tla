-------------------------- MODULE WarehouseStock ---------------------------
(***************************************************************************)
(* What the raw-material store promises (src/app/warehouse/services.py):   *)
(* quantities on the shelf, and claims of customer orders on them.  A      *)
(* claim is backed by material nobody else claims; it is closed once,      *)
(* either by an issue, which takes exactly that material, or by a release. *)
(* Every operation happens at once.  WarehouseSessions has the statements  *)
(* the operations are made of.                                             *)
(***************************************************************************)
EXTENDS Integers, FiniteSets, Functions

CONSTANTS
    Items,          \* rolls of fabric and quantity-tracked materials
    Claims          \* ids of wh_allocations rows

VARIABLES
    onHand,         \* onHand[i]: metres or pieces of i on the shelf
    claims,         \* claims[c]: an allocation, or none yet
    held            \* rolls in quarantine

vars == <<onHand, claims, held>>

Unused == [status |-> "none"]

Open(c) == claims[c].status = "reserved"

ClaimedOf(cs, i) ==
    LET part == [c \in Claims |-> IF cs[c].status = "reserved" /\ cs[c].item = i THEN cs[c].qty ELSE 0]
    IN  SumFunctionOnSet(part, Claims)

Claimed(i) == ClaimedOf(claims, i)

StoreInit ==
    /\ claims = [c \in Claims |-> Unused]
    /\ held = {}

\* reserve_for_order: all of the batch or nothing, and never more than is free.
Reserve(batch) ==
    /\ batch # {}
    /\ \A c \in batch : claims[c] = Unused /\ claims'[c].status = "reserved"
    /\ \A c, d \in batch : claims'[c].order = claims'[d].order
    /\ \A c \in Claims \ batch : claims'[c] = claims[c]
    /\ \A i \in Items : ClaimedOf(claims', i) > Claimed(i) => ClaimedOf(claims', i) <= onHand[i]
    /\ UNCHANGED <<onHand, held>>

\* issue_reserved: each claim takes its own material, none from a held roll.
Issue(batch) ==
    /\ batch # {}
    /\ \A c \in batch : Open(c) /\ claims[c].item \notin held
    /\ claims' = [c \in Claims |-> IF c \in batch THEN [status |-> "issued"] ELSE claims[c]]
    /\ onHand' = [i \in Items |-> onHand[i] - (Claimed(i) - ClaimedOf(claims', i))]
    /\ UNCHANGED held

\* release_allocation: the material is free again.
Release(c) ==
    /\ Open(c)
    /\ claims' = [claims EXCEPT ![c] = [status |-> "released"]]
    /\ UNCHANGED <<onHand, held>>

\* Receipts, returns and stock-takes: one item, never below what is claimed.
Move(i) ==
    /\ onHand'[i] # onHand[i]
    /\ onHand'[i] >= Claimed(i)
    /\ \A j \in Items \ {i} : onHand'[j] = onHand[j]
    /\ UNCHANGED <<claims, held>>

\* set_roll_hold
Hold(i) ==
    /\ held' \in {held \cup {i}, held \ {i}}
    /\ UNCHANGED <<onHand, claims>>

Next ==
    \/ \E batch \in SUBSET Claims : Reserve(batch) \/ Issue(batch)
    \/ \E c \in Claims : Release(c)
    \/ \E i \in Items : Move(i) \/ Hold(i)

\* The promise: what happens to the shelf is one of these operations.
Spec == StoreInit /\ [][Next]_vars

=============================================================================
