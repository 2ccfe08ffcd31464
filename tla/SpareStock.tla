----------------------------- MODULE SpareStock -----------------------------
(***************************************************************************)
(* What the spare-part store promises (src/app/maintenance/services.py):   *)
(* stock on the shelf, and promises of it to spare requests.  A promise is *)
(* made only for parts nobody else was promised; it ends once, either when *)
(* exactly those parts are handed over or when it is freed.  MaintDesk has *)
(* the tickets, the signatures and the counters this is done with.         *)
(***************************************************************************)
EXTENDS Integers, FiniteSets, Functions

CONSTANTS
    Spares,         \* mnt_spare_parts rows
    Requests        \* ids for mnt_requests rows

VARIABLES
    stock,          \* stock[s]: pieces of s on the shelf
    promised        \* promised[r]: what request r may take from it

vars == <<stock, promised>>

NoPromise == [status |-> "none"]
HandedOver == [status |-> "handed"]

Open(ps) == {r \in Requests : ps[r].status = "open"}
PromisedOf(ps, s) ==
    SumFunctionOnSet([r \in Open(ps) |-> ps[r].qty], {r \in Open(ps) : ps[r].spare = s})

\* The store opens with nothing promised.
StoreInit ==
    /\ \A s \in Spares : stock[s] >= 0
    /\ promised = [r \in Requests |-> NoPromise]

\* decide_approval: the last signature promises what is free.
Promise(r) ==
    /\ promised[r] = NoPromise
    /\ promised'[r].status = "open"
    /\ \A q \in Requests \ {r} : promised'[q] = promised[q]
    /\ PromisedOf(promised', promised'[r].spare) <= stock[promised'[r].spare]
    /\ UNCHANGED stock

\* issue_parts
HandOver(r) ==
    /\ promised[r].status = "open"
    /\ stock[promised[r].spare] >= promised[r].qty
    /\ stock' = [stock EXCEPT ![promised[r].spare] = @ - promised[r].qty]
    /\ promised' = [promised EXCEPT ![r] = HandedOver]

\* close_ticket and reject_ticket give back what the ticket was promised.
SetFree(batch) ==
    /\ batch # {} /\ batch \subseteq Open(promised)
    /\ promised' = [r \in Requests |-> IF r \in batch THEN NoPromise ELSE promised[r]]
    /\ UNCHANGED stock

\* A receipt or a stock-take.
Move(s) ==
    /\ stock'[s] >= 0
    /\ \A u \in Spares \ {s} : stock'[u] = stock[u]
    /\ UNCHANGED promised

Next ==
    \/ \E r \in Requests : Promise(r) \/ HandOver(r)
    \/ \E batch \in SUBSET Requests : SetFree(batch)
    \/ \E s \in Spares : Move(s)

Spec == StoreInit /\ [][Next]_vars

=============================================================================
