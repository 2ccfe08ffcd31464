---------------------------- MODULE SpareBridge -----------------------------
(***************************************************************************)
(* The loop between the spare store and procurement                        *)
(* (src/app/maintenance/procure_bridge.py): parts at or below their        *)
(* reorder level get a purchase request, its goods come back to the shelf, *)
(* and the store may hand a requested line over off the shelf instead      *)
(* (issue_from_stock, reverse_stock_issue in approvals/services.py).       *)
(*                                                                         *)
(* A check reads which parts are low and which have an order, then raises  *)
(* requests one by one: three commits each, a process may stop between     *)
(* any two.  A receipt is posted to the shelf after its own commit.        *)
(* MaintDesk and ProcRequest have what the desk and the signatures do;     *)
(* here they move stock and orders at any time.                            *)
(***************************************************************************)
EXTENDS SpareShelf, Integers, FiniteSets, FiniteSetsExt, Functions

CONSTANTS
    Orders,         \* slots for open pr_requests rows
    Checkers,       \* server processes
    Lines,          \* pr_items rows at the warehouse rung
    Codes,          \* Codes[l]: parts line l may be met from
    ReorderLevel, MaxLevel,
    Wanted,         \* pieces on a line
    Moved,          \* parts the desk works with; the others lie there
    MaxFaults       \* bound: processes that stop and calls that fail

VARIABLES
    order,          \* order[o]: an open purchase request that restocks a part
    checker,        \* checker[c]: where process c is in auto_reorder_check
    throttled,      \* processes that swept less than _SWEEP_INTERVAL ago
    posting,        \* posting[s]: received on a committed receipt, not yet on the shelf
    line,           \* line[l]: what is to be bought, and what was issued
    out,            \* out[s]: issue movements less returns against the lines
    faults

bridgeVars == <<stock, reserved, order, checker, throttled, posting, line, out, faults>>

ASSUME BridgeAssumption ==
    /\ ReorderLevel \in Nat \ {0} /\ MaxLevel \in Nat /\ ReorderLevel < MaxLevel
    /\ MaxLevel <= MaxStock /\ MaxStock \in Nat /\ Wanted \in Nat /\ MaxFaults \in Nat
    /\ Codes \in [Lines -> SUBSET Spares] /\ Moved \subseteq Spares
    /\ IsFiniteSet(Orders) /\ IsFiniteSet(Lines)

NoOrder == [status |-> "none"]
NoPlan == [s \in {} |-> 0]
Idle == [pc |-> "idle", plan |-> NoPlan, order |-> "none"]
Uncovered == [qty |-> Wanted, issued |-> 0, from |-> "none"]

BridgeInit ==
    /\ stock = [s \in Spares |-> IF s \in Moved THEN MaxLevel ELSE ReorderLevel]
    /\ reserved = [s \in Spares |-> 0]
    /\ order = [o \in Orders |-> NoOrder]
    /\ checker = [c \in Checkers |-> Idle]
    /\ throttled = {}
    /\ posting = [s \in Spares |-> 0]
    /\ line = [l \in Lines |-> Uncovered]
    /\ out = [s \in Spares |-> 0]
    /\ faults = 0

\* At or below the reorder level.
Low(s) == Available(s) <= ReorderLevel

\* Mutant: below it.
NeedsOrderBelow(s) == Available(s) < ReorderLevel

\* WHERE (stock_qty - reserved_qty) <= reorder_level
NeedsOrder(s) == Available(s) <= ReorderLevel

OpenOrders(s) == {o \in Orders : order[o] # NoOrder /\ order[o].spare = s}

(***************************************************************************)
(* auto_reorder_check.                                                     *)
(***************************************************************************)
\* _open_bridge_refs: the tag of the header, or the part on a line.
HasOpenOrder(s) == \E o \in OpenOrders(s) : order[o].tagged \/ order[o].linked

\* _suggested_qty
SuggestedQty(s) == Max({1, MaxLevel - stock[s]})

\* The check reads what is low and what is on order, and plans the rest.
Check(c, parts) ==
    LET due == {s \in parts : NeedsOrder(s) /\ ~HasOpenOrder(s)}
    IN  /\ checker[c] = Idle
        /\ checker' = [checker EXCEPT ![c] =
             IF due = {} THEN Idle ELSE [Idle EXCEPT !.pc = "raise", !.plan = [s \in due |-> SuggestedQty(s)]]]
        /\ UNCHANGED <<stock, reserved, order, posting, line, out, faults>>

\* sync_stock_alerts on a page load, at most one in _SWEEP_INTERVAL.
Sweep(c) ==
    /\ c \notin throttled
    /\ Check(c, Spares)
    /\ throttled' = throttled \cup {c}

Tick(c) ==
    /\ c \in throttled
    /\ throttled' = throttled \ {c}
    /\ UNCHANGED <<stock, reserved, order, checker, posting, line, out, faults>>

\* After an issue or a stock-take.
CheckPart(c, s) ==
    /\ NeedsOrder(s)
    /\ Check(c, {s})
    /\ UNCHANGED throttled

Turn(c) == CHOOSE s \in DOMAIN checker[c].plan : TRUE

\* The loop goes on with the next part, or ends.
Advance(c) ==
    LET left == DOMAIN checker[c].plan \ {Turn(c)}
    IN  checker' = [checker EXCEPT ![c] =
            IF left = {} THEN Idle ELSE [Idle EXCEPT !.pc = "raise", !.plan = Restrict(checker[c].plan, left)]]

\* No process is about to submit or tag the row.
FreeSlot(o) == order[o] = NoOrder /\ \A c \in Checkers : checker[c].pc \in {"submit", "tag"} => checker[c].order # o

\* Mutant: the line gets its part when the request is tagged.
CreatePrUnlinked(c, o) ==
    /\ checker[c].pc = "raise"
    /\ FreeSlot(o)
    /\ order' = [order EXCEPT ![o] =
         [status |-> "draft", spare |-> Turn(c), qty |-> checker[c].plan[Turn(c)],
          got |-> 0, linked |-> FALSE, tagged |-> FALSE]]
    /\ checker' = [checker EXCEPT ![c].pc = "submit", ![c].order = o]
    /\ UNCHANGED <<stock, reserved, throttled, posting, line, out, faults>>

\* create_pr commits the request with its line, part included ...
CreatePr(c, o) ==
    /\ checker[c].pc = "raise"
    /\ FreeSlot(o)
    /\ order' = [order EXCEPT ![o] =
         [status |-> "draft", spare |-> Turn(c), qty |-> checker[c].plan[Turn(c)],
          got |-> 0, linked |-> TRUE, tagged |-> FALSE]]
    /\ checker' = [checker EXCEPT ![c].pc = "submit", ![c].order = o]
    /\ UNCHANGED <<stock, reserved, throttled, posting, line, out, faults>>

\* ... then its ladder ...
SubmitPr(c) ==
    /\ checker[c].pc = "submit"
    /\ checker' = [checker EXCEPT ![c].pc = "tag"]
    /\ order' = IF order[checker[c].order] # NoOrder
                THEN [order EXCEPT ![checker[c].order].status = "pending"] ELSE order
    /\ UNCHANGED <<stock, reserved, throttled, posting, line, out, faults>>

\* ... and _raise_pr tags it.
TagPr(c) ==
    /\ checker[c].pc = "tag"
    /\ Advance(c)
    /\ order' = IF order[checker[c].order] # NoOrder
                THEN [order EXCEPT ![checker[c].order].tagged = TRUE] ELSE order
    /\ UNCHANGED <<stock, reserved, throttled, posting, line, out, faults>>

\* An error is logged and the loop goes on; what was committed stays.
RaiseFails(c) ==
    /\ faults < MaxFaults /\ faults' = faults + 1
    /\ checker[c] # Idle
    /\ Advance(c)
    /\ UNCHANGED <<stock, reserved, order, throttled, posting, line, out>>

\* The process stops and starts again; _LAST_SWEEP is 0 again.
Restart(c) ==
    /\ faults < MaxFaults /\ faults' = faults + 1
    /\ checker' = [checker EXCEPT ![c] = Idle]
    /\ throttled' = throttled \ {c}
    /\ UNCHANGED <<stock, reserved, order, posting, line, out>>

(***************************************************************************)
(* The order in procurement, and the goods that come back.                 *)
(***************************************************************************)
PlaceOrder(o) ==
    /\ order[o].status = "pending"
    /\ order' = [order EXCEPT ![o].status = "po_issued"]
    /\ UNCHANGED <<stock, reserved, checker, throttled, posting, line, out, faults>>

\* Rejected or cancelled: the part may be ordered again.
DropOrder(o) ==
    /\ order[o].status \in {"draft", "pending"}
    /\ order' = [order EXCEPT ![o] = NoOrder]
    /\ UNCHANGED <<stock, reserved, checker, throttled, posting, line, out, faults>>

Received(row, q) == [row EXCEPT !.got = @ + q]

\* receive_items commits; an order received in full is no longer open.
ReceiveItems(o, q) ==
    LET s == order[o].spare
    IN  /\ order[o].status = "po_issued"
        /\ order[o].got + q <= order[o].qty
        /\ stock[s] + posting[s] + q <= MaxStock
        /\ order' = [order EXCEPT ![o] = IF order[o].got + q = order[o].qty THEN NoOrder
                                         ELSE Received(@, q)]
        /\ posting' = [posting EXCEPT ![s] = IF order[o].linked \/ order[o].tagged THEN @ + q ELSE @]
        /\ UNCHANGED <<stock, reserved, checker, throttled, line, out, faults>>

\* post_receipt_to_stock, after that commit.
PostReceipt(s) ==
    /\ posting[s] > 0
    /\ stock' = [stock EXCEPT ![s] = @ + posting[s]]
    /\ posting' = [posting EXCEPT ![s] = 0]
    /\ UNCHANGED <<reserved, order, checker, throttled, line, out, faults>>

\* It never blocks the receipt: what fails is logged and not tried again.
PostingLost(s) ==
    /\ faults < MaxFaults /\ faults' = faults + 1
    /\ posting[s] > 0
    /\ posting' = [posting EXCEPT ![s] = 0]
    /\ UNCHANGED <<stock, reserved, order, checker, throttled, line, out>>

(***************************************************************************)
(* The store hands over a line of a purchase request.                      *)
(***************************************************************************)
\* Mutant: what is promised to spare requests is not left alone.
FreeFor(s) == stock[s]

Free(s) == Available(s)

IssueFromStock(l, s, q) ==
    /\ s \in Codes[l]
    /\ q <= line[l].qty /\ q <= Free(s)
    /\ stock' = [stock EXCEPT ![s] = @ - q]
    /\ out' = [out EXCEPT ![s] = @ + q]
    /\ line' = [line EXCEPT ![l] = [qty |-> @.qty - q, issued |-> @.issued + q, from |-> s]]
    /\ UNCHANGED <<reserved, order, checker, throttled, posting, faults>>

Restored(l) == [qty |-> line[l].qty + line[l].issued, issued |-> 0, from |-> "none"]

\* Everything goes back to the part the line names.
ReverseStockIssue(l) ==
    LET s == line[l].from
    IN  /\ line[l].issued > 0
        /\ stock[s] + posting[s] + line[l].issued <= MaxStock
        /\ stock' = [stock EXCEPT ![s] = @ + line[l].issued]
        /\ out' = [out EXCEPT ![s] = @ - line[l].issued]
        /\ line' = [line EXCEPT ![l] = Restored(l)]
        /\ UNCHANGED <<reserved, order, checker, throttled, posting, faults>>

(***************************************************************************)
(* The maintenance desk, in sum.                                           *)
(***************************************************************************)
Reserve(s) ==
    /\ Available(s) >= 1
    /\ reserved' = [reserved EXCEPT ![s] = @ + 1]
    /\ UNCHANGED <<stock, order, checker, throttled, posting, line, out, faults>>

Release(s) ==
    /\ reserved[s] >= 1
    /\ reserved' = [reserved EXCEPT ![s] = @ - 1]
    /\ UNCHANGED <<stock, order, checker, throttled, posting, line, out, faults>>

IssueReserved(s) ==
    /\ reserved[s] >= 1 /\ stock[s] >= 1
    /\ reserved' = [reserved EXCEPT ![s] = @ - 1]
    /\ stock' = [stock EXCEPT ![s] = @ - 1]
    /\ UNCHANGED <<order, checker, throttled, posting, line, out, faults>>

StockTake(s, q) ==
    /\ q # stock[s] /\ q + posting[s] <= MaxStock
    /\ stock' = [stock EXCEPT ![s] = q]
    /\ UNCHANGED <<reserved, order, checker, throttled, posting, line, out, faults>>

CheckNext(c) ==
    \/ SubmitPr(c) \/ TagPr(c)
    \/ \E o \in Orders : CreatePr(c, o)

BridgeNext ==
    \/ \E c \in Checkers : Sweep(c) \/ Tick(c) \/ CheckNext(c) \/ RaiseFails(c) \/ Restart(c)
    \/ \E c \in Checkers, s \in Spares : CheckPart(c, s)
    \/ \E o \in Orders : PlaceOrder(o) \/ DropOrder(o) \/ \E q \in 1 .. MaxLevel : ReceiveItems(o, q)
    \/ \E s \in Spares : PostReceipt(s) \/ PostingLost(s)
    \/ \E s \in Moved : Reserve(s) \/ Release(s) \/ IssueReserved(s) \/ \E q \in 0 .. MaxLevel : StockTake(s, q)
    \/ \E l \in Lines : ReverseStockIssue(l) \/ \E s \in Spares, q \in 1 .. Wanted : IssueFromStock(l, s, q)

\* A check that has begun goes on, and pages are loaded again and again.
BridgeFairness ==
    \A c \in Checkers : WF_bridgeVars(CheckNext(c)) /\ WF_bridgeVars(Tick(c)) /\ SF_bridgeVars(Sweep(c))

BridgeSpec == BridgeInit /\ [][BridgeNext]_bridgeVars /\ BridgeFairness

(***************************************************************************)
(* Properties.                                                             *)
(***************************************************************************)
\* Rows have the values their columns may have.
BridgeTypeOK ==
    /\ stock \in [Spares -> 0 .. MaxStock] /\ reserved \in [Spares -> 0 .. MaxStock]
    /\ posting \in [Spares -> 0 .. MaxStock] /\ throttled \subseteq Checkers
    /\ \A o \in Orders : order[o] # NoOrder =>
         order[o].status \in {"draft", "pending", "po_issued"} /\ order[o].qty \in 1 .. MaxLevel /\ order[o].got < order[o].qty

\* One open PR per spare, ever (procure_bridge), however its raising was cut short.
OneOrder == \A s \in Spares : Cardinality(OpenOrders(s)) <= 1

\* What the lines say was handed over of a part.
IssuedOf(s) == SumFunctionOnSet([l \in Lines |-> IF line[l].from = s THEN line[l].issued ELSE 0], Lines)

\* What the movements say left the shelf for requests is what their lines say.
ShelfTrue == \A s \in Spares : out[s] = IssuedOf(s)

\* Orders and movements add up, whatever was cut short (auto_reorder_check,
\* issue_from_stock, reverse_stock_issue, post_receipt_to_stock).
BridgeTrue == BridgeTypeOK /\ OneOrder /\ ShelfTrue

\* Only a stock-take leaves less on the shelf than is promised to spare requests.
PromiseSteps ==
    [][ \A s \in Spares :
            reserved[s] <= stock[s] /\ reserved'[s] > stock'[s] => \E q \in 0 .. MaxLevel : StockTake(s, q) ]_bridgeVars

\* A part that runs low gets an order or is filled up, whatever stops on the way.
LowIsOrdered == \A s \in Spares : Low(s) ~> (~Low(s) \/ OpenOrders(s) # {})

=============================================================================
