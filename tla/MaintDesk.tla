----------------------------- MODULE MaintDesk ------------------------------
(***************************************************************************)
(* The maintenance desk (src/app/maintenance/services.py and               *)
(* src/app/routes/maintenance.py): tickets on machines, spare requests     *)
(* raised on them, the signatures of a request, and the spare store they   *)
(* take parts from.  Every function is one transaction and one action.     *)
(*                                                                         *)
(* The functions FORCE the status of a ticket: none of them looks at the   *)
(* one it has, close_ticket excepted.  Only a card dragged on the board    *)
(* goes through the transition table.                                      *)
(***************************************************************************)
EXTENDS SpareShelf, Integers, FiniteSets, FiniteSetsExt, Functions

CONSTANTS
    Tickets,        \* ids for mnt_tickets rows
    Machines,       \* mnt_machines rows
    Requests,       \* ids for mnt_requests rows
    InStock,        \* InStock[s]: pieces of s at the start
    Quantities,     \* pieces asked for on a request; one piece costs 1
    Critical        \* cost from which the critical matrix applies

VARIABLES
    ticket,         \* ticket[t]: a mnt_tickets row; dragged: the board set its status
    machine,        \* machine[m]: breakdowns and cost_to_date
    request,        \* request[r]: a mnt_requests row with its one line
    rung            \* rung[r][l]: status of the mnt_approvals row of level l

vars == <<ticket, machine, request, rung, stock, reserved>>

ASSUME DeskAssumption ==
    /\ IsFiniteSet(Tickets) /\ IsFiniteSet(Requests)
    /\ InStock \in [Spares -> 0 .. MaxStock] /\ MaxStock \in Nat
    /\ Quantities \subseteq Nat \ {0} /\ Critical \in Nat

TicketTransitions ==
    [draft |-> {"submitted", "cancelled"},
     submitted |-> {"under_review", "assigned", "rejected", "cancelled"},
     under_review |-> {"assigned", "rejected", "cancelled"},
     assigned |-> {"diagnosis", "cancelled", "reopened"},
     diagnosis |-> {"spare_required", "repair", "testing", "cancelled"},
     spare_required |-> {"waiting_stock", "waiting_approval", "repair"},
     waiting_stock |-> {"waiting_approval", "spare_required"},
     waiting_approval |-> {"approved_issue", "rejected", "waiting_stock"},
     approved_issue |-> {"parts_issued"},
     parts_issued |-> {"repair"},
     repair |-> {"testing", "spare_required"},
     testing |-> {"resolved", "repair"},
     resolved |-> {"closed", "reopened"},
     closed |-> {"reopened"},
     rejected |-> {"submitted", "cancelled"},
     cancelled |-> {},
     reopened |-> {"under_review", "assigned", "diagnosis"}]

NoTicket == [status |-> "none"]
NoRequest == [status |-> "none"]
Levels == 1 .. 2
NoRungs == [l \in Levels |-> "none"]

Init ==
    /\ ticket = [t \in Tickets |-> NoTicket]
    /\ machine = [m \in Machines |-> [breakdowns |-> 0, cost |-> 0]]
    /\ request = [r \in Requests |-> NoRequest]
    /\ rung = [r \in Requests |-> NoRungs]
    /\ stock = InStock
    /\ reserved = [s \in Spares |-> 0]

Raised(t) == ticket[t] # NoTicket
Asked(r) == request[r] # NoRequest

\* _reserve with a negative quantity
Unreserved(s, q) == [reserved EXCEPT ![s] = Max({@ - q, 0})]

SetStatus(t, status) == ticket' = [ticket EXCEPT ![t].status = status, ![t].dragged = FALSE]

(***************************************************************************)
(* The ticket.                                                             *)
(***************************************************************************)
\* The guard against a second ticket on the machine can be overridden.
CreateTicket(t, m) ==
    /\ ~Raised(t)
    /\ ticket' = [ticket EXCEPT ![t] =
         [status |-> "submitted", machine |-> m, diagnosed |-> FALSE, cost |-> 0, rolled |-> FALSE,
          dragged |-> FALSE]]
    /\ UNCHANGED <<machine, request, rung, stock, reserved>>

Worked(t, status) ==
    /\ Raised(t)
    /\ SetStatus(t, status)
    /\ UNCHANGED <<machine, request, rung, stock, reserved>>

ReviewAssign(t) == Worked(t, "assigned")
RepairProof(t) == Worked(t, "testing")
RecordTest(t) == Worked(t, "resolved")
ReopenTicket(t) == Worked(t, "reopened")

AddDiagnosis(t, status) ==
    /\ Raised(t)
    /\ ticket' = [ticket EXCEPT ![t].status = status, ![t].diagnosed = TRUE, ![t].dragged = FALSE]
    /\ UNCHANGED <<machine, request, rung, stock, reserved>>

\* ticket_move: the only change of status that is not forced.
MoveCard(t, status) ==
    /\ Raised(t)
    /\ status \in TicketTransitions[ticket[t].status]
    /\ ticket' = [ticket EXCEPT ![t].status = status, ![t].dragged = TRUE]
    /\ UNCHANGED <<machine, request, rung, stock, reserved>>

\* What the requests of rs ask for.
Pieces(rs) == SumFunctionOnSet([r \in rs |-> request[r].qty], rs)

\* Mutant: the requests of the ticket stay approved.
ReleaseReservationsOnly(t) ==
    LET mine == {r \in Requests : request[r].status = "approved" /\ request[r].ticket = t}
        held(s) == Pieces({r \in mine : request[r].spare = s})
    IN  /\ reserved' = [s \in Spares |-> Max({reserved[s] - held(s), 0})]
        /\ UNCHANGED request

\* _release_ticket_reservations
ReleaseReservations(t) ==
    LET mine == {r \in Requests : request[r].status = "approved" /\ request[r].ticket = t}
        held(s) == Pieces({r \in mine : request[r].spare = s})
    IN  /\ reserved' = [s \in Spares |-> Max({reserved[s] - held(s), 0})]
        /\ request' = [r \in Requests |-> IF r \in mine THEN [request[r] EXCEPT !.status = "cancelled"]
                                                        ELSE request[r]]

\* Mutant: a rejected ticket keeps what it was promised.
RejectTicketOnly(t) == Worked(t, "rejected")

RejectTicket(t) ==
    /\ Raised(t)
    /\ ReleaseReservations(t)
    /\ SetStatus(t, "rejected")
    /\ UNCHANGED <<machine, rung, stock>>

\* machine_rolled: closing again after a reopen charges nothing.
Charges(t) == ~ticket[t].rolled

CloseTicket(t) ==
    /\ ticket[t].status = "resolved"
    /\ ReleaseReservations(t)
    /\ ticket' = [ticket EXCEPT ![t].status = "closed", ![t].rolled = TRUE, ![t].dragged = FALSE]
    /\ machine' = IF Charges(t)
                  THEN [machine EXCEPT ![ticket[t].machine] =
                          [breakdowns |-> @.breakdowns + 1, cost |-> @.cost + ticket[t].cost]]
                  ELSE machine
    /\ UNCHANGED <<rung, stock>>

(***************************************************************************)
(* The spare request and its signatures.                                   *)
(***************************************************************************)
\* _pick_matrix_levels: the manager, and the factory for a dear part.
LevelsFor(q) == IF q >= Critical THEN Levels ELSE {1}

CreateRequest(r, t, s, q) ==
    LET short == q > Available(s)
    IN  /\ ~Asked(r)
        /\ Raised(t) /\ ticket[t].diagnosed
        /\ request' = [request EXCEPT ![r] =
             [status |-> IF short THEN "out_of_stock" ELSE "waiting_approval",
              ticket |-> t, spare |-> s, qty |-> q]]
        /\ rung' = [rung EXCEPT ![r] =
             [l \in Levels |-> IF l \in LevelsFor(q) /\ ~short THEN "pending" ELSE "none"]]
        /\ SetStatus(t, IF short THEN "waiting_stock" ELSE "waiting_approval")
        /\ UNCHANGED <<machine, stock, reserved>>

\* A decided row is never decided again.
Pending(r, l) == rung[r][l] = "pending"

Decide(r, l, decision, status) ==
    /\ Pending(r, l)
    /\ rung' = [rung EXCEPT ![r][l] = decision]
    /\ request' = [request EXCEPT ![r].status = status]

RefuseRung(r, l) ==
    /\ Decide(r, l, "rejected", "rejected")
    /\ SetStatus(request[r].ticket, "spare_required")
    /\ UNCHANGED <<machine, stock, reserved>>

ReturnRung(r, l) ==
    /\ Decide(r, l, "returned", "returned")
    /\ UNCHANGED <<ticket, machine, stock, reserved>>

Last(r, l) == \A k \in Levels \ {l} : ~Pending(r, k)

ApproveRung(r, l) ==
    /\ Pending(r, l) /\ ~Last(r, l)
    /\ rung' = [rung EXCEPT ![r][l] = "approved"]
    /\ UNCHANGED <<ticket, machine, request, stock, reserved>>

\* Mutant: what was free when the request was written still is.
EnoughAsWritten(r) == TRUE

\* UPDATE ... WHERE stock_qty - reserved_qty >= need
Enough(r) == Available(request[r].spare) >= request[r].qty

\* The last pending rung: reserve, or back to out of stock.
ApproveLast(r, l) ==
    /\ Pending(r, l) /\ Last(r, l) /\ Enough(r)
    /\ Decide(r, l, "approved", "approved")
    /\ reserved' = [reserved EXCEPT ![request[r].spare] = @ + request[r].qty]
    /\ SetStatus(request[r].ticket, "approved_issue")
    /\ UNCHANGED <<machine, stock>>

ApproveShort(r, l) ==
    /\ Pending(r, l) /\ Last(r, l) /\ ~Enough(r)
    /\ Decide(r, l, "approved", "out_of_stock")
    /\ SetStatus(request[r].ticket, "waiting_stock")
    /\ UNCHANGED <<machine, stock, reserved>>

OnShelf(r) == stock[request[r].spare] >= request[r].qty

IssueParts(r) ==
    LET s == request[r].spare
        q == request[r].qty
    IN  /\ request[r].status = "approved"
        /\ OnShelf(r)
        /\ stock' = [stock EXCEPT ![s] = @ - q]
        /\ reserved' = Unreserved(s, q)
        /\ request' = [request EXCEPT ![r].status = "issued"]
        /\ ticket' = [ticket EXCEPT ![request[r].ticket].status = "parts_issued",
                                    ![request[r].ticket].dragged = FALSE,
                                    ![request[r].ticket].cost = @ + q]
        /\ UNCHANGED <<machine, rung>>

ConfirmReceiving(r) ==
    /\ request[r].status = "issued"
    /\ request' = [request EXCEPT ![r].status = "received"]
    /\ SetStatus(request[r].ticket, "repair")
    /\ UNCHANGED <<machine, rung, stock, reserved>>

(***************************************************************************)
(* The store: receive_stock and adjust_stock.                              *)
(***************************************************************************)
ReceiveStock(s, q) ==
    /\ stock[s] + q <= MaxStock
    /\ stock' = [stock EXCEPT ![s] = @ + q]
    /\ UNCHANGED <<ticket, machine, request, rung, reserved>>

AdjustStock(s, q) ==
    /\ q # stock[s]
    /\ stock' = [stock EXCEPT ![s] = q]
    /\ UNCHANGED <<ticket, machine, request, rung, reserved>>

TicketNext(t) ==
    \/ \E m \in Machines : CreateTicket(t, m)
    \/ ReviewAssign(t) \/ RepairProof(t) \/ RecordTest(t) \/ ReopenTicket(t)
    \/ \E status \in {"spare_required", "repair"} : AddDiagnosis(t, status)
    \/ \E status \in DOMAIN TicketTransitions : MoveCard(t, status)
    \/ RejectTicket(t) \/ CloseTicket(t)

RequestNext(r) ==
    \/ \E t \in Tickets, s \in Spares, q \in Quantities : CreateRequest(r, t, s, q)
    \/ \E l \in Levels :
        RefuseRung(r, l) \/ ReturnRung(r, l) \/ ApproveRung(r, l) \/ ApproveLast(r, l) \/ ApproveShort(r, l)
    \/ IssueParts(r) \/ ConfirmReceiving(r)

StoreNext(s) ==
    \/ \E q \in Quantities : ReceiveStock(s, q)
    \/ \E q \in 0 .. MaxStock : AdjustStock(s, q)

Next ==
    \/ \E t \in Tickets : TicketNext(t)
    \/ \E r \in Requests : RequestNext(r)
    \/ \E s \in Spares : StoreNext(s)

Spec == Init /\ [][Next]_vars

(***************************************************************************)
(* Properties.                                                             *)
(***************************************************************************)
OnTicket(t, statuses) == {r \in Requests : request[r].status \in statuses /\ request[r].ticket = t}
ApprovedFor(s) == {r \in Requests : request[r].status = "approved" /\ request[r].spare = s}

TicketRow == [status : DOMAIN TicketTransitions, machine : Machines, diagnosed : BOOLEAN,
              cost : Nat, rolled : BOOLEAN, dragged : BOOLEAN]
RequestRow == [status : {"out_of_stock", "waiting_approval", "approved", "rejected", "returned",
                         "cancelled", "issued", "received"},
               ticket : Tickets, spare : Spares, qty : Quantities]

\* Rows hold what their columns may hold.
TypeOK ==
    /\ ticket \in [Tickets -> TicketRow \cup {NoTicket}]
    /\ machine \in [Machines -> [breakdowns : Nat, cost : Nat]]
    /\ request \in [Requests -> RequestRow \cup {NoRequest}]
    /\ rung \in [Requests -> [Levels -> {"none", "pending", "approved", "rejected", "returned"}]]
    /\ stock \in [Spares -> 0 .. MaxStock] /\ reserved \in [Spares -> Nat]

\* reserved_qty is what the approved requests of that part add up to, through
\* every approval, issue, close and reject, whatever else the ticket went through.
ReservedTrue == \A s \in Spares : reserved[s] = Pieces(ApprovedFor(s))

\* No part stays reserved for a ticket that was closed or rejected (close_ticket:
\* "their reservations would otherwise strand stock").  A card dragged to the last
\* column of the board ends a ticket without releasing anything.
NothingStranded ==
    \A t \in Tickets :
        (ticket[t].status \in {"closed", "rejected", "cancelled"} /\ ~ticket[t].dragged)
        => OnTicket(t, {"approved"}) = {}

\* A ticket that was told its parts are approved has parts to issue, and one that
\* was told they were issued has a handover to confirm.  A dragged card is told
\* nothing.
StatusTrue ==
    \A t \in Tickets : (Raised(t) /\ ~ticket[t].dragged) =>
        /\ ticket[t].status = "approved_issue" => OnTicket(t, {"approved"}) # {}
        /\ ticket[t].status = "parts_issued" => OnTicket(t, {"issued"}) # {}

Costs(ts) == SumFunctionOnSet([t \in ts |-> ticket[t].cost], ts)

\* A machine is never charged more than its tickets cost, closed once or again.
NeverOvercharged ==
    \A m \in Machines :
        machine[m].cost <= Costs({t \in Tickets : Raised(t) /\ ticket[t].machine = m})

\* Tickets, requests and machines agree, whatever a ticket went through (close_ticket,
\* reject_ticket, decide_approval, the board).
TicketsTrue == TypeOK /\ NothingStranded /\ StatusTrue /\ NeverOvercharged

Store == INSTANCE SpareStock WITH promised <-
    [r \in Requests |->
        CASE request[r].status = "approved" -> [status |-> "open", spare |-> request[r].spare, qty |-> request[r].qty]
          [] request[r].status \in {"issued", "received"} -> [status |-> "handed"]
          [] OTHER -> [status |-> "none"]]

\* The desk keeps the promises of SpareStock: a part is promised to one request
\* at a time, and handed over once.
KeepsThePromise == Store!Spec

=============================================================================
