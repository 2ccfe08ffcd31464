-------------------------- MODULE MaintDeskProofs ---------------------------
(***************************************************************************)
(* Proofs about MaintDesk for every set of tickets, machines, requests and *)
(* parts: the counters of the spare store are true, tickets agree with     *)
(* their requests, machines are not overcharged, and the desk implements   *)
(* the promises of SpareStock.                                             *)
(*                                                                         *)
(* Then about SpareBridge, whose shelf is that of MaintDesk: parts         *)
(* are ordered once, movements add up, promised parts are not handed out.  *)
(***************************************************************************)
EXTENDS MaintDesk, SpareBridge, SumProofs

-----------------------------------------------------------------------------
(* Rows.                                                                   *)

\* A request stands on a ticket that was raised; signatures belong to requests.
Linked ==
  /\ \A r \in Requests : Asked(r) => Raised(request[r].ticket)
  /\ \A r \in Requests : ~Asked(r) => rung[r] = NoRungs

\* What was approved has no signature outstanding, then or later.
Settled ==
  \A r \in Requests : request[r].status \in {"approved", "issued", "received", "cancelled"} =>
    \A l \in Levels : ~Pending(r, l)

Rows == TypeOK /\ Linked /\ Settled

\* The statuses the functions force are statuses of the table.
LEMMA ForcedStatuses ==
  {"submitted", "assigned", "testing", "resolved", "reopened", "rejected", "closed",
   "spare_required", "repair", "waiting_stock", "waiting_approval", "approved_issue",
   "parts_issued"} \subseteq DOMAIN TicketTransitions
BY DEF TicketTransitions

\* MAX(reserved_qty - n, 0).
LEMMA MaxPair ==
  ASSUME NEW a \in Int
  PROVE  Max({a, 0}) \in Nat /\ (a >= 0 => Max({a, 0}) = a)
<1> DEFINE m == IF a >= 0 THEN a ELSE 0
<1>1. m \in {a, 0} /\ \A y \in {a, 0} : m >= y
  OBVIOUS
<1>2. \A x \in {a, 0} : (\A y \in {a, 0} : x >= y) => x = m
  OBVIOUS
<1>3. Max({a, 0}) \in {a, 0} /\ \A y \in {a, 0} : Max({a, 0}) >= y
  <2> HIDE DEF m
  <2> QED
    BY <1>1 DEF Max
<1>4. Max({a, 0}) = m
  <2> HIDE DEF m
  <2> QED
    BY <1>2, <1>3
<1> QED
  BY <1>4

\* One ticket gets a new row; the requests still stand on raised tickets.
LEMMA TicketKept ==
  ASSUME Rows, NEW t \in Tickets, NEW row \in TicketRow, ticket' = [ticket EXCEPT ![t] = row],
         UNCHANGED <<request, rung>>
  PROVE  ticket' \in [Tickets -> TicketRow \cup {NoTicket}] /\ Linked' /\ Settled'
<1>1. ticket' \in [Tickets -> TicketRow \cup {NoTicket}]
  BY DEF Rows, TypeOK
<1>2. \A u \in Tickets : Raised(u) => Raised(u)'
  <2>1. row # NoTicket
    BY DEF TicketRow, NoTicket
  <2> QED
    BY <2>1 DEF Rows, TypeOK, Raised
<1>3. \A r \in Requests : Asked(r) => request[r].ticket \in Tickets
  BY DEF Rows, TypeOK, Asked, RequestRow
<1>4. Linked'
  BY <1>2, <1>3 DEF Rows, Linked, Asked, Raised
<1>5. Settled'
  BY DEF Rows, Settled, Pending
<1> QED
  BY <1>1, <1>4, <1>5

\* A status is forced on a raised ticket; the rest of its row stays.
LEMMA StatusForced ==
  ASSUME Rows, NEW t \in Tickets, Raised(t), NEW st \in DOMAIN TicketTransitions, SetStatus(t, st)
  PROVE  \E row \in TicketRow :
           /\ ticket' = [ticket EXCEPT ![t] = row]
           /\ row.status = st /\ ~row.dragged
           /\ row.machine = ticket[t].machine /\ row.cost = ticket[t].cost
           /\ row.rolled = ticket[t].rolled
<1> DEFINE row == [ticket[t] EXCEPT !.status = st, !.dragged = FALSE]
<1>1. ticket[t] \in TicketRow
  BY DEF Rows, TypeOK, Raised
<1>2. row \in TicketRow /\ row.status = st /\ ~row.dragged /\ row.machine = ticket[t].machine
      /\ row.cost = ticket[t].cost /\ row.rolled = ticket[t].rolled
  BY <1>1 DEF TicketRow
<1>3. ticket' = [ticket EXCEPT ![t] = row]
  BY DEF SetStatus
<1> HIDE DEF row
<1> QED
  BY <1>2, <1>3

\* One request gets a new row, with the signatures that go with its status.
LEMMA RequestKept ==
  ASSUME Rows, NEW r \in Requests, NEW row \in RequestRow,
         NEW rs \in [Levels -> {"none", "pending", "approved", "rejected", "returned"}],
         request' = [request EXCEPT ![r] = row], rung' = [rung EXCEPT ![r] = rs],
         row.status \in {"approved", "issued", "received", "cancelled"} =>
           \A l \in Levels : rs[l] # "pending",
         Raised(row.ticket)', \A t \in Tickets : Raised(t) => Raised(t)'
  PROVE  /\ request' \in [Requests -> RequestRow \cup {NoRequest}]
         /\ rung' \in [Requests -> [Levels -> {"none", "pending", "approved", "rejected", "returned"}]]
         /\ Linked' /\ Settled'
<1>1. /\ request \in [Requests -> RequestRow \cup {NoRequest}]
      /\ rung \in [Requests -> [Levels -> {"none", "pending", "approved", "rejected", "returned"}]]
  BY DEF Rows, TypeOK
<1>2. row # NoRequest
  BY DEF RequestRow, NoRequest
<1>3. Linked'
  <2>1. \A q \in Requests : Asked(q) => request[q].ticket \in Tickets
    BY <1>1 DEF Asked, RequestRow
  <2>2. ASSUME NEW q \in Requests, Asked(q)' PROVE Raised(request[q].ticket)'
    <3>1. CASE q = r
      BY <1>1, <3>1 DEF Raised
    <3>2. CASE q # r
      BY <1>1, <2>1, <2>2, <3>2 DEF Rows, Linked, Asked, Raised
    <3> QED
      BY <3>1, <3>2
  <2>3. ASSUME NEW q \in Requests, ~Asked(q)' PROVE (rung[q] = NoRungs)'
    BY <1>1, <1>2, <2>3 DEF Rows, Linked, Asked
  <2> QED
    BY <2>2, <2>3 DEF Linked
<1>4. Settled'
  BY <1>1 DEF Rows, Settled, Pending
<1> QED
  BY <1>1, <1>3, <1>4

WithStatus(r, st) == [request[r] EXCEPT !.status = st]

\* A request with another status keeps its ticket, its part and its pieces.
LEMMA RequestMoved ==
  ASSUME Rows, NEW r \in Requests, Asked(r),
         NEW st \in {"out_of_stock", "waiting_approval", "approved", "rejected", "returned",
                     "cancelled", "issued", "received"}
  PROVE  LET row == WithStatus(r, st) IN
         /\ row \in RequestRow /\ row.status = st
         /\ row.ticket = request[r].ticket /\ row.spare = request[r].spare
         /\ row.qty = request[r].qty
<1>1. request[r] \in RequestRow
  BY DEF Rows, TypeOK, Asked
<1> QED
  BY <1>1 DEF RequestRow, WithStatus

\* A signature is decided on a request that is asked for and not yet settled.
LEMMA Decided ==
  ASSUME Rows, NEW r \in Requests, NEW l \in Levels, Pending(r, l)
  PROVE  /\ Asked(r) /\ request[r] \in RequestRow
         /\ request[r].ticket \in Tickets /\ Raised(request[r].ticket)
         /\ request[r].status \notin {"approved", "issued", "received", "cancelled"}
<1>1. Asked(r)
  BY DEF Rows, Linked, NoRungs, Pending
<1>2. request[r] \in RequestRow
  BY <1>1 DEF Rows, TypeOK, Asked
<1> QED
  BY <1>1, <1>2 DEF Rows, Linked, Settled, RequestRow

\* A decision leaves types, links and signatures in order.
LEMMA DecisionRows ==
  ASSUME Rows, NEW r \in Requests, NEW l \in Levels,
         NEW decision \in {"approved", "rejected", "returned"},
         NEW st \in {"approved", "rejected", "returned", "out_of_stock"},
         Decide(r, l, decision, st), st = "approved" => Last(r, l),
         \A t \in Tickets : Raised(t) => Raised(t)'
  PROVE  /\ request' \in [Requests -> RequestRow \cup {NoRequest}]
         /\ rung' \in [Requests -> [Levels -> {"none", "pending", "approved", "rejected", "returned"}]]
         /\ Linked' /\ Settled'
<1> DEFINE rs == [rung[r] EXCEPT ![l] = decision]
<1>1. Pending(r, l) /\ request' = [request EXCEPT ![r].status = st]
  BY DEF Decide
<1>2. rung' = [rung EXCEPT ![r] = rs]
  BY DEF Decide
<1>3. /\ rung[r] \in [Levels -> {"none", "pending", "approved", "rejected", "returned"}]
      /\ Asked(r) /\ request[r].ticket \in Tickets /\ Raised(request[r].ticket)
  BY <1>1, Decided DEF Rows, TypeOK
<1>4. rs \in [Levels -> {"none", "pending", "approved", "rejected", "returned"}]
  BY <1>3
<1>5. st = "approved" => \A k \in Levels : rs[k] # "pending"
  BY <1>3 DEF Last, Pending
<1>6. PICK row \in RequestRow : /\ row = WithStatus(r, st)
                                /\ row.status = st /\ row.ticket = request[r].ticket
  BY <1>3, RequestMoved
<1>7. Raised(row.ticket)'
  BY <1>3, <1>6 DEF Raised
<1>8. request' = [request EXCEPT ![r] = row]
  BY <1>1, <1>6 DEF WithStatus
<1> HIDE DEF rs
<1> QED
  BY <1>2, <1>4, <1>5, <1>6, <1>7, <1>8, RequestKept

\* The pieces some requests ask for.
LEMMA PiecesNat ==
  ASSUME Rows, NEW rs \in SUBSET Requests, \A r \in rs : Asked(r)
  PROVE  Pieces(rs) \in Nat /\ IsFiniteSet(rs)
<1>1. IsFiniteSet(rs)
  BY DeskAssumption, FS_Subset
<1> DEFINE q == [r \in rs |-> request[r].qty]
<1>2. \A r \in rs : q[r] \in Nat
  BY DeskAssumption DEF Rows, TypeOK, Asked, RequestRow
<1>3. SumFunctionOnSet(q, rs) \in Nat
  <2> HIDE DEF q
  <2> QED
    BY <1>1, <1>2, SumNat
<1> QED
  BY <1>1, <1>3 DEF Pieces

\* _release_ticket_reservations leaves rows in order; its tickets stay.
LEMMA ReleaseRows ==
  ASSUME Rows, NEW t \in Tickets, ReleaseReservations(t),
         \A u \in Tickets : Raised(u) => Raised(u)', rung' = rung
  PROVE  /\ request' \in [Requests -> RequestRow \cup {NoRequest}]
         /\ reserved' \in [Spares -> Nat] /\ Linked' /\ Settled'
<1> DEFINE mine == {r \in Requests : request[r].status = "approved" /\ request[r].ticket = t}
<1>1. request \in [Requests -> RequestRow \cup {NoRequest}]
  BY DEF Rows, TypeOK
<1>2. \A r \in mine : Asked(r) /\ request[r] \in RequestRow
  BY <1>1 DEF Asked, NoRequest
<1>3. request' = [r \in Requests |-> IF r \in mine THEN [request[r] EXCEPT !.status = "cancelled"]
                                                  ELSE request[r]]
  BY Zenon DEF ReleaseReservations
<1>4. \A r \in Requests :
        /\ r \notin mine => request'[r] = request[r]
        /\ r \in mine => /\ request'[r] \in RequestRow /\ request'[r].status = "cancelled"
                         /\ request'[r].ticket = request[r].ticket
  <2>1. \A r \in Requests : r \notin mine => request'[r] = request[r]
    BY <1>3
  <2>2. ASSUME NEW r \in mine
        PROVE  /\ request'[r] \in RequestRow /\ request'[r].status = "cancelled"
               /\ request'[r].ticket = request[r].ticket
    <3>1. request'[r] = [request[r] EXCEPT !.status = "cancelled"]
      BY <1>3, <2>2
    <3> QED
      BY <1>2, <3>1 DEF RequestRow
  <2> QED
    BY <2>1, <2>2
<1>5. request' \in [Requests -> RequestRow \cup {NoRequest}]
  <2>1. \A r \in Requests : request'[r] \in RequestRow \cup {NoRequest}
    BY <1>1, <1>4
  <2>2. request' = [r \in Requests |-> request'[r]]
    BY <1>3
  <2> HIDE DEF mine
  <2> QED
    BY <2>1, <2>2
<1>6. Linked'
  <2>1. ASSUME NEW r \in Requests, Asked(r)' PROVE Raised(request[r].ticket)'
    <3>1. Asked(r) /\ request'[r].ticket = request[r].ticket /\ request[r].ticket \in Tickets
      BY <1>1, <1>2, <1>4, <2>1 DEF Asked, RequestRow
    <3>2. Raised(request[r].ticket)
      BY <3>1 DEF Rows, Linked
    <3> QED
      BY <3>1, <3>2 DEF Raised
  <2>2. ASSUME NEW r \in Requests, ~Asked(r)' PROVE (rung[r] = NoRungs)'
    <3>1. ~Asked(r)
      <4>1. \A row \in RequestRow : row # NoRequest
        BY DEF RequestRow, NoRequest
      <4> QED
        BY <1>4, <2>2, <4>1 DEF Asked
    <3> QED
      BY <3>1 DEF Rows, Linked
  <2> QED
    BY <2>1, <2>2 DEF Linked
<1>7. Settled'
  BY <1>4 DEF Rows, Settled, Pending
<1>8. reserved' \in [Spares -> Nat]
  <2> DEFINE held(s) == Pieces({r \in mine : request[r].spare = s})
  <2>1. reserved' = [s \in Spares |-> Max({reserved[s] - held(s), 0})]
    BY Zenon DEF ReleaseReservations
  <2>2. \A s \in Spares : held(s) \in Nat
    <3> SUFFICES ASSUME NEW s \in Spares PROVE held(s) \in Nat
      OBVIOUS
    <3> DEFINE rs == {r \in mine : request[r].spare = s}
    <3>1. rs \in SUBSET Requests /\ \A r \in rs : Asked(r)
      BY <1>2
    <3> HIDE DEF rs, mine
    <3> QED
      BY <3>1, PiecesNat DEF rs
  <2>3. \A s \in Spares : reserved[s] - held(s) \in Int
    BY <2>2 DEF Rows, TypeOK
  <2> HIDE DEF held
  <2> QED
    BY <2>1, <2>3, MaxPair
<1> QED
  BY <1>5, <1>6, <1>7, <1>8

\* One step of anybody keeps the rows in order.
LEMMA NextRows == Rows /\ [Next]_vars => Rows'
<1> SUFFICES ASSUME Rows, [Next]_vars PROVE Rows'
  OBVIOUS
<1>1. /\ ticket \in [Tickets -> TicketRow \cup {NoTicket}]
      /\ machine \in [Machines -> [breakdowns : Nat, cost : Nat]]
      /\ request \in [Requests -> RequestRow \cup {NoRequest}]
      /\ rung \in [Requests -> [Levels -> {"none", "pending", "approved", "rejected", "returned"}]]
      /\ stock \in [Spares -> 0 .. MaxStock] /\ reserved \in [Spares -> Nat]
      /\ TypeOK /\ Linked /\ Settled
  BY DEF Rows, TypeOK
<1>2. ASSUME NEW t \in Tickets, NEW row \in TicketRow, ticket' = [ticket EXCEPT ![t] = row],
             UNCHANGED <<machine, request, rung, stock, reserved>>
      PROVE  Rows'
  <2>1. ticket' \in [Tickets -> TicketRow \cup {NoTicket}] /\ Linked' /\ Settled'
    BY <1>2, TicketKept
  <2> QED
    BY <1>1, <1>2, <2>1 DEF Rows, TypeOK
<1>3. \A t \in Tickets : \A row \in TicketRow :
        ticket' = [ticket EXCEPT ![t] = row] => \A u \in Tickets : Raised(u) => Raised(u)'
  <2>1. \A row \in TicketRow : row # NoTicket
    BY DEF TicketRow, NoTicket
  <2> QED
    BY <1>1, <2>1 DEF Raised
<1>4. \A t \in Tickets : Raised(t) => ticket[t] \in TicketRow
  BY <1>1 DEF Raised
<1>5. ASSUME NEW t \in Tickets, NEW m \in Machines, CreateTicket(t, m) PROVE Rows'
  <2> DEFINE row == [status |-> "submitted", machine |-> m, diagnosed |-> FALSE, cost |-> 0,
                     rolled |-> FALSE, dragged |-> FALSE]
  <2>1. row \in TicketRow
    BY ForcedStatuses DEF TicketRow
  <2>2. ticket' = [ticket EXCEPT ![t] = row] /\ UNCHANGED <<machine, request, rung, stock, reserved>>
    BY <1>5 DEF CreateTicket
  <2> HIDE DEF row
  <2> QED
    BY <1>2, <2>1, <2>2
<1>6. ASSUME NEW t \in Tickets, NEW st \in DOMAIN TicketTransitions, Worked(t, st) PROVE Rows'
  <2>1. PICK row \in TicketRow : ticket' = [ticket EXCEPT ![t] = row]
    BY <1>6, StatusForced DEF Worked
  <2> QED
    BY <1>2, <1>6, <2>1 DEF Worked
<1>7. ASSUME NEW t \in Tickets, NEW st \in {"spare_required", "repair"}, AddDiagnosis(t, st)
      PROVE  Rows'
  <2>1. PICK row \in TicketRow : row = [ticket[t] EXCEPT !.status = st, !.diagnosed = TRUE, !.dragged = FALSE]
    BY <1>4, <1>7, ForcedStatuses DEF AddDiagnosis, TicketRow
  <2>2. ticket' = [ticket EXCEPT ![t] = row] /\ UNCHANGED <<machine, request, rung, stock, reserved>>
    BY <1>7, <2>1 DEF AddDiagnosis
  <2> QED
    BY <1>2, <2>2
<1>8. ASSUME NEW t \in Tickets, NEW st \in DOMAIN TicketTransitions, MoveCard(t, st) PROVE Rows'
  <2>1. PICK row \in TicketRow : row = [ticket[t] EXCEPT !.status = st, !.dragged = TRUE]
    BY <1>4, <1>8 DEF MoveCard, TicketRow
  <2>2. ticket' = [ticket EXCEPT ![t] = row] /\ UNCHANGED <<machine, request, rung, stock, reserved>>
    BY <1>8, <2>1 DEF MoveCard
  <2> QED
    BY <1>2, <2>2
<1>9. ASSUME NEW t \in Tickets, RejectTicket(t) PROVE Rows'
  <2>1. PICK row \in TicketRow : ticket' = [ticket EXCEPT ![t] = row]
    BY <1>9, StatusForced, ForcedStatuses DEF RejectTicket
  <2>2. ReleaseReservations(t) /\ UNCHANGED <<machine, rung, stock>>
    BY <1>9 DEF RejectTicket
  <2>3. \A u \in Tickets : Raised(u) => Raised(u)'
    BY <1>3, <2>1
  <2>4. /\ request' \in [Requests -> RequestRow \cup {NoRequest}]
        /\ reserved' \in [Spares -> Nat] /\ Linked' /\ Settled'
    BY <2>2, <2>3, ReleaseRows
  <2> QED
    BY <1>1, <2>1, <2>2, <2>4 DEF Rows, TypeOK
<1>10. ASSUME NEW t \in Tickets, CloseTicket(t) PROVE Rows'
  <2>1. Raised(t)
    BY <1>10 DEF CloseTicket, Raised, NoTicket
  <2>2. PICK row \in TicketRow : row = [ticket[t] EXCEPT !.status = "closed", !.rolled = TRUE, !.dragged = FALSE]
    BY <1>4, <2>1, ForcedStatuses DEF TicketRow
  <2>3. /\ ticket' = [ticket EXCEPT ![t] = row] /\ ReleaseReservations(t)
        /\ UNCHANGED <<rung, stock>>
    BY <1>10, <2>2 DEF CloseTicket
  <2>4. \A u \in Tickets : Raised(u) => Raised(u)'
    BY <1>3, <2>3
  <2>5. /\ request' \in [Requests -> RequestRow \cup {NoRequest}]
        /\ reserved' \in [Spares -> Nat] /\ Linked' /\ Settled'
    BY <2>3, <2>4, ReleaseRows
  <2>6. machine' \in [Machines -> [breakdowns : Nat, cost : Nat]]
    <3>1. ticket[t] \in TicketRow
      BY <1>4, <2>1
    <3>2. ticket[t].machine \in Machines /\ ticket[t].cost \in Nat
      BY <3>1 DEF TicketRow
    <3>3. machine' = machine \/ machine' =
            [machine EXCEPT ![ticket[t].machine] =
               [breakdowns |-> @.breakdowns + 1, cost |-> @.cost + ticket[t].cost]]
      BY <1>10 DEF CloseTicket
    <3> QED
      BY <1>1, <3>2, <3>3
  <2> QED
    BY <1>1, <2>3, <2>5, <2>6 DEF Rows, TypeOK<1>11. ASSUME NEW r \in Requests, NEW t \in Tickets, NEW s \in Spares, NEW q \in Quantities,
              CreateRequest(r, t, s, q)
       PROVE  Rows'
  <2>1. Raised(t) /\ UNCHANGED <<machine, stock, reserved>>
    BY <1>11 DEF CreateRequest
  <2>2. PICK st \in {"out_of_stock", "waiting_approval"} :
          st = IF q > Available(s) THEN "out_of_stock" ELSE "waiting_approval"
    OBVIOUS
  <2>3. PICK row \in TicketRow : ticket' = [ticket EXCEPT ![t] = row]
    BY <1>11, <2>1, StatusForced, ForcedStatuses DEF CreateRequest
  <2>4. PICK ask \in RequestRow :
          ask = [status |-> st, ticket |-> t, spare |-> s, qty |-> q]
    BY DEF RequestRow
  <2>5. PICK rs \in [Levels -> {"none", "pending", "approved", "rejected", "returned"}] :
          rs = [l \in Levels |-> IF l \in LevelsFor(q) /\ ~(q > Available(s)) THEN "pending" ELSE "none"]
    OBVIOUS
  <2>6. request' = [request EXCEPT ![r] = ask] /\ rung' = [rung EXCEPT ![r] = rs]
    BY <1>11, <2>2, <2>4, <2>5 DEF CreateRequest
  <2>7. \A u \in Tickets : Raised(u) => Raised(u)'
    BY <1>3, <2>3
  <2>8. ask.status \notin {"approved", "issued", "received", "cancelled"} /\ ask.ticket = t
    BY <2>4
  <2>9. Raised(ask.ticket)'
    BY <2>1, <2>7, <2>8
  <2>10. /\ request' \in [Requests -> RequestRow \cup {NoRequest}]
         /\ rung' \in [Requests -> [Levels -> {"none", "pending", "approved", "rejected", "returned"}]]
         /\ Linked' /\ Settled'
    BY <2>6, <2>7, <2>8, <2>9, RequestKept
  <2> QED
    BY <1>1, <2>1, <2>3, <2>10 DEF Rows, TypeOK
<1>12. ASSUME NEW r \in Requests, NEW l \in Levels, RefuseRung(r, l) PROVE Rows'
  <2>1. Pending(r, l) /\ UNCHANGED <<machine, stock, reserved>>
    BY <1>12 DEF RefuseRung, Decide
  <2>2. request[r].ticket \in Tickets /\ Raised(request[r].ticket)
    BY <2>1, Decided
  <2>3. PICK row \in TicketRow : ticket' = [ticket EXCEPT ![request[r].ticket] = row]
    BY <1>12, <2>2, StatusForced, ForcedStatuses DEF RefuseRung
  <2>4. \A u \in Tickets : Raised(u) => Raised(u)'
    BY <1>3, <2>2, <2>3
  <2>5. /\ request' \in [Requests -> RequestRow \cup {NoRequest}]
        /\ rung' \in [Requests -> [Levels -> {"none", "pending", "approved", "rejected", "returned"}]]
        /\ Linked' /\ Settled'
    <3>1. Decide(r, l, "rejected", "rejected")
      BY <1>12 DEF RefuseRung
    <3> QED
      BY <2>4, <3>1, DecisionRows
  <2> QED
    BY <1>1, <2>1, <2>2, <2>3, <2>5 DEF Rows, TypeOK
<1>13. ASSUME NEW r \in Requests, NEW l \in Levels, ReturnRung(r, l) PROVE Rows'
  <2>1. Decide(r, l, "returned", "returned") /\ UNCHANGED <<ticket, machine, stock, reserved>>
    BY <1>13 DEF ReturnRung
  <2>2. \A u \in Tickets : Raised(u) => Raised(u)'
    BY <2>1 DEF Raised
  <2>3. /\ request' \in [Requests -> RequestRow \cup {NoRequest}]
        /\ rung' \in [Requests -> [Levels -> {"none", "pending", "approved", "rejected", "returned"}]]
        /\ Linked' /\ Settled'
    BY <2>1, <2>2, DecisionRows
  <2> QED
    BY <1>1, <2>1, <2>3 DEF Rows, TypeOK
<1>14. ASSUME NEW r \in Requests, NEW l \in Levels, ApproveRung(r, l) PROVE Rows'
  <2>1. /\ Pending(r, l) /\ rung' = [rung EXCEPT ![r][l] = "approved"]
        /\ UNCHANGED <<ticket, machine, request, stock, reserved>>
    BY <1>14 DEF ApproveRung
  <2>2. rung' \in [Requests -> [Levels -> {"none", "pending", "approved", "rejected", "returned"}]]
    BY <1>1, <2>1
  <2>3. Linked'
    BY <1>1, <2>1, Decided DEF Linked, Asked, Raised
  <2>4. Settled'
    BY <1>1, <2>1 DEF Settled, Pending
  <2> QED
    BY <1>1, <2>1, <2>2, <2>3, <2>4 DEF Rows, TypeOK
<1>15. ASSUME NEW r \in Requests, NEW l \in Levels, ApproveLast(r, l) PROVE Rows'
  <2>1. /\ Pending(r, l) /\ Last(r, l) /\ UNCHANGED <<machine, stock>>
        /\ Decide(r, l, "approved", "approved")
        /\ reserved' = [reserved EXCEPT ![request[r].spare] = @ + request[r].qty]
    BY <1>15 DEF ApproveLast
  <2>2. /\ request[r].ticket \in Tickets /\ Raised(request[r].ticket)
        /\ request[r] \in RequestRow
    BY <2>1, Decided
  <2>3. PICK row \in TicketRow : ticket' = [ticket EXCEPT ![request[r].ticket] = row]
    BY <1>15, <2>2, StatusForced, ForcedStatuses DEF ApproveLast
  <2>4. \A u \in Tickets : Raised(u) => Raised(u)'
    BY <1>3, <2>2, <2>3
  <2>5. /\ request' \in [Requests -> RequestRow \cup {NoRequest}]
        /\ rung' \in [Requests -> [Levels -> {"none", "pending", "approved", "rejected", "returned"}]]
        /\ Linked' /\ Settled'
    BY <2>1, <2>4, DecisionRows
  <2>6. reserved' \in [Spares -> Nat]
    <3>1. request[r].spare \in Spares /\ request[r].qty \in Nat
      BY <2>2, DeskAssumption DEF RequestRow
    <3> QED
      BY <1>1, <2>1, <3>1
  <2> QED
    BY <1>1, <2>1, <2>2, <2>3, <2>5, <2>6 DEF Rows, TypeOK
<1>16. ASSUME NEW r \in Requests, NEW l \in Levels, ApproveShort(r, l) PROVE Rows'
  <2>1. /\ Pending(r, l) /\ UNCHANGED <<machine, stock, reserved>>
        /\ Decide(r, l, "approved", "out_of_stock")
    BY <1>16 DEF ApproveShort
  <2>2. request[r].ticket \in Tickets /\ Raised(request[r].ticket)
    BY <2>1, Decided
  <2>3. PICK row \in TicketRow : ticket' = [ticket EXCEPT ![request[r].ticket] = row]
    BY <1>16, <2>2, StatusForced, ForcedStatuses DEF ApproveShort
  <2>4. \A u \in Tickets : Raised(u) => Raised(u)'
    BY <1>3, <2>2, <2>3
  <2>5. /\ request' \in [Requests -> RequestRow \cup {NoRequest}]
        /\ rung' \in [Requests -> [Levels -> {"none", "pending", "approved", "rejected", "returned"}]]
        /\ Linked' /\ Settled'
    BY <2>1, <2>4, DecisionRows
  <2> QED
    BY <1>1, <2>1, <2>2, <2>3, <2>5 DEF Rows, TypeOK
<1>17. ASSUME NEW r \in Requests, IssueParts(r) PROVE Rows'
  <2>1. /\ Asked(r) /\ request[r] \in RequestRow /\ request[r].ticket \in Tickets
        /\ Raised(request[r].ticket) /\ request[r].spare \in Spares
        /\ request[r].qty \in Nat \ {0} /\ \A l \in Levels : ~Pending(r, l)
    <3>1. request[r].status = "approved"
      BY <1>17 DEF IssueParts
    <3>2. Asked(r) /\ request[r] \in RequestRow
      BY <1>1, <3>1 DEF Asked, NoRequest
    <3> QED
      BY <1>1, <3>1, <3>2, DeskAssumption DEF Linked, Settled, RequestRow
  <2>2. PICK row \in TicketRow :
          row = [ticket[request[r].ticket] EXCEPT !.status = "parts_issued", !.dragged = FALSE,
                                                  !.cost = @ + request[r].qty]
    <3> DEFINE old == ticket[request[r].ticket]
               q   == request[r].qty
               new == [old EXCEPT !.status = "parts_issued", !.dragged = FALSE, !.cost = @ + q]
    <3>1. old \in TicketRow /\ q \in Nat
      BY <1>4, <2>1
    <3>2. new \in TicketRow
      <4> HIDE DEF old, q
      <4>1. old.cost + q \in Nat
        BY <3>1 DEF TicketRow
      <4>2. [old EXCEPT !.status = "parts_issued", !.dragged = FALSE, !.cost = old.cost + q] \in TicketRow
        BY <3>1, <4>1, ForcedStatuses DEF TicketRow
      <4> QED
        BY <4>2
    <3> HIDE DEF new
    <3>3. \E row \in TicketRow : row = new
      BY <3>2
    <3> QED
      BY <3>3 DEF new
  <2>3. PICK ask \in RequestRow : /\ ask = WithStatus(r, "issued") /\ ask.status = "issued"
                                  /\ ask.ticket = request[r].ticket
    BY <2>1, RequestMoved
  <2>4. /\ request' = [request EXCEPT ![r] = ask] /\ rung' = [rung EXCEPT ![r] = rung[r]]
        /\ ticket' = [ticket EXCEPT ![request[r].ticket] = row]
    BY <1>1, <1>17, <2>2, <2>3 DEF IssueParts, WithStatus
  <2>5. \A u \in Tickets : Raised(u) => Raised(u)'
    BY <1>3, <2>1, <2>4
  <2>6. rung[r] \in [Levels -> {"none", "pending", "approved", "rejected", "returned"}]
        /\ (\A l \in Levels : rung[r][l] # "pending") /\ Raised(ask.ticket)'
    BY <1>1, <2>1, <2>3, <2>5 DEF Pending
  <2>7. PICK rs \in [Levels -> {"none", "pending", "approved", "rejected", "returned"}] : rs = rung[r]
    BY <2>6
  <2>8. /\ request' \in [Requests -> RequestRow \cup {NoRequest}]
        /\ rung' \in [Requests -> [Levels -> {"none", "pending", "approved", "rejected", "returned"}]]
        /\ Linked' /\ Settled'
    BY <2>4, <2>5, <2>6, <2>7, RequestKept
  <2>9. reserved' \in [Spares -> Nat] /\ stock' \in [Spares -> 0 .. MaxStock]
    <3> DEFINE s == request[r].spare
               q == request[r].qty
    <3>1. /\ reserved' = [reserved EXCEPT ![s] = Max({reserved[s] - q, 0})]
          /\ stock' = [stock EXCEPT ![s] = stock[s] - q] /\ stock[s] >= q
      BY <1>17 DEF IssueParts, Unreserved, OnShelf
    <3>2. reserved[s] - q \in Int /\ s \in Spares /\ stock[s] \in 0 .. MaxStock /\ q \in Nat
      BY <1>1, <2>1
    <3>3. Max({reserved[s] - q, 0}) \in Nat
      <4> HIDE DEF s, q
      <4> QED
        BY <3>2, MaxPair
    <3>4. stock[s] - q \in 0 .. MaxStock
      BY <3>1, <3>2, DeskAssumption
    <3> HIDE DEF s, q
    <3> QED
      BY <1>1, <3>1, <3>2, <3>3, <3>4
  <2>10. machine' = machine
    BY <1>17 DEF IssueParts
  <2> QED
    BY <1>1, <2>1, <2>4, <2>8, <2>9, <2>10 DEF Rows, TypeOK
<1>18. ASSUME NEW r \in Requests, ConfirmReceiving(r) PROVE Rows'
  <2>1. /\ Asked(r) /\ request[r].ticket \in Tickets /\ Raised(request[r].ticket)
        /\ \A l \in Levels : ~Pending(r, l)
    <3>1. request[r].status = "issued"
      BY <1>18 DEF ConfirmReceiving
    <3>2. Asked(r) /\ request[r] \in RequestRow
      BY <1>1, <3>1 DEF Asked, NoRequest
    <3> QED
      BY <1>1, <3>1, <3>2 DEF Linked, Settled, RequestRow
  <2>2. PICK row \in TicketRow : ticket' = [ticket EXCEPT ![request[r].ticket] = row]
    BY <1>18, <2>1, StatusForced, ForcedStatuses DEF ConfirmReceiving
  <2>3. PICK ask \in RequestRow : /\ ask = WithStatus(r, "received") /\ ask.status = "received"
                                  /\ ask.ticket = request[r].ticket
    BY <2>1, RequestMoved
  <2>4. /\ request' = [request EXCEPT ![r] = ask] /\ rung' = [rung EXCEPT ![r] = rung[r]]
        /\ UNCHANGED <<machine, stock, reserved>>
    BY <1>1, <1>18, <2>3 DEF ConfirmReceiving, WithStatus
  <2>5. \A u \in Tickets : Raised(u) => Raised(u)'
    BY <1>3, <2>1, <2>2
  <2>6. rung[r] \in [Levels -> {"none", "pending", "approved", "rejected", "returned"}]
        /\ (\A l \in Levels : rung[r][l] # "pending") /\ Raised(ask.ticket)'
    BY <1>1, <2>1, <2>3, <2>5 DEF Pending
  <2>7. PICK rs \in [Levels -> {"none", "pending", "approved", "rejected", "returned"}] : rs = rung[r]
    BY <2>6
  <2>8. /\ request' \in [Requests -> RequestRow \cup {NoRequest}]
        /\ rung' \in [Requests -> [Levels -> {"none", "pending", "approved", "rejected", "returned"}]]
        /\ Linked' /\ Settled'
    BY <2>4, <2>5, <2>6, <2>7, RequestKept
  <2> QED
    BY <1>1, <2>1, <2>2, <2>4, <2>8 DEF Rows, TypeOK
<1>19. ASSUME NEW s \in Spares, NEW n \in 0 .. MaxStock, stock' = [stock EXCEPT ![s] = n],
              UNCHANGED <<ticket, machine, request, rung, reserved>>
       PROVE  Rows'
  BY <1>1, <1>19 DEF Rows, TypeOK, Linked, Settled, Asked, Raised, Pending
<1>20. ASSUME NEW s \in Spares, NEW q \in Quantities, ReceiveStock(s, q) PROVE Rows'
  <2>1. PICK n \in 0 .. MaxStock : n = stock[s] + q
    BY <1>1, <1>20, DeskAssumption DEF ReceiveStock
  <2>2. stock' = [stock EXCEPT ![s] = n] /\ UNCHANGED <<ticket, machine, request, rung, reserved>>
    BY <1>20, <2>1 DEF ReceiveStock
  <2> QED
    BY <1>19, <2>2
<1>21. ASSUME NEW s \in Spares, NEW q \in 0 .. MaxStock, AdjustStock(s, q) PROVE Rows'
  BY <1>19, <1>21 DEF AdjustStock
<1>22. CASE UNCHANGED vars
  BY <1>1, <1>22 DEF vars, Rows, TypeOK, Linked, Settled, Asked, Raised, Pending
<1>23. ASSUME NEW t \in Tickets, TicketNext(t) PROVE Rows'
  BY <1>5, <1>6, <1>7, <1>8, <1>9, <1>10, <1>23, ForcedStatuses
  DEF TicketNext, ReviewAssign, RepairProof, RecordTest, ReopenTicket
<1>24. ASSUME NEW r \in Requests, RequestNext(r) PROVE Rows'
  BY <1>11, <1>12, <1>13, <1>14, <1>15, <1>16, <1>17, <1>18, <1>24 DEF RequestNext
<1>25. ASSUME NEW s \in Spares, StoreNext(s) PROVE Rows'
  BY <1>20, <1>21, <1>25 DEF StoreNext
<1> QED
  BY <1>22, <1>23, <1>24, <1>25 DEF Next

\* The desk opens with no rows.
LEMMA InitRows == Init => Rows
<1> SUFFICES ASSUME Init PROVE Rows
  OBVIOUS
<1>1. TypeOK
  <2>1. /\ ticket \in [Tickets -> TicketRow \cup {NoTicket}]
        /\ request \in [Requests -> RequestRow \cup {NoRequest}]
        /\ machine \in [Machines -> [breakdowns : Nat, cost : Nat]]
    BY DEF Init
  <2>2. /\ rung \in [Requests -> [Levels -> {"none", "pending", "approved", "rejected", "returned"}]]
        /\ stock \in [Spares -> 0 .. MaxStock] /\ reserved \in [Spares -> Nat]
    BY DeskAssumption DEF Init, NoRungs
  <2> QED
    BY <2>1, <2>2 DEF TypeOK
<1>2. Linked
  BY DEF Init, Linked, Asked
<1>3. Settled
  BY DEF Init, Settled, NoRungs, NoRequest, Pending
<1> QED
  BY <1>1, <1>2, <1>3 DEF Rows

\* Rows hold what their columns may hold, requests stand on raised tickets, and what
\* was approved has no signature outstanding (services.py, every function).
THEOREM RowsInOrder == Spec => []Rows
<1>1. Init => Rows
  BY InitRows
<1>2. Rows /\ [Next]_vars => Rows'
  BY NextRows
<1> QED
  BY <1>1, <1>2, PTL DEF Spec

-----------------------------------------------------------------------------
(* What is reserved.                                                       *)

\* The pieces a table of requests has asked for, and the approved ones of a part.
Asks(req, rs) == SumFunctionOnSet([r \in rs |-> req[r].qty], rs)
Of(req, s) == {r \in Requests : req[r].status = "approved" /\ req[r].spare = s}

\* Requests that ask for the same pieces ask for the same in all.
LEMMA AsksSame ==
  ASSUME NEW req, NEW now, NEW rs, IsFiniteSet(rs), \A r \in rs : req[r].qty = now[r].qty
  PROVE  Asks(req, rs) = Asks(now, rs)
<1> DEFINE f == [r \in rs |-> req[r].qty]
           g == [r \in rs |-> now[r].qty]
<1>1. \A r \in rs : f[r] = g[r]
  OBVIOUS
<1>2. SumFunctionOnSet(f, rs) = SumFunctionOnSet(g, rs)
  <2> HIDE DEF f, g
  <2> QED
    BY <1>1, SumSame
<1> QED
  BY <1>2 DEF Asks

\* One request more.
LEMMA AsksAdd ==
  ASSUME NEW req, NEW rs, IsFiniteSet(rs), NEW x, x \notin rs,
         \A r \in rs \cup {x} : req[r].qty \in Nat
  PROVE  Asks(req, rs \cup {x}) = Asks(req, rs) + req[x].qty
<1> DEFINE f == [r \in rs \cup {x} |-> req[r].qty]
           g == [r \in rs |-> req[r].qty]
<1>1. (\A r \in rs \cup {x} : f[r] \in Int) /\ f[x] = req[x].qty /\ \A r \in rs : f[r] = g[r]
  OBVIOUS
<1>2. SumFunctionOnSet(f, rs \cup {x}) = f[x] + SumFunctionOnSet(f, rs)
  <2> HIDE DEF f
  <2> QED
    BY <1>1, SumAdd
<1>3. SumFunctionOnSet(f, rs) = SumFunctionOnSet(g, rs)
  <2> HIDE DEF f, g
  <2> QED
    BY <1>1, SumSame
<1>4. SumFunctionOnSet(f, rs) \in Int
  <2> HIDE DEF f
  <2> QED
    BY <1>1, SumInt
<1> QED
  BY <1>1, <1>2, <1>3, <1>4 DEF Asks

\* A part of the requests, and the others.
LEMMA AsksSplit ==
  ASSUME NEW req, NEW rs, IsFiniteSet(rs), NEW some \in SUBSET rs,
         \A r \in rs : req[r].qty \in Nat
  PROVE  /\ Asks(req, rs) = Asks(req, some) + Asks(req, rs \ some)
         /\ Asks(req, some) \in Nat /\ Asks(req, rs \ some) \in Nat /\ Asks(req, rs) \in Nat
<1> DEFINE f == [r \in rs |-> req[r].qty]
           rest == rs \ some
           g == [r \in some |-> req[r].qty]
           h == [r \in rest |-> req[r].qty]
<1>1. IsFiniteSet(some) /\ IsFiniteSet(rest)
  BY FS_Subset
<1>2. (\A r \in rs : f[r] \in Nat /\ f[r] \in Int) /\ (\A r \in some : f[r] = g[r] /\ g[r] \in Nat)
      /\ (\A r \in rest : f[r] = h[r] /\ h[r] \in Nat)
  OBVIOUS
<1>3. some \cup rest = rs /\ some \cap rest = {}
  OBVIOUS
<1>4. SumFunctionOnSet(f, some \cup rest) = SumFunctionOnSet(f, some) + SumFunctionOnSet(f, rest)
  <2> HIDE DEF f, rest
  <2> QED
    BY <1>1, <1>2, <1>3, SumUnion
<1>5. /\ SumFunctionOnSet(f, some) = SumFunctionOnSet(g, some)
      /\ SumFunctionOnSet(f, rest) = SumFunctionOnSet(h, rest)
      /\ SumFunctionOnSet(f, rs) \in Nat
      /\ SumFunctionOnSet(g, some) \in Nat /\ SumFunctionOnSet(h, rest) \in Nat
  <2> HIDE DEF f, g, h, rest
  <2> QED
    BY <1>1, <1>2, SumSame, SumNat
<1> QED
  BY <1>3, <1>4, <1>5 DEF Asks

\* The counter in the terms of the two operators; approved rows are finite and complete.
LEMMA ReservedIs ==
  ASSUME Rows
  PROVE  /\ ReservedTrue <=> \A s \in Spares : reserved[s] = Asks(request, Of(request, s))
         /\ \A s \in Spares : Of(request, s) \in SUBSET Requests /\ IsFiniteSet(Of(request, s))
         /\ \A r \in Requests : request[r].status # "none" =>
              request[r] \in RequestRow /\ Asked(r) /\ request[r].qty \in Nat \ {0} /\ request[r].qty \in Quantities
                /\ request[r].spare \in Spares
<1>1. \A s \in Spares : Pieces(ApprovedFor(s)) = Asks(request, Of(request, s))
  BY DEF Pieces, ApprovedFor, Asks, Of
<1>2. \A s \in Spares : Of(request, s) \in SUBSET Requests
  BY DEF Of
<1>3. \A s \in Spares : IsFiniteSet(Of(request, s))
  BY <1>2, DeskAssumption, FS_Subset
<1>4. \A r \in Requests : request[r].status # "none" => request[r] \in RequestRow /\ Asked(r)
  BY DEF Rows, TypeOK, Asked, NoRequest
<1>5. \A row \in RequestRow : row.qty \in Nat \ {0} /\ row.qty \in Quantities /\ row.spare \in Spares
  BY DeskAssumption DEF RequestRow
<1>6. ReservedTrue <=> \A s \in Spares : reserved[s] = Asks(request, Of(request, s))
  BY <1>1 DEF ReservedTrue
<1> QED
  BY <1>2, <1>3, <1>4, <1>5, <1>6

\* The requests but r stand as they stood.
OthersStand(r) == \A q \in Requests \ {r} : request'[q] = request[q]

\* Nothing is reserved or let go when no approved request comes or goes.
LEMMA PromisesKept ==
  ASSUME Rows, ReservedTrue, reserved' = reserved,
         \A r \in Requests : request[r].status = "approved" \/ request'[r].status = "approved" =>
                             request'[r] = request[r]
  PROVE  ReservedTrue'
<1> SUFFICES ASSUME NEW s \in Spares PROVE reserved'[s] = Asks(request', Of(request', s))
  BY DEF ReservedTrue, Pieces, ApprovedFor, Asks, Of
<1>1. Of(request', s) = Of(request, s)
  BY DEF Of
<1>2. \A r \in Of(request, s) : request[r].qty = request'[r].qty
  BY DEF Of
<1>3. IsFiniteSet(Of(request, s)) /\ reserved[s] = Asks(request, Of(request, s))
  BY ReservedIs
<1>4. Asks(request, Of(request, s)) = Asks(request', Of(request, s))
  BY <1>2, <1>3, AsksSame
<1> QED
  BY <1>1, <1>3, <1>4

\* The last signature: what the request asks for is added to what it is asked of.
LEMMA OneMorePromise ==
  ASSUME Rows, ReservedTrue, NEW r \in Requests, request[r].status \notin {"none", "approved"},
         OthersStand(r), request'[r] = WithStatus(r, "approved"),
         reserved' = [reserved EXCEPT ![request[r].spare] = @ + request[r].qty]
  PROVE  ReservedTrue'
<1> SUFFICES ASSUME NEW s \in Spares PROVE reserved'[s] = Asks(request', Of(request', s))
  BY DEF ReservedTrue, Pieces, ApprovedFor, Asks, Of
<1>1. /\ IsFiniteSet(Of(request, s)) /\ reserved[s] = Asks(request, Of(request, s))
      /\ request[r] \in RequestRow /\ request[r].qty \in Nat /\ request[r].spare \in Spares
      /\ \A q \in Of(request, s) : request[q].qty \in Nat
  BY ReservedIs DEF Of
<1>2. request'[r].status = "approved" /\ request'[r].spare = request[r].spare
      /\ request'[r].qty = request[r].qty
  BY <1>1 DEF WithStatus, RequestRow
<1>3. r \notin Of(request, s)
  BY DEF Of
<1>4. \A q \in Of(request, s) : request[q].qty = request'[q].qty
  BY <1>3 DEF Of, OthersStand
<1>5. Asks(request, Of(request, s)) = Asks(request', Of(request, s))
  BY <1>1, <1>4, AsksSame
<1>6. reserved \in [Spares -> Nat]
  BY DEF Rows, TypeOK
<1>7. CASE s = request[r].spare
  <2>1. Of(request', s) = Of(request, s) \cup {r}
    BY <1>2, <1>7 DEF Of, OthersStand
  <2>2. \A q \in Of(request, s) \cup {r} : request'[q].qty \in Nat
    BY <1>1, <1>2, <1>4
  <2>3. Asks(request', Of(request, s) \cup {r}) = Asks(request', Of(request, s)) + request'[r].qty
    BY <1>1, <1>3, <2>2, AsksAdd
  <2>4. reserved'[s] = reserved[s] + request[r].qty
    BY <1>6, <1>7
  <2> QED
    BY <1>1, <1>2, <1>5, <2>1, <2>3, <2>4
<1>8. CASE s # request[r].spare
  <2>1. Of(request', s) = Of(request, s)
    BY <1>2, <1>3, <1>8 DEF Of, OthersStand
  <2>2. reserved'[s] = reserved[s]
    BY <1>6, <1>8
  <2> QED
    BY <1>1, <1>5, <2>1, <2>2
<1> QED
  BY <1>7, <1>8

\* Approved requests of one ticket, or one request, that ask for at most what is reserved:
\* MAX(reserved_qty - n, 0) is then a plain subtraction.
LEMMA PromisesEnded ==
  ASSUME Rows, ReservedTrue, NEW gone \in SUBSET Requests,
         \A r \in gone : request[r].status = "approved" /\ request'[r].status # "approved",
         \A r \in Requests \ gone : request'[r] = request[r],
         \A s \in Spares : reserved'[s] =
            Max({reserved[s] - Asks(request, {r \in gone : request[r].spare = s}), 0})
  PROVE  ReservedTrue'
<1> SUFFICES ASSUME NEW s \in Spares PROVE reserved'[s] = Asks(request', Of(request', s))
  BY DEF ReservedTrue, Pieces, ApprovedFor, Asks, Of
<1> DEFINE freed == {r \in gone : request[r].spare = s}
           held == Of(request, s)
           kept == held \ freed
<1>1. /\ IsFiniteSet(held) /\ reserved[s] = Asks(request, held)
      /\ \A q \in held : request[q].qty \in Nat
  BY ReservedIs DEF Of
<1>2. freed \in SUBSET held
  BY DEF Of
<1>3. Of(request', s) = kept
  BY DEF Of
<1>4. \A q \in kept : request[q].qty = request'[q].qty
  BY DEF Of
<1>5. reserved'[s] = Max({reserved[s] - Asks(request, freed), 0})
  OBVIOUS
<1> HIDE DEF freed, held
<1>6. /\ Asks(request, held) = Asks(request, freed) + Asks(request, kept)
      /\ Asks(request, freed) \in Nat /\ Asks(request, kept) \in Nat
  <2>1. \A some \in SUBSET held :
          /\ Asks(request, held) = Asks(request, some) + Asks(request, held \ some)
          /\ Asks(request, some) \in Nat /\ Asks(request, held \ some) \in Nat
    BY <1>1, AsksSplit
  <2> QED
    BY <1>2, <2>1
<1>7. reserved[s] - Asks(request, freed) = Asks(request, kept)
  BY <1>1, <1>6
<1>8. Max({Asks(request, kept), 0}) = Asks(request, kept)
  <2>1. \A n \in Nat : Max({n, 0}) = n
    BY MaxPair
  <2> HIDE DEF kept
  <2> QED
    BY <1>6, <2>1
<1>9. IsFiniteSet(kept)
  BY <1>1, FS_Subset
<1>10. Asks(request, kept) = Asks(request', kept)
  <2> HIDE DEF kept
  <2> QED
    BY <1>4, <1>9, AsksSame
<1> QED
  BY <1>3, <1>5, <1>7, <1>8, <1>10

\* A request that is not approved moves to a status that is not approved either.
LEMMA NothingPromised ==
  ASSUME Rows, ReservedTrue, reserved' = reserved, NEW r \in Requests, OthersStand(r),
         request[r].status # "approved", request'[r].status # "approved"
  PROVE  ReservedTrue'
<1>1. \A q \in Requests : request[q].status = "approved" \/ request'[q].status = "approved" =>
                          request'[q] = request[q]
  BY DEF OthersStand
<1> QED
  BY <1>1, PromisesKept

\* A decision moves one request, which was not approved.
LEMMA DecisionMoves ==
  ASSUME Rows, NEW r \in Requests, NEW l \in Levels, NEW decision,
         NEW st \in {"approved", "rejected", "returned", "out_of_stock"}, Decide(r, l, decision, st)
  PROVE  /\ request[r].status \notin {"none", "approved"} /\ OthersStand(r)
         /\ request'[r] = WithStatus(r, st) /\ request'[r].status = st
<1>1. /\ request[r] \in RequestRow /\ request[r].status \notin {"approved", "issued", "received", "cancelled"}
      /\ request' = [request EXCEPT ![r].status = st] /\ request \in [Requests -> RequestRow \cup {NoRequest}]
  BY Decided DEF Decide, Rows, TypeOK
<1> QED
  BY <1>1 DEF OthersStand, WithStatus, RequestRow

\* _release_ticket_reservations lets go of exactly what the ticket was promised.
LEMMA ReleaseReserved ==
  ASSUME Rows, ReservedTrue, NEW t \in Tickets, ReleaseReservations(t)
  PROVE  ReservedTrue'
<1> DEFINE mine == {r \in Requests : request[r].status = "approved" /\ request[r].ticket = t}
           held(s) == Pieces({r \in mine : request[r].spare = s})
<1>1. /\ request' = [r \in Requests |-> IF r \in mine THEN [request[r] EXCEPT !.status = "cancelled"]
                                                     ELSE request[r]]
      /\ reserved' = [s \in Spares |-> Max({reserved[s] - held(s), 0})]
  BY Zenon DEF ReleaseReservations
<1>2. mine \in SUBSET Requests
  OBVIOUS
<1>3. \A r \in mine : request[r].status = "approved" /\ request'[r].status # "approved"
  <2>1. \A r \in mine : request[r] \in RequestRow
    BY ReservedIs
  <2> QED
    BY <1>1, <2>1 DEF RequestRow
<1>4. \A r \in Requests \ mine : request'[r] = request[r]
  BY <1>1
<1>5. \A s \in Spares : reserved'[s] =
         Max({reserved[s] - Asks(request, {r \in mine : request[r].spare = s}), 0})
  BY <1>1 DEF Pieces, Asks
<1> HIDE DEF mine
<1> QED
  BY <1>2, <1>3, <1>4, <1>5, PromisesEnded

\* issue_parts lets go of the one promise it hands over.
LEMMA IssueKeepsReserved ==
  ASSUME Rows, ReservedTrue, NEW r \in Requests, IssueParts(r)
  PROVE  ReservedTrue'
<1>1. /\ request[r].status = "approved" /\ reserved' = Unreserved(request[r].spare, request[r].qty)
      /\ request' = [request EXCEPT ![r].status = "issued"]
  BY DEF IssueParts
<1>2. /\ request[r] \in RequestRow /\ request[r].qty \in Nat /\ request[r].spare \in Spares
      /\ request \in [Requests -> RequestRow \cup {NoRequest}] /\ reserved \in [Spares -> Nat]
  BY <1>1, ReservedIs DEF Rows, TypeOK
<1>3. \A q \in {r} : request[q].status = "approved" /\ request'[q].status # "approved"
  BY <1>1, <1>2 DEF RequestRow
<1>4. \A q \in Requests \ {r} : request'[q] = request[q]
  BY <1>1, <1>2
<1>5. ASSUME NEW s \in Spares
      PROVE  reserved'[s] = Max({reserved[s] - Asks(request, {q \in {r} : request[q].spare = s}), 0})
  <2> DEFINE freed == {q \in {r} : request[q].spare = s}
  <2>1. Asks(request, {}) = 0
    BY SumEmpty DEF Asks
  <2>2. CASE s = request[r].spare
    <3>1. freed = {} \cup {r}
      BY <2>2
    <3>2. \A q \in {} \cup {r} : request[q].qty \in Nat
      BY <1>2
    <3>3. Asks(request, {} \cup {r}) = Asks(request, {}) + request[r].qty
      BY <3>2, AsksAdd, FS_EmptySet
    <3>4. reserved'[s] = Max({reserved[s] - request[r].qty, 0})
      BY <1>1, <1>2, <2>2 DEF Unreserved
    <3> HIDE DEF freed
    <3>5. Asks(request, freed) = request[r].qty
      BY <1>2, <2>1, <3>1, <3>3
    <3> QED
      BY <3>4, <3>5 DEF freed
  <2>3. CASE s # request[r].spare
    <3>1. freed = {}
      BY <2>3
    <3>2. reserved'[s] = reserved[s] /\ Max({reserved[s], 0}) = reserved[s]
      BY <1>1, <1>2, <2>3, MaxPair DEF Unreserved
    <3> HIDE DEF freed
    <3>3. reserved[s] - Asks(request, freed) = reserved[s]
      BY <1>2, <2>1, <3>1
    <3> QED
      BY <3>2, <3>3 DEF freed
  <2> QED
    BY <2>2, <2>3
<1> QED
  BY <1>3, <1>4, <1>5, PromisesEnded

\* One step of anybody keeps the counter of every part true.
LEMMA NextReserved == Rows /\ ReservedTrue /\ [Next]_vars => ReservedTrue'
<1> SUFFICES ASSUME Rows, ReservedTrue, [Next]_vars PROVE ReservedTrue'
  OBVIOUS
<1>1. ASSUME UNCHANGED <<request, reserved>> PROVE ReservedTrue'
  BY <1>1, PromisesKept
<1>2. ASSUME NEW t \in Tickets, TicketNext(t) PROVE ReservedTrue'
  <2>1. ASSUME RejectTicket(t) \/ CloseTicket(t) PROVE ReservedTrue'
    BY <2>1, ReleaseReserved DEF RejectTicket, CloseTicket
  <2>2. ASSUME \/ \E m \in Machines : CreateTicket(t, m)
               \/ ReviewAssign(t) \/ RepairProof(t) \/ RecordTest(t) \/ ReopenTicket(t)
               \/ \E st \in {"spare_required", "repair"} : AddDiagnosis(t, st)
               \/ \E st \in DOMAIN TicketTransitions : MoveCard(t, st)
        PROVE  ReservedTrue'
    BY <1>1, <2>2 DEF CreateTicket, ReviewAssign, RepairProof, RecordTest, ReopenTicket, Worked,
                      AddDiagnosis, MoveCard
  <2> QED
    BY <1>2, <2>1, <2>2 DEF TicketNext
<1>3. ASSUME NEW r \in Requests, RequestNext(r) PROVE ReservedTrue'
  <2>1. ASSUME NEW t \in Tickets, NEW s \in Spares, NEW q \in Quantities, CreateRequest(r, t, s, q)
        PROVE  ReservedTrue'
    <3>1. request[r] = NoRequest /\ OthersStand(r) /\ reserved' = reserved
      BY <2>1 DEF CreateRequest, Asked, OthersStand, Rows, TypeOK
    <3>2. request[r].status # "approved" /\ request'[r].status # "approved"
      BY <2>1, <3>1 DEF CreateRequest, Rows, TypeOK, NoRequest
    <3> QED
      BY <3>1, <3>2, NothingPromised
  <2>2. ASSUME NEW l \in Levels, RefuseRung(r, l) \/ ReturnRung(r, l) \/ ApproveShort(r, l)
        PROVE  ReservedTrue'
    <3>1. PICK decision \in {"approved", "rejected", "returned"}, st \in {"rejected", "returned", "out_of_stock"} :
            Decide(r, l, decision, st)
      BY <2>2 DEF RefuseRung, ReturnRung, ApproveShort
    <3>2. request[r].status # "approved" /\ request'[r].status = st /\ OthersStand(r)
      BY <3>1, DecisionMoves
    <3>3. reserved' = reserved
      BY <2>2 DEF RefuseRung, ReturnRung, ApproveShort
    <3> QED
      BY <3>2, <3>3, NothingPromised
  <2>3. ASSUME NEW l \in Levels, ApproveLast(r, l) PROVE ReservedTrue'
    BY <2>3, DecisionMoves, OneMorePromise DEF ApproveLast
  <2>4. ASSUME NEW l \in Levels, ApproveRung(r, l) PROVE ReservedTrue'
    BY <1>1, <2>4 DEF ApproveRung
  <2>5. ASSUME IssueParts(r) PROVE ReservedTrue'
    BY <2>5, IssueKeepsReserved
  <2>6. ASSUME ConfirmReceiving(r) PROVE ReservedTrue'
    <3>1. request[r].status = "issued" /\ request' = [request EXCEPT ![r].status = "received"]
          /\ reserved' = reserved
      BY <2>6 DEF ConfirmReceiving
    <3>2. request[r] \in RequestRow /\ request \in [Requests -> RequestRow \cup {NoRequest}]
      BY <3>1, ReservedIs DEF Rows, TypeOK
    <3>3. request'[r].status # "approved" /\ OthersStand(r)
      BY <3>1, <3>2 DEF OthersStand, RequestRow
    <3> QED
      BY <3>1, <3>3, NothingPromised
  <2> QED
    BY <1>3, <2>1, <2>2, <2>3, <2>4, <2>5, <2>6 DEF RequestNext
<1>4. ASSUME NEW s \in Spares, StoreNext(s) PROVE ReservedTrue'
  BY <1>1, <1>4 DEF StoreNext, ReceiveStock, AdjustStock
<1>5. CASE UNCHANGED vars
  BY <1>1, <1>5 DEF vars
<1> QED
  BY <1>2, <1>3, <1>4, <1>5 DEF Next

\* reserved_qty of every part is what its approved requests add up to, through every
\* approval, issue, close and reject: MAX(reserved_qty - n, 0) never swallows a piece
\* (decide_approval, issue_parts, close_ticket, reject_ticket).
THEOREM CounterTrue == Spec => []ReservedTrue
<1>1. Init => ReservedTrue
  <2> SUFFICES ASSUME Init PROVE ReservedTrue
    OBVIOUS
  <2>1. \A s \in Spares : ApprovedFor(s) = {}
    BY DEF Init, ApprovedFor, NoRequest
  <2>2. Pieces({}) = 0
    BY SumEmpty DEF Pieces
  <2> QED
    BY <2>1, <2>2 DEF Init, ReservedTrue
<1>2. Rows /\ ReservedTrue /\ [Next]_vars => ReservedTrue'
  BY NextReserved
<1> QED
  BY <1>1, <1>2, RowsInOrder, PTL DEF Spec

-----------------------------------------------------------------------------
(* What a ticket says of its requests.                                     *)

\* NothingStranded and StatusTrue of one ticket.
Sound(t) ==
  /\ (ticket[t].status \in {"closed", "rejected", "cancelled"} /\ ~ticket[t].dragged)
       => OnTicket(t, {"approved"}) = {}
  /\ (Raised(t) /\ ~ticket[t].dragged) =>
       /\ ticket[t].status = "approved_issue" => OnTicket(t, {"approved"}) # {}
       /\ ticket[t].status = "parts_issued" => OnTicket(t, {"issued"}) # {}

AllSound == \A t \in Tickets : Sound(t)

\* A ticket and its requests are sound one by one exactly when the two desk-wide facts hold.
LEMMA SoundIs == AllSound <=> NothingStranded /\ StatusTrue
BY DEF AllSound, Sound, NothingStranded, StatusTrue

\* A request changes only on ticket t.
OnlyOn(t) ==
  \A r \in Requests : \/ request'[r] = request[r]
                      \/ /\ request[r].status # "none" => request[r].ticket = t
                         /\ request'[r].ticket = t

\* A step on one ticket and its requests: the other tickets still say what is true.
LEMMA OtherTicketsSound ==
  ASSUME Rows, AllSound, NEW t \in Tickets, NEW row \in TicketRow,
         ticket' = [ticket EXCEPT ![t] = row], OnlyOn(t), Sound(t)'
  PROVE  AllSound'
<1> SUFFICES ASSUME NEW u \in Tickets, u # t PROVE Sound(u)'
  BY DEF AllSound
<1>1. ticket'[u] = ticket[u]
  BY DEF Rows, TypeOK
<1>2. OnTicket(u, {"approved"})' = OnTicket(u, {"approved"})
      /\ OnTicket(u, {"issued"})' = OnTicket(u, {"issued"})
  BY DEF OnTicket, OnlyOn
<1> QED
  BY <1>1, <1>2 DEF AllSound, Sound, Raised

\* A status that promises nothing, or a card that was dragged, is sound whatever is asked.
LEMMA PromisesNothing ==
  ASSUME Rows, AllSound, NEW t \in Tickets, NEW row \in TicketRow,
         ticket' = [ticket EXCEPT ![t] = row], OnlyOn(t),
         row.dragged \/ row.status \notin {"closed", "rejected", "cancelled", "approved_issue", "parts_issued"}
  PROVE  AllSound'
<1>1. ticket'[t] = row
  BY DEF Rows, TypeOK
<1>2. Sound(t)'
  BY <1>1 DEF Sound
<1> QED
  BY <1>2, OtherTicketsSound

\* One request moves, on its own ticket.
LEMMA OneRequestMoves ==
  ASSUME Rows, NEW r \in Requests, request[r].status # "none", OthersStand(r),
         NEW st \in {"out_of_stock", "approved", "rejected", "issued", "received"},
         request'[r] = WithStatus(r, st)
  PROVE  /\ OnlyOn(request[r].ticket) /\ request[r].ticket \in Tickets /\ Raised(request[r].ticket)
         /\ request'[r].status = st /\ request'[r].ticket = request[r].ticket
<1>1. request[r] \in RequestRow /\ Asked(r)
  BY ReservedIs
<1>2. /\ request'[r].status = st /\ request'[r].ticket = request[r].ticket
      /\ request[r].ticket \in Tickets /\ Raised(request[r].ticket)
  BY <1>1 DEF WithStatus, RequestRow, Rows, Linked
<1> QED
  BY <1>1, <1>2 DEF OnlyOn, OthersStand

\* Closing and rejecting leave no approved request on the ticket.
LEMMA ReleaseSound ==
  ASSUME Rows, AllSound, NEW t \in Tickets, NEW row \in TicketRow,
         ticket' = [ticket EXCEPT ![t] = row], row.status \in {"closed", "rejected"},
         ReleaseReservations(t)
  PROVE  AllSound'
<1> DEFINE mine == {r \in Requests : request[r].status = "approved" /\ request[r].ticket = t}
<1>1. request' = [r \in Requests |-> IF r \in mine THEN [request[r] EXCEPT !.status = "cancelled"]
                                                  ELSE request[r]]
  BY Zenon DEF ReleaseReservations
<1>2. ASSUME NEW r \in Requests
      PROVE  /\ r \in mine => request'[r].status = "cancelled" /\ request'[r].ticket = t
             /\ r \notin mine => request'[r] = request[r]
  <2>1. r \in mine => request[r] \in RequestRow
    BY ReservedIs
  <2>2. r \in mine => request'[r] = [request[r] EXCEPT !.status = "cancelled"]
    BY <1>1
  <2>3. r \notin mine => request'[r] = request[r]
    BY <1>1
  <2> QED
    BY <2>1, <2>2, <2>3 DEF RequestRow
<1>3. OnlyOn(t)
  BY <1>2 DEF OnlyOn
<1>4. OnTicket(t, {"approved"})' = {}
  BY <1>2 DEF OnTicket
<1>5. ticket'[t] = row
  BY DEF Rows, TypeOK
<1>6. Sound(t)'
  BY <1>4, <1>5 DEF Sound
<1> QED
  BY <1>3, <1>6, OtherTicketsSound

\* One step of anybody leaves every ticket telling the truth.
LEMMA NextSound == Rows /\ AllSound /\ [Next]_vars => AllSound'
<1> SUFFICES ASSUME Rows, AllSound, [Next]_vars PROVE AllSound'
  OBVIOUS
<1>1. ASSUME UNCHANGED <<ticket, request>> PROVE AllSound'
  BY <1>1 DEF AllSound, Sound, Raised, OnTicket
<1>2. ASSUME NEW t \in Tickets, TicketNext(t) PROVE AllSound'
  <2>1. ASSUME NEW m \in Machines, CreateTicket(t, m) PROVE AllSound'
    <3> DEFINE new == [status |-> "submitted", machine |-> m, diagnosed |-> FALSE, cost |-> 0,
                       rolled |-> FALSE, dragged |-> FALSE]
    <3>1. new \in TicketRow /\ new.status = "submitted"
      BY ForcedStatuses DEF TicketRow
    <3>2. ticket' = [ticket EXCEPT ![t] = new] /\ OnlyOn(t)
      BY <2>1 DEF CreateTicket, OnlyOn
    <3> HIDE DEF new
    <3> QED
      BY <3>1, <3>2, PromisesNothing
  <2>2. ASSUME NEW st \in {"assigned", "testing", "resolved", "reopened"}, Worked(t, st) PROVE AllSound'
    <3>1. PICK row \in TicketRow : ticket' = [ticket EXCEPT ![t] = row] /\ row.status = st
      BY <2>2, StatusForced, ForcedStatuses DEF Worked
    <3>2. OnlyOn(t)
      BY <2>2 DEF Worked, OnlyOn
    <3> QED
      BY <3>1, <3>2, PromisesNothing
  <2>3. ASSUME NEW st \in {"spare_required", "repair"}, AddDiagnosis(t, st) PROVE AllSound'
    <3>1. PICK row \in TicketRow : row = [ticket[t] EXCEPT !.status = st, !.diagnosed = TRUE, !.dragged = FALSE]
      BY <2>3, ForcedStatuses DEF AddDiagnosis, TicketRow, Rows, TypeOK, Raised
    <3>2. ticket' = [ticket EXCEPT ![t] = row] /\ OnlyOn(t) /\ ticket[t] \in TicketRow
      BY <2>3, <3>1 DEF AddDiagnosis, OnlyOn, Rows, TypeOK, Raised
    <3>3. row.status = st
      BY <3>1, <3>2 DEF TicketRow
    <3> QED
      BY <3>2, <3>3, PromisesNothing
  <2>4. ASSUME NEW st \in DOMAIN TicketTransitions, MoveCard(t, st) PROVE AllSound'
    <3>1. PICK row \in TicketRow : row = [ticket[t] EXCEPT !.status = st, !.dragged = TRUE]
      BY <2>4 DEF MoveCard, TicketRow, Rows, TypeOK, Raised
    <3>2. ticket' = [ticket EXCEPT ![t] = row] /\ OnlyOn(t) /\ ticket[t] \in TicketRow
      BY <2>4, <3>1 DEF MoveCard, OnlyOn, Rows, TypeOK, Raised
    <3>3. row.dragged
      BY <3>1, <3>2 DEF TicketRow
    <3> QED
      BY <3>2, <3>3, PromisesNothing
  <2>5. ASSUME RejectTicket(t) PROVE AllSound'
    <3>1. PICK row \in TicketRow : ticket' = [ticket EXCEPT ![t] = row] /\ row.status = "rejected"
      BY <2>5, StatusForced, ForcedStatuses DEF RejectTicket
    <3> QED
      BY <2>5, <3>1, ReleaseSound DEF RejectTicket
  <2>6. ASSUME CloseTicket(t) PROVE AllSound'
    <3>1. ticket[t] \in TicketRow
      BY <2>6 DEF CloseTicket, Rows, TypeOK, NoTicket
    <3>2. PICK row \in TicketRow :
            row = [ticket[t] EXCEPT !.status = "closed", !.rolled = TRUE, !.dragged = FALSE]
      BY <3>1, ForcedStatuses DEF TicketRow
    <3>3. ticket' = [ticket EXCEPT ![t] = row] /\ row.status = "closed"
      BY <2>6, <3>1, <3>2 DEF CloseTicket, TicketRow
    <3> QED
      BY <2>6, <3>3, ReleaseSound DEF CloseTicket
  <2> QED
    BY <1>2, <2>1, <2>2, <2>3, <2>4, <2>5, <2>6
    DEF TicketNext, ReviewAssign, RepairProof, RecordTest, ReopenTicket
<1>3. ASSUME NEW r \in Requests, RequestNext(r) PROVE AllSound'
  <2>1. ASSUME NEW t \in Tickets, NEW s \in Spares, NEW q \in Quantities, CreateRequest(r, t, s, q)
        PROVE  AllSound'
    <3>1. PICK st \in {"waiting_stock", "waiting_approval"} : SetStatus(t, st)
      BY <2>1 DEF CreateRequest
    <3>2. PICK row \in TicketRow : ticket' = [ticket EXCEPT ![t] = row] /\ row.status = st
      BY <2>1, <3>1, StatusForced, ForcedStatuses DEF CreateRequest
    <3>3. OnlyOn(t)
      <4>1. request[r].status = "none" /\ request'[r].ticket = t /\ OthersStand(r)
        BY <2>1 DEF CreateRequest, Asked, NoRequest, OthersStand, Rows, TypeOK
      <4> QED
        BY <4>1 DEF OnlyOn, OthersStand
    <3> QED
      BY <3>2, <3>3, PromisesNothing
  <2>2. ASSUME NEW l \in Levels, ReturnRung(r, l) PROVE AllSound'
    <3>1. ticket' = ticket /\ Decide(r, l, "returned", "returned")
      BY <2>2 DEF ReturnRung
    <3>2. /\ request[r].status \notin {"approved", "issued"}
          /\ request'[r].status \notin {"approved", "issued"} /\ OthersStand(r)
      BY <3>1, DecisionMoves, Decided DEF Decide
    <3>3. \A t \in Tickets : /\ OnTicket(t, {"approved"})' = OnTicket(t, {"approved"})
                             /\ OnTicket(t, {"issued"})' = OnTicket(t, {"issued"})
      BY <3>2 DEF OnTicket, OthersStand
    <3> QED
      BY <3>1, <3>3 DEF AllSound, Sound, Raised
  <2>3. ASSUME NEW l \in Levels, RefuseRung(r, l) \/ ApproveShort(r, l) PROVE AllSound'
    <3>1. PICK decision \in {"approved", "rejected"}, st \in {"rejected", "out_of_stock"},
               now \in {"spare_required", "waiting_stock"} :
            Decide(r, l, decision, st) /\ SetStatus(request[r].ticket, now)
      BY <2>3 DEF RefuseRung, ApproveShort
    <3>2. OnlyOn(request[r].ticket) /\ request[r].ticket \in Tickets /\ Raised(request[r].ticket)
      <4>1. request[r].status # "none" /\ OthersStand(r) /\ request'[r] = WithStatus(r, st)
        BY <3>1, DecisionMoves
      <4> QED
        BY <4>1, OneRequestMoves
    <3>3. PICK row \in TicketRow : ticket' = [ticket EXCEPT ![request[r].ticket] = row] /\ row.status = now
      BY <3>1, <3>2, StatusForced, ForcedStatuses
    <3> QED
      BY <3>2, <3>3, PromisesNothing
  <2>4. ASSUME NEW l \in Levels, ApproveLast(r, l) PROVE AllSound'
    <3>1. Decide(r, l, "approved", "approved") /\ SetStatus(request[r].ticket, "approved_issue")
      BY <2>4 DEF ApproveLast
    <3>2. /\ OnlyOn(request[r].ticket) /\ request[r].ticket \in Tickets /\ Raised(request[r].ticket)
          /\ request'[r].status = "approved" /\ request'[r].ticket = request[r].ticket
      <4>1. request[r].status # "none" /\ OthersStand(r) /\ request'[r] = WithStatus(r, "approved")
        BY <3>1, DecisionMoves
      <4> QED
        BY <4>1, OneRequestMoves
    <3>3. PICK row \in TicketRow : /\ ticket' = [ticket EXCEPT ![request[r].ticket] = row]
                                   /\ row.status = "approved_issue"
      BY <3>1, <3>2, StatusForced, ForcedStatuses
    <3>4. PICK t \in Tickets : t = request[r].ticket
      BY <3>2
    <3>5. ticket'[t] = row /\ r \in OnTicket(t, {"approved"})'
      BY <3>2, <3>3, <3>4 DEF Rows, TypeOK, OnTicket
    <3>6. Sound(t)'
      BY <3>3, <3>5 DEF Sound
    <3> QED
      BY <3>2, <3>3, <3>4, <3>6, OtherTicketsSound
  <2>5. ASSUME NEW l \in Levels, ApproveRung(r, l) PROVE AllSound'
    BY <1>1, <2>5 DEF ApproveRung
  <2>6. ASSUME IssueParts(r) PROVE AllSound'
    <3>1. /\ request[r].status = "approved" /\ request' = [request EXCEPT ![r].status = "issued"]
          /\ request \in [Requests -> RequestRow \cup {NoRequest}]
      BY <2>6 DEF IssueParts, Rows, TypeOK
    <3>2. /\ OnlyOn(request[r].ticket) /\ request[r].ticket \in Tickets /\ Raised(request[r].ticket)
          /\ request'[r].status = "issued" /\ request'[r].ticket = request[r].ticket
      <4>1. OthersStand(r) /\ request'[r] = WithStatus(r, "issued")
        BY <3>1 DEF OthersStand, WithStatus
      <4> QED
        BY <3>1, <4>1, OneRequestMoves
    <3>3. PICK t \in Tickets : t = request[r].ticket
      BY <3>2
    <3>4. ticket'[t] \in TicketRow /\ ticket' = [ticket EXCEPT ![t] = ticket'[t]]
          /\ ticket'[t].status = "parts_issued"
      <4>1. ticket[t] \in TicketRow /\ ticket' \in [Tickets -> TicketRow \cup {NoTicket}]
        BY <3>2, <3>3, NextRows DEF Rows, TypeOK, Raised
      <4>2. ticket' = [ticket EXCEPT ![t].status = "parts_issued", ![t].dragged = FALSE,
                                     ![t].cost = @ + request[r].qty]
        BY <2>6, <3>3 DEF IssueParts
      <4>3. ticket'[t].status = "parts_issued"
        BY <4>1, <4>2 DEF TicketRow, Rows, TypeOK
      <4>4. ticket' = [ticket EXCEPT ![t] = ticket'[t]]
        BY <4>1, <4>2 DEF Rows, TypeOK
      <4> QED
        BY <4>1, <4>3, <4>4 DEF NoTicket
    <3>5. PICK row \in TicketRow : row = ticket'[t]
      BY <3>4
    <3>6. r \in OnTicket(t, {"issued"})'
      BY <3>2, <3>3 DEF OnTicket
    <3>7. Sound(t)'
      BY <3>4, <3>6 DEF Sound
    <3> QED
      BY <3>2, <3>3, <3>4, <3>5, <3>7, OtherTicketsSound
  <2>7. ASSUME ConfirmReceiving(r) PROVE AllSound'
    <3>1. /\ request[r].status = "issued" /\ request' = [request EXCEPT ![r].status = "received"]
          /\ SetStatus(request[r].ticket, "repair") /\ request \in [Requests -> RequestRow \cup {NoRequest}]
      BY <2>7 DEF ConfirmReceiving, Rows, TypeOK
    <3>2. OnlyOn(request[r].ticket) /\ request[r].ticket \in Tickets /\ Raised(request[r].ticket)
      <4>1. OthersStand(r) /\ request'[r] = WithStatus(r, "received")
        BY <3>1 DEF OthersStand, WithStatus
      <4> QED
        BY <3>1, <4>1, OneRequestMoves
    <3>3. PICK row \in TicketRow : ticket' = [ticket EXCEPT ![request[r].ticket] = row] /\ row.status = "repair"
      BY <3>1, <3>2, StatusForced, ForcedStatuses
    <3> QED
      BY <3>2, <3>3, PromisesNothing
  <2> QED
    BY <1>3, <2>1, <2>2, <2>3, <2>4, <2>5, <2>6, <2>7 DEF RequestNext
<1>4. ASSUME NEW s \in Spares, StoreNext(s) PROVE AllSound'
  BY <1>1, <1>4 DEF StoreNext, ReceiveStock, AdjustStock
<1>5. CASE UNCHANGED vars
  BY <1>1, <1>5 DEF vars
<1> QED
  BY <1>2, <1>3, <1>4, <1>5 DEF Next

-----------------------------------------------------------------------------
(* What a machine is charged.                                              *)

\* A machine was charged for each closed ticket once, with what it cost by then.
Rolled(m) == {t \in Tickets : Raised(t) /\ ticket[t].machine = m /\ ticket[t].rolled}
ChargedOnce == \A m \in Machines : machine[m].cost <= Costs(Rolled(m))

\* What some tickets of a table cost.
Spent(tk, ts) == SumFunctionOnSet([t \in ts |-> tk[t].cost], ts)

\* Tickets that cost as much or more cost as much or more in all.
LEMMA SpentGrows ==
  ASSUME NEW tk, NEW now, NEW ts, IsFiniteSet(ts),
         \A t \in ts : tk[t].cost \in Nat /\ now[t].cost \in Nat /\ tk[t].cost <= now[t].cost
  PROVE  Spent(tk, ts) <= Spent(now, ts) /\ Spent(tk, ts) \in Nat /\ Spent(now, ts) \in Nat
<1> DEFINE f == [t \in ts |-> tk[t].cost]
           g == [t \in ts |-> now[t].cost]
<1>1. \A t \in ts : f[t] \in Nat /\ g[t] \in Nat /\ f[t] \in Int /\ g[t] \in Int /\ f[t] <= g[t]
  OBVIOUS
<1>2. SumFunctionOnSet(f, ts) <= SumFunctionOnSet(g, ts)
      /\ SumFunctionOnSet(f, ts) \in Nat /\ SumFunctionOnSet(g, ts) \in Nat
  <2> HIDE DEF f, g
  <2> QED
    BY <1>1, SumMonotone, SumNat
<1> QED
  BY <1>2 DEF Spent

\* One ticket more.
LEMMA SpentAdd ==
  ASSUME NEW tk, NEW ts, IsFiniteSet(ts), NEW x, x \notin ts, \A t \in ts \cup {x} : tk[t].cost \in Nat
  PROVE  Spent(tk, ts \cup {x}) = Spent(tk, ts) + tk[x].cost /\ Spent(tk, ts) \in Nat
<1> DEFINE f == [t \in ts \cup {x} |-> tk[t].cost]
           g == [t \in ts |-> tk[t].cost]
<1>1. (\A t \in ts \cup {x} : f[t] \in Nat /\ f[t] \in Int) /\ f[x] = tk[x].cost
      /\ (\A t \in ts : f[t] = g[t])
  OBVIOUS
<1>2. /\ SumFunctionOnSet(f, ts \cup {x}) = f[x] + SumFunctionOnSet(f, ts)
      /\ SumFunctionOnSet(f, ts) = SumFunctionOnSet(g, ts) /\ SumFunctionOnSet(f, ts) \in Nat
  <2> HIDE DEF f, g
  <2> QED
    BY <1>1, SumAdd, SumSame, SumNat
<1> QED
  BY <1>1, <1>2 DEF Spent

\* Some of the tickets cost at most what all of them cost.
LEMMA SpentPart ==
  ASSUME NEW tk, NEW ts, IsFiniteSet(ts), NEW some \in SUBSET ts, \A t \in ts : tk[t].cost \in Nat
  PROVE  Spent(tk, some) <= Spent(tk, ts) /\ Spent(tk, some) \in Nat /\ Spent(tk, ts) \in Nat
<1> DEFINE f == [t \in ts |-> tk[t].cost]
           g == [t \in some |-> tk[t].cost]
<1>1. IsFiniteSet(some) /\ (\A t \in ts : f[t] \in Nat) /\ (\A t \in some : f[t] = g[t] /\ g[t] \in Nat)
  BY FS_Subset
<1>2. /\ SumFunctionOnSet(f, some) <= SumFunctionOnSet(f, ts)
      /\ SumFunctionOnSet(f, some) = SumFunctionOnSet(g, some)
      /\ SumFunctionOnSet(g, some) \in Nat /\ SumFunctionOnSet(f, ts) \in Nat
  <2> HIDE DEF f, g
  <2> QED
    BY <1>1, SumSubset, SumSame, SumNat
<1> QED
  BY <1>2 DEF Spent

\* A raised ticket has a row; closed tickets are finitely many.
LEMMA RolledRows ==
  ASSUME Rows
  PROVE  /\ \A t \in Tickets : Raised(t) => ticket[t] \in TicketRow /\ ticket[t].cost \in Nat
         /\ \A m \in Machines : Rolled(m) \in SUBSET Tickets /\ IsFiniteSet(Rolled(m))
         /\ \A m \in Machines : Costs(Rolled(m)) = Spent(ticket, Rolled(m))
<1>1. \A t \in Tickets : Raised(t) => ticket[t] \in TicketRow /\ ticket[t].cost \in Nat
  BY DEF Rows, TypeOK, Raised, TicketRow
<1>2. \A m \in Machines : Rolled(m) \in SUBSET Tickets
  BY DEF Rolled
<1>3. \A m \in Machines : IsFiniteSet(Rolled(m))
  BY <1>2, DeskAssumption, FS_Subset
<1> QED
  BY <1>1, <1>2, <1>3 DEF Costs, Spent

\* A machine nobody closes a ticket of owes what it owed; its tickets only get dearer.
LEMMA ChargeKept ==
  ASSUME Rows, ChargedOnce, machine' = machine, NEW t \in Tickets, NEW row \in TicketRow,
         ticket' = [ticket EXCEPT ![t] = row],
         Raised(t) => /\ row.machine = ticket[t].machine /\ row.rolled = ticket[t].rolled
                      /\ row.cost >= ticket[t].cost,
         ~Raised(t) => ~row.rolled
  PROVE  ChargedOnce'
<1> SUFFICES ASSUME NEW m \in Machines PROVE machine'[m].cost <= Spent(ticket', Rolled(m)')
  BY DEF ChargedOnce, Costs, Spent
<1>1. ticket \in [Tickets -> TicketRow \cup {NoTicket}] /\ row # NoTicket
      /\ machine[m].cost \in Nat
  <2>1. row # NoTicket
    BY DEF TicketRow, NoTicket
  <2> QED
    BY <2>1 DEF Rows, TypeOK
<1>2. Rolled(m)' = Rolled(m)
  BY <1>1 DEF Rolled, Raised
<1>3. \A u \in Rolled(m) : ticket[u].cost \in Nat /\ ticket'[u].cost \in Nat
                           /\ ticket[u].cost <= ticket'[u].cost
  <2> SUFFICES ASSUME NEW u \in Rolled(m)
               PROVE  ticket[u].cost \in Nat /\ ticket'[u].cost \in Nat /\ ticket[u].cost <= ticket'[u].cost
    OBVIOUS
  <2>1. u \in Tickets /\ Raised(u) /\ ticket[u].cost \in Nat
    BY RolledRows DEF Rolled
  <2>2. CASE u = t
    BY <1>1, <2>1, <2>2 DEF TicketRow
  <2>3. CASE u # t
    BY <1>1, <2>1, <2>3
  <2> QED
    BY <2>2, <2>3
<1>4. IsFiniteSet(Rolled(m)) /\ machine[m].cost <= Spent(ticket, Rolled(m))
  BY RolledRows DEF ChargedOnce
<1>5. /\ Spent(ticket, Rolled(m)) <= Spent(ticket', Rolled(m))
      /\ Spent(ticket, Rolled(m)) \in Nat /\ Spent(ticket', Rolled(m)) \in Nat
  BY <1>3, <1>4, SpentGrows
<1> QED
  BY <1>1, <1>2, <1>4, <1>5

\* close_ticket charges the machine when, and only when, the ticket was never rolled up.
LEMMA CloseCharges ==
  ASSUME Rows, ChargedOnce, NEW t \in Tickets, CloseTicket(t)
  PROVE  ChargedOnce'
<1>1. Raised(t) /\ ticket[t] \in TicketRow /\ ticket \in [Tickets -> TicketRow \cup {NoTicket}]
      /\ machine \in [Machines -> [breakdowns : Nat, cost : Nat]]
  <2>1. ticket[t] # NoTicket
    BY DEF CloseTicket, NoTicket
  <2> QED
    BY <2>1 DEF Raised, Rows, TypeOK
<1>2. PICK row \in TicketRow :
        row = [ticket[t] EXCEPT !.status = "closed", !.rolled = TRUE, !.dragged = FALSE]
  BY <1>1, ForcedStatuses DEF TicketRow
<1>3. /\ ticket' = [ticket EXCEPT ![t] = row] /\ row.rolled /\ row.machine = ticket[t].machine
      /\ row.cost = ticket[t].cost /\ row # NoTicket /\ row.cost \in Nat
  BY <1>1, <1>2 DEF CloseTicket, TicketRow, NoTicket
<1>4. CASE ~Charges(t)
  <2>1. machine' = machine /\ ticket[t].rolled
    BY <1>4 DEF CloseTicket, Charges
  <2>2. row.rolled = ticket[t].rolled
    BY <1>1, <1>2, <2>1 DEF TicketRow
  <2>3. row.cost >= ticket[t].cost
    BY <1>3
  <2> QED
    BY <1>1, <1>3, <2>1, <2>2, <2>3, ChargeKept
<1>5. CASE Charges(t)
  <2> SUFFICES ASSUME NEW m \in Machines PROVE machine'[m].cost <= Spent(ticket', Rolled(m)')
    BY DEF ChargedOnce, Costs, Spent
  <2>1. machine' = [machine EXCEPT ![ticket[t].machine] =
                      [breakdowns |-> @.breakdowns + 1, cost |-> @.cost + ticket[t].cost]]
    BY <1>5 DEF CloseTicket
  <2>2. t \notin Rolled(m) /\ IsFiniteSet(Rolled(m)) /\ machine[m].cost <= Spent(ticket, Rolled(m))
    BY <1>5, RolledRows DEF Charges, Rolled, ChargedOnce
  <2>3. \A u \in Rolled(m) : ticket[u].cost \in Nat /\ ticket'[u].cost = ticket[u].cost
    <3>1. \A u \in Rolled(m) : u \in Tickets /\ u # t /\ Raised(u)
      BY <2>2 DEF Rolled
    <3> QED
      BY <1>1, <1>3, <3>1, RolledRows
  <2>4. \A u \in Rolled(m) : ticket[u].cost \in Nat /\ ticket'[u].cost \in Nat
                             /\ ticket[u].cost <= ticket'[u].cost
    BY <2>3
  <2>5. /\ Spent(ticket, Rolled(m)) <= Spent(ticket', Rolled(m))
        /\ Spent(ticket, Rolled(m)) \in Nat /\ Spent(ticket', Rolled(m)) \in Nat
    BY <2>2, <2>4, SpentGrows
  <2>6. ticket'[t] = row /\ machine[m].cost \in Nat /\ ticket[t].machine \in Machines
    BY <1>1, <1>3 DEF TicketRow
  <2>7. CASE m = ticket[t].machine
    <3>1. Rolled(m)' = Rolled(m) \cup {t}
      BY <1>1, <1>3, <2>7 DEF Rolled, Raised
    <3>2. \A u \in Rolled(m) \cup {t} : ticket'[u].cost \in Nat
      BY <1>3, <2>3, <2>6
    <3>3. Spent(ticket', Rolled(m) \cup {t}) = Spent(ticket', Rolled(m)) + ticket'[t].cost
      BY <2>2, <3>2, SpentAdd
    <3>4. machine'[m].cost = machine[m].cost + ticket[t].cost
      BY <1>1, <2>1, <2>7
    <3> QED
      BY <1>3, <2>2, <2>5, <2>6, <3>1, <3>3, <3>4
  <2>8. CASE m # ticket[t].machine
    <3>1. Rolled(m)' = Rolled(m)
      BY <1>1, <1>3, <2>8 DEF Rolled, Raised
    <3>2. machine'[m].cost = machine[m].cost
      BY <1>1, <2>1, <2>8
    <3> QED
      BY <2>2, <2>5, <2>6, <3>1, <3>2
  <2> QED
    BY <2>7, <2>8
<1> QED
  BY <1>4, <1>5

\* One step of anybody keeps every charge covered.
LEMMA NextCharged == Rows /\ ChargedOnce /\ [Next]_vars => ChargedOnce'
<1> SUFFICES ASSUME Rows, ChargedOnce, [Next]_vars PROVE ChargedOnce'
  OBVIOUS
<1>1. ASSUME UNCHANGED <<ticket, machine>> PROVE ChargedOnce'
  BY <1>1 DEF ChargedOnce, Costs, Rolled, Raised
<1>2. ASSUME NEW t \in Tickets, Raised(t), machine' = machine, NEW st \in DOMAIN TicketTransitions,
             SetStatus(t, st)
      PROVE  ChargedOnce'
  <2>1. PICK row \in TicketRow :
          /\ ticket' = [ticket EXCEPT ![t] = row] /\ row.machine = ticket[t].machine
          /\ row.cost = ticket[t].cost /\ row.rolled = ticket[t].rolled
    BY <1>2, StatusForced
  <2>2. row.cost >= ticket[t].cost
    BY <1>2, <2>1, RolledRows
  <2> QED
    BY <1>2, <2>1, <2>2, ChargeKept
<1>3. ASSUME NEW t \in Tickets, TicketNext(t) PROVE ChargedOnce'
  <2>1. ASSUME NEW m \in Machines, CreateTicket(t, m) PROVE ChargedOnce'
    <3> DEFINE new == [status |-> "submitted", machine |-> m, diagnosed |-> FALSE, cost |-> 0,
                       rolled |-> FALSE, dragged |-> FALSE]
    <3>1. new \in TicketRow /\ ~new.rolled
      BY ForcedStatuses DEF TicketRow
    <3>2. ticket' = [ticket EXCEPT ![t] = new] /\ ~Raised(t) /\ machine' = machine
      BY <2>1 DEF CreateTicket
    <3> HIDE DEF new
    <3> QED
      BY <3>1, <3>2, ChargeKept
  <2>2. ASSUME NEW st \in {"assigned", "testing", "resolved", "reopened"}, Worked(t, st) PROVE ChargedOnce'
    BY <1>2, <2>2, ForcedStatuses DEF Worked
  <2>3. ASSUME NEW st \in {"spare_required", "repair"}, AddDiagnosis(t, st) PROVE ChargedOnce'
    <3>1. ticket[t] \in TicketRow /\ Raised(t) /\ machine' = machine
      BY <2>3 DEF AddDiagnosis, Rows, TypeOK, Raised
    <3>2. PICK row \in TicketRow : row = [ticket[t] EXCEPT !.status = st, !.diagnosed = TRUE, !.dragged = FALSE]
      BY <3>1, ForcedStatuses DEF TicketRow
    <3>3. /\ ticket' = [ticket EXCEPT ![t] = row] /\ row.machine = ticket[t].machine
          /\ row.cost = ticket[t].cost /\ row.rolled = ticket[t].rolled /\ row.cost \in Nat
      BY <2>3, <3>1, <3>2 DEF AddDiagnosis, TicketRow
    <3>4. row.cost >= ticket[t].cost
      BY <3>3
    <3> QED
      BY <3>1, <3>3, <3>4, ChargeKept
  <2>4. ASSUME NEW st \in DOMAIN TicketTransitions, MoveCard(t, st) PROVE ChargedOnce'
    <3>1. ticket[t] \in TicketRow /\ Raised(t) /\ machine' = machine
      BY <2>4 DEF MoveCard, Rows, TypeOK, Raised
    <3>2. PICK row \in TicketRow : row = [ticket[t] EXCEPT !.status = st, !.dragged = TRUE]
      BY <3>1 DEF TicketRow
    <3>3. /\ ticket' = [ticket EXCEPT ![t] = row] /\ row.machine = ticket[t].machine
          /\ row.cost = ticket[t].cost /\ row.rolled = ticket[t].rolled /\ row.cost \in Nat
      BY <2>4, <3>1, <3>2 DEF MoveCard, TicketRow
    <3>4. row.cost >= ticket[t].cost
      BY <3>3
    <3> QED
      BY <3>1, <3>3, <3>4, ChargeKept
  <2>5. ASSUME RejectTicket(t) PROVE ChargedOnce'
    BY <1>2, <2>5, ForcedStatuses DEF RejectTicket
  <2>6. ASSUME CloseTicket(t) PROVE ChargedOnce'
    BY <2>6, CloseCharges
  <2> QED
    BY <1>3, <2>1, <2>2, <2>3, <2>4, <2>5, <2>6
    DEF TicketNext, ReviewAssign, RepairProof, RecordTest, ReopenTicket
<1>4. ASSUME NEW r \in Requests, RequestNext(r) PROVE ChargedOnce'
  <2>1. ASSUME NEW t \in Tickets, NEW s \in Spares, NEW q \in Quantities, CreateRequest(r, t, s, q)
        PROVE  ChargedOnce'
    <3>1. PICK st \in {"waiting_stock", "waiting_approval"} : SetStatus(t, st)
      BY <2>1 DEF CreateRequest
    <3> QED
      BY <1>2, <2>1, <3>1, ForcedStatuses DEF CreateRequest
  <2>2. ASSUME NEW l \in Levels, RefuseRung(r, l) \/ ApproveLast(r, l) \/ ApproveShort(r, l)
        PROVE  ChargedOnce'
    <3>1. PICK st \in {"spare_required", "approved_issue", "waiting_stock"} :
            SetStatus(request[r].ticket, st)
      BY <2>2 DEF RefuseRung, ApproveLast, ApproveShort
    <3>2. Pending(r, l) /\ machine' = machine
      BY <2>2 DEF RefuseRung, ApproveLast, ApproveShort, Decide
    <3> QED
      BY <1>2, <3>1, <3>2, Decided, ForcedStatuses
  <2>3. ASSUME NEW l \in Levels, ReturnRung(r, l) \/ ApproveRung(r, l) PROVE ChargedOnce'
    BY <1>1, <2>3 DEF ReturnRung, ApproveRung
  <2>4. ASSUME IssueParts(r) PROVE ChargedOnce'
    <3>1. /\ request[r] \in RequestRow /\ request[r].ticket \in Tickets /\ request[r].qty \in Nat
          /\ Raised(request[r].ticket) /\ machine' = machine
      <4>1. request[r].status = "approved" /\ machine' = machine
        BY <2>4 DEF IssueParts
      <4>2. request[r] \in RequestRow /\ Asked(r) /\ request[r].qty \in Nat
        BY <4>1, ReservedIs
      <4> QED
        BY <4>1, <4>2 DEF RequestRow, Rows, Linked
    <3>2. PICK t \in Tickets, q \in Nat : t = request[r].ticket /\ q = request[r].qty
      BY <3>1
    <3>3. ticket[t] \in TicketRow /\ ticket[t].cost \in Nat
      BY <3>1, <3>2, RolledRows
    <3>4. PICK sum \in Nat : sum = ticket[t].cost + q
      BY <3>3
    <3>5. PICK row \in TicketRow :
            row = [ticket[t] EXCEPT !.status = "parts_issued", !.dragged = FALSE, !.cost = sum]
      BY <3>3, ForcedStatuses DEF TicketRow
    <3>6. ticket' = [ticket EXCEPT ![t] = row]
      <4>1. ticket' = [ticket EXCEPT ![t].status = "parts_issued", ![t].dragged = FALSE,
                                     ![t].cost = @ + q]
        BY <2>4, <3>2 DEF IssueParts
      <4> QED
        BY <3>3, <3>4, <3>5, <4>1 DEF Rows, TypeOK, TicketRow
    <3>7. row.machine = ticket[t].machine /\ row.rolled = ticket[t].rolled /\ row.cost = sum
      BY <3>3, <3>5 DEF TicketRow
    <3>8. row.cost >= ticket[t].cost
      BY <3>3, <3>4, <3>7
    <3> QED
      BY <3>1, <3>2, <3>6, <3>7, <3>8, ChargeKept
  <2>5. ASSUME ConfirmReceiving(r) PROVE ChargedOnce'
    <3>1. request[r].status = "issued" /\ SetStatus(request[r].ticket, "repair") /\ machine' = machine
      BY <2>5 DEF ConfirmReceiving
    <3>2. request[r].ticket \in Tickets /\ Raised(request[r].ticket)
      BY <3>1, ReservedIs DEF RequestRow, Rows, Linked
    <3> QED
      BY <1>2, <3>1, <3>2, ForcedStatuses
  <2> QED
    BY <1>4, <2>1, <2>2, <2>3, <2>4, <2>5 DEF RequestNext
<1>5. ASSUME NEW s \in Spares, StoreNext(s) PROVE ChargedOnce'
  BY <1>1, <1>5 DEF StoreNext, ReceiveStock, AdjustStock
<1>6. CASE UNCHANGED vars
  BY <1>1, <1>6 DEF vars
<1> QED
  BY <1>3, <1>4, <1>5, <1>6 DEF Next

\* Charged once, a machine is not charged more than its tickets cost.
LEMMA NotOvercharged == Rows /\ ChargedOnce => NeverOvercharged
<1> SUFFICES ASSUME Rows, ChargedOnce, NEW m \in Machines
             PROVE  machine[m].cost <= Costs({t \in Tickets : Raised(t) /\ ticket[t].machine = m})
  BY DEF NeverOvercharged
<1> DEFINE its == {t \in Tickets : Raised(t) /\ ticket[t].machine = m}
<1>1. its \in SUBSET Tickets /\ \A t \in its : ticket[t].cost \in Nat
  BY RolledRows
<1>2. IsFiniteSet(its)
  BY <1>1, DeskAssumption, FS_Subset
<1>3. Rolled(m) \in SUBSET its
  BY DEF Rolled
<1>4. machine[m].cost <= Spent(ticket, Rolled(m)) /\ machine[m].cost \in Nat
  BY RolledRows DEF ChargedOnce, Rows, TypeOK
<1>5. Costs(its) = Spent(ticket, its)
  BY DEF Costs, Spent
<1> HIDE DEF its
<1>6. /\ Spent(ticket, Rolled(m)) <= Spent(ticket, its)
      /\ Spent(ticket, Rolled(m)) \in Nat /\ Spent(ticket, its) \in Nat
  BY <1>1, <1>2, <1>3, SpentPart
<1>7. machine[m].cost <= Costs(its)
  BY <1>4, <1>5, <1>6
<1> QED
  BY <1>7 DEF its

\* Tickets, requests and machines agree: no part stays approved for a ticket that was
\* closed or rejected, a ticket told its parts are approved or issued has some, and a
\* machine is never charged more than its tickets cost (close_ticket, reject_ticket,
\* decide_approval, issue_parts).
THEOREM TicketsAgree == Spec => []TicketsTrue
<1>1. Init => AllSound /\ ChargedOnce
  <2> SUFFICES ASSUME Init PROVE AllSound /\ ChargedOnce
    OBVIOUS
  <2>1. \A t \in Tickets : ~Raised(t) /\ ticket[t].status = "none"
    BY DEF Init, Raised, NoTicket
  <2>2. \A m \in Machines : Rolled(m) = {} /\ machine[m].cost = 0
    BY <2>1 DEF Rolled, Init
  <2>3. Costs({}) = 0
    BY SumEmpty DEF Costs
  <2> QED
    BY <2>1, <2>2, <2>3 DEF AllSound, Sound, ChargedOnce
<1>2. Rows /\ AllSound /\ [Next]_vars => AllSound'
  BY NextSound
<1>3. Rows /\ ChargedOnce /\ [Next]_vars => ChargedOnce'
  BY NextCharged
<1>4. Rows /\ AllSound /\ ChargedOnce => TicketsTrue
  BY SoundIs, NotOvercharged DEF TicketsTrue, Rows
<1> QED
  BY <1>1, <1>2, <1>3, <1>4, RowsInOrder, PTL DEF Spec

-----------------------------------------------------------------------------
(* The desk implements the store that keeps its promises.                  *)

\* What MaintDesk gives SpareStock for promised.
Promised ==
  [r \in Requests |->
     CASE request[r].status = "approved" -> [status |-> "open", spare |-> request[r].spare, qty |-> request[r].qty]
       [] request[r].status \in {"issued", "received"} -> [status |-> "handed"]
       [] OTHER -> [status |-> "none"]]

\* The promise of one request.
LEMMA PromiseOf ==
  ASSUME NEW r \in Requests
  PROVE  /\ request[r].status = "approved" =>
              Promised[r] = [status |-> "open", spare |-> request[r].spare, qty |-> request[r].qty]
         /\ request[r].status \in {"issued", "received"} => Promised[r] = [status |-> "handed"]
         /\ request[r].status \notin {"approved", "issued", "received"} => Promised[r] = [status |-> "none"]
         /\ Promised[r].status = "open" <=> request[r].status = "approved"
BY DEF Promised

\* The same of the next state.
LEMMA PromiseOfNext ==
  ASSUME NEW r \in Requests
  PROVE  /\ request'[r].status = "approved" =>
              Promised'[r] = [status |-> "open", spare |-> request'[r].spare, qty |-> request'[r].qty]
         /\ request'[r].status \in {"issued", "received"} => Promised'[r] = [status |-> "handed"]
         /\ request'[r].status \notin {"approved", "issued", "received"} => Promised'[r] = [status |-> "none"]
         /\ Promised'[r].status = "open" <=> request'[r].status = "approved"
BY DEF Promised

\* What is open, and for what; before and after a step.
LEMMA OpenPromise ==
  ASSUME NEW r \in Requests
  PROVE  /\ Promised[r].status = "open" <=> request[r].status = "approved"
         /\ request[r].status = "approved" =>
              Promised[r].spare = request[r].spare /\ Promised[r].qty = request[r].qty
         /\ Promised'[r].status = "open" <=> request'[r].status = "approved"
         /\ request'[r].status = "approved" =>
              Promised'[r].spare = request'[r].spare /\ Promised'[r].qty = request'[r].qty
<1>1. request[r].status = "approved" =>
        Promised[r].spare = request[r].spare /\ Promised[r].qty = request[r].qty
  <2> SUFFICES ASSUME request[r].status = "approved"
               PROVE  Promised[r].spare = request[r].spare /\ Promised[r].qty = request[r].qty
    OBVIOUS
  <2>1. Promised[r] = [status |-> "open", spare |-> request[r].spare, qty |-> request[r].qty]
    BY PromiseOf
  <2> QED
    BY <2>1
<1>2. request'[r].status = "approved" =>
        Promised'[r].spare = request'[r].spare /\ Promised'[r].qty = request'[r].qty
  <2> SUFFICES ASSUME request'[r].status = "approved"
               PROVE  Promised'[r].spare = request'[r].spare /\ Promised'[r].qty = request'[r].qty
    OBVIOUS
  <2>1. Promised'[r] = [status |-> "open", spare |-> request'[r].spare, qty |-> request'[r].qty]
    BY PromiseOfNext
  <2> QED
    BY <2>1
<1>3. Promised[r].status = "open" <=> request[r].status = "approved"
  BY PromiseOf
<1>4. Promised'[r].status = "open" <=> request'[r].status = "approved"
  BY PromiseOfNext
<1> QED
  BY <1>1, <1>2, <1>3, <1>4

\* A request that stands as it stood is promised what it was promised.
LEMMA PromiseKept ==
  ASSUME NEW r \in Requests, request'[r] = request[r]
  PROVE  Promised'[r] = Promised[r]
BY PromiseOf, PromiseOfNext

\* A step of the desk that changes no promise and no stock is no step of the store.
LEMMA NoStep ==
  ASSUME stock' = stock,
         \A r \in Requests :
           \/ request'[r] = request[r]
           \/ /\ request[r].status \notin {"approved", "issued", "received"}
              /\ request'[r].status \notin {"approved", "issued", "received"}
           \/ request[r].status \in {"issued", "received"} /\ request'[r].status \in {"issued", "received"}
  PROVE  UNCHANGED Store!vars
<1>1. \A r \in Requests : Promised'[r] = Promised[r]
  <2> SUFFICES ASSUME NEW r \in Requests PROVE Promised'[r] = Promised[r]
    OBVIOUS
  <2>1. CASE request'[r] = request[r]
    BY <2>1, PromiseKept
  <2>2. CASE /\ request[r].status \notin {"approved", "issued", "received"}
             /\ request'[r].status \notin {"approved", "issued", "received"}
    BY <2>2, PromiseOf, PromiseOfNext
  <2>3. CASE request[r].status \in {"issued", "received"} /\ request'[r].status \in {"issued", "received"}
    BY <2>3, PromiseOf, PromiseOfNext
  <2> QED
    BY <2>1, <2>2, <2>3
<1>2. Promised = [r \in Requests |-> Promised[r]] /\ Promised' = [r \in Requests |-> Promised'[r]]
  BY DEF Promised
<1>3. Promised' = Promised
  BY <1>1, <1>2, Zenon
<1> QED
  BY <1>3 DEF Store!vars, Promised

\* SpareStock takes sums from the same module.
LEMMA SameSums ==
  ASSUME NEW f, NEW S
  PROVE  Store!SumFunctionOnSet(f, S) = SumFunctionOnSet(f, S)
BY DEF Store!SumFunctionOnSet, SumFunctionOnSet, Store!FoldFunctionOnSet, FoldFunctionOnSet,
       Store!MapThenFoldSet, MapThenFoldSet

\* What is promised of a part is what its approved requests ask for.
LEMMA PromisedPieces ==
  ASSUME NEW ps, NEW req, NEW s \in Spares,
         \A r \in Requests : ps[r].status = "open" <=> req[r].status = "approved",
         \A r \in Requests : req[r].status = "approved" =>
                               ps[r].spare = req[r].spare /\ ps[r].qty = req[r].qty
  PROVE  Store!PromisedOf(ps, s) = Asks(req, Of(req, s))
<1> DEFINE its == {r \in Store!Open(ps) : ps[r].spare = s}
           f == [r \in Store!Open(ps) |-> ps[r].qty]
           g == [r \in Of(req, s) |-> req[r].qty]
<1>1. its = Of(req, s) /\ its \in SUBSET Requests
  BY DEF Store!Open, Of
<1>2. \A r \in its : f[r] = g[r]
  BY DEF Store!Open, Of
<1>3. IsFiniteSet(its)
  BY <1>1, DeskAssumption, FS_Subset
<1>4. Store!SumFunctionOnSet(f, its) = SumFunctionOnSet(g, Of(req, s))
  <2> HIDE DEF its, f, g
  <2> QED
    BY <1>1, <1>2, <1>3, SumSame, SameSums
<1> QED
  BY <1>4 DEF Store!PromisedOf, Asks

\* The last signature promises what nobody else was promised.
LEMMA ApprovalPromises ==
  ASSUME Rows, Rows', ReservedTrue, ReservedTrue', NEW r \in Requests, NEW l \in Levels, ApproveLast(r, l)
  PROVE  Store!Promise(r)
<1>1. /\ request[r].status \notin {"none", "approved", "issued", "received"} /\ OthersStand(r)
      /\ request'[r] = WithStatus(r, "approved") /\ request'[r].status = "approved"
      /\ request[r] \in RequestRow
  BY DecisionMoves, Decided DEF ApproveLast, Decide
<1>2. /\ request'[r].spare = request[r].spare /\ request[r].spare \in Spares
      /\ request[r].qty \in Nat
  BY <1>1, ReservedIs DEF WithStatus, RequestRow
<1>3. Promised[r] = [status |-> "none"] /\ Promised'[r].status = "open"
      /\ Promised'[r].spare = request[r].spare
  <2>1. Promised[r] = [status |-> "none"]
    BY <1>1, PromiseOf
  <2>2. Promised'[r].status = "open" /\ Promised'[r].spare = request[r].spare
    BY <1>1, <1>2, OpenPromise
  <2> QED
    BY <2>1, <2>2
<1>4. \A q \in Requests \ {r} : Promised'[q] = Promised[q]
  <2> SUFFICES ASSUME NEW q \in Requests \ {r} PROVE Promised'[q] = Promised[q]
    OBVIOUS
  <2>1. request'[q] = request[q] /\ q \in Requests
    BY <1>1 DEF OthersStand
  <2> QED
    BY <2>1, PromiseKept
<1>5. Store!PromisedOf(Promised', request[r].spare) <= stock[request[r].spare]
  <2>1. PICK s \in Spares : s = request[r].spare
    BY <1>2
  <2>2. Store!PromisedOf(Promised', s) = Asks(request', Of(request', s))
    BY <2>1, OpenPromise, PromisedPieces
  <2>3. reserved'[s] = Asks(request', Of(request', s))
    BY DEF ReservedTrue, Pieces, ApprovedFor, Asks, Of
  <2>4. reserved'[s] = reserved[s] + request[r].qty /\ reserved[s] \in Nat /\ stock[s] \in Int
    BY <1>2, <2>1 DEF ApproveLast, Rows, TypeOK
  <2>5. stock[s] - reserved[s] >= request[r].qty
    BY <2>1 DEF ApproveLast, Enough, Available
  <2> QED
    BY <1>2, <2>1, <2>2, <2>3, <2>4, <2>5
<1>6. stock' = stock
  BY DEF ApproveLast
<1> HIDE DEF Promised
<1>7. /\ Promised[r] = Store!NoPromise
      /\ Promised'[r].status = "open"
      /\ \A q \in Requests \ {r} : Promised'[q] = Promised[q]
      /\ Store!PromisedOf(Promised', Promised'[r].spare) <= stock[Promised'[r].spare]
      /\ UNCHANGED stock
  BY <1>3, <1>4, <1>5, <1>6 DEF Store!NoPromise
<1> QED
  BY <1>7 DEF Store!Promise, Promised

\* issue_parts hands over exactly what was promised.
LEMMA IssueHandsOver ==
  ASSUME Rows, NEW r \in Requests, IssueParts(r)
  PROVE  Store!HandOver(r)
<1>1. /\ request[r].status = "approved" /\ request' = [request EXCEPT ![r].status = "issued"]
      /\ stock[request[r].spare] >= request[r].qty
      /\ stock' = [stock EXCEPT ![request[r].spare] = @ - request[r].qty]
  BY DEF IssueParts, OnShelf
<1>2. request[r] \in RequestRow /\ request \in [Requests -> RequestRow \cup {NoRequest}]
  BY <1>1, ReservedIs DEF Rows, TypeOK
<1>3. Promised[r] = [status |-> "open", spare |-> request[r].spare, qty |-> request[r].qty]
      /\ Promised'[r] = [status |-> "handed"]
  <2>1. request'[r].status = "issued"
    BY <1>1, <1>2 DEF RequestRow
  <2> QED
    BY <1>1, <2>1, PromiseOf, PromiseOfNext
<1>4. \A q \in Requests \ {r} : Promised'[q] = Promised[q]
  <2> SUFFICES ASSUME NEW q \in Requests \ {r} PROVE Promised'[q] = Promised[q]
    OBVIOUS
  <2>1. request'[q] = request[q] /\ q \in Requests
    BY <1>1
  <2> QED
    BY <2>1, PromiseKept
<1>5. Promised = [q \in Requests |-> Promised[q]] /\ Promised' = [q \in Requests |-> Promised'[q]]
  BY DEF Promised
<1>6. Promised' = [Promised EXCEPT ![r] = [status |-> "handed"]]
  <2> HIDE DEF Promised
  <2> QED
    BY <1>3, <1>4, <1>5
<1>7. /\ Promised[r].status = "open" /\ Promised[r].spare = request[r].spare
      /\ Promised[r].qty = request[r].qty
  BY <1>3
<1>8. /\ Promised[r].status = "open"
      /\ stock[Promised[r].spare] >= Promised[r].qty
      /\ stock' = [stock EXCEPT ![Promised[r].spare] = @ - Promised[r].qty]
      /\ Promised' = [Promised EXCEPT ![r] = Store!HandedOver]
  BY <1>1, <1>6, <1>7 DEF Store!HandedOver
<1> QED
  BY <1>8 DEF Store!HandOver, Promised

\* Closing or rejecting a ticket frees what it was promised, if it was promised anything.
LEMMA ReleaseFrees ==
  ASSUME Rows, NEW t \in Tickets, ReleaseReservations(t), stock' = stock
  PROVE  (\E batch \in SUBSET Requests : Store!SetFree(batch)) \/ UNCHANGED Store!vars
<1> DEFINE mine == {r \in Requests : request[r].status = "approved" /\ request[r].ticket = t}
<1>1. request' = [r \in Requests |-> IF r \in mine THEN [request[r] EXCEPT !.status = "cancelled"]
                                                  ELSE request[r]]
  BY Zenon DEF ReleaseReservations
<1>2. ASSUME NEW r \in Requests
      PROVE  /\ r \in mine => request[r].status = "approved" /\ request'[r].status = "cancelled"
             /\ r \notin mine => request'[r] = request[r]
  <2>1. r \in mine => request[r] \in RequestRow
    BY ReservedIs
  <2>2. r \in mine => request'[r] = [request[r] EXCEPT !.status = "cancelled"]
    BY <1>1
  <2>3. r \notin mine => request'[r] = request[r]
    BY <1>1
  <2> QED
    BY <2>1, <2>2, <2>3 DEF RequestRow
<1>3. PICK batch \in SUBSET Requests : batch = mine
  OBVIOUS
<1> HIDE DEF mine
<1>4. CASE mine = {}
  <2>1. \A r \in Requests : request'[r] = request[r]
    BY <1>2, <1>4
  <2> QED
    BY <2>1, NoStep
<1>5. CASE mine # {}
  <2>1. mine \subseteq Store!Open(Promised)
    BY <1>2, <1>3, OpenPromise DEF Store!Open
  <2>2. \A r \in Requests : Promised'[r] = IF r \in mine THEN Store!NoPromise ELSE Promised[r]
    <3> SUFFICES ASSUME NEW r \in Requests
                 PROVE  Promised'[r] = IF r \in mine THEN Store!NoPromise ELSE Promised[r]
      OBVIOUS
    <3>1. CASE r \in mine
      BY <1>2, <3>1, PromiseOfNext DEF Store!NoPromise
    <3>2. CASE r \notin mine
      BY <1>2, <3>2, PromiseKept
    <3> QED
      BY <3>1, <3>2
  <2>3. Promised' = [r \in Requests |-> Promised'[r]]
    BY DEF Promised
  <2>4. Promised' = [r \in Requests |-> IF r \in mine THEN Store!NoPromise ELSE Promised[r]]
    <3> HIDE DEF Promised
    <3> QED
      BY <2>2, <2>3
  <2>5. Store!SetFree(batch)
    BY <1>3, <1>5, <2>1, <2>4 DEF Store!SetFree, Promised
  <2> QED
    BY <1>3, <2>5
<1> QED
  BY <1>4, <1>5

\* A receipt or a stock-take moves one part; nothing that was promised changes.
LEMMA StoreMoves ==
  ASSUME Rows, NEW s \in Spares, NEW n \in Nat, stock' = [stock EXCEPT ![s] = n], request' = request
  PROVE  Store!Move(s)
<1>1. stock'[s] >= 0 /\ \A u \in Spares \ {s} : stock'[u] = stock[u]
  BY DEF Rows, TypeOK
<1>2. Promised' = Promised
  BY DEF Promised
<1> QED
  BY <1>1, <1>2 DEF Store!Move, Promised

\* Every step of the desk is a step of the store, or changes no promise and no stock.
LEMMA NextRefines ==
  Rows /\ Rows' /\ ReservedTrue /\ ReservedTrue' /\ [Next]_vars => [Store!Next]_(Store!vars)
<1> SUFFICES ASSUME Rows, Rows', ReservedTrue, ReservedTrue', [Next]_vars
             PROVE  Store!Next \/ UNCHANGED Store!vars
  OBVIOUS
<1>1. ASSUME stock' = stock, request' = request PROVE UNCHANGED Store!vars
  BY <1>1, NoStep
<1>2. ASSUME stock' = stock, NEW r \in Requests, OthersStand(r),
             request[r].status \notin {"approved", "issued", "received"},
             request'[r].status \notin {"approved", "issued", "received"}
      PROVE  UNCHANGED Store!vars
  BY <1>2, NoStep DEF OthersStand
<1>3. ASSUME NEW t \in Tickets, TicketNext(t) PROVE Store!Next \/ UNCHANGED Store!vars
  <2>1. ASSUME RejectTicket(t) \/ CloseTicket(t) PROVE Store!Next \/ UNCHANGED Store!vars
    <3>1. ReleaseReservations(t) /\ stock' = stock
      BY <2>1 DEF RejectTicket, CloseTicket
    <3>2. (\E batch \in SUBSET Requests : Store!SetFree(batch)) \/ UNCHANGED Store!vars
      BY <3>1, ReleaseFrees
    <3> QED
      BY <3>2 DEF Store!Next
  <2>2. ASSUME \/ \E m \in Machines : CreateTicket(t, m)
               \/ ReviewAssign(t) \/ RepairProof(t) \/ RecordTest(t) \/ ReopenTicket(t)
               \/ \E st \in {"spare_required", "repair"} : AddDiagnosis(t, st)
               \/ \E st \in DOMAIN TicketTransitions : MoveCard(t, st)
        PROVE  UNCHANGED Store!vars
    <3>1. stock' = stock /\ request' = request
      BY <2>2 DEF CreateTicket, ReviewAssign, RepairProof, RecordTest, ReopenTicket, Worked,
                  AddDiagnosis, MoveCard
    <3> QED
      BY <1>1, <3>1
  <2> QED
    BY <1>3, <2>1, <2>2 DEF TicketNext
<1>4. ASSUME NEW r \in Requests, RequestNext(r) PROVE Store!Next \/ UNCHANGED Store!vars
  <2>1. ASSUME NEW t \in Tickets, NEW s \in Spares, NEW q \in Quantities, CreateRequest(r, t, s, q)
        PROVE  UNCHANGED Store!vars
    <3>1. request[r] = NoRequest /\ OthersStand(r) /\ stock' = stock
      BY <2>1 DEF CreateRequest, Asked, OthersStand, Rows, TypeOK
    <3>2. request'[r].status \in {"out_of_stock", "waiting_approval"} /\ request[r].status = "none"
      BY <2>1, <3>1 DEF CreateRequest, Rows, TypeOK, NoRequest
    <3> QED
      BY <1>2, <3>1, <3>2
  <2>2. ASSUME NEW l \in Levels, RefuseRung(r, l) \/ ReturnRung(r, l) \/ ApproveShort(r, l)
        PROVE  UNCHANGED Store!vars
    <3>1. PICK decision \in {"approved", "rejected", "returned"}, st \in {"rejected", "returned", "out_of_stock"} :
            Decide(r, l, decision, st)
      BY <2>2 DEF RefuseRung, ReturnRung, ApproveShort
    <3>2. /\ request[r].status \notin {"approved", "issued", "received"}
          /\ request'[r].status = st /\ OthersStand(r)
      BY <3>1, DecisionMoves, Decided DEF Decide
    <3>3. stock' = stock
      BY <2>2 DEF RefuseRung, ReturnRung, ApproveShort
    <3> QED
      BY <1>2, <3>2, <3>3
  <2>3. ASSUME NEW l \in Levels, ApproveLast(r, l) PROVE Store!Next
    BY <2>3, ApprovalPromises DEF Store!Next
  <2>4. ASSUME NEW l \in Levels, ApproveRung(r, l) PROVE UNCHANGED Store!vars
    BY <1>1, <2>4 DEF ApproveRung
  <2>5. ASSUME IssueParts(r) PROVE Store!Next
    BY <2>5, IssueHandsOver DEF Store!Next
  <2>6. ASSUME ConfirmReceiving(r) PROVE UNCHANGED Store!vars
    <3>1. request[r].status = "issued" /\ request' = [request EXCEPT ![r].status = "received"]
          /\ stock' = stock
      BY <2>6 DEF ConfirmReceiving
    <3>2. request[r] \in RequestRow /\ request \in [Requests -> RequestRow \cup {NoRequest}]
      BY <3>1, ReservedIs DEF Rows, TypeOK
    <3>3. request'[r].status = "received" /\ \A q \in Requests \ {r} : request'[q] = request[q]
      BY <3>1, <3>2 DEF RequestRow
    <3> QED
      BY <3>1, <3>3, NoStep
  <2> QED
    BY <1>4, <2>1, <2>2, <2>3, <2>4, <2>5, <2>6 DEF RequestNext
<1>5. ASSUME NEW s \in Spares, StoreNext(s) PROVE Store!Next
  <2>1. request' = request
    BY <1>5 DEF StoreNext, ReceiveStock, AdjustStock
  <2>2. PICK n \in Nat : stock' = [stock EXCEPT ![s] = n]
    BY <1>5, DeskAssumption DEF StoreNext, ReceiveStock, AdjustStock, Rows, TypeOK
  <2> QED
    BY <2>1, <2>2, StoreMoves DEF Store!Next
<1>6. CASE UNCHANGED vars
  BY <1>1, <1>6 DEF vars
<1> QED
  BY <1>3, <1>4, <1>5, <1>6 DEF Next

\* The desk, with its tickets, signatures and counters, implements the store of
\* SpareStock: what is promised was promised to nobody else, and is handed over or freed
\* once (decide_approval, issue_parts, close_ticket, reject_ticket).
THEOREM PromisesHold == Spec => KeepsThePromise
<1>1. Init => Store!StoreInit
  <2> SUFFICES ASSUME Init PROVE Store!StoreInit
    OBVIOUS
  <2>1. \A r \in Requests : Promised[r] = [status |-> "none"]
    BY PromiseOf DEF Init, NoRequest
  <2>2. Promised = [r \in Requests |-> Promised[r]]
    BY DEF Promised
  <2>3. Promised = [r \in Requests |-> Store!NoPromise]
    <3> HIDE DEF Promised
    <3> QED
      BY <2>1, <2>2 DEF Store!NoPromise
  <2>4. \A s \in Spares : stock[s] >= 0
    <3>1. InStock \in [Spares -> 0 .. MaxStock] /\ MaxStock \in Nat
      BY DeskAssumption
    <3>2. stock = InStock
      BY DEF Init
    <3> QED
      BY <3>1, <3>2
  <2> QED
    BY <2>3, <2>4 DEF Store!StoreInit, Promised
<1>2. Rows /\ Rows' /\ ReservedTrue /\ ReservedTrue' /\ [Next]_vars => [Store!Next]_(Store!vars)
  BY NextRefines
<1> QED
  BY <1>1, <1>2, RowsInOrder, CounterTrue, PTL DEF Spec, KeepsThePromise, Store!Spec

-----------------------------------------------------------------------------
(* The bridge: orders raised once, movements that add up.                  *)

\* An order of a part in the catalogue; its line names the part from its first commit on.
BridgeOrder ==
  [status : {"draft", "pending", "po_issued"}, spare : Spares, qty : 1 .. MaxLevel, got : Nat,
   linked : {TRUE}, tagged : BOOLEAN]

\* An open order is not received in full.
OrderTyped(row) == row = NoOrder \/ (row \in BridgeOrder /\ row.got < row.qty)

\* A check that has begun has parts left to order, each with a sensible quantity.
Planning(k) ==
  /\ DOMAIN k = {"pc", "plan", "order"}
  /\ \/ k = Idle
     \/ /\ k.pc \in {"raise", "submit", "tag"}
        /\ DOMAIN k.plan # {} /\ DOMAIN k.plan \subseteq Spares
        /\ \A s \in DOMAIN k.plan : k.plan[s] \in 1 .. MaxLevel
        /\ k.pc # "raise" => k.order \in Orders

\* The part in hand.
InHand(k) == CHOOSE s \in DOMAIN k.plan : TRUE

\* What a check still has to order has no order: the part in hand gets one on its way.
Unordered(k) ==
  \A s \in DOMAIN k.plan : s # InHand(k) \/ k.pc = "raise" => OpenOrders(s) = {}

\* A line handed over off the shelf names one of its codes.
LineTyped(row, l) ==
  /\ DOMAIN row = {"qty", "issued", "from"}
  /\ row.qty \in Nat /\ row.issued \in Nat
  /\ row.issued > 0 => row.from \in Codes[l]

\* The shelf, with what is still to be put on it.
ShelfTyped ==
  /\ stock \in [Spares -> Nat] /\ reserved \in [Spares -> Nat] /\ posting \in [Spares -> Nat]
  /\ \A s \in Spares : stock[s] + posting[s] <= MaxStock /\ reserved[s] <= MaxStock

OrdersTyped ==
  /\ DOMAIN order = Orders /\ DOMAIN checker = Checkers /\ throttled \subseteq Checkers
  /\ \A o \in Orders : OrderTyped(order[o])
  /\ \A c \in Checkers : Planning(checker[c]) /\ Unordered(checker[c])

\* A part has one open order at most.
OneEach == \A s \in Spares : \A o, p \in OpenOrders(s) : o = p

LinesTyped ==
  /\ DOMAIN line = Lines /\ out \in [Spares -> Int]
  /\ \A l \in Lines : LineTyped(line[l], l)

\* The inductive invariant: what the bridge's rows look like, and what the properties say.
BInv == ShelfTyped /\ OrdersTyped /\ OneEach /\ LinesTyped /\ ShelfTrue

\* What the proofs about the bridge rest on, besides BridgeAssumption: one process sweeps,
\* and a line may be met from one code.
Alone ==
  /\ \A c, d \in Checkers : c = d
  /\ \A l \in Lines : \A s, t \in Codes[l] : s = t

\* What the constants are.
LEMMA BridgeFits ==
  ASSUME Alone
  PROVE  /\ ReorderLevel \in Nat \ {0} /\ MaxLevel \in Nat /\ ReorderLevel < MaxLevel
         /\ MaxLevel <= MaxStock /\ MaxStock \in Nat /\ Wanted \in Nat
         /\ Codes \in [Lines -> SUBSET Spares] /\ Moved \subseteq Spares
         /\ IsFiniteSet(Orders) /\ IsFiniteSet(Lines)
         /\ \A c, d \in Checkers : c = d
         /\ \A l \in Lines : \A s, t \in Codes[l] : s = t
BY BridgeAssumption DEF Alone

\* max(1, MaxLevel - stock)
LEMMA SuggestedIs ==
  ASSUME Alone, ShelfTyped, NEW s \in Spares
  PROVE  SuggestedQty(s) \in 1 .. MaxLevel
<1> DEFINE a == MaxLevel - stock[s]
           m == IF a >= 1 THEN a ELSE 1
<1>1. a \in Int /\ a <= MaxLevel /\ 1 <= MaxLevel /\ MaxLevel \in Nat
  BY BridgeFits DEF ShelfTyped
<1>2. m \in {1, a} /\ \A y \in {1, a} : m >= y
  BY <1>1
<1>3. \A x \in {1, a} : (\A y \in {1, a} : x >= y) => x = m
  BY <1>1
<1>4. SuggestedQty(s) = Max({1, a})
  BY DEF SuggestedQty
<1>5. Max({1, a}) = m
  <2> HIDE DEF m, a
  <2>1. Max({1, a}) \in {1, a} /\ \A y \in {1, a} : Max({1, a}) >= y
    BY <1>2 DEF Max
  <2> QED
    BY <1>3, <2>1
<1>6. m \in 1 .. MaxLevel
  <2> HIDE DEF a
  <2> QED
    BY <1>1
<1> QED
  BY <1>4, <1>5, <1>6

\* Nothing on the shelf moves.
LEMMA ShelfStays ==
  ASSUME ShelfTyped, UNCHANGED <<stock, reserved, posting>>
  PROVE  ShelfTyped'
BY DEF ShelfTyped

\* Nothing is handed over or taken back.
LEMMA LinesStay ==
  ASSUME LinesTyped, ShelfTrue, UNCHANGED <<line, out>>
  PROVE  LinesTyped' /\ ShelfTrue'
BY DEF LinesTyped, LineTyped, ShelfTrue, IssuedOf

\* Orders go on or are dropped, and a check goes on with parts that have none.
LEMMA NoneRaised ==
  ASSUME OrdersTyped, OneEach, DOMAIN order' = Orders, DOMAIN checker' = Checkers, throttled' \subseteq Checkers,
         \A o \in Orders : \/ order'[o] = NoOrder
                           \/ /\ OrderTyped(order'[o])
                              /\ order[o] # NoOrder /\ order'[o].spare = order[o].spare,
         \A c \in Checkers : Planning(checker'[c]) /\ Unordered(checker'[c])
  PROVE  OrdersTyped' /\ OneEach'
<1>1. \A s : OpenOrders(s)' \subseteq OpenOrders(s)
  BY DEF OpenOrders, NoOrder
<1>2. \A o \in Orders : OrderTyped(order[o])'
  BY DEF OrderTyped, BridgeOrder, NoOrder
<1>3. ASSUME NEW c \in Checkers PROVE Planning(checker[c])' /\ Unordered(checker[c])'
  <2>1. Planning(checker[c])'
    BY DEF Planning, Idle, NoPlan
  <2>2. Unordered(checker[c])'
    BY <1>1 DEF Unordered, InHand
  <2> QED
    BY <2>1, <2>2
<1> QED
  BY <1>1, <1>2, <1>3 DEF OrdersTyped, OneEach


\* A check with nothing to do.
LEMMA IdleCheck == Planning(Idle) /\ Unordered(Idle)
BY DEF Planning, Unordered, Idle, NoPlan

\* The check reads what is low and what is on order.
LEMMA CheckKeeps ==
  ASSUME Alone, ShelfTyped, OrdersTyped, OneEach, NEW c \in Checkers, NEW parts \in SUBSET Spares,
         Check(c, parts), throttled' \subseteq Checkers
  PROVE  OrdersTyped' /\ OneEach'
<1> DEFINE due == {s \in parts : NeedsOrder(s) /\ ~HasOpenOrder(s)}
           plan == [s \in due |-> SuggestedQty(s)]
           k == [Idle EXCEPT !.pc = "raise", !.plan = plan]
<1>1. /\ order' = order
      /\ checker' = [checker EXCEPT ![c] = IF due = {} THEN Idle ELSE k]
  BY DEF Check
<1>2. ASSUME NEW s \in due PROVE OpenOrders(s) = {}
  <2>1. ~HasOpenOrder(s)
    OBVIOUS
  <2>2. \A o \in OpenOrders(s) : order[o].linked
    BY DEF OrdersTyped, OrderTyped, BridgeOrder, OpenOrders
  <2> QED
    BY <2>1, <2>2 DEF HasOpenOrder
<1>3. ASSUME due # {} PROVE Planning(k) /\ Unordered(k)
  <2>1. DOMAIN k = {"pc", "plan", "order"} /\ k.pc = "raise" /\ k.plan = plan
    BY DEF Idle
  <2>2. \A s \in due : plan[s] \in 1 .. MaxLevel
    BY SuggestedIs
  <2>3. DOMAIN plan = due /\ due \subseteq Spares
    OBVIOUS
  <2> HIDE DEF k, plan
  <2>4. Planning(k)
    BY <1>3, <2>1, <2>2, <2>3 DEF Planning
  <2>5. Unordered(k)
    BY <1>2, <2>1, <2>3 DEF Unordered
  <2> QED
    BY <2>4, <2>5
<1> HIDE DEF due, k
<1>4. \A d \in Checkers : Planning(checker'[d]) /\ Unordered(checker'[d])
  BY <1>1, <1>3, IdleCheck DEF OrdersTyped
<1>5. DOMAIN checker' = Checkers /\ DOMAIN order' = Orders
  BY <1>1 DEF OrdersTyped
<1>6. \A o \in Orders : \/ order'[o] = NoOrder
                        \/ /\ OrderTyped(order'[o])
                           /\ order[o] # NoOrder /\ order'[o].spare = order[o].spare
  BY <1>1 DEF OrdersTyped
<1> QED
  BY <1>4, <1>5, <1>6, NoneRaised

\* The loop goes on with the parts that are left.
LEMMA AdvanceIs ==
  ASSUME OrdersTyped, NEW c \in Checkers, checker[c] # Idle, Advance(c)
  PROVE  DOMAIN checker' = Checkers
         /\ \A d \in Checkers : Planning(checker'[d]) /\ Unordered(checker'[d])
<1> DEFINE p == checker[c]
           left == DOMAIN p.plan \ {InHand(p)}
           rest == Restrict(p.plan, left)
           k == [Idle EXCEPT !.pc = "raise", !.plan = rest]
<1>1. checker' = [checker EXCEPT ![c] = IF left = {} THEN Idle ELSE k]
  BY DEF Advance, Turn, InHand
<1>2. Planning(p) /\ Unordered(p)
  BY DEF OrdersTyped
<1>3. rest = [s \in left |-> p.plan[s]]
  BY DEF Restrict
<1>4. ASSUME left # {} PROVE Planning(k) /\ Unordered(k)
  <2>1. DOMAIN k = {"pc", "plan", "order"} /\ k.pc = "raise" /\ k.plan = rest
    BY DEF Idle
  <2>2. DOMAIN rest = left /\ \A s \in left : rest[s] = p.plan[s]
    BY <1>3
  <2>3. left \subseteq DOMAIN p.plan /\ InHand(p) \notin left
    OBVIOUS
  <2> HIDE DEF k, rest, left, p
  <2>4. Planning(k)
    BY <1>2, <1>4, <2>1, <2>2, <2>3 DEF Planning, Idle, NoPlan
  <2>5. Unordered(k)
    BY <1>2, <2>1, <2>2, <2>3 DEF Unordered
  <2> QED
    BY <2>4, <2>5
<1> HIDE DEF left, k
<1> QED
  BY <1>1, <1>4, IdleCheck DEF OrdersTyped

\* An order, changed in its status, its tag or what was received of it.
LEMMA OrderGoesOn ==
  ASSUME OrdersTyped, NEW o \in Orders, order[o] # NoOrder, NEW row \in BridgeOrder,
         row.got < row.qty, row.spare = order[o].spare, order' = [order EXCEPT ![o] = row]
  PROVE  /\ DOMAIN order' = Orders
         /\ \A p \in Orders : \/ order'[p] = NoOrder
                              \/ /\ OrderTyped(order'[p])
                                 /\ order[p] # NoOrder /\ order'[p].spare = order[p].spare
BY DEF OrdersTyped, OrderTyped

\* An order is as it was.
LEMMA OrderStays ==
  ASSUME OrdersTyped, order' = order
  PROVE  /\ DOMAIN order' = Orders
         /\ \A p \in Orders : \/ order'[p] = NoOrder
                              \/ /\ OrderTyped(order'[p])
                                 /\ order[p] # NoOrder /\ order'[p].spare = order[p].spare
BY DEF OrdersTyped, OrderTyped

\* A request is raised for the part in hand.
LEMMA CreateKeeps ==
  ASSUME Alone, OrdersTyped, OneEach, NEW c \in Checkers, NEW o \in Orders, CreatePr(c, o)
  PROVE  OrdersTyped' /\ OneEach'
<1>0. PICK s : s = InHand(checker[c])
  OBVIOUS
<1> DEFINE p == checker[c]
           row == [status |-> "draft", spare |-> s, qty |-> p.plan[s], got |-> 0,
                   linked |-> TRUE, tagged |-> FALSE]
           k == [p EXCEPT !.pc = "submit", !.order = o]
<1>1. /\ p.pc = "raise" /\ order[o] = NoOrder
      /\ order' = [order EXCEPT ![o] = row] /\ throttled' = throttled
  BY <1>0 DEF CreatePr, FreeSlot, Turn, InHand
<1>2. Planning(p) /\ Unordered(p)
  BY DEF OrdersTyped
<1>3. DOMAIN p = {"pc", "plan", "order"} /\ DOMAIN p.plan # {} /\ DOMAIN p.plan \subseteq Spares
      /\ \A t \in DOMAIN p.plan : p.plan[t] \in 1 .. MaxLevel
  BY <1>1, <1>2 DEF Planning, Idle
<1>4. checker' = [checker EXCEPT ![c] = k]
  BY <1>3 DEF CreatePr
<1>5. DOMAIN k = {"pc", "plan", "order"} /\ k.pc = "submit" /\ k.order = o /\ k.plan = p.plan
  BY <1>3
<1>6. s \in DOMAIN p.plan /\ s \in Spares
  BY <1>0, <1>3 DEF InHand
<1>7. row \in BridgeOrder /\ row.got < row.qty /\ row.spare = s /\ row # NoOrder
  <2>1. p.plan[s] \in 1 .. MaxLevel
    BY <1>3, <1>6
  <2> HIDE DEF p
  <2> QED
    BY <1>6, <2>1 DEF BridgeOrder, NoOrder
<1> HIDE DEF k, row
<1>8. OpenOrders(s) = {}
  BY <1>0, <1>1, <1>2, <1>6 DEF Unordered
<1>9. DOMAIN order' = Orders /\ order'[o] = row /\ \A q \in Orders \ {o} : order'[q] = order[q]
  BY <1>1 DEF OrdersTyped
<1>10. OpenOrders(s)' = {o} /\ \A t \in Spares \ {s} : OpenOrders(t)' = OpenOrders(t)
  <2>1. \A t : OpenOrders(t)' = {q \in Orders : order'[q] # NoOrder /\ order'[q].spare = t}
    BY DEF OpenOrders, NoOrder
  <2>2. \A t : OpenOrders(t) = {q \in Orders : order[q] # NoOrder /\ order[q].spare = t}
    BY DEF OpenOrders
  <2>3. \A q \in Orders \ {o} : order[q] # NoOrder => order[q].spare # s
    BY <1>8, <2>2
  <2>4. OpenOrders(s)' = {o}
    BY <1>7, <1>9, <2>1, <2>3
  <2>5. ASSUME NEW t \in Spares, t # s PROVE OpenOrders(t)' = OpenOrders(t)
    <3>1. ASSUME NEW q \in Orders
          PROVE  order'[q] # NoOrder /\ order'[q].spare = t
                   <=> order[q] # NoOrder /\ order[q].spare = t
      BY <1>1, <1>7, <1>9, <2>5
    <3> QED
      BY <2>1, <2>2, <3>1
  <2> QED
    BY <2>4, <2>5
<1>11. Planning(k)
  BY <1>3, <1>5 DEF Planning
<1>12. DOMAIN checker' = Checkers /\ \A d \in Checkers : checker'[d] = k
  BY <1>4, BridgeFits DEF OrdersTyped
<1>13. ASSUME NEW d \in Checkers PROVE Planning(checker[d])' /\ Unordered(checker[d])'
  <2>1. Planning(checker[d])'
    BY <1>11, <1>12 DEF Planning, Idle, NoPlan
  <2>2. InHand(checker'[d]) = s /\ checker'[d].plan = p.plan /\ checker'[d].pc = "submit"
    BY <1>0, <1>5, <1>12 DEF InHand
  <2>3. \A t \in DOMAIN p.plan : t # s => OpenOrders(t)' = {}
    BY <1>1, <1>2, <1>3, <1>10 DEF Unordered
  <2>4. InHand(checker[d])' = s
    BY <2>2 DEF InHand
  <2>5. Unordered(checker[d])'
    <3> HIDE DEF p
    <3> QED
      BY <2>2, <2>3, <2>4 DEF Unordered
  <2> QED
    BY <2>1, <2>5
<1>14. \A q \in Orders : OrderTyped(order[q])'
  BY <1>7, <1>9 DEF OrdersTyped, OrderTyped, BridgeOrder, NoOrder
<1>15. OneEach'
  <2>1. ASSUME NEW t \in Spares, NEW q \in OpenOrders(t)', NEW r \in OpenOrders(t)' PROVE q = r
    <3>1. CASE t = s
      BY <1>10, <2>1, <3>1
    <3>2. CASE t # s
      BY <1>10, <2>1, <3>2 DEF OneEach
    <3> QED
      BY <3>1, <3>2
  <2> QED
    BY <2>1 DEF OneEach
<1> QED
  BY <1>1, <1>9, <1>12, <1>13, <1>14, <1>15 DEF OrdersTyped


\* Orders keep their columns when they are submitted, tagged, placed or received in part.
LEMMA RowGoesOn ==
  ASSUME NEW r \in BridgeOrder
  PROVE  /\ \A x \in {"pending", "po_issued"} :
              /\ [r EXCEPT !.status = x] \in BridgeOrder
              /\ [r EXCEPT !.status = x].got = r.got /\ [r EXCEPT !.status = x].qty = r.qty
              /\ [r EXCEPT !.status = x].spare = r.spare
         /\ [r EXCEPT !.tagged = TRUE] \in BridgeOrder
         /\ [r EXCEPT !.tagged = TRUE].got = r.got /\ [r EXCEPT !.tagged = TRUE].qty = r.qty
         /\ [r EXCEPT !.tagged = TRUE].spare = r.spare
         /\ \A q \in Nat :
              /\ Received(r, q) \in BridgeOrder /\ Received(r, q).got = r.got + q
              /\ Received(r, q).qty = r.qty /\ Received(r, q).spare = r.spare
<1>1. ASSUME NEW x \in {"pending", "po_issued"}
      PROVE  /\ [r EXCEPT !.status = x] \in BridgeOrder
             /\ [r EXCEPT !.status = x].got = r.got /\ [r EXCEPT !.status = x].qty = r.qty
             /\ [r EXCEPT !.status = x].spare = r.spare
  BY DEF BridgeOrder
<1>2. /\ [r EXCEPT !.tagged = TRUE] \in BridgeOrder
      /\ [r EXCEPT !.tagged = TRUE].got = r.got /\ [r EXCEPT !.tagged = TRUE].qty = r.qty
      /\ [r EXCEPT !.tagged = TRUE].spare = r.spare
  BY DEF BridgeOrder
<1>3. ASSUME NEW q \in Nat
      PROVE  /\ Received(r, q) \in BridgeOrder /\ Received(r, q).got = r.got + q
             /\ Received(r, q).qty = r.qty /\ Received(r, q).spare = r.spare
  <2>1. Received(r, q) = [r EXCEPT !.got = r.got + q]
    BY DEF Received
  <2>2. r.got \in Nat /\ r.got + q \in Nat
    BY DEF BridgeOrder
  <2>3. PICK n \in Nat : n = r.got + q
    BY <2>2
  <2> QED
    BY <2>1, <2>3 DEF BridgeOrder
<1> QED
  BY <1>1, <1>2, <1>3

\* A step of a check, or an end of one, that raises no request.
LEMMA CheckGoesOn ==
  ASSUME Alone, OrdersTyped, OneEach, NEW c \in Checkers,
         SubmitPr(c) \/ TagPr(c) \/ RaiseFails(c) \/ Restart(c)
  PROVE  OrdersTyped' /\ OneEach'
<1> DEFINE p == checker[c]
<1>1. Planning(p) /\ Unordered(p)
  BY DEF OrdersTyped
<1>2. \A d \in Checkers : d = c
  BY BridgeFits
<1>3. /\ DOMAIN p = {"pc", "plan", "order"}
      /\ p.pc \in {"submit", "tag"} => p # Idle
      /\ p.pc \in {"submit", "tag"} => p.order \in Orders
  BY <1>1 DEF Planning, Idle
<1>4. \A o \in Orders : order[o] # NoOrder => order[o] \in BridgeOrder /\ order[o].got < order[o].qty
  BY DEF OrdersTyped, OrderTyped
<1>5. CASE SubmitPr(c)
  <2> DEFINE o == p.order
             row == [order[o] EXCEPT !.status = "pending"]
             k == [p EXCEPT !.pc = "tag"]
  <2>1. p.pc = "submit" /\ o \in Orders /\ throttled' = throttled /\ checker' = [checker EXCEPT ![c] = k]
        /\ order' = IF order[o] # NoOrder THEN [order EXCEPT ![o] = row] ELSE order
    BY <1>3, <1>5 DEF SubmitPr
  <2>2. ASSUME order[o] # NoOrder
        PROVE  row \in BridgeOrder /\ row.got < row.qty /\ row.spare = order[o].spare
    <3>1. order[o] \in BridgeOrder /\ order[o].got < order[o].qty
      BY <1>4, <2>1, <2>2
    <3> HIDE DEF o
    <3> QED
      BY <3>1, RowGoesOn
  <2>3. /\ DOMAIN order' = Orders
        /\ \A q \in Orders : \/ order'[q] = NoOrder
                             \/ /\ OrderTyped(order'[q])
                                /\ order[q] # NoOrder /\ order'[q].spare = order[q].spare
    <3>1. CASE order[o] # NoOrder
      <4> HIDE DEF row, o
      <4> QED
        BY <2>1, <2>2, <3>1, OrderGoesOn
    <3>2. CASE order[o] = NoOrder
      BY <2>1, <3>2, OrderStays
    <3> QED
      BY <3>1, <3>2
  <2>4. DOMAIN k = {"pc", "plan", "order"} /\ k.pc = "tag" /\ k.plan = p.plan /\ k.order = p.order
    BY <1>3
  <2>5. Planning(k)
    <3> HIDE DEF k
    <3> QED
      BY <1>1, <1>3, <2>1, <2>4 DEF Planning
  <2>6. Unordered(k)
    <3> HIDE DEF k, p
    <3> QED
      BY <1>1, <2>1, <2>4 DEF Unordered, InHand
  <2>7. DOMAIN checker' = Checkers /\ \A d \in Checkers : checker'[d] = k
    BY <1>2, <2>1 DEF OrdersTyped
  <2> HIDE DEF k
  <2> QED
    BY <2>1, <2>3, <2>5, <2>6, <2>7, NoneRaised DEF OrdersTyped
<1>6. CASE TagPr(c)
  <2> DEFINE o == p.order
             row == [order[o] EXCEPT !.tagged = TRUE]
  <2>1. p.pc = "tag" /\ o \in Orders /\ throttled' = throttled /\ Advance(c)
        /\ order' = IF order[o] # NoOrder THEN [order EXCEPT ![o] = row] ELSE order
    BY <1>3, <1>6 DEF TagPr
  <2>2. ASSUME order[o] # NoOrder
        PROVE  row \in BridgeOrder /\ row.got < row.qty /\ row.spare = order[o].spare
    <3>1. order[o] \in BridgeOrder /\ order[o].got < order[o].qty
      BY <1>4, <2>1, <2>2
    <3> HIDE DEF o
    <3> QED
      BY <3>1, RowGoesOn
  <2>3. /\ DOMAIN order' = Orders
        /\ \A q \in Orders : \/ order'[q] = NoOrder
                             \/ /\ OrderTyped(order'[q])
                                /\ order[q] # NoOrder /\ order'[q].spare = order[q].spare
    <3>1. CASE order[o] # NoOrder
      <4> HIDE DEF row, o
      <4> QED
        BY <2>1, <2>2, <3>1, OrderGoesOn
    <3>2. CASE order[o] = NoOrder
      BY <2>1, <3>2, OrderStays
    <3> QED
      BY <3>1, <3>2
  <2>4. DOMAIN checker' = Checkers /\ \A d \in Checkers : Planning(checker'[d]) /\ Unordered(checker'[d])
    BY <1>3, <2>1, AdvanceIs
  <2> QED
    BY <2>1, <2>3, <2>4, NoneRaised DEF OrdersTyped
<1>7. CASE RaiseFails(c)
  <2>1. checker[c] # Idle /\ Advance(c) /\ order' = order /\ throttled' = throttled
    BY <1>7 DEF RaiseFails
  <2> QED
    BY <2>1, AdvanceIs, OrderStays, NoneRaised DEF OrdersTyped
<1>8. CASE Restart(c)
  <2>1. checker' = [checker EXCEPT ![c] = Idle] /\ throttled' = throttled \ {c} /\ order' = order
    BY <1>8 DEF Restart
  <2>2. DOMAIN checker' = Checkers /\ \A d \in Checkers : checker'[d] = Idle
    BY <1>2, <2>1 DEF OrdersTyped
  <2> QED
    BY <2>1, <2>2, IdleCheck, OrderStays, NoneRaised DEF OrdersTyped
<1> QED
  BY <1>5, <1>6, <1>7, <1>8

\* A check does not touch the shelf or the lines.
LEMMA CheckTouches ==
  ASSUME NEW c \in Checkers,
         \/ Sweep(c) \/ Tick(c) \/ CheckNext(c) \/ RaiseFails(c)
         \/ Restart(c) \/ \E s \in Spares : CheckPart(c, s)
  PROVE  UNCHANGED <<stock, reserved, posting, line, out>>
BY DEF Sweep, Tick, CheckNext, RaiseFails, Restart, CheckPart,
       Check, SubmitPr, TagPr, CreatePr

\* Every step of a process.
LEMMA CheckerKeeps ==
  ASSUME Alone, BInv, NEW c \in Checkers,
         \/ Sweep(c) \/ Tick(c) \/ CheckNext(c) \/ RaiseFails(c)
         \/ Restart(c) \/ \E s \in Spares : CheckPart(c, s)
  PROVE  BInv'
<1>1. ShelfTyped /\ OrdersTyped /\ OneEach /\ LinesTyped /\ ShelfTrue
  BY DEF BInv
<1>2. ShelfTyped' /\ LinesTyped' /\ ShelfTrue'
  BY <1>1, CheckTouches, ShelfStays, LinesStay
<1>3. throttled \subseteq Checkers
  BY <1>1 DEF OrdersTyped
<1>4. OrdersTyped' /\ OneEach'
  <2>1. CASE Sweep(c)
    BY <1>1, <1>3, <2>1, CheckKeeps DEF Sweep
  <2>2. CASE Tick(c)
    <3>1. order' = order /\ checker' = checker /\ throttled' = throttled \ {c}
      BY <2>2 DEF Tick
    <3> QED
      BY <1>1, <1>3, <3>1, OrderStays, NoneRaised DEF OrdersTyped
  <2>3. CASE CheckNext(c)
    BY <1>1, <2>3, CheckGoesOn, CreateKeeps DEF CheckNext
  <2>4. CASE RaiseFails(c) \/ Restart(c)
    BY <1>1, <2>4, CheckGoesOn
  <2>5. CASE \E s \in Spares : CheckPart(c, s)
    <3>1. PICK s \in Spares : CheckPart(c, s)
      BY <2>5
    <3>2. Check(c, {s}) /\ throttled' = throttled
      BY <3>1 DEF CheckPart
    <3> QED
      BY <1>1, <1>3, <3>2, CheckKeeps
  <2> QED
    BY <2>1, <2>2, <2>3, <2>4, <2>5
<1> QED
  BY <1>2, <1>4 DEF BInv


\* An order is placed, dropped or received.
LEMMA OrderKeeps ==
  ASSUME Alone, BInv, NEW o \in Orders,
         \/ PlaceOrder(o) \/ DropOrder(o)
         \/ \E q \in 1 .. MaxLevel : ReceiveItems(o, q)
  PROVE  BInv'
<1>1. ShelfTyped /\ OrdersTyped /\ OneEach /\ LinesTyped /\ ShelfTrue
  BY DEF BInv
<1>2. \A p \in Orders : order[p] # NoOrder => order[p] \in BridgeOrder /\ order[p].got < order[p].qty
  BY <1>1 DEF OrdersTyped, OrderTyped
<1>3. /\ UNCHANGED <<stock, reserved, checker, throttled, line, out>>
      /\ order[o].status \in {"draft", "pending", "po_issued"}
  BY DEF PlaceOrder, DropOrder, ReceiveItems
<1>4. order[o] # NoOrder /\ order[o] \in BridgeOrder /\ order[o].got < order[o].qty
  <2>1. order[o] # NoOrder
    BY <1>3 DEF NoOrder
  <2> QED
    BY <1>2, <2>1
<1>5. /\ DOMAIN order' = Orders
      /\ \A p \in Orders : \/ order'[p] = NoOrder
                           \/ /\ OrderTyped(order'[p])
                              /\ order[p] # NoOrder /\ order'[p].spare = order[p].spare
  <2>1. PICK row : /\ order' = [order EXCEPT ![o] = row]
                   /\ row = NoOrder \/ (row \in BridgeOrder /\ row.got < row.qty /\ row.spare = order[o].spare)
    <3>1. CASE PlaceOrder(o)
      <4>1. order' = [order EXCEPT ![o] = [order[o] EXCEPT !.status = "po_issued"]]
        BY <1>1, <3>1 DEF PlaceOrder
      <4> QED
        BY <1>4, <4>1, RowGoesOn
    <3>2. CASE DropOrder(o)
      BY <3>2 DEF DropOrder
    <3>3. CASE \E q \in 1 .. MaxLevel : ReceiveItems(o, q)
      <4>1. PICK q \in 1 .. MaxLevel : ReceiveItems(o, q)
        BY <3>3
      <4>7. q \in Nat
        BY BridgeFits
      <4> DEFINE got == Received(order[o], q)
      <4>2. /\ order[o].got + q <= order[o].qty
            /\ order' = [order EXCEPT ![o] = IF order[o].got + q = order[o].qty THEN NoOrder ELSE got]
        BY <4>1 DEF ReceiveItems
      <4>3. got \in BridgeOrder /\ got.got = order[o].got + q /\ got.qty = order[o].qty /\ got.spare = order[o].spare
        BY <1>4, <4>7, RowGoesOn
      <4>4. order[o].got \in Nat /\ order[o].qty \in Nat
        <5>1. order[o].qty \in 1 .. MaxLevel /\ order[o].got \in Nat
          BY <1>4 DEF BridgeOrder
        <5> QED
          BY <5>1, BridgeFits
      <4> HIDE DEF got
      <4>5. CASE order[o].got + q = order[o].qty
        BY <4>2, <4>5
      <4>6. CASE order[o].got + q # order[o].qty
        <5>1. order' = [order EXCEPT ![o] = got]
          BY <4>2, <4>6
        <5>2. got.got < got.qty
          BY <4>2, <4>3, <4>4, <4>6, <4>7
        <5> QED
          BY <4>3, <5>1, <5>2
      <4> QED
        BY <4>5, <4>6
    <3> QED
      BY <3>1, <3>2, <3>3
  <2> QED
    BY <1>1, <1>4, <2>1 DEF OrdersTyped, OrderTyped
<1>6. OrdersTyped' /\ OneEach'
  BY <1>1, <1>3, <1>5, NoneRaised DEF OrdersTyped
<1>7. ShelfTyped'
  <2>1. CASE UNCHANGED posting
    BY <1>1, <1>3, <2>1, ShelfStays
  <2>2. CASE \E q \in 1 .. MaxLevel : ReceiveItems(o, q)
    <3>1. PICK q \in 1 .. MaxLevel : ReceiveItems(o, q)
      BY <2>2
    <3>2. PICK s : s = order[o].spare
      OBVIOUS
    <3>3. /\ stock[s] + posting[s] + q <= MaxStock /\ s \in Spares
          /\ \/ posting' = [posting EXCEPT ![s] = @ + q]
             \/ posting' = [posting EXCEPT ![s] = @]
      BY <1>4, <3>1, <3>2 DEF ReceiveItems, BridgeOrder
    <3> QED
      BY <1>1, <1>3, <3>3, BridgeFits DEF ShelfTyped
  <2> QED
    BY <2>1, <2>2 DEF PlaceOrder, DropOrder
<1> QED
  BY <1>1, <1>3, <1>6, <1>7, LinesStay DEF BInv

\* Goods are put on the shelf, or the desk takes them from it.
LEMMA ShelfKeeps ==
  ASSUME Alone, BInv, NEW s \in Spares,
         \/ PostReceipt(s) \/ PostingLost(s) \/ Reserve(s) \/ Release(s)
         \/ IssueReserved(s) \/ \E q \in 0 .. MaxLevel : StockTake(s, q)
  PROVE  BInv'
<1>1. ShelfTyped /\ OrdersTyped /\ OneEach /\ LinesTyped /\ ShelfTrue
  BY DEF BInv
<1>2. UNCHANGED <<order, checker, throttled, line, out>>
  BY DEF PostReceipt, PostingLost, Reserve, Release, IssueReserved,
         StockTake
<1>3. OrdersTyped' /\ OneEach'
  BY <1>1, <1>2, OrderStays, NoneRaised DEF OrdersTyped
<1>4. /\ stock[s] \in Nat /\ reserved[s] \in Nat /\ posting[s] \in Nat /\ MaxStock \in Nat /\ MaxLevel \in Nat
      /\ stock[s] + posting[s] <= MaxStock /\ reserved[s] <= MaxStock
  BY <1>1, BridgeFits DEF ShelfTyped
<1> DEFINE Put(a, b, p) ==
             /\ stock' = [stock EXCEPT ![s] = a] /\ reserved' = [reserved EXCEPT ![s] = b]
             /\ posting' = [posting EXCEPT ![s] = p]
             /\ a \in Nat /\ b \in Nat /\ p \in Nat /\ a + p <= MaxStock /\ b <= MaxStock
<1>5. PICK a, b, p : Put(a, b, p)
  <2>1. /\ stock = [stock EXCEPT ![s] = stock[s]] /\ reserved = [reserved EXCEPT ![s] = reserved[s]]
        /\ posting = [posting EXCEPT ![s] = posting[s]]
    BY <1>1 DEF ShelfTyped
  <2>2. CASE PostReceipt(s)
    <3>1. stock' = [stock EXCEPT ![s] = stock[s] + posting[s]] /\ posting' = [posting EXCEPT ![s] = 0]
          /\ reserved' = reserved
      BY <2>2 DEF PostReceipt
    <3>2. Put(stock[s] + posting[s], reserved[s], 0)
      BY <1>4, <2>1, <3>1
    <3> HIDE DEF Put
    <3> QED
      BY <3>2
  <2>3. CASE PostingLost(s)
    <3>1. posting' = [posting EXCEPT ![s] = 0] /\ stock' = stock /\ reserved' = reserved
      BY <2>3 DEF PostingLost
    <3>2. Put(stock[s], reserved[s], 0)
      BY <1>4, <2>1, <3>1
    <3> HIDE DEF Put
    <3> QED
      BY <3>2
  <2>4. CASE Reserve(s)
    <3>1. /\ stock[s] - reserved[s] >= 1 /\ stock' = stock /\ posting' = posting
          /\ reserved' = [reserved EXCEPT ![s] = reserved[s] + 1]
      BY <2>4 DEF Reserve, Available
    <3>2. Put(stock[s], reserved[s] + 1, posting[s])
      BY <1>4, <2>1, <3>1
    <3> HIDE DEF Put
    <3> QED
      BY <3>2
  <2>5. CASE Release(s)
    <3>1. /\ reserved[s] >= 1 /\ stock' = stock /\ posting' = posting
          /\ reserved' = [reserved EXCEPT ![s] = reserved[s] - 1]
      BY <2>5 DEF Release
    <3>2. Put(stock[s], reserved[s] - 1, posting[s])
      BY <1>4, <2>1, <3>1
    <3> HIDE DEF Put
    <3> QED
      BY <3>2
  <2>6. CASE IssueReserved(s)
    <3>1. /\ reserved[s] >= 1 /\ stock[s] >= 1 /\ posting' = posting
          /\ reserved' = [reserved EXCEPT ![s] = reserved[s] - 1]
          /\ stock' = [stock EXCEPT ![s] = stock[s] - 1]
      BY <2>6 DEF IssueReserved
    <3>2. Put(stock[s] - 1, reserved[s] - 1, posting[s])
      BY <1>4, <2>1, <3>1
    <3> HIDE DEF Put
    <3> QED
      BY <3>2
  <2>7. CASE \E q \in 0 .. MaxLevel : StockTake(s, q)
    <3>1. PICK q \in 0 .. MaxLevel : /\ q + posting[s] <= MaxStock /\ stock' = [stock EXCEPT ![s] = q]
                                     /\ reserved' = reserved /\ posting' = posting
      BY <2>7 DEF StockTake
    <3>2. Put(q, reserved[s], posting[s])
      BY <1>4, <2>1, <3>1
    <3> HIDE DEF Put
    <3> QED
      BY <3>2
  <2> QED
    BY <2>2, <2>3, <2>4, <2>5, <2>6, <2>7
<1>6. ShelfTyped'
  BY <1>1, <1>5 DEF ShelfTyped
<1> QED
  BY <1>1, <1>2, <1>3, <1>6, LinesStay DEF BInv


\* One line is handed over or taken back, and the part's movements with it.
LEMMA LineMoves ==
  ASSUME Alone, LinesTyped, ShelfTrue, NEW l \in Lines, NEW s \in Spares, NEW row, NEW d \in Int,
         LineTyped(row, l),
         line' = [line EXCEPT ![l] = row], out' = [out EXCEPT ![s] = @ + d],
         line[l].issued > 0 => line[l].from = s,
         row.issued > 0 => row.from = s,
         row.issued = line[l].issued + d
  PROVE  LinesTyped' /\ ShelfTrue'
<1> DEFINE f(t) == [k \in Lines |-> IF line[k].from = t THEN line[k].issued ELSE 0]
           g(t) == [k \in Lines |-> IF line'[k].from = t THEN line'[k].issued ELSE 0]
<1>1. DOMAIN line' = Lines /\ line'[l] = row /\ \A k \in Lines \ {l} : line'[k] = line[k]
  BY DEF LinesTyped
<1>2. LinesTyped'
  <2>1. \A k \in Lines : LineTyped(line[k], k)'
    BY <1>1 DEF LinesTyped, LineTyped
  <2>2. out' \in [Spares -> Int]
    BY DEF LinesTyped
  <2> QED
    BY <1>1, <2>1, <2>2 DEF LinesTyped
<1>3. \A k \in Lines : line[k].issued \in Nat /\ line'[k].issued \in Nat
  BY <1>1 DEF LinesTyped, LineTyped
<1>4. IsFiniteSet(Lines)
  BY BridgeFits
<1>5. ASSUME NEW t \in Spares PROVE out'[t] = SumFunctionOnSet(g(t), Lines)
  <2>1. out[t] = SumFunctionOnSet(f(t), Lines)
    BY DEF ShelfTrue, IssuedOf
  <2>2. /\ \A k \in Lines : f(t)[k] \in Int
        /\ g(t)[l] \in Int
        /\ \A k \in Lines \ {l} : g(t)[k] = f(t)[k]
    BY <1>1, <1>3
  <2>3. /\ f(t)[l] = IF t = s THEN line[l].issued ELSE 0
        /\ g(t)[l] = IF t = s THEN row.issued ELSE 0
    BY <1>1, <1>3
  <2>4. SumFunctionOnSet(g(t), Lines) = SumFunctionOnSet(f(t), Lines) - f(t)[l] + g(t)[l]
    <3> HIDE DEF f, g
    <3> QED
      BY <1>4, <2>2, SumUpdate
  <2>5. out'[t] = IF t = s THEN out[t] + d ELSE out[t]
    BY DEF LinesTyped
  <2>6. out[t] \in Int /\ line[l].issued \in Nat /\ row.issued \in Nat
    BY <1>1, <1>3 DEF LinesTyped
  <2> HIDE DEF f, g
  <2> QED
    BY <2>1, <2>3, <2>4, <2>5, <2>6
<1>6. ASSUME NEW t \in Spares PROVE out'[t] = IssuedOf(t)'
  BY <1>5 DEF IssuedOf
<1> QED
  BY <1>2, <1>6 DEF ShelfTrue

\* A line is handed over off the shelf.
LEMMA IssueKeeps ==
  ASSUME Alone, BInv, NEW l \in Lines, NEW s \in Spares, NEW q \in 1 .. Wanted, IssueFromStock(l, s, q)
  PROVE  BInv'
<1>1. ShelfTyped /\ OrdersTyped /\ OneEach /\ LinesTyped /\ ShelfTrue
  BY DEF BInv
<1> DEFINE row == [qty |-> line[l].qty - q, issued |-> line[l].issued + q, from |-> s]
<1>2. /\ s \in Codes[l] /\ q <= line[l].qty /\ q <= stock[s] - reserved[s]
      /\ stock' = [stock EXCEPT ![s] = stock[s] - q] /\ out' = [out EXCEPT ![s] = @ + q]
      /\ line' = [line EXCEPT ![l] = row]
      /\ UNCHANGED <<reserved, order, checker, throttled, posting>>
  <2>1. /\ s \in Codes[l] /\ q <= line[l].qty /\ q <= stock[s] - reserved[s]
        /\ stock' = [stock EXCEPT ![s] = @ - q] /\ out' = [out EXCEPT ![s] = @ + q]
        /\ line' = [line EXCEPT ![l] = [qty |-> @.qty - q, issued |-> @.issued + q, from |-> s]]
        /\ UNCHANGED <<reserved, order, checker, throttled, posting>>
    BY DEF IssueFromStock, Free, Available
  <2> QED
    BY <2>1
<1>3. LineTyped(line[l], l)
  BY <1>1 DEF LinesTyped
<1>4. line[l].qty \in Nat /\ line[l].issued \in Nat /\ q \in Nat /\ q \in Int
  BY <1>3, BridgeFits DEF LineTyped
<1>5. row.issued = line[l].issued + q /\ row.from = s /\ row.qty \in Nat /\ row.issued \in Nat
      /\ DOMAIN row = {"qty", "issued", "from"}
  BY <1>2, <1>4
<1> HIDE DEF row
<1>6. LineTyped(row, l)
  BY <1>2, <1>5 DEF LineTyped
<1>7. line[l].issued > 0 => line[l].from = s
  BY <1>2, <1>3, BridgeFits DEF LineTyped
<1>8. LinesTyped' /\ ShelfTrue'
  BY <1>1, <1>2, <1>4, <1>5, <1>6, <1>7, LineMoves
<1>9. ShelfTyped'
  <2>1. stock[s] \in Nat /\ reserved[s] \in Nat /\ posting[s] \in Nat /\ stock[s] + posting[s] <= MaxStock
        /\ MaxStock \in Nat
    BY <1>1, BridgeFits DEF ShelfTyped
  <2>2. PICK n : n = stock[s] - q
    OBVIOUS
  <2>3. n \in Nat /\ n + posting[s] <= MaxStock
    BY <1>2, <1>4, <2>1, <2>2
  <2> QED
    BY <1>1, <1>2, <2>2, <2>3 DEF ShelfTyped
<1>10. OrdersTyped' /\ OneEach'
  BY <1>1, <1>2, OrderStays, NoneRaised DEF OrdersTyped
<1> QED
  BY <1>8, <1>9, <1>10 DEF BInv

\* What was handed over goes back.
LEMMA ReverseKeeps ==
  ASSUME Alone, BInv, NEW l \in Lines, ReverseStockIssue(l)
  PROVE  BInv'
<1>1. ShelfTyped /\ OrdersTyped /\ OneEach /\ LinesTyped /\ ShelfTrue
  BY DEF BInv
<1> DEFINE row == [qty |-> line[l].qty + line[l].issued, issued |-> 0, from |-> "none"]
<1>2. PICK s, n : s = line[l].from /\ n = line[l].issued
  OBVIOUS
<1>3. LineTyped(line[l], l)
  BY <1>1 DEF LinesTyped
<1>4. /\ n > 0 /\ stock[s] + posting[s] + n <= MaxStock
      /\ stock' = [stock EXCEPT ![s] = stock[s] + n] /\ out' = [out EXCEPT ![s] = @ - n]
      /\ line' = [line EXCEPT ![l] = row]
      /\ UNCHANGED <<reserved, order, checker, throttled, posting>>
  BY <1>2 DEF ReverseStockIssue, Restored
<1>5. line[l].qty \in Nat /\ n \in Nat /\ s \in Spares
  BY <1>2, <1>3, <1>4, BridgeFits DEF LineTyped
<1>6. row.issued = 0 /\ row.qty \in Nat /\ DOMAIN row = {"qty", "issued", "from"}
  BY <1>2, <1>5
<1> HIDE DEF row
<1>7. LineTyped(row, l)
  BY <1>6 DEF LineTyped
<1>8. PICK d \in Int : d = -n
  BY <1>5
<1>9. out' = [out EXCEPT ![s] = @ + d] /\ row.issued = line[l].issued + d
  <2>1. out[s] \in Int
    BY <1>1, <1>5 DEF LinesTyped
  <2>2. out[s] - n = out[s] + d /\ 0 = n + d
    BY <1>5, <1>8, <2>1
  <2>3. out' = [out EXCEPT ![s] = out[s] - n]
    BY <1>4
  <2> QED
    BY <1>2, <1>6, <2>2, <2>3
<1>10. LinesTyped' /\ ShelfTrue'
  <2>1. (line[l].issued > 0 => line[l].from = s) /\ (row.issued > 0 => row.from = s) /\ d \in Int
    BY <1>2, <1>6, <1>8
  <2> QED
    BY <1>1, <1>4, <1>5, <1>7, <1>9, <2>1, LineMoves
<1>11. ShelfTyped'
  <2>1. stock[s] \in Nat /\ posting[s] \in Nat /\ MaxStock \in Nat
    BY <1>1, <1>5, BridgeFits DEF ShelfTyped
  <2>2. PICK m : m = stock[s] + n
    OBVIOUS
  <2>3. m \in Nat /\ m + posting[s] <= MaxStock
    BY <1>4, <1>5, <2>1, <2>2
  <2> QED
    BY <1>1, <1>4, <1>5, <2>2, <2>3 DEF ShelfTyped
<1>12. OrdersTyped' /\ OneEach'
  BY <1>1, <1>4, OrderStays, NoneRaised DEF OrdersTyped
<1> QED
  BY <1>10, <1>11, <1>12 DEF BInv


\* Every step keeps what the rows of the bridge look like.
LEMMA BridgeKeeps ==
  ASSUME Alone, BInv, [BridgeNext]_(bridgeVars)
  PROVE  BInv'
<1>1. CASE \E c \in Checkers : \/ Sweep(c) \/ Tick(c) \/ CheckNext(c)
                               \/ RaiseFails(c) \/ Restart(c)
                               \/ \E s \in Spares : CheckPart(c, s)
  BY <1>1, CheckerKeeps
<1>2. CASE \E o \in Orders : \/ PlaceOrder(o) \/ DropOrder(o)
                             \/ \E q \in 1 .. MaxLevel : ReceiveItems(o, q)
  BY <1>2, OrderKeeps
<1>3. CASE \E s \in Spares :
             \/ PostReceipt(s) \/ PostingLost(s) \/ Reserve(s) \/ Release(s)
             \/ IssueReserved(s) \/ \E q \in 0 .. MaxLevel : StockTake(s, q)
  BY <1>3, ShelfKeeps
<1>4. CASE \E l \in Lines : ReverseStockIssue(l)
  BY <1>4, ReverseKeeps
<1>5. CASE \E l \in Lines, s \in Spares, q \in 1 .. Wanted : IssueFromStock(l, s, q)
  BY <1>5, IssueKeeps
<1>6. CASE UNCHANGED bridgeVars
  <2>1. UNCHANGED <<stock, reserved, order, checker, throttled, posting, line, out>>
    BY <1>6 DEF bridgeVars
  <2> QED
    BY <2>1, ShelfStays, LinesStay, OrderStays, NoneRaised DEF BInv, OrdersTyped
<1>7. Moved \subseteq Spares
  BY BridgeFits
<1> QED
  BY <1>1, <1>2, <1>3, <1>4, <1>5, <1>6, <1>7 DEF BridgeNext

\* Nothing is ordered or handed over at first.
LEMMA BridgeStarts ==
  ASSUME Alone, BridgeInit
  PROVE  BInv
<1>1. ShelfTyped
  BY BridgeFits DEF ShelfTyped, BridgeInit
<1>2. OrdersTyped
  BY IdleCheck DEF OrdersTyped, OrderTyped, BridgeInit
<1>3. OneEach
  BY DEF OneEach, OpenOrders, BridgeInit
<1>4. LinesTyped
  BY BridgeFits DEF LinesTyped, LineTyped, BridgeInit, Uncovered
<1>5. ASSUME NEW s \in Spares PROVE out[s] = IssuedOf(s)
  <2> DEFINE f == [l \in Lines |-> IF line[l].from = s THEN line[l].issued ELSE 0]
  <2>1. \A l \in Lines : f[l] = 0
    BY DEF BridgeInit, Uncovered
  <2>2. SumFunctionOnSet(f, Lines) = 0
    <3> HIDE DEF f
    <3> QED
      BY <2>1, BridgeFits, SumZero
  <2>3. IssuedOf(s) = SumFunctionOnSet(f, Lines)
    BY DEF IssuedOf
  <2> QED
    BY <2>2, <2>3 DEF BridgeInit
<1> QED
  BY <1>1, <1>2, <1>3, <1>4, <1>5 DEF BInv, ShelfTrue

\* What the invariant says in the property's words.
LEMMA BridgeSound ==
  ASSUME Alone, BInv
  PROVE  BridgeTrue
<1>1. ShelfTyped /\ OrdersTyped /\ OneEach /\ ShelfTrue
  BY DEF BInv
<1>2. BridgeTypeOK
  <2>1. ASSUME NEW s \in Spares
        PROVE  stock[s] \in 0 .. MaxStock /\ reserved[s] \in 0 .. MaxStock /\ posting[s] \in 0 .. MaxStock
    BY <1>1, BridgeFits DEF ShelfTyped
  <2>2. /\ stock \in [Spares -> 0 .. MaxStock] /\ reserved \in [Spares -> 0 .. MaxStock]
        /\ posting \in [Spares -> 0 .. MaxStock]
    BY <1>1, <2>1 DEF ShelfTyped
  <2>3. ASSUME NEW o \in Orders, order[o] # NoOrder
        PROVE  /\ order[o].status \in {"draft", "pending", "po_issued"} /\ order[o].qty \in 1 .. MaxLevel
               /\ order[o].got < order[o].qty
    BY <1>1, <2>3 DEF OrdersTyped, OrderTyped, BridgeOrder
  <2> QED
    BY <1>1, <2>2, <2>3 DEF BridgeTypeOK, OrdersTyped
<1>3. ASSUME NEW s \in Spares PROVE Cardinality(OpenOrders(s)) <= 1
  <2>1. CASE OpenOrders(s) = {}
    BY <2>1, FS_EmptySet
  <2>2. CASE OpenOrders(s) # {}
    <3>1. PICK o : OpenOrders(s) = {o}
      BY <1>1, <2>2 DEF OneEach
    <3>2. Cardinality({o}) = 1
      BY FS_Singleton
    <3>3. Cardinality(OpenOrders(s)) = 1
      BY <3>1, <3>2, Zenon
    <3> QED
      BY <3>3
  <2> QED
    BY <2>1, <2>2
<1>4. OneOrder
  BY <1>3 DEF OneOrder
<1> QED
  BY <1>1, <1>2, <1>4 DEF BridgeTrue

\* The invariant of the bridge.
LEMMA BridgeAlways == ASSUME Alone PROVE BridgeSpec => []BInv
<1>1. BridgeInit => BInv
  BY BridgeStarts
<1>2. BInv /\ [BridgeNext]_(bridgeVars) => BInv'
  BY BridgeKeeps
<1> QED
  BY <1>1, <1>2, PTL DEF BridgeSpec

\* A part has one open order at most, and the shelf's movements are what the lines say was
\* handed over, for any parts, orders and lines, wherever a check or a posting is cut short.
THEOREM OrdersOnce == ASSUME Alone PROVE BridgeSpec => []BridgeTrue
<1>1. BInv => BridgeTrue
  BY BridgeSound
<1> QED
  BY <1>1, BridgeAlways, PTL

\* No step but a stock-take puts less on the shelf than is promised to spare requests: not
\* an issue off the shelf to a purchase request, a receipt or a reversal.
THEOREM PromisesSpared == ASSUME Alone PROVE BridgeSpec => PromiseSteps
<1> DEFINE Spared ==
      \A s \in Spares :
        reserved[s] <= stock[s] /\ reserved'[s] > stock'[s] => \E q \in 0 .. MaxLevel : StockTake(s, q)
<1>1. ASSUME BInv, [BridgeNext]_(bridgeVars) PROVE [Spared]_(bridgeVars)
  <2>1. ASSUME NEW s \in Spares, reserved[s] <= stock[s], reserved'[s] > stock'[s]
        PROVE  \E q \in 0 .. MaxLevel : StockTake(s, q)
    <3>1. ShelfTyped /\ LinesTyped /\ ShelfTyped' /\ Moved \subseteq Spares
      BY <1>1, BridgeKeeps, BridgeFits DEF BInv
    <3>2. /\ stock[s] \in Nat /\ reserved[s] \in Nat /\ posting[s] \in Nat
          /\ stock'[s] \in Nat /\ reserved'[s] \in Nat
      BY <3>1 DEF ShelfTyped
    <3>3. CASE UNCHANGED <<stock, reserved>>
      BY <2>1, <3>2, <3>3
    <3>4. CASE \E t \in Spares : PostReceipt(t)
      <4>1. PICK t \in Spares : PostReceipt(t)
        BY <3>4
      <4>2. reserved' = reserved /\ stock' = [stock EXCEPT ![t] = stock[t] + posting[t]] /\ posting[t] > 0
        BY <4>1 DEF PostReceipt
      <4>3. stock[t] \in Nat /\ posting[t] \in Nat
        BY <3>1 DEF ShelfTyped
      <4>4. stock'[s] >= stock[s]
        BY <3>1, <3>2, <4>2, <4>3 DEF ShelfTyped
      <4> QED
        BY <2>1, <3>2, <4>2, <4>4
    <3>5. CASE \E t \in Moved : Reserve(t)
      <4>1. PICK t \in Spares : stock[t] - reserved[t] >= 1 /\ stock' = stock
                                /\ reserved' = [reserved EXCEPT ![t] = reserved[t] + 1]
        BY <3>1, <3>5 DEF Reserve, Available
      <4> QED
        BY <2>1, <3>1, <3>2, <4>1 DEF ShelfTyped
    <3>6. CASE \E t \in Moved : Release(t)
      <4>1. PICK t \in Spares : stock' = stock /\ reserved' = [reserved EXCEPT ![t] = reserved[t] - 1]
        BY <3>1, <3>6 DEF Release
      <4> QED
        BY <2>1, <3>1, <3>2, <4>1 DEF ShelfTyped
    <3>7. CASE \E t \in Moved : IssueReserved(t)
      <4>1. PICK t \in Spares : /\ reserved' = [reserved EXCEPT ![t] = reserved[t] - 1]
                                /\ stock' = [stock EXCEPT ![t] = stock[t] - 1]
        BY <3>1, <3>7 DEF IssueReserved
      <4> QED
        BY <2>1, <3>1, <3>2, <4>1 DEF ShelfTyped
    <3>8. CASE \E t \in Moved : \E q \in 0 .. MaxLevel : StockTake(t, q)
      <4>1. PICK t \in Spares, q \in 0 .. MaxLevel : StockTake(t, q)
        BY <3>1, <3>8
      <4>2. reserved' = reserved /\ stock' = [stock EXCEPT ![t] = q]
        BY <4>1 DEF StockTake
      <4>3. t = s
        BY <2>1, <3>1, <3>2, <4>2 DEF ShelfTyped
      <4> QED
        BY <4>1, <4>3
    <3>9. CASE \E l \in Lines : ReverseStockIssue(l)
      <4>1. PICK l \in Lines : ReverseStockIssue(l)
        BY <3>9
      <4>2. PICK t, n : t = line[l].from /\ n = line[l].issued
        OBVIOUS
      <4>3. reserved' = reserved /\ stock' = [stock EXCEPT ![t] = stock[t] + n] /\ n > 0
        BY <4>1, <4>2 DEF ReverseStockIssue
      <4>4. n \in Nat /\ t \in Spares
        BY <3>1, <4>2, <4>3, BridgeFits DEF LinesTyped, LineTyped
      <4>5. stock[t] \in Nat
        BY <3>1, <4>4 DEF ShelfTyped
      <4>6. stock'[s] >= stock[s]
        BY <3>1, <3>2, <4>3, <4>4, <4>5 DEF ShelfTyped
      <4> QED
        BY <2>1, <3>2, <4>3, <4>6
    <3>10. CASE \E l \in Lines, t \in Spares, q \in 1 .. Wanted : IssueFromStock(l, t, q)
      <4>1. PICK t \in Spares, q \in 1 .. Wanted : /\ q <= stock[t] - reserved[t] /\ reserved' = reserved
                                                   /\ stock' = [stock EXCEPT ![t] = stock[t] - q]
        BY <3>10 DEF IssueFromStock, Free, Available
      <4>2. q \in Nat
        BY BridgeFits
      <4> QED
        BY <2>1, <3>1, <3>2, <4>1, <4>2 DEF ShelfTyped
    <3>11. CASE UNCHANGED bridgeVars
      BY <3>3, <3>11 DEF bridgeVars
    <3>12. CASE \E c \in Checkers : \/ Sweep(c) \/ Tick(c) \/ CheckNext(c)
                                    \/ RaiseFails(c) \/ Restart(c)
                                    \/ \E t \in Spares : CheckPart(c, t)
      BY <3>3, <3>12, CheckTouches
    <3>13. CASE \/ \E o \in Orders : \/ PlaceOrder(o) \/ DropOrder(o)
                                     \/ \E q \in 1 .. MaxLevel : ReceiveItems(o, q)
                \/ \E t \in Spares : PostingLost(t)
      <4>1. UNCHANGED <<stock, reserved>>
        BY <3>13 DEF PlaceOrder, DropOrder, ReceiveItems, PostingLost
      <4> QED
        BY <3>3, <4>1
    <3> QED
      BY <1>1, <3>4, <3>5, <3>6, <3>7, <3>8, <3>9, <3>10, <3>11, <3>12, <3>13 DEF BridgeNext
  <2> QED
    BY <2>1
<1>2. BInv /\ [BridgeNext]_(bridgeVars) => [Spared]_(bridgeVars)
  BY <1>1
<1> QED
  BY <1>2, BridgeAlways, PTL DEF BridgeSpec, PromiseSteps

=============================================================================
