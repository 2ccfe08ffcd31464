----------------------------- MODULE ProcOrder -----------------------------
(***************************************************************************)
(* One approved purchase request until it is closed or cancelled: orders,  *)
(* goods receipts, quarantine, returns, invoices, the three-way match,     *)
(* advances and payments (app/approvals/services.py 2873-4900).            *)
(*                                                                         *)
(*   order   the pr_requests row (`issued`: pr_purchase_orders has rows,   *)
(*           `forced`: the audit trail holds a payment_override)           *)
(*   recv    pr_items.received_qty, by line                                *)
(*   held    pr_grn_quarantine rows, oldest first                          *)
(*   notes   pr_returns rows (a return and its debit note)                 *)
(*   bills   pr_invoices rows                                              *)
(*   paidOn  what the pr_payments rows carrying one po_id add up to        *)
(*   came    history: units each line's supplier has brought to the gate   *)
(*                                                                         *)
(* A purchase order is named by its supplier, which is what po_groups      *)
(* groups the lines on.  Quantities and money are integers in the currency *)
(* of the request, EGP, without tax; a percentage is compared after        *)
(* multiplying both sides by 100.                                          *)
(***************************************************************************)
EXTENDS Integers, Sequences, FiniteSets, FiniteSetsExt, SequencesExt

CONSTANTS Lines, Vendors,
          SupplierOf,      \* the line's vendor, or the header's
          HeadVendor,      \* pr_requests.vendor
          NoPo,            \* po_id NULL
          OnList,          \* vendors active in the vendor master
          Ordered, Price,  \* pr_items.qty and unit_price
          AddSet, RejSet,  \* quantities typed at the gate
          Decisions,       \* decisions taken on quarantined goods
          InvoiceNos, BillSet, PaySet, AdvanceSet,
          Overrides,       \* whether an administrator may tick "override"
          MaxHeld, MaxNotes, MaxBills, MaxPaid

Suppliers == {SupplierOf[l] : l \in Lines}

ASSUME OrderAssumption ==
  /\ IsFiniteSet(Lines) /\ Lines # {} /\ SupplierOf \in [Lines -> Vendors]
  /\ HeadVendor \in Vendors /\ NoPo \notin Vendors /\ OnList \subseteq Vendors
  /\ Ordered \in [Lines -> Nat \ {0}] /\ Price \in [Lines -> Nat \ {0}]
  /\ AddSet \subseteq Nat /\ RejSet \subseteq Nat
  /\ BillSet \subseteq Nat \ {0} /\ PaySet \subseteq Nat \ {0} /\ AdvanceSet \subseteq 1..100
  /\ Decisions \subseteq {"return", "accept", "accept_tolerance"}
  /\ FALSE \in Overrides /\ Overrides \subseteq BOOLEAN
  /\ MaxHeld \in Nat /\ MaxNotes \in Nat /\ MaxBills \in Nat /\ MaxPaid \in Nat

VARIABLES order, recv, held, notes, bills, paidOn, came
vars == <<order, recv, held, notes, bills, paidOn, came>>
goods == <<recv, held, notes, came>>

Receivable  == {"approved", "po_issued", "in_transit", "partially_received", "received"}
Statuses    == Receivable \cup {"closed", "cancelled"}
Invoicable  == Receivable \cup {"closed"}
PayableIn   == {"po_issued", "in_transit", "partially_received", "received", "closed"}
Closable    == {"po_issued", "in_transit", "partially_received", "received"}

\* Mutant: a partly received order may still be erased.
CancellableLate == {"approved", "po_issued", "in_transit", "partially_received"}
Cancellable     == {"approved", "po_issued", "in_transit"}

Requests == [status : Statuses, issued : BOOLEAN, unbudgeted : BOOLEAN,
             advance : AdvanceSet \cup {0}, guarantee : BOOLEAN, paid : Nat,
             paystate : {"unpaid", "partial", "paid"}, forced : BOOLEAN]

-----------------------------------------------------------------------------
(* Sums and ceilings.                                                      *)

Least(m, n) == IF m < n THEN m ELSE n
Most(m, n)  == IF m < n THEN n ELSE m
LinesOf(o)  == {l \in Lines : SupplierOf[l] = o}

Worth(q)          == [l \in Lines |-> q[l] * Price[l]]
OrderedValue(ls)  == SumFunctionOnSet(Worth(Ordered), ls)
ReceivedValue(ls) == SumFunctionOnSet(Worth(recv), ls)
Units(q)          == SumFunctionOnSet(q, Lines)
Grand             == OrderedValue(Lines)

\* What invoices naming an order of os add up to, and what open debit notes
\* raised on vendors of vs do.
Billed(B, os) ==
  SumFunctionOnSet([i \in DOMAIN B |-> B[i].amount], {i \in DOMAIN B : B[i].po \in os})
DebitOpen(vs) ==
  SumFunctionOnSet([i \in DOMAIN notes |-> SumFunctionOnSet(Worth(notes[i].qty), Lines)],
                   {i \in DOMAIN notes : notes[i].open /\ notes[i].vendor \in vs})
AllPos == Vendors \cup {NoPo}

\* min(), not a subtraction: a rejected unit is missing and debited at once.
Payable(ordered, received, debit) == Most(0, Least(received, ordered - debit))

\* At most `cap` plus 1 percent, at least one unit of currency.
WithinPay(x, cap)   == 100 * x <= 100 * cap + Most(100, cap)
\* At most `cap` plus the match tolerance on an order worth v: 2 percent or 500.
WithinMatch(x, cap, v) == 100 * x <= 100 * cap + Most(50000, 2 * v)

\* A requisition is split once it has one order per supplier.
Split == order.issued /\ Cardinality(Suppliers) > 1
PoIds == IF Split THEN Suppliers ELSE {NoPo}

-----------------------------------------------------------------------------
(* three_way_match, which writes its verdict on the latest invoice.        *)

QtyOk        == \A l \in Lines : 100 * recv[l] >= 95 * Ordered[l]
PriceOk(B)   == WithinMatch(Billed(B, AllPos), Grand, Grand)
ReceiptOk(B) == WithinMatch(Billed(B, AllPos), ReceivedValue(Lines), Grand)
Matched(B)   == QtyOk /\ PriceOk(B) /\ ReceiptOk(B)

\* Mutant: the quantity half of the clause has no reader.
JudgedOnValue(B) ==
  IF B = <<>> THEN B
  ELSE [B EXCEPT ![Len(B)].st = IF PriceOk(B) /\ ReceiptOk(B) THEN "matched" ELSE "disputed"]

Judged(B) ==
  IF B = <<>> THEN B
  ELSE [B EXCEPT ![Len(B)].st = IF Matched(B) THEN "matched" ELSE "disputed"]

-----------------------------------------------------------------------------
Init ==
  /\ \E signed \in BOOLEAN :
       order = [status |-> "approved", issued |-> FALSE, unbudgeted |-> signed,
                advance |-> 0, guarantee |-> FALSE, paid |-> 0,
                paystate |-> "unpaid", forced |-> FALSE]
  /\ recv = [l \in Lines |-> 0] /\ came = [l \in Lines |-> 0]
  /\ held = <<>> /\ notes = <<>> /\ bills = <<>>
  /\ paidOn = [o \in AllPos |-> 0]

\* `over`: the department's budget is exceeded when it is read.
IssuePo(over, override) ==
  /\ order.status = "approved"
  /\ override \/ order.unbudgeted \/ ~over
  /\ order' = [order EXCEPT !.status = "po_issued", !.issued = TRUE]
  /\ UNCHANGED <<goods, bills, paidOn>>

MarkInTransit ==
  /\ order.status = "po_issued"
  /\ order' = [order EXCEPT !.status = "in_transit"]
  /\ UNCHANGED <<goods, bills, paidOn>>

-----------------------------------------------------------------------------
(* receive_items: n units typed as accepted and r as rejected on line l.   *)

NewTotal(l, n)  == Least(Ordered[l], recv[l] + n)
Accepted(l, n)  == Most(0, NewTotal(l, n) - recv[l])

\* Mutant: the excess is truncated and recorded nowhere.
Swallowed(l, n) == 0
Over(l, n)      == Most(0, recv[l] + n - Ordered[l])
\* The part of a rejection the order covers; the rest is surplus.
InOrder(l, n, r) == Least(r, Most(0, Ordered[l] - recv[l] - Accepted(l, n)))

HeldRows(q, res) ==
  SetToSeq({[line |-> l, qty |-> q[l], res |-> res] : l \in {k \in Lines : q[k] > 0}})

\* One return with its debit note per supplier with a rejected line.
ReturnRows(q) ==
  SetToSeq({[vendor |-> v, open |-> TRUE,
             qty |-> [l \in Lines |-> IF SupplierOf[l] = v THEN q[l] ELSE 0]] :
              v \in {SupplierOf[l] : l \in {k \in Lines : q[k] > 0}}})

Receive(add, rej) ==
  LET moved   == {l \in Lines : add[l] > 0 \/ rej[l] > 0}
      total   == [l \in Lines |-> IF l \in moved THEN NewTotal(l, add[l]) ELSE recv[l]]
      over    == [l \in Lines |-> IF l \in moved THEN Over(l, add[l]) ELSE 0]
      within  == [l \in Lines |-> InOrder(l, add[l], rej[l])]
      surplus == [l \in Lines |-> rej[l] - within[l]]
  IN  /\ order.status \in Receivable
      /\ moved # {}
      /\ recv' = total
      /\ order' = [order EXCEPT !.status = IF \A l \in Lines : total[l] >= Ordered[l]
                                           THEN "received" ELSE "partially_received"]
      /\ held' = held \o HeldRows(over, "quarantined") \o HeldRows(surplus, "rejected_surplus")
      /\ notes' = notes \o ReturnRows(within)
      /\ came' = [l \in Lines |-> came[l] + add[l] + rej[l]]
      /\ Len(held') <= MaxHeld /\ Len(notes') <= MaxNotes
      /\ UNCHANGED <<bills, paidOn>>

\* Whatever state the request is in.
ResolveQuarantine(i, decision) ==
  /\ held[i].res = "quarantined"
  /\ decision = "accept_tolerance" => 100 * held[i].qty <= 5 * Ordered[held[i].line]
  /\ held' = [held EXCEPT ![i].res = decision]
  /\ UNCHANGED <<order, recv, notes, bills, paidOn, came>>

\* The second transaction of resolve_quarantine: what was accepted within
\* tolerance joins received_qty.  A failure before it leaves the row as it is.
AddAccepted(i) ==
  /\ held[i].res = "accept_tolerance"
  /\ recv' = [recv EXCEPT ![held[i].line] = @ + held[i].qty]
  /\ held' = [held EXCEPT ![i].res = "received"]
  /\ UNCHANGED <<order, notes, bills, paidOn, came>>

SettleReturn(i) ==
  /\ notes[i].open
  /\ notes' = [notes EXCEPT ![i].open = FALSE]
  /\ UNCHANGED <<order, recv, held, bills, paidOn, came>>

-----------------------------------------------------------------------------
(* Invoices.                                                               *)

\* The number is looked up among the invoices of requests with this header
\* vendor, so among all of this request's.
Duplicate(no) == \E i \in DOMAIN bills : bills[i].no = no

AddInvoice(o, no, amount) ==
  /\ order.status \in Invoicable
  /\ o \in PoIds
  /\ Split => WithinMatch(Billed(bills, {o}) + amount, OrderedValue(LinesOf(o)),
                          OrderedValue(LinesOf(o)))
  /\ ~Duplicate(no)
  /\ Len(bills) < MaxBills
  /\ bills' = Judged(Append(bills, [no |-> no, po |-> o, amount |-> amount,
                                    st |-> "received"]))
  /\ UNCHANGED <<order, goods, paidOn>>

\* The match is also judged by the detail page, and by a payment later refused.
RefreshMatch ==
  /\ bills' = Judged(bills)
  /\ UNCHANGED <<order, goods, paidOn>>

-----------------------------------------------------------------------------
(* Advances.                                                               *)

\* An advance of part/whole: above 25 percent, on an order above 500,000.
GuaranteeNeeded(part, whole) == 100 * part > 25 * whole /\ Grand > 500000

AuthorizeAdvance(pct, guarantee) ==
  /\ order.status \in PayableIn \ {"closed"}
  /\ HeadVendor \in OnList
  /\ GuaranteeNeeded(pct, 100) => guarantee
  /\ order' = [order EXCEPT !.advance = pct, !.guarantee = guarantee]
  /\ UNCHANGED <<goods, bills, paidOn>>

\* advance_gate_check, for `total` paid in all; 0.01 of a percent is let pass.
NotAnAdvance(total) == Billed(bills, AllPos) >= total

\* Mutant: only the new payment is measured, not what was advanced before.
AdvanceEach(total) ==
  /\ order.advance > 0
  /\ 100 * (total - order.paid) - order.advance * Grand <= Grand \div 100
  /\ GuaranteeNeeded(total - order.paid, Grand) => order.guarantee
AdvanceAuthorised(total) ==
  /\ order.advance > 0
  /\ 100 * total - order.advance * Grand <= Grand \div 100
  /\ GuaranteeNeeded(total, Grand) => order.guarantee

-----------------------------------------------------------------------------
(* Payments.                                                               *)

Short == Units(recv) < Units(Ordered)

\* Mutant: the third cap is missing.
NoReceivedCap(total) == TRUE
\* On a short delivery, or with goods returned: what was received and kept.
ReceivedCap(total) ==
  (bills # <<>> /\ (Short \/ DebitOpen(Vendors) > 0)) =>
    WithinPay(total, Payable(Grand, ReceivedValue(Lines), DebitOpen(Vendors)))

\* Mutant: the caps are not applied a second time.
NoOrderCaps(o, amount) == TRUE
\* The same caps against one supplier's order.
OrderCaps(o, amount) ==
  LET worth    == OrderedValue(LinesOf(o))
      received == ReceivedValue(LinesOf(o))
      billed   == Billed(bills, {o})
      done     == paidOn[o] + amount
  IN  /\ WithinPay(done, worth)
      /\ billed > 0 => WithinPay(done, billed)
      /\ (received < worth \/ DebitOpen({o}) > 0) =>
           WithinPay(done, Payable(worth, received, DebitOpen({o})))

Caps(o, amount) ==
  LET total == order.paid + amount
  IN  /\ o \in PoIds
      /\ bills # <<>> => PriceOk(bills) /\ ReceiptOk(bills)
      /\ NotAnAdvance(total) \/ AdvanceAuthorised(total)
      /\ WithinPay(total, Grand)
      /\ bills # <<>> => WithinPay(total, Billed(bills, AllPos))
      /\ ReceivedCap(total)
      /\ o # NoPo => OrderCaps(o, amount)

Allowed(o, amount, override) ==
  /\ order.status \in PayableIn
  /\ NotAnAdvance(order.paid + amount) \/ HeadVendor \in OnList
  /\ override \/ Caps(o, amount)

AddPayment(o, amount, override) ==
  LET total  == order.paid + amount
      debit  == DebitOpen(Vendors)
      target == IF debit > 0 THEN Payable(Grand, ReceivedValue(Lines), debit) ELSE Grand
  IN  /\ Allowed(o, amount, override)
      /\ o \in PoIds \cup {NoPo}
      /\ total <= MaxPaid
      /\ order' = [order EXCEPT !.paid = total, !.forced = @ \/ override,
                                !.paystate = IF total >= target THEN "paid" ELSE "partial"]
      /\ paidOn' = [paidOn EXCEPT ![o] = @ + amount]
      /\ bills' = Judged(bills)
      /\ UNCHANGED goods

-----------------------------------------------------------------------------
ClosePr ==
  /\ order.status \in Closable
  /\ order' = [order EXCEPT !.status = "closed"]
  /\ UNCHANGED <<goods, bills, paidOn>>

\* By an administrator.
CancelPr ==
  /\ order.status \in Cancellable
  /\ order' = [order EXCEPT !.status = "cancelled"]
  /\ UNCHANGED <<goods, bills, paidOn>>

Next ==
  \/ \E over \in BOOLEAN, override \in Overrides : IssuePo(over, override)
  \/ MarkInTransit
  \/ \E add \in [Lines -> AddSet], rej \in [Lines -> RejSet] : Receive(add, rej)
  \/ \E i \in DOMAIN held, d \in Decisions : ResolveQuarantine(i, d)
  \/ \E i \in DOMAIN held : AddAccepted(i)
  \/ \E i \in DOMAIN notes : SettleReturn(i)
  \/ \E o \in AllPos, no \in InvoiceNos, a \in BillSet : AddInvoice(o, no, a)
  \/ RefreshMatch
  \/ \E pct \in AdvanceSet, g \in BOOLEAN : AuthorizeAdvance(pct, g)
  \/ \E o \in AllPos, a \in PaySet, override \in Overrides : AddPayment(o, a, override)
  \/ ClosePr
  \/ CancelPr

Spec == Init /\ [][Next]_vars

-----------------------------------------------------------------------------
(* Properties.                                                             *)

HeldRow == [line : Lines, qty : Nat \ {0},
            res : {"quarantined", "return", "accept", "accept_tolerance",
                   "received", "rejected_surplus"}]
NoteRow == [vendor : Vendors, qty : [Lines -> Nat], open : BOOLEAN]
BillRow == [no : InvoiceNos, po : AllPos, amount : BillSet,
            st : {"received", "matched", "disputed"}]

\* Types.
TypeOK ==
  /\ order \in Requests
  /\ recv \in [Lines -> Nat] /\ came \in [Lines -> Nat] /\ paidOn \in [AllPos -> Nat]
  /\ held \in Seq(HeldRow) /\ notes \in Seq(NoteRow) /\ bills \in Seq(BillRow)

\* What quarantine rows H and returns N hold of line l.
Quarantined(H, l) ==
  SumFunctionOnSet([i \in DOMAIN H |-> H[i].qty],
                   {i \in DOMAIN H : H[i].line = l /\ H[i].res # "received"})
Returned(N, l) == SumFunctionOnSet([i \in DOMAIN N |-> N[i].qty[l]], DOMAIN N)

\* receive_items and resolve_quarantine lose no goods and count none twice:
\* whatever a supplier brought is received, on a quarantine row or returned.
GoodsAccounted ==
  /\ TypeOK
  /\ \A l \in Lines : came[l] = recv[l] + Quarantined(held, l) + Returned(notes, l)

\* add_payment: without an advance or an override, no order of receipts,
\* rejections, invoices, settlements and payments gets the suppliers more than
\* the goods they delivered are worth.
PaidForReceived ==
  (~order.forced /\ order.advance = 0) => WithinPay(order.paid, ReceivedValue(Lines))

\* add_payment on a split requisition: no supplier is paid with another's goods.
SplitPaid ==
  ~order.forced => \A o \in Suppliers : WithinPay(paidOn[o], ReceivedValue(LinesOf(o)))

\* cancel_pr: a cancelled request never had goods at the gate.
CancelledEmpty == order.status = "cancelled" => \A l \in Lines : came[l] = 0

\* three_way_match caches its verdict: what was matched is still a match,
\* whatever was received, returned or decided since.
MatchStays == (bills # <<>> /\ bills[Len(bills)].st = "matched") => Matched(bills)

\* add_payment and authorize_advance: a payment that goes ahead of every
\* invoice leaves all that was paid, instalments included, within the authority
\* given, and within the guarantee a large advance needs.
AdvanceBounded ==
  [][(order'.paid # order.paid /\ bills = <<>> /\ ~order'.forced) =>
       /\ order.advance > 0
       /\ 100 * order'.paid - order.advance * Grand <= Grand \div 100
       /\ GuaranteeNeeded(order'.paid, Grand) => order.guarantee]_vars

=============================================================================
