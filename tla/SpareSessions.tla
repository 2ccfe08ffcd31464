--------------------------- MODULE SpareSessions ----------------------------
(***************************************************************************)
(* One part, one ticket and two spare requests on it, worked on by several *)
(* people at once (src/app/maintenance/services.py), statement by          *)
(* statement on PostgreSQL.  Only the reservation repeats its guard in the *)
(* WHERE clause of its UPDATE; stock_qty is written as a total computed    *)
(* from an earlier SELECT, and statuses are written by id.                 *)
(*                                                                         *)
(* A session performs a job: which function, the statement it is at, and   *)
(* what it has read.  SELECTs that follow each other are one step.         *)
(* Together names the pairs of functions an instance lets overlap.         *)
(* MaintDesk has the functions in full, one at a time.                     *)
(***************************************************************************)
EXTENDS ReadCommitted, Integers, FiniteSets, FiniteSetsExt

CONSTANTS
    Part, Ticket, Machine,      \* one row of each
    Asked,                      \* the request waiting for its signatures
    Given,                      \* the request already approved
    Rungs,                      \* the mnt_approvals rows of Asked
    Need,                       \* pieces on each request
    InStock, MaxStock,          \* pieces at the start; bound
    Together                    \* sets of functions that may overlap

VARIABLES
    job,            \* job[s]: the function session s executes
    posted          \* committed movements and vouchers, in sum

vars == <<db, mine, job, posted>>

\* The rows are different rows.  A request that waits has a rung: the approval matrix
\* names someone beside the storekeeper.
StoreAssumption ==
    /\ Part \notin {Ticket, Machine, Asked, Given} /\ Ticket \notin {Machine, Asked, Given}
    /\ Machine \notin {Asked, Given} /\ Asked # Given
    /\ Rungs # {} /\ {Part, Ticket, Machine, Asked, Given} \cap Rungs = {}
    /\ Need \in Nat \ {0} /\ InStock \in Nat /\ MaxStock \in Nat
    /\ Need <= InStock /\ InStock <= MaxStock

Requests == {Asked, Given}
Rows == {Part, Ticket, Machine, Asked, Given} \cup Rungs
NoPosting == [stock |-> 0, vouchers |-> [r \in Requests |-> 0]]
Idle == [op |-> "idle", pc |-> "idle", row |-> "none", was |-> 0, delta |-> 0,
         outcome |-> "none", held |-> {}, charge |-> FALSE]

Init ==
    /\ db = [r \in Rows |->
                CASE r = Part -> [stock |-> InStock, reserved |-> Need]
                  [] r = Ticket -> [status |-> "waiting_approval", rolled |-> FALSE]
                  [] r = Machine -> [breakdowns |-> 0]
                  [] r = Asked -> [status |-> "waiting_approval"]
                  [] r = Given -> [status |-> "approved"]
                  [] r \in Rungs -> [status |-> "pending"]]
    /\ mine = [s \in Sessions |-> NoRows]
    /\ job = [s \in Sessions |-> Idle]
    /\ posted = NoPosting

Goto(s, pc) == job' = [job EXCEPT ![s].pc = pc]
Quit(s) == job' = [job EXCEPT ![s] = Idle]
At(s, ops, pc) == job[s].op \in ops /\ job[s].pc = pc
Status(s, r) == Seen(s, r).status
SetStatus(s, r, status) == Write(s, r, [Seen(s, r) EXCEPT !.status = status])

(***************************************************************************)
(* The start of a function: what it reads and checks.                      *)
(***************************************************************************)
StockMovers == {"issue", "adjust", "receive", "counter"}    \* they write stock_qty as a total
Ops == StockMovers \cup {"approve", "refuse", "test", "close"}

\* The pairs of functions that harm each other when they overlap.
Harmful ==
    {{f, g} : f, g \in StockMovers}
    \cup {{"approve"}, {"approve", "refuse"}, {"approve", "close"}, {"issue", "close"}, {"close"}}

MayStart(s, op) ==
    /\ job[s] = Idle
    /\ \A t \in Sessions \ {s} : job[t] # Idle => {op, job[t].op} \in Together

Begin(s, j) ==
    /\ MayStart(s, j.op)
    /\ job' = [job EXCEPT ![s] = j]
    /\ Read /\ UNCHANGED posted

BeginDecide(s, op, g) ==
    /\ Status(s, g) = "pending"
    /\ Begin(s, [Idle EXCEPT !.op = op, !.pc = "sign", !.row = Asked, !.held = {g}])

OnShelf(s) == Seen(s, Part).stock >= Need

Issuable(s, r) == Status(s, r) = "approved"

BeginIssue(s, r) ==
    /\ Issuable(s, r) /\ OnShelf(s)
    /\ Begin(s, [Idle EXCEPT !.op = "issue", !.pc = "put", !.row = r, !.was = Seen(s, Part).stock,
                             !.delta = -Need, !.outcome = "issued"])

BeginTest(s) == Begin(s, [Idle EXCEPT !.op = "test", !.pc = "ticket"])

ToRelease(s) == {r \in Requests : Status(s, r) = "approved"}

Charges(s) == ~Seen(s, Ticket).rolled

BeginClose(s) ==
    /\ Status(s, Ticket) = "resolved"
    /\ Begin(s, [Idle EXCEPT !.op = "close", !.pc = "free", !.held = ToRelease(s), !.charge = Charges(s)])

\* adjust_stock, receive_stock, and issue_from_stock of procurement.
BeginMove(s, op, delta) ==
    LET part == Seen(s, Part)
    IN  /\ delta # 0 /\ part.stock + delta \in 0 .. MaxStock
        /\ op = "receive" => delta > 0
        /\ op = "counter" => delta < 0 /\ -delta <= part.stock - part.reserved
        /\ Begin(s, [Idle EXCEPT !.op = op, !.pc = "put", !.was = part.stock, !.delta = delta])

(***************************************************************************)
(* decide_approval.                                                        *)
(***************************************************************************)
Rung(s) == CHOOSE g \in job[s].held : TRUE

Sign(s) ==
    /\ At(s, {"approve", "refuse"}, "sign")
    /\ SetStatus(s, Rung(s), IF job[s].op = "approve" THEN "approved" ELSE "rejected")
    /\ job' = [job EXCEPT ![s].pc = IF job[s].op = "approve" THEN "count" ELSE "request",
                          ![s].outcome = "rejected"]
    /\ UNCHANGED posted

\* Mutant: counted on another connection, which does not see this signature.
AllSignedCommitted(s) == \A g \in Rungs : db[g].status # "pending"

\* SELECT COUNT(*) ... WHERE status = 'pending'
AllSigned(s) == \A g \in Rungs : Status(s, g) # "pending"

Count(s) ==
    /\ At(s, {"approve"}, "count")
    /\ Goto(s, IF AllSigned(s) THEN "reserve" ELSE "commit")
    /\ Read /\ UNCHANGED posted

\* UPDATE ... WHERE stock_qty - reserved_qty >= need
Enough(s) == Seen(s, Part).stock - Seen(s, Part).reserved >= Need

ReservePart(s) ==
    /\ At(s, {"approve"}, "reserve")
    /\ IF Enough(s) THEN Write(s, Part, [Seen(s, Part) EXCEPT !.reserved = @ + Need]) ELSE Read
    /\ job' = [job EXCEPT ![s].pc = "request", ![s].outcome = IF Enough(s) THEN "approved" ELSE "out_of_stock"]
    /\ UNCHANGED posted

PutRequest(s) ==
    /\ At(s, {"approve", "refuse", "issue"}, "request")
    /\ SetStatus(s, job[s].row, job[s].outcome)
    /\ Goto(s, "ticket")
    /\ UNCHANGED posted

(***************************************************************************)
(* _move_stock, and the reservation an issue fulfils.                      *)
(***************************************************************************)

Fulfilled(s, reserved) == IF job[s].op = "issue" THEN Max({reserved - Need, 0}) ELSE reserved

PutStock(s) ==
    /\ At(s, {"issue", "adjust", "receive", "counter"}, "put")
    /\ Write(s, Part, [stock |-> job[s].was + job[s].delta,
                       reserved |-> Fulfilled(s, Seen(s, Part).reserved)])
    /\ Goto(s, IF job[s].op = "issue" THEN "request" ELSE "commit")
    /\ UNCHANGED posted

(***************************************************************************)
(* close_ticket: each approved request is freed, then the ticket closes.   *)
(***************************************************************************)
FreeHeld(s) ==
    /\ At(s, {"close"}, "free")
    /\ IF job[s].held = {} THEN Read /\ Goto(s, "ticket")
       ELSE /\ Write(s, Part, [Seen(s, Part) EXCEPT !.reserved = Max({@ - Need, 0})])
            /\ Goto(s, "cancel")
    /\ UNCHANGED posted

CancelHeld(s) ==
    LET r == CHOOSE r \in job[s].held : TRUE
    IN  /\ At(s, {"close"}, "cancel")
        /\ SetStatus(s, r, "cancelled")
        /\ job' = [job EXCEPT ![s].pc = "free", ![s].held = job[s].held \ {r}]
        /\ UNCHANGED posted

NewStatus ==
    [approved |-> "approved_issue", out_of_stock |-> "waiting_stock", rejected |-> "spare_required",
     issued |-> "parts_issued", none |-> "resolved"]

PutTicket(s) ==
    /\ At(s, Ops, "ticket")
    /\ IF job[s].op = "close"
       THEN Write(s, Ticket, [status |-> "closed", rolled |-> TRUE])
       ELSE SetStatus(s, Ticket, NewStatus[job[s].outcome])
    /\ Goto(s, IF job[s].charge THEN "machine" ELSE "commit")
    /\ UNCHANGED posted

ChargeMachine(s) ==
    /\ At(s, {"close"}, "machine")
    /\ Write(s, Machine, [breakdowns |-> Seen(s, Machine).breakdowns + 1])
    /\ Goto(s, "commit")
    /\ UNCHANGED posted

Movement(s) == job[s].delta

CommitJob(s) ==
    /\ At(s, Ops, "commit")
    /\ Commit(s)
    /\ posted' = [stock |-> posted.stock + Movement(s),
                  vouchers |-> [r \in Requests |->
                      posted.vouchers[r] + IF job[s].op = "issue" /\ job[s].row = r THEN 1 ELSE 0]]
    /\ Quit(s)

\* The row the next statement of s writes.
Target(s) ==
    LET j == job[s]
    IN  CASE j.pc = "sign" -> j.held
          [] j.pc \in {"put", "reserve"} -> {Part}
          [] j.pc = "free" -> IF j.held = {} THEN {} ELSE {Part}
          [] j.pc = "request" -> {j.row}
          [] j.pc = "cancel" -> {CHOOSE r \in j.held : TRUE}
          [] j.pc = "ticket" -> {Ticket}
          [] j.pc = "machine" -> {Machine}
          [] OTHER -> {}

\* A session that waits for another too long, or in a circle, gives up.
LockTimeout(s) ==
    /\ \E t \in Sessions \ {s} : Target(s) \cap DOMAIN mine[t] # {}
    /\ Rollback(s) /\ Quit(s) /\ UNCHANGED posted

Work(s) ==
    \/ Sign(s) \/ Count(s) \/ ReservePart(s) \/ PutRequest(s) \/ PutStock(s)
    \/ FreeHeld(s) \/ CancelHeld(s) \/ PutTicket(s) \/ ChargeMachine(s)
    \/ CommitJob(s) \/ LockTimeout(s)

Start(s) ==
    \/ \E op \in {"approve", "refuse"}, g \in Rungs : BeginDecide(s, op, g)
    \/ \E r \in Requests : BeginIssue(s, r)
    \/ BeginTest(s) \/ BeginClose(s)
    \/ \E op \in {"adjust", "receive", "counter"}, delta \in -MaxStock .. MaxStock : BeginMove(s, op, delta)

Next == \E s \in Sessions : Start(s) \/ Work(s)

\* A thread executes its statements until its request is answered.
Spec == Init /\ [][Next]_vars /\ \A s \in Sessions : WF_vars(Work(s))

(***************************************************************************)
(* Properties.                                                             *)
(***************************************************************************)
\* Rows have the values their columns may have.
TypeOK ==
    /\ db[Part].stock \in 0 .. MaxStock /\ db[Part].reserved \in 0 .. 2 * Need
    /\ \A r \in Requests : db[r].status \in
         {"waiting_approval", "approved", "rejected", "out_of_stock", "issued", "cancelled"}
    /\ db[Ticket].status \in {"waiting_approval", "closed"} \cup {NewStatus[o] : o \in DOMAIN NewStatus}

\* reserved_qty is what the approved requests add up to.
ReservedTrue == db[Part].reserved = Need * Cardinality({r \in Requests : db[r].status = "approved"})

\* stock_qty is what the movements say.
LedgerTrue == db[Part].stock = InStock + posted.stock

\* A request is handed over once, and one that was says so.
HandedOnce == \A r \in Requests : posted.vouchers[r] = IF db[r].status = "issued" THEN 1 ELSE 0

\* A request that waits for a signature has somebody to sign it.
NotForgotten ==
    db[Asked].status = "waiting_approval" => \E g \in Rungs : db[g].status = "pending"

\* A ticket's breakdown is counted once on its machine.
CountedOnce == db[Machine].breakdowns = IF db[Ticket].rolled THEN 1 ELSE 0

\* No part stays reserved for a closed ticket.
ClosedHoldsNothing == db[Ticket].status = "closed" => \A r \in Requests : db[r].status # "approved"

\* The spare-parts desk with two people at it: requests, reservations, movements,
\* vouchers, the machine and the ticket agree (decide_approval, issue_parts, close_ticket,
\* adjust_stock).
SparesTrue ==
    /\ TypeOK /\ ReservedTrue /\ LedgerTrue /\ HandedOnce
    /\ NotForgotten /\ CountedOnce /\ ClosedHoldsNothing

=============================================================================
