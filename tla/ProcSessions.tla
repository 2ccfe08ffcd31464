---------------------------- MODULE ProcSessions ----------------------------
(***************************************************************************)
(* One purchase request worked on by several people at once                *)
(* (src/app/approvals/services.py), statement by statement on PostgreSQL.  *)
(* None of the service functions locks the request or repeats its guard in *)
(* the WHERE clause of an UPDATE; each checks a status it read before.     *)
(*                                                                         *)
(* A session performs a job: which function, the statement it is at, and   *)
(* what it has read.  SELECTs that follow each other are one step.         *)
(* Together names the pairs of functions an instance lets overlap.         *)
(* ProcRequest and ProcOrder have the functions in full, one at a time.    *)
(***************************************************************************)
EXTENDS ReadCommitted, FiniteSets, FiniteSetsExt, Functions

CONSTANTS
    Request,        \* the pr_requests row
    Line,           \* its pr_items row
    Steps,          \* ids for pr_steps rows
    Ordered,        \* quantity on the line
    Prices,         \* unit prices Purchasing may enter; stage n signs from price n
    Deliveries,     \* quantities accepted on one receipt
    Amount,         \* paid at a time
    Together        \* sets of functions that may overlap

VARIABLES
    job,            \* job[s]: the function session s executes
    posted          \* committed pr_payments, pr_grn and pr_purchase_orders rows, in sum

vars == <<db, mine, job, posted>>

ASSUME RequestAssumption ==
    /\ Steps \subseteq Nat /\ Ordered \in Nat \ {0} /\ Amount \in Nat \ {0}
    /\ Prices \subseteq Nat \ {0} /\ Deliveries \subseteq Nat \ {0}
    /\ IsFiniteSet(Steps) /\ IsFiniteSet(Prices)
    /\ Request # Line /\ {Request, Line} \cap Steps = {}

NoStep == [rung |-> 0, stage |-> 0, status |-> "none"]
Gone == [NoStep EXCEPT !.status = "gone"]
NoPosting == [paid |-> 0, goods |-> 0, orders |-> 0]
Idle == [op |-> "idle", pc |-> "idle", arg |-> 0, pr |-> 0, id |-> 0, rung |-> 0, got |-> 0, adds |-> NoPosting]

Init ==
    /\ db = [r \in Steps \cup {Request, Line} |->
                IF r = Request THEN [status |-> "draft", seq |-> 0, price |-> 0, paid |-> 0]
                ELSE IF r = Line THEN [received |-> 0] ELSE NoStep]
    /\ mine = [s \in Sessions |-> NoRows]
    /\ job = [s \in Sessions |-> Idle]
    /\ posted = NoPosting

(***************************************************************************)
(* The rows as a session sees them.                                        *)
(***************************************************************************)
Header(s) == Seen(s, Request)
Ladder(s) == {i \in Steps : Seen(s, i).status \notin {"none", "gone"}}
Pending(s, n) == {i \in Ladder(s) : Seen(s, i).rung = n /\ Seen(s, i).status = "pending"}
Rungs(s, ids) == {Seen(s, i).rung : i \in ids}

\* Stages a price calls for, in the order of their rungs.
StagesFor(price) == {1} \cup {n \in Prices : n <= price}

\* Ids no session has used, and one of them for each stage.
Unused == {i \in Steps : db[i] = NoStep /\ \A s \in Sessions : i \notin DOMAIN mine[s]}
NewIds(stages) == CHOOSE ids \in Injection(stages, Unused) : TRUE

\* New rungs for stages, one above the other from rung `above` on.
NewRungs(stages, above) ==
    LET ids == NewIds(stages)
    IN  [i \in {ids[n] : n \in stages} |->
            LET n == CHOOSE m \in stages : ids[m] = i
            IN  [rung |-> above + Cardinality({m \in stages : m <= n}), stage |-> n,
                 status |-> "pending"]]

Goto(s, pc) == job' = [job EXCEPT ![s].pc = pc]
Quit(s) == job' = [job EXCEPT ![s] = Idle]
Refuse(s) == Rollback(s) /\ Quit(s) /\ UNCHANGED posted
At(s, ops, pc) == job[s].op \in ops /\ job[s].pc = pc

(***************************************************************************)
(* The start of a function: it reads the request and checks its status.    *)
(***************************************************************************)
InOrder == {"po_issued", "partially_received", "received"}

\* Mutant: a closed order may still be received.
OpenToReceive(op) ==
    CASE op = "submit" -> {"draft", "rejected"}
      [] op = "price" -> {"draft", "pending", "rejected"}
      [] op \in {"sign", "reject", "back"} -> {"pending"}
      [] op = "issue" -> {"approved"}
      [] op \in {"receive", "pay"} -> InOrder \cup {"approved", "closed"}
      [] op = "close" -> InOrder
      [] op = "cancel" -> {"draft", "pending", "rejected", "approved", "po_issued"}

OpenTo(op) ==
    CASE op = "submit" -> {"draft", "rejected"}
      [] op = "price" -> {"draft", "pending", "rejected"}
      [] op \in {"sign", "reject", "back"} -> {"pending"}
      [] op = "issue" -> {"approved"}
      [] op = "receive" -> InOrder \cup {"approved"}
      [] op = "pay" -> InOrder \cup {"closed"}
      [] op = "close" -> InOrder
      [] op = "cancel" -> {"draft", "pending", "rejected", "approved", "po_issued"}

FirstStatement ==
    [submit |-> "clear", price |-> "line", sign |-> "pick", reject |-> "pick", back |-> "pick",
     issue |-> "orders", receive |-> "read", pay |-> "caps", close |-> "head", cancel |-> "head"]

Ops == DOMAIN FirstStatement

\* The pairs of functions that harm each other when they overlap.
Harmful ==
    {{"submit"}, {"submit", "price"}, {"submit", "cancel"}, {"submit", "back"},
     {"sign"}, {"sign", "price"}, {"sign", "reject"}, {"sign", "back"}, {"sign", "cancel"}, {"reject", "cancel"}, {"back"},
     {"issue"}, {"issue", "receive"}, {"issue", "cancel"},
     {"receive"}, {"receive", "close"}, {"receive", "cancel"}, {"pay"}, {"close", "cancel"}}

MayStart(s, op) ==
    /\ job[s].op = "idle"
    /\ \A t \in Sessions \ {s} : job[t].op # "idle" => {op, job[t].op} \in Together

Begin(s, op, arg) ==
    /\ MayStart(s, op)
    /\ Header(s).status \in OpenTo(op)
    /\ job' = [job EXCEPT ![s] = [Idle EXCEPT !.op = op, !.pc = FirstStatement[op], !.arg = arg, !.pr = Header(s)]]
    /\ Read /\ UNCHANGED posted

\* Enough unused ids for every session (a bound; Clear and Reconcile find theirs).
RoomFor(n) == Cardinality({i \in Steps : db[i] = NoStep}) >= n * Cardinality(Sessions)

\* three_way_match runs first, on a read of its own.
BeginPay(s) ==
    /\ MayStart(s, "pay")
    /\ job' = [job EXCEPT ![s] = [Idle EXCEPT !.op = "pay", !.pc = "caps",
                                              !.got = Seen(s, Line).received * Header(s).price]]
    /\ Read /\ UNCHANGED posted

(***************************************************************************)
(* submit_pr: clear prior steps, write the ladder.                         *)
(***************************************************************************)

Clear(s) ==
    /\ At(s, {"submit"}, "clear")
    /\ ExistsInjection(StagesFor(job[s].pr.price), Unused)
    /\ WriteAll(s, Over(NewRungs(StagesFor(job[s].pr.price), 0), [i \in Ladder(s) |-> Gone]))
    /\ Goto(s, "head")
    /\ UNCHANGED posted

(***************************************************************************)
(* act_on_step and send_back.                                              *)
(***************************************************************************)
Unpriced(j, stage) == j.op = "sign" /\ stage = 1 /\ j.pr.price = 0

\* A request is sent back to a rung it has.
HasRung(s, n) == n \in Rungs(s, Ladder(s))

Pick(s) ==
    LET j == job[s]
        open == {i \in Pending(s, j.pr.seq) : ~Unpriced(j, Seen(s, i).stage)}
    IN  /\ At(s, {"sign", "reject", "back"}, "pick")
        /\ IF open # {} /\ (j.op = "back" => HasRung(s, j.arg))
           THEN /\ \E i \in open :
                     job' = [job EXCEPT ![s].id = i, ![s].rung = Seen(s, i).rung,
                                        ![s].pc = IF j.op = "back" THEN "reopen" ELSE "write"]
                /\ Read /\ UNCHANGED posted
           ELSE Refuse(s)

\* UPDATE pr_steps ... WHERE id = ?, whatever became of the step.
Sign(s) ==
    LET row == Seen(s, job[s].id)
        signed == IF row = Gone THEN Gone
                  ELSE [row EXCEPT !.status = IF job[s].op = "sign" THEN "approved" ELSE "rejected"]
    IN  /\ At(s, {"sign", "reject"}, "write")
        /\ Write(s, job[s].id, signed)
        /\ Goto(s, IF job[s].op = "sign" THEN "count" ELSE "head")
        /\ UNCHANGED posted

\* Co-approvers still pending, else the next rung; rung 0 stands for none.
Count(s) ==
    LET above == {n \in Rungs(s, {i \in Ladder(s) : Seen(s, i).status = "pending"}) : n > job[s].rung}
    IN  /\ At(s, {"sign"}, "count")
        /\ IF Pending(s, job[s].rung) # {}
           THEN Goto(s, "commit")
           ELSE job' = [job EXCEPT ![s].rung = IF above = {} THEN 0 ELSE Min(above), ![s].pc = "head"]
        /\ Read /\ UNCHANGED posted

\* UPDATE pr_steps SET activated_at: nothing but the locks.
Activate(s) ==
    /\ At(s, {"sign"}, "activate")
    /\ WriteAll(s, [i \in {i \in Ladder(s) : Seen(s, i).rung = job[s].rung} |-> Seen(s, i)])
    /\ Goto(s, "commit")
    /\ UNCHANGED posted

Reopen(s) ==
    /\ At(s, {"back"}, "reopen")
    /\ WriteAll(s, [i \in {i \in Ladder(s) : Seen(s, i).rung >= job[s].arg} |->
                       [Seen(s, i) EXCEPT !.status = "pending"]])
    /\ Goto(s, "head")
    /\ UNCHANGED posted

(***************************************************************************)
(* price_pr                                                                *)
(***************************************************************************)
PriceLine(s) ==
    /\ At(s, {"price"}, "line")
    /\ Write(s, Line, Seen(s, Line))
    /\ Goto(s, "head")
    /\ UNCHANGED posted

\* _reconcile_value_ladder, on the request as it now reads it.
Dropped(s) == {i \in Ladder(s) : /\ Seen(s, i).stage \notin StagesFor(job[s].arg)
                                 /\ Seen(s, i).status = "pending" /\ Seen(s, i).rung > Header(s).seq}

\* Mutant: a higher price adds no rung.
ReconcilePrunes(s) ==
    /\ At(s, {"price"}, "ladder")
    /\ WriteAll(s, [i \in Dropped(s) |-> Gone])
    /\ Goto(s, "commit")
    /\ UNCHANGED posted

Reconcile(s) ==
    LET missing == StagesFor(job[s].arg) \ {Seen(s, i).stage : i \in Ladder(s)}
        top == Max(Rungs(s, Ladder(s)) \cup {0})
    IN  /\ At(s, {"price"}, "ladder")
        /\ ExistsInjection(missing, Unused)
        /\ WriteAll(s, Over(NewRungs(missing, top), [i \in Dropped(s) |-> Gone]))
        /\ Goto(s, "commit")
        /\ UNCHANGED posted

(***************************************************************************)
(* issue_po, receive_items, add_payment                                    *)
(***************************************************************************)
\* _issue_po_rows: rows already written are left alone.
Orders(s) ==
    /\ At(s, {"issue"}, "orders")
    /\ job' = [job EXCEPT ![s].pc = "head", ![s].adds.orders = IF posted.orders = 0 THEN 1 ELSE 0]
    /\ Read /\ UNCHANGED posted

ReadLine(s) ==
    /\ At(s, {"receive"}, "read")
    /\ job' = [job EXCEPT ![s].got = Seen(s, Line).received, ![s].pc = "put"]
    /\ Read /\ UNCHANGED posted

PutLine(s) ==
    LET total == Min({Ordered, job[s].got + job[s].arg})
    IN  /\ At(s, {"receive"}, "put")
        /\ Write(s, Line, [received |-> total])
        /\ job' = [job EXCEPT ![s].pc = "head", ![s].adds.goods = total - job[s].got]
        /\ UNCHANGED posted

\* The order is invoiced in full: the received value caps what may be paid.
Caps(s) ==
    /\ At(s, {"pay"}, "caps")
    /\ IF Header(s).status \in OpenTo("pay") /\ Header(s).paid + Amount <= job[s].got
       THEN /\ job' = [job EXCEPT ![s].pr = Header(s), ![s].pc = "head", ![s].adds.paid = Amount]
            /\ Read /\ UNCHANGED posted
       ELSE Refuse(s)

(***************************************************************************)
(* The UPDATE of pr_requests every function ends with, and its commit.     *)
(***************************************************************************)
\* Mutant: the whole row goes back as it was read.
CurrentAsRead(s) == job[s].pr

\* An UPDATE sets the columns it names and leaves the others as they now are.
Current(s) == Header(s)

Full(s) == Seen(s, Line).received >= Ordered

NewHeader(s) ==
    LET j == job[s]
        row == Current(s)
    IN  CASE j.op = "submit" -> [row EXCEPT !.status = "pending", !.seq = 1]
          [] j.op = "price" -> [row EXCEPT !.price = j.arg]
          [] j.op = "sign" /\ j.rung > 0 -> [row EXCEPT !.seq = j.rung]
          [] j.op = "sign" /\ j.rung = 0 -> [row EXCEPT !.status = "approved", !.seq = 0]
          [] j.op = "reject" -> [row EXCEPT !.status = "rejected"]
          [] j.op = "back" -> [row EXCEPT !.seq = j.arg]
          [] j.op = "issue" -> [row EXCEPT !.status = "po_issued"]
          [] j.op = "receive" ->
                [row EXCEPT !.status = IF Full(s) THEN "received" ELSE "partially_received"]
          [] j.op = "pay" -> [row EXCEPT !.paid = j.pr.paid + Amount]
          [] j.op = "close" -> [row EXCEPT !.status = "closed"]
          [] j.op = "cancel" -> [row EXCEPT !.status = "cancelled", !.seq = 0]

PutHeader(s) ==
    /\ job[s].pc = "head"
    /\ Write(s, Request, NewHeader(s))
    /\ Goto(s, IF job[s].op = "sign" /\ job[s].rung > 0 THEN "activate"
               ELSE IF job[s].op = "price" /\ job[s].pr.status = "pending" THEN "ladder" ELSE "commit")
    /\ UNCHANGED posted

CommitJob(s) ==
    /\ job[s].pc = "commit"
    /\ Commit(s)
    /\ posted' = [f \in DOMAIN posted |-> posted[f] + job[s].adds[f]]
    /\ Quit(s)

\* The row a session's next UPDATE waits for.
Wanted(s) ==
    LET pc == job[s].pc IN
    CASE pc = "clear" -> Ladder(s)
      [] pc = "write" -> {job[s].id}
      [] pc = "activate" -> {i \in Ladder(s) : Seen(s, i).rung = job[s].rung}
      [] pc = "reopen" -> {i \in Ladder(s) : Seen(s, i).rung >= job[s].arg}
      [] pc = "ladder" -> Dropped(s)
      [] pc \in {"line", "put"} -> {Line}
      [] pc = "head" -> {Request}
      [] OTHER -> {}

\* Mutant: no lock_timeout.
LockTimeoutOff(s) == FALSE /\ Refuse(s)

\* A session that waits for another too long, or in a circle, gives up.
LockTimeout(s) ==
    /\ \E t \in Sessions \ {s} : Wanted(s) \cap DOMAIN mine[t] # {}
    /\ Refuse(s)

Work(s) ==
    \/ Clear(s) \/ Pick(s) \/ Sign(s) \/ Count(s) \/ Activate(s) \/ Reopen(s)
    \/ PriceLine(s) \/ Reconcile(s) \/ Orders(s) \/ ReadLine(s) \/ PutLine(s) \/ Caps(s)
    \/ PutHeader(s) \/ CommitJob(s) \/ LockTimeout(s)

Start(s) ==
    \/ RoomFor(Cardinality(Prices)) /\ Begin(s, "submit", 0)
    \/ \E p \in Prices : RoomFor(1) /\ Begin(s, "price", p)
    \/ \E op \in {"sign", "reject", "issue", "close", "cancel"} : Begin(s, op, 0)
    \/ \E n \in 1..(Header(s).seq - 1) : Begin(s, "back", n)
    \/ \E q \in Deliveries : Begin(s, "receive", q)
    \/ BeginPay(s)

Next == \E s \in Sessions : Start(s) \/ Work(s)

\* A thread executes its statements until its request is answered.
Spec == Init /\ [][Next]_vars /\ \A s \in Sessions : WF_vars(Work(s))

(***************************************************************************)
(* Properties.                                                             *)
(***************************************************************************)
PR == db[Request]
Live == {i \in Steps : db[i].status \notin {"none", "gone"}}
Bought == PR.status \in InOrder \cup {"approved"}

\* Rows have the values their columns may have.
TypeOK ==
    /\ PR.status \in {"cancelled"} \cup UNION {OpenTo(op) : op \in Ops}
    /\ PR.price \in Prices \cup {0} /\ db[Line].received \in 0..Ordered
    /\ \A i \in Live : db[i].status \in {"pending", "approved", "rejected"} /\ db[i].rung > 0
    /\ posted.orders \in Nat /\ posted.goods \in Nat /\ posted.paid \in Nat

\* A circulating request has one pending step on the rung it is at.
NeverStuck == PR.status = "pending" => \E i \in Live : db[i].rung = PR.seq /\ db[i].status = "pending"

\* No rung asks for two signatures of the same stage.
OneSignatureEach == \A i, j \in Live : db[i].stage = db[j].stage => i = j

\* What is approved or bought carries every signature its price calls for.
FullySigned ==
    Bought => /\ \A i \in Live : db[i].status = "approved"
              /\ StagesFor(PR.price) \subseteq {db[i].stage : i \in Live}

\* The ladder lets every request reach its decision, and the decision carries what the
\* price asks for, with two people on the request at once (act_on_step, price_pr,
\* submit_pr, send_back).
LadderSound == NeverStuck /\ OneSignatureEach /\ FullySigned

\* The totals on the request are the documents behind them.
TotalsTrue == PR.paid = posted.paid /\ db[Line].received = posted.goods /\ posted.orders <= 1

\* No money leaves for goods that have not come.
PaidForReceived == posted.paid <= db[Line].received * PR.price

\* cancel_pr: never once goods have been received.
CancelledEmpty == PR.status = "cancelled" => posted.goods = 0 /\ posted.paid = 0

\* A received order is received until it is closed.
StatusTrue == /\ PR.status = "received" <=> (PR.status # "closed" /\ db[Line].received >= Ordered)
              /\ PR.status = "partially_received" => db[Line].received < Ordered

\* Totals, statuses and money agree with the documents, with two people on the order at
\* once (issue_po, receive_items, add_payment, cancel_pr).
BooksTrue == TypeOK /\ TotalsTrue /\ PaidForReceived /\ CancelledEmpty /\ StatusTrue

\* Final statuses stay, an order does not go back to its approval.
StatusSteps ==
    [][ /\ PR.status \in {"closed", "cancelled"} => db'[Request].status = PR.status
        /\ PR.status \in InOrder => db'[Request].status \in InOrder \cup {"closed", "cancelled"} ]_vars

\* Every request is answered: no waiting for a lock lasts.
Finishes == \A s \in Sessions : job[s].op # "idle" ~> job[s].op = "idle"

=============================================================================
