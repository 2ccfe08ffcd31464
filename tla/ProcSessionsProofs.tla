------------------------- MODULE ProcSessionsProofs -------------------------
(***************************************************************************)
(* Theorems about ProcSessions, for any number of people on the request,   *)
(* any prices, quantities and signatories, as long as no two functions of  *)
(* a harmful pair overlap.                                                 *)
(*                                                                         *)
(* The argument: every function ends with the UPDATE of pr_requests and    *)
(* holds that row until it commits (a signature that leaves its rung open  *)
(* writes only its own step).  From there on the request as the function   *)
(* will leave it is sound (Late).  Before, what the function has read      *)
(* stays true whatever the functions it may overlap with commit (Early).   *)
(***************************************************************************)
EXTENDS ProcSessions, SumProofs

\* No two functions of a harmful pair overlap.
Safe == Together \cap Harmful = {}

(***************************************************************************)
(* Rows.                                                                   *)
(***************************************************************************)
Rows == Steps \cup {Request, Line}
Delivered == {"partially_received", "received", "closed"}
Statuses == {"draft", "pending", "rejected", "approved", "po_issued", "cancelled"} \cup Delivered
HeaderRow == [status : Statuses, seq : Nat, price : Prices \cup {0}, paid : Nat]
StepRow == [rung : Nat \ {0}, stage : Nat, status : {"pending", "approved", "rejected"}]
LiveIn(d) == {i \in Steps : d[i].status \notin {"none", "gone"}}

RowsTyped(d) ==
    /\ DOMAIN d = Rows
    /\ d[Request] \in HeaderRow
    /\ d[Line] \in [received : 0 .. Ordered]
    /\ \A i \in Steps : d[i] \in StepRow \/ d[i] \in {NoStep, Gone}

Distinct(d) == \A i, k \in LiveIn(d) : d[i].stage = d[k].stage => i = k
Covers(d) == \A n \in StagesFor(d[Request].price) : \E i \in LiveIn(d) : d[i].stage = n

\* A request on its way: somebody is asked, and who signed before has signed.
Circulates(d) ==
    d[Request].status = "pending" =>
        /\ Covers(d)
        /\ \E i \in LiveIn(d) : d[i].rung = d[Request].seq /\ d[i].status = "pending"
        /\ \A i \in LiveIn(d) : /\ d[i].status # "rejected"
                                /\ d[i].rung < d[Request].seq => d[i].status = "approved"

Decided(d) ==
    d[Request].status \in InOrder \cup {"approved"} =>
        Covers(d) /\ \A i \in LiveIn(d) : d[i].status = "approved"

\* Goods and money.
Accounts(d) ==
    LET pr == d[Request]
        received == d[Line].received
    IN  /\ pr.status \notin Delivered => received = 0
        /\ pr.paid <= received * pr.price
        /\ pr.status = "received" <=> (pr.status # "closed" /\ received >= Ordered)
        /\ pr.status = "partially_received" => received < Ordered

Good(d) == RowsTyped(d) /\ Distinct(d) /\ Circulates(d) /\ Decided(d) /\ Accounts(d)

Postings == [paid : Nat, goods : Nat, orders : Nat]
Totals(d, p) == d[Request].paid = p.paid /\ d[Line].received = p.goods /\ p.orders <= 1
Plus(p, adds) == [paid |-> p.paid + adds.paid, goods |-> p.goods + adds.goods,
                  orders |-> p.orders + adds.orders]

(***************************************************************************)
(* Jobs.                                                                   *)
(***************************************************************************)
JobFields == {"op", "pc", "arg", "pr", "id", "rung", "got", "adds"}
Past == {"activate", "ladder", "commit"}

Points(op) ==
    CASE op = "submit" -> {"clear", "head", "commit"}
      [] op = "price" -> {"line", "head", "ladder", "commit"}
      [] op = "sign" -> {"pick", "write", "count", "head", "activate", "commit"}
      [] op = "reject" -> {"pick", "write", "head", "commit"}
      [] op = "back" -> {"pick", "reopen", "head", "commit"}
      [] op = "issue" -> {"orders", "head", "commit"}
      [] op = "receive" -> {"read", "put", "head", "commit"}
      [] op = "pay" -> {"caps", "head", "commit"}
      [] op \in {"close", "cancel"} -> {"head", "commit"}

\* The statuses a request may have while a function works on it.
Stands(j) ==
    CASE j.op = "submit" -> {"draft", "rejected"}
      [] j.op = "price" -> {"draft", "pending", "rejected", "cancelled"}
      [] j.op = "sign" -> {"pending"}
      [] j.op = "reject" -> {"pending", "rejected"}
      [] j.op = "back" -> {"pending", "rejected", "cancelled"}
      [] j.op = "issue" -> {"approved"}
      [] j.op = "receive" -> InOrder \cup {"approved"}
      [] j.op = "pay" -> IF j.pc = "caps" THEN Statuses ELSE InOrder \cup {"closed"}
      [] j.op = "close" -> InOrder \cup {"closed"}
      [] j.op = "cancel" -> {"draft", "pending", "rejected", "approved", "po_issued", "cancelled"}

JobTyped(j) ==
    /\ DOMAIN j = JobFields
    /\ j.op = "idle" => j = Idle
    /\ j.op # "idle" => /\ j.op \in Ops /\ j.pc \in Points(j.op)
                        /\ j.op = "price" => j.arg \in Prices
                        /\ j.op = "back" => j.arg \in Nat \ {0}
                        /\ j.op = "receive" => j.arg \in Deliveries
                        /\ j.adds \in Postings
                        /\ j.pc \notin Past /\ j.op \notin {"issue", "receive", "pay"} => j.adds = NoPosting

(***************************************************************************)
(* Before the lock on pr_requests: j the job, m the rows it has written,   *)
(* d the rows as committed, p the documents.                               *)
(***************************************************************************)
\* The ladder submit_pr writes.
Fresh(m, price) ==
    /\ \A i \in DOMAIN m : m[i] = Gone \/ (m[i] \in StepRow /\ m[i].status = "pending")
    /\ \A i, k \in DOMAIN m : m[i] # Gone /\ m[k] # Gone /\ m[i].stage = m[k].stage => i = k
    /\ \A n \in StagesFor(price) : \E i \in DOMAIN m : m[i] # Gone /\ m[i].stage = n
    /\ \E i \in DOMAIN m : m[i] # Gone /\ m[i].rung = 1

SubmitFacts(j, m, d) ==
    j.op = "submit" =>
        /\ j.pr.price = d[Request].price
        /\ j.pc = "head" => LiveIn(d) \subseteq DOMAIN m /\ DOMAIN m \subseteq Steps /\ Fresh(m, j.pr.price)

PriceFacts(j, m, d) ==
    j.op = "price" =>
        /\ j.pr.status # "pending" => d[Request].status # "pending"
        /\ j.pc = "head" => DOMAIN m = {Line} /\ m[Line] = d[Line]

\* The signature, and the next rung somebody is asked on (0: none).
SignFacts(j, m, d) ==
    j.op = "sign" =>
        /\ j.pc = "pick" => j.pr = d[Request]
        /\ j.pc # "pick" => j.id \in LiveIn(d) /\ d[j.id].rung = d[Request].seq
        /\ j.pc \in {"write", "count"} => j.rung = d[Request].seq
        /\ j.pc \in {"count", "head"} =>
             DOMAIN m = {j.id} /\ m[j.id] = [d[j.id] EXCEPT !.status = "approved"]
        /\ j.pc = "head" =>
             LET e == Over(m, d)
             IN  /\ j.rung \in Nat
                 /\ j.rung = 0 => \A i \in LiveIn(e) : e[i].status = "approved"
                 /\ j.rung > 0 =>
                      /\ \E i \in LiveIn(e) : e[i].rung = j.rung /\ e[i].status = "pending"
                      /\ \A i \in LiveIn(e) : e[i].rung < j.rung => e[i].status = "approved"

RejectFacts(j, m, d) ==
    j.op = "reject" =>
        /\ j.pc # "pick" => j.id \in Steps /\ d[j.id] # NoStep
        /\ j.pc = "head" =>
             /\ DOMAIN m = {j.id}
             /\ m[j.id] = IF d[j.id] = Gone THEN Gone ELSE [d[j.id] EXCEPT !.status = "rejected"]

\* While the request circulates, the rung it goes back to is below it and stays.
BackFacts(j, m, d) ==
    j.op = "back" =>
        /\ j.pc = "head" =>
             \A i \in DOMAIN m : i \in LiveIn(d) /\ d[i].rung >= j.arg /\ m[i] = [d[i] EXCEPT !.status = "pending"]
        /\ d[Request].status = "pending" =>
             /\ j.arg < d[Request].seq
             /\ j.pc # "pick" => \E i \in LiveIn(d) : d[i].rung = j.arg
             /\ j.pc = "head" => \A i \in LiveIn(d) :
                                    d[i].rung >= j.arg => i \in DOMAIN m \/ d[i].status = "pending"

OrderFacts(j, m, d, p) ==
    /\ j.op = "issue" => /\ j.pc = "orders" => j.adds = NoPosting
                         /\ j.adds.paid = 0 /\ j.adds.goods = 0 /\ p.orders + j.adds.orders <= 1
    /\ j.op = "receive" =>
         /\ j.pc # "head" => j.adds = NoPosting
         /\ j.pc # "read" => j.got = d[Line].received
         /\ j.pc = "head" => /\ DOMAIN m = {Line} /\ m[Line] = [received |-> j.got + j.adds.goods]
                             /\ j.got + j.adds.goods \in 1 .. Ordered
                             /\ j.adds.paid = 0 /\ j.adds.orders = 0
    /\ j.op = "pay" =>
         /\ j.pc = "caps" => /\ j.adds = NoPosting
                             /\ j.got \in Nat /\ j.got <= d[Line].received * d[Request].price
         /\ j.pc = "head" => /\ j.adds = [NoPosting EXCEPT !.paid = Amount]
                             /\ j.pr.paid = d[Request].paid
                             /\ j.pr.paid + Amount <= d[Line].received * d[Request].price
    /\ j.op = "cancel" => d[Line].received = 0

\* Where a function has written nothing yet.
Clean == {"clear", "line", "pick", "orders", "read", "put", "caps", "reopen"}

Early(j, m, d, p) ==
    /\ j.pc \in Clean \/ (j.pc = "write" /\ j.op \in {"sign", "reject"}) => DOMAIN m = {}
    /\ j.pc = "head" /\ j.op \in {"issue", "pay", "close", "cancel"} => DOMAIN m = {}
    /\ Request \notin DOMAIN m
    /\ SubmitFacts(j, m, d) /\ PriceFacts(j, m, d) /\ SignFacts(j, m, d) /\ RejectFacts(j, m, d)
    /\ BackFacts(j, m, d) /\ OrderFacts(j, m, d, p)

(***************************************************************************)
(* After it.                                                               *)
(***************************************************************************)
\* What the commit of j makes of the rows d: e.
Becomes(j, d, e) ==
    LET old == d[Request]
        new == e[Request]
    IN  /\ new.status \in CASE j.op = "submit" -> {"pending"}
                            [] j.op = "sign" -> {"pending", "approved"}
                            [] j.op = "reject" -> {"rejected"}
                            [] j.op = "issue" -> {"po_issued"}
                            [] j.op = "receive" -> {"partially_received", "received"}
                            [] j.op = "close" -> {"closed"}
                            [] j.op = "cancel" -> {"cancelled"}
                            [] OTHER -> {old.status}
        /\ j.op # "price" => new.price = old.price
        /\ j.op # "pay" => new.paid = old.paid
        /\ IF j.op = "receive" THEN e[Line].received >= d[Line].received ELSE e[Line] = d[Line]
        /\ \A i \in Steps : d[i] # NoStep => e[i] # NoStep
        /\ j.op = "reject" => LiveIn(e) \subseteq LiveIn(d)
        /\ j.op = "price" =>
             /\ new.seq = old.seq
             /\ \A i \in LiveIn(d) : e[i] = d[i] \/ (e[i] = Gone /\ d[i].rung > old.seq)
             /\ \A i \in LiveIn(e) \ LiveIn(d) : e[i].status = "pending"

Late(j, m, d, p) ==
    /\ Request \in DOMAIN m \/ j.op = "sign"
    /\ j.pc = "ladder" => /\ DOMAIN m = {Request, Line} /\ m[Line] = d[Line]
                          /\ m[Request] = [d[Request] EXCEPT !.price = j.arg]
                          /\ j.adds = NoPosting
    /\ j.pc # "ladder" => /\ Good(Over(m, d)) /\ Totals(Over(m, d), Plus(p, j.adds))
                          /\ Becomes(j, d, Over(m, d))

Facts(j, m, d, p) ==
    /\ JobTyped(j)
    /\ DOMAIN m \subseteq Rows
    /\ j.op = "idle" => DOMAIN m = {}
    /\ j.op # "idle" => /\ d[Request].status \in Stands(j)
                        /\ IF j.pc \in Past THEN Late(j, m, d, p) ELSE Early(j, m, d, p)

\* Two functions at once are no harmful pair.
Apart(i, j) == i.op # "idle" /\ j.op # "idle" => {i.op, j.op} \notin Harmful

Sound(d, mn, jb, p) ==
    /\ Good(d) /\ p \in Postings /\ Totals(d, p)
    /\ DOMAIN mn = Sessions /\ DOMAIN jb = Sessions
    /\ \A s \in Sessions : Facts(jb[s], mn[s], d, p)
    /\ \A s, t \in Sessions : s # t => Apart(jb[s], jb[t]) /\ DOMAIN mn[s] \cap DOMAIN mn[t] = {}

\* The inductive invariant.
PInv == Sound(db, mine, job, posted)
-----------------------------------------------------------------------------
(* Rows and jobs.                                                          *)

\* The rows of the three tables are different.
LEMMA RowsApart ==
  ASSUME RequestAssumption
  PROVE  /\ Request # Line /\ Request \notin Steps /\ Line \notin Steps
         /\ Request \in Rows /\ Line \in Rows /\ Steps \subseteq Rows
BY DEF RequestAssumption, Rows

\* The columns have their types.
LEMMA Columns ==
  ASSUME RequestAssumption, NEW d, RowsTyped(d)
  PROVE  /\ d[Request].status \in Statuses /\ d[Request].seq \in Nat
         /\ d[Request].price \in Prices \cup {0} /\ d[Request].price \in Nat /\ d[Request].paid \in Nat
         /\ d[Line].received \in Nat /\ d[Line].received <= Ordered /\ Ordered \in Nat \ {0}
<1>1. Prices \subseteq Nat /\ Ordered \in Nat \ {0}
  BY DEF RequestAssumption
<1>2. d[Request] \in HeaderRow /\ d[Line] \in [received : 0 .. Ordered]
  BY DEF RowsTyped
<1>3. d[Request].status \in Statuses /\ d[Request].seq \in Nat /\ d[Request].price \in Prices \cup {0}
      /\ d[Request].paid \in Nat
  BY <1>2 DEF HeaderRow
<1>4. d[Line].received \in 0 .. Ordered
  BY <1>2
<1>5. d[Request].price \in Nat
  <2>1. d[Request].price \in Prices \/ d[Request].price = 0
    BY <1>3
  <2>2. 0 \in Nat
    OBVIOUS
  <2> QED
    BY <1>1, <2>1, <2>2, Zenon
<1>6. d[Line].received \in Nat /\ d[Line].received <= Ordered
  BY <1>1, <1>4
<1> QED
  BY <1>1, <1>3, <1>5, <1>6

\* Rows with some of them replaced.
LEMMA OverIs ==
  ASSUME NEW m, NEW d, DOMAIN m \subseteq Rows, DOMAIN d = Rows, NEW e, e = Over(m, d)
  PROVE  /\ DOMAIN e = Rows
         /\ \A r \in DOMAIN m : e[r] = m[r]
         /\ \A r \in Rows \ DOMAIN m : e[r] = d[r]
BY DEF Over

\* Several rows written at once.
LEMMA WriteAllIs ==
  ASSUME NEW m, NEW rows, NEW n, n = Over(rows, m)
  PROVE  /\ DOMAIN n = DOMAIN m \cup DOMAIN rows
         /\ \A x \in DOMAIN rows : n[x] = rows[x]
         /\ \A x \in DOMAIN m \ DOMAIN rows : n[x] = m[x]
BY DEF Over

\* A job at its next statement.
LEMMA GotoIs ==
  ASSUME NEW j, DOMAIN j = JobFields, NEW pc, NEW k, k = [j EXCEPT !.pc = pc]
  PROVE  /\ DOMAIN k = JobFields
         /\ k.op = j.op /\ k.pc = pc /\ k.arg = j.arg /\ k.pr = j.pr /\ k.id = j.id
         /\ k.rung = j.rung /\ k.got = j.got /\ k.adds = j.adds
BY DEF JobFields

\* What a session reads is what is committed with its own writes on top.
LEMMA SeenIs ==
  ASSUME RequestAssumption, PInv, NEW s \in Sessions, NEW e, e = Over(mine[s], db)
  PROVE  /\ DOMAIN e = Rows /\ DOMAIN mine[s] \subseteq Rows
         /\ \A r \in Rows : Seen(s, r) = e[r]
         /\ Ladder(s) = LiveIn(e)
         /\ Header(s) = e[Request]
<1>1. DOMAIN mine[s] \subseteq Rows /\ DOMAIN db = Rows
  BY DEF PInv, Sound, Facts, Good, RowsTyped
<1>2. /\ DOMAIN e = Rows /\ \A r \in DOMAIN mine[s] : e[r] = mine[s][r]
      /\ \A r \in Rows \ DOMAIN mine[s] : e[r] = db[r]
  BY <1>1, OverIs
<1>3. \A r \in Rows : Seen(s, r) = e[r]
  BY <1>2 DEF Seen
<1> QED
  BY <1>1, <1>2, <1>3, RowsApart DEF Ladder, LiveIn, Header

\* A session that has written nothing reads what is committed.
LEMMA SeenClean ==
  ASSUME RequestAssumption, PInv, NEW s \in Sessions, DOMAIN mine[s] = {}
  PROVE  /\ \A r \in Rows : Seen(s, r) = db[r]
         /\ Ladder(s) = LiveIn(db)
         /\ Header(s) = db[Request]
<1>1. \A r \in Rows : Seen(s, r) = db[r]
  BY DEF Seen
<1> QED
  BY <1>1, RowsApart DEF Ladder, LiveIn, Header

\* What the invariant says of a session at work.
LEMMA AtWork ==
  ASSUME PInv, NEW s \in Sessions, job[s].op # "idle"
  PROVE  /\ JobTyped(job[s]) /\ DOMAIN job[s] = JobFields
         /\ job[s].op \in Ops /\ job[s].pc \in Points(job[s].op)
         /\ DOMAIN mine[s] \subseteq Rows
         /\ db[Request].status \in Stands(job[s])
         /\ job[s].pc \in Past => Late(job[s], mine[s], db, posted)
         /\ job[s].pc \notin Past => Early(job[s], mine[s], db, posted)
         /\ Good(db) /\ RowsTyped(db)
BY DEF PInv, Sound, Facts, JobTyped, Good

\* A session goes on with its function: the invariant stays if its facts hold.
LEMMA GoesOn ==
  ASSUME PInv, NEW s \in Sessions,
         db' = db, posted' = posted, DOMAIN mine' = Sessions, DOMAIN job' = Sessions,
         \A t \in Sessions \ {s} : job'[t] = job[t] /\ mine'[t] = mine[t],
         job'[s].op \in {job[s].op, "idle"},
         \A t \in Sessions \ {s} : DOMAIN mine'[s] \cap DOMAIN mine[t] = {},
         Facts(job'[s], mine'[s], db, posted)
  PROVE  PInv'
<1>1. \A t \in Sessions : Facts(job'[t], mine'[t], db', posted')
  BY DEF PInv, Sound
<1>2. \A t, u \in Sessions : t # u =>
         Apart(job'[t], job'[u]) /\ DOMAIN mine'[t] \cap DOMAIN mine'[u] = {}
  <2> SUFFICES ASSUME NEW t \in Sessions, NEW u \in Sessions, t # u
               PROVE  Apart(job'[t], job'[u]) /\ DOMAIN mine'[t] \cap DOMAIN mine'[u] = {}
    OBVIOUS
  <2>1. Apart(job[t], job[u]) /\ DOMAIN mine[t] \cap DOMAIN mine[u] = {}
    BY DEF PInv, Sound
  <2>2. CASE t = s
    BY <2>1, <2>2 DEF Apart
  <2>3. CASE u = s
    BY <2>1, <2>3 DEF Apart
  <2>4. CASE t # s /\ u # s
    BY <2>1, <2>4
  <2> QED
    BY <2>2, <2>3, <2>4
<1> QED
  BY <1>1, <1>2 DEF PInv, Sound

\* It goes on after a read.
LEMMA ReadGoesOn ==
  ASSUME PInv, NEW s \in Sessions, Read, UNCHANGED posted, NEW k, job' = [job EXCEPT ![s] = k],
         k.op = job[s].op, Facts(k, mine[s], db, posted)
  PROVE  PInv'
<1>1. DOMAIN mine = Sessions /\ DOMAIN job = Sessions
      /\ \A t \in Sessions \ {s} : DOMAIN mine[s] \cap DOMAIN mine[t] = {}
  BY DEF PInv, Sound
<1>2. db' = db /\ mine' = mine /\ posted' = posted
  BY DEF Read
<1>3. job'[s] = k /\ DOMAIN job' = Sessions /\ \A t \in Sessions \ {s} : job'[t] = job[t]
  BY <1>1
<1> QED
  BY <1>1, <1>2, <1>3, GoesOn

\* A session with no job is sound.
LEMMA IdleFacts ==
  ASSUME NEW m, DOMAIN m = {}, NEW d, NEW p
  PROVE  Facts(Idle, m, d, p)
<1>1. DOMAIN Idle = JobFields /\ Idle.op = "idle"
  BY DEF Idle, JobFields
<1> QED
  BY <1>1 DEF Facts, JobTyped

\* A refusal or a lock timeout: what is not committed is lost.
LEMMA RefuseKeeps ==
  ASSUME PInv, NEW s \in Sessions, Refuse(s)
  PROVE  PInv'
<1>1. DOMAIN mine = Sessions /\ DOMAIN job = Sessions
  BY DEF PInv, Sound
<1>2. /\ db' = db /\ posted' = posted
      /\ mine' = [mine EXCEPT ![s] = NoRows] /\ job' = [job EXCEPT ![s] = Idle]
  BY DEF Refuse, Rollback, Quit
<1>3. /\ DOMAIN mine' = Sessions /\ DOMAIN job' = Sessions
      /\ job'[s] = Idle /\ mine'[s] = NoRows
      /\ \A t \in Sessions \ {s} : job'[t] = job[t] /\ mine'[t] = mine[t]
  BY <1>1, <1>2
<1>4. DOMAIN mine'[s] = {} /\ job'[s].op = "idle"
  BY <1>3 DEF NoRows, Idle
<1>5. Facts(job'[s], mine'[s], db, posted)
  BY <1>3, <1>4, IdleFacts
<1> QED
  BY <1>2, <1>3, <1>4, <1>5, GoesOn
-----------------------------------------------------------------------------
(* The start of a function.                                                *)

\* A function that starts in the company of functions it may overlap with.
LEMMA StartKeeps ==
  ASSUME PInv, Safe, NEW s \in Sessions, NEW op, op # "idle", MayStart(s, op),
         NEW k, k.op = op, job' = [job EXCEPT ![s] = k], Read, UNCHANGED posted,
         Facts(k, mine[s], db, posted)
  PROVE  PInv'
<1>1. /\ DOMAIN mine = Sessions /\ DOMAIN job = Sessions
      /\ \A t \in Sessions : Facts(job[t], mine[t], db, posted)
      /\ \A t, u \in Sessions : t # u => Apart(job[t], job[u]) /\ DOMAIN mine[t] \cap DOMAIN mine[u] = {}
  BY DEF PInv, Sound
<1>2. db' = db /\ mine' = mine /\ posted' = posted
  BY DEF Read
<1>3. job'[s] = k /\ DOMAIN job' = Sessions /\ \A t \in Sessions \ {s} : job'[t] = job[t]
  BY <1>1
<1>4. ASSUME NEW t \in Sessions \ {s} PROVE Apart(k, job[t]) /\ Apart(job[t], k)
  <2>1. job[t].op # "idle" => {op, job[t].op} \notin Harmful
    BY DEF MayStart, Safe
  <2>2. {op, job[t].op} = {job[t].op, op}
    OBVIOUS
  <2> QED
    BY <2>1, <2>2 DEF Apart
<1>5. \A t \in Sessions : Facts(job'[t], mine'[t], db', posted')
  BY <1>1, <1>2, <1>3
<1>6. \A t, u \in Sessions : t # u =>
         Apart(job'[t], job'[u]) /\ DOMAIN mine'[t] \cap DOMAIN mine'[u] = {}
  BY <1>1, <1>2, <1>3, <1>4
<1> QED
  BY <1>1, <1>2, <1>3, <1>5, <1>6 DEF PInv, Sound

\* Every function that starts has read a request it is open to.
LEMMA BeginKeeps ==
  ASSUME RequestAssumption, PInv, Safe, NEW s \in Sessions, NEW op \in Ops \ {"pay"}, NEW arg,
         Begin(s, op, arg),
         op = "price" => arg \in Prices,
         op = "receive" => arg \in Deliveries,
         op = "back" => arg \in Nat \ {0} /\ arg < db[Request].seq
  PROVE  PInv'
<1> DEFINE k == [Idle EXCEPT !.op = op, !.pc = FirstStatement[op], !.arg = arg, !.pr = Header(s)]
<1>1. MayStart(s, op) /\ Header(s).status \in OpenTo(op) /\ job' = [job EXCEPT ![s] = k]
      /\ Read /\ UNCHANGED posted
  BY DEF Begin
<1>2. DOMAIN mine[s] = {} /\ Good(db) /\ Totals(db, posted) /\ posted \in Postings
  BY <1>1 DEF MayStart, PInv, Sound, Facts
<1>3. Header(s) = db[Request]
  BY <1>2, SeenClean
<1>4. /\ DOMAIN k = JobFields /\ k.op = op /\ k.pc = FirstStatement[op] /\ k.arg = arg
      /\ k.pr = db[Request] /\ k.adds = NoPosting
  BY <1>3 DEF Idle, JobFields
<1>5. op \in {"submit", "price", "sign", "reject", "back", "issue", "receive", "close", "cancel"}
  BY DEF Ops, FirstStatement
<1>6. k.pc = CASE op = "submit" -> "clear" [] op = "price" -> "line"
               [] op \in {"sign", "reject", "back"} -> "pick" [] op = "issue" -> "orders"
               [] op = "receive" -> "read" [] OTHER -> "head"
  BY <1>4, <1>5 DEF FirstStatement
<1> HIDE DEF k
<1>7. JobTyped(k)
  <2>1. k.pc \in Points(op)
    BY <1>5, <1>6 DEF Points
  <2>2. NoPosting \in Postings
    BY DEF NoPosting, Postings
  <2> QED
    BY <1>4, <1>5, <2>1, <2>2 DEF JobTyped
<1>8. db[Request].status \in Stands(k)
  BY <1>1, <1>3, <1>4, <1>5 DEF OpenTo, Stands
<1>9. Early(k, mine[s], db, posted)
  <2>1. posted.orders \in Nat /\ posted.orders <= 1
    BY <1>2 DEF Postings, Totals
  <2>2. OrderFacts(k, mine[s], db, posted)
    <3>1. op = "cancel" => db[Line].received = 0
      BY <1>1, <1>2, <1>3, <1>5 DEF Good, Accounts, OpenTo, Delivered
    <3> QED
      BY <1>4, <1>5, <1>6, <2>1, <3>1 DEF OrderFacts, NoPosting
  <2>3. SubmitFacts(k, mine[s], db) /\ PriceFacts(k, mine[s], db) /\ RejectFacts(k, mine[s], db)
    BY <1>4, <1>5, <1>6 DEF SubmitFacts, PriceFacts, RejectFacts
  <2>4. SignFacts(k, mine[s], db) /\ BackFacts(k, mine[s], db)
    BY <1>4, <1>5, <1>6 DEF SignFacts, BackFacts
  <2> QED
    BY <1>2, <2>2, <2>3, <2>4 DEF Early
<1>10. Facts(k, mine[s], db, posted)
  <2>1. k.pc \notin Past
    BY <1>5, <1>6 DEF Past
  <2> QED
    BY <1>2, <1>4, <1>5, <1>7, <1>8, <1>9, <2>1 DEF Facts
<1> QED
  BY <1>1, <1>4, <1>5, <1>10, StartKeeps DEF k

\* A payment starts whatever the status.
LEMMA BeginPayKeeps ==
  ASSUME RequestAssumption, PInv, Safe, NEW s \in Sessions, BeginPay(s)
  PROVE  PInv'
<1> DEFINE k == [Idle EXCEPT !.op = "pay", !.pc = "caps", !.got = Seen(s, Line).received * Header(s).price]
<1>1. MayStart(s, "pay") /\ job' = [job EXCEPT ![s] = k] /\ Read /\ UNCHANGED posted
  BY DEF BeginPay
<1>2. DOMAIN mine[s] = {} /\ Good(db)
  BY <1>1 DEF MayStart, PInv, Sound, Facts
<1>3. Header(s) = db[Request] /\ Seen(s, Line) = db[Line]
  BY <1>2, SeenClean, RowsApart
<1>4. /\ DOMAIN k = JobFields /\ k.op = "pay" /\ k.pc = "caps" /\ k.adds = NoPosting
      /\ k.got = db[Line].received * db[Request].price
  BY <1>3 DEF Idle, JobFields
<1> HIDE DEF k
<1>5. /\ db[Line].received \in Nat /\ db[Request].price \in Nat /\ db[Request].status \in Statuses
  BY <1>2, Columns DEF Good
<1>6. k.got \in Nat /\ k.got <= db[Line].received * db[Request].price
  BY <1>4, <1>5
<1>7. JobTyped(k)
  <2>1. k.pc \in Points(k.op) /\ k.op \in Ops
    BY <1>4 DEF Points, Ops, FirstStatement
  <2>2. NoPosting \in Postings
    BY DEF NoPosting, Postings
  <2> QED
    BY <1>4, <2>1, <2>2 DEF JobTyped
<1>8. db[Request].status \in Stands(k)
  BY <1>4, <1>5 DEF Stands
<1>9. Early(k, mine[s], db, posted)
  BY <1>2, <1>4, <1>6 DEF Early, SubmitFacts, PriceFacts, SignFacts, RejectFacts, BackFacts, OrderFacts
<1>10. Facts(k, mine[s], db, posted)
  <2>1. k.pc \notin Past
    BY <1>4 DEF Past
  <2> QED
    BY <1>2, <1>4, <1>7, <1>8, <1>9, <2>1 DEF Facts
<1> QED
  BY <1>1, <1>4, <1>10, StartKeeps DEF k

\* So does every way to start.
LEMMA StartsKeep ==
  ASSUME RequestAssumption, PInv, Safe, NEW s \in Sessions, Start(s)
  PROVE  PInv'
<1>1. CASE \E n \in 1 .. (Header(s).seq - 1) : Begin(s, "back", n)
  <2>1. PICK n \in 1 .. (Header(s).seq - 1) : Begin(s, "back", n)
    BY <1>1
  <2>2. DOMAIN mine[s] = {}
    BY <2>1 DEF Begin, MayStart, PInv, Sound, Facts
  <2>3. Header(s) = db[Request] /\ db[Request].seq \in Nat
    BY <2>2, SeenClean DEF PInv, Sound, Good, RowsTyped, HeaderRow
  <2>4. n \in Nat \ {0} /\ n < db[Request].seq
    BY <2>3
  <2>5. "back" \in Ops \ {"pay"}
    BY DEF Ops, FirstStatement
  <2> QED
    BY <2>1, <2>4, <2>5, BeginKeeps
<1>2. CASE RoomFor(Cardinality(Prices)) /\ Begin(s, "submit", 0)
  <2>1. "submit" \in Ops \ {"pay"}
    BY DEF Ops, FirstStatement
  <2> QED
    BY <1>2, <2>1, BeginKeeps
<1>3. CASE \E p \in Prices : RoomFor(1) /\ Begin(s, "price", p)
  <2>1. "price" \in Ops \ {"pay"}
    BY DEF Ops, FirstStatement
  <2> QED
    BY <1>3, <2>1, BeginKeeps
<1>4. CASE \E op \in {"sign", "reject", "issue", "close", "cancel"} : Begin(s, op, 0)
  <2>1. {"sign", "reject", "issue", "close", "cancel"} \subseteq Ops \ {"pay"}
    BY DEF Ops, FirstStatement
  <2> QED
    BY <1>4, <2>1, BeginKeeps
<1>5. CASE \E q \in Deliveries : Begin(s, "receive", q)
  <2>1. "receive" \in Ops \ {"pay"}
    BY DEF Ops, FirstStatement
  <2> QED
    BY <1>5, <2>1, BeginKeeps
<1> QED
  BY <1>1, <1>2, <1>3, <1>4, <1>5, BeginPayKeeps DEF Start
-----------------------------------------------------------------------------
(* Statements before the lock on pr_requests.                              *)

\* A write of one row is a write of several.
LEMMA WriteIsAll ==
  ASSUME NEW s, NEW r, NEW v, Write(s, r, v), NEW rows, rows = [x \in {r} |-> v]
  PROVE  WriteAll(s, rows)
BY DEF Write, WriteAll

\* A session goes on after a write.
LEMMA WriteMovesOn ==
  ASSUME PInv, NEW s \in Sessions, NEW rows, WriteAll(s, rows), posted' = posted,
         NEW k, job' = [job EXCEPT ![s] = k], k.op = job[s].op,
         NEW n, n = Over(rows, mine[s]), Facts(k, n, db, posted)
  PROVE  PInv'
<1>1. DOMAIN mine = Sessions /\ DOMAIN job = Sessions
      /\ \A t \in Sessions \ {s} : DOMAIN mine[s] \cap DOMAIN mine[t] = {}
  BY DEF PInv, Sound
<1>2. db' = db /\ mine' = [mine EXCEPT ![s] = Over(rows, mine[s])] /\ posted' = posted
      /\ \A r \in DOMAIN rows : Free(s, r)
  BY DEF WriteAll
<1>3. /\ job'[s] = k /\ DOMAIN job' = Sessions /\ \A t \in Sessions \ {s} : job'[t] = job[t]
      /\ mine'[s] = n /\ DOMAIN mine' = Sessions /\ \A t \in Sessions \ {s} : mine'[t] = mine[t]
  BY <1>1, <1>2
<1>4. DOMAIN n = DOMAIN mine[s] \cup DOMAIN rows
  BY DEF Over
<1>5. \A t \in Sessions \ {s} : DOMAIN mine'[s] \cap DOMAIN mine[t] = {}
  BY <1>1, <1>2, <1>3, <1>4 DEF Free
<1>6. job'[s].op \in {job[s].op, "idle"} /\ Facts(job'[s], mine'[s], db, posted)
  BY <1>3
<1>7. db' = db /\ posted' = posted
  BY <1>2
<1>8. /\ DOMAIN mine' = Sessions /\ DOMAIN job' = Sessions
      /\ \A t \in Sessions \ {s} : job'[t] = job[t] /\ mine'[t] = mine[t]
  BY <1>3
<1> QED
  BY <1>5, <1>6, <1>7, <1>8, GoesOn

\* The same, when only its place in the function changes.
LEMMA WriteGoesOn ==
  ASSUME PInv, NEW s \in Sessions, NEW rows, WriteAll(s, rows), UNCHANGED posted,
         NEW pc, Goto(s, pc), NEW k, k = [job[s] EXCEPT !.pc = pc],
         job[s].op # "idle",
         NEW n, n = Over(rows, mine[s]), Facts(k, n, db, posted)
  PROVE  PInv'
<1>1. job' = [job EXCEPT ![s] = k] /\ posted' = posted
  BY DEF Goto
<1>2. k.op = job[s].op
  <2>1. DOMAIN job[s] = JobFields
    BY AtWork
  <2> QED
    BY <2>1, GotoIs
<1> QED
  BY <1>1, <1>2, WriteMovesOn

\* price_pr writes the line first.
LEMMA PriceLineKeeps ==
  ASSUME RequestAssumption, PInv, NEW s \in Sessions, PriceLine(s)
  PROVE  PInv'
<1> DEFINE j == job[s]
           k == [j EXCEPT !.pc = "head"]
           rows == [x \in {Line} |-> Seen(s, Line)]
           n == Over(rows, mine[s])
<1>0. k = [j EXCEPT !.pc = "head"] /\ rows = [x \in {Line} |-> Seen(s, Line)] /\ n = Over(rows, mine[s])
  OBVIOUS
<1> HIDE DEF k, n, rows
<1>1. /\ j.op = "price" /\ j.pc = "line" /\ Write(s, Line, Seen(s, Line))
      /\ Goto(s, "head") /\ UNCHANGED posted
  BY DEF PriceLine, At
<1>2. /\ JobTyped(j) /\ DOMAIN j = JobFields /\ db[Request].status \in Stands(j)
      /\ Early(j, mine[s], db, posted)
  BY <1>1, AtWork DEF Past
<1>3. DOMAIN mine[s] = {} /\ PriceFacts(j, mine[s], db)
  BY <1>1, <1>2 DEF Early, Clean
<1>4. Seen(s, Line) = db[Line]
  BY <1>3, SeenClean, RowsApart
<1>5. DOMAIN n = {Line} /\ n[Line] = db[Line]
  <2>1. DOMAIN n = DOMAIN mine[s] \cup DOMAIN rows /\ \A x \in DOMAIN rows : n[x] = rows[x]
    BY <1>0 DEF Over
  <2>2. DOMAIN rows = {Line} /\ rows[Line] = Seen(s, Line)
    BY <1>0
  <2> QED
    BY <1>3, <1>4, <2>1, <2>2
<1>6. /\ DOMAIN k = JobFields /\ k.op = "price" /\ k.pc = "head" /\ k.arg = j.arg /\ k.pr = j.pr
      /\ k.adds = j.adds
  BY <1>0, <1>1, <1>2, GotoIs
<1>7. JobTyped(k)
  BY <1>1, <1>2, <1>6 DEF JobTyped, Points, Past
<1>8. Early(k, n, db, posted)
  <2>1. Request \notin DOMAIN n
    BY <1>5, RowsApart
  <2>2. PriceFacts(k, n, db)
    BY <1>1, <1>3, <1>5, <1>6 DEF PriceFacts
  <2> QED
    BY <1>6, <2>1, <2>2 DEF Early, Clean, SubmitFacts, SignFacts, RejectFacts, BackFacts, OrderFacts
<1>9. Facts(k, n, db, posted)
  BY <1>1, <1>2, <1>5, <1>6, <1>7, <1>8, RowsApart DEF Facts, Stands, Past
<1>10. WriteAll(s, rows)
  BY <1>0, <1>1, WriteIsAll
<1> QED
  BY <1>0, <1>1, <1>9, <1>10, WriteGoesOn
\* act_on_step and send_back pick the step they act on.
LEMMA PickKeeps ==
  ASSUME RequestAssumption, PInv, NEW s \in Sessions, Pick(s)
  PROVE  PInv'
<1> DEFINE j == job[s]
           open == {i \in Pending(s, j.pr.seq) : ~Unpriced(j, Seen(s, i).stage)}
           ok == open # {} /\ (j.op = "back" => HasRung(s, j.arg))
<1>1. j.op \in {"sign", "reject", "back"} /\ j.pc = "pick"
  BY DEF Pick, At
<1>2. /\ JobTyped(j) /\ DOMAIN j = JobFields /\ db[Request].status \in Stands(j)
      /\ Early(j, mine[s], db, posted) /\ RowsTyped(db)
  BY <1>1, AtWork DEF Past
<1>3. DOMAIN mine[s] = {} /\ SignFacts(j, mine[s], db) /\ BackFacts(j, mine[s], db)
  BY <1>1, <1>2 DEF Early, Clean
<1>4. /\ \A r \in Rows : Seen(s, r) = db[r]
      /\ Ladder(s) = LiveIn(db)
  BY <1>3, SeenClean
<1>5. ASSUME ~ok PROVE PInv'
  <2>1. Refuse(s)
    BY <1>5 DEF Pick
  <2> QED
    BY <2>1, RefuseKeeps
<1>6. ASSUME ok PROVE PInv'
  <2>1. /\ Read /\ UNCHANGED posted
        /\ \E i \in open : job' = [job EXCEPT ![s].id = i, ![s].rung = Seen(s, i).rung,
                                              ![s].pc = IF j.op = "back" THEN "reopen" ELSE "write"]
    BY <1>6 DEF Pick
  <2>2. PICK i \in open : job' = [job EXCEPT ![s].id = i, ![s].rung = Seen(s, i).rung,
                                             ![s].pc = IF j.op = "back" THEN "reopen" ELSE "write"]
    BY <2>1
  <2> DEFINE k == [j EXCEPT !.id = i, !.rung = Seen(s, i).rung,
                            !.pc = IF j.op = "back" THEN "reopen" ELSE "write"]
  <2>3. job' = [job EXCEPT ![s] = k]
    BY <2>2
  <2>4. /\ DOMAIN k = JobFields /\ k.op = j.op /\ k.id = i /\ k.rung = Seen(s, i).rung
        /\ k.pc = (IF j.op = "back" THEN "reopen" ELSE "write")
        /\ k.arg = j.arg /\ k.pr = j.pr /\ k.adds = j.adds
    BY <1>2 DEF JobFields
  <2> HIDE DEF k
  <2>5. i \in LiveIn(db) /\ i \in Steps /\ db[i].rung = j.pr.seq /\ k.rung = db[i].rung /\ db[i] # NoStep
    <3>1. i \in Ladder(s) /\ Seen(s, i).rung = j.pr.seq
      BY DEF Pending
    <3>2. i \in LiveIn(db) /\ i \in Steps
      BY <1>4, <3>1 DEF LiveIn
    <3>3. Seen(s, i) = db[i]
      BY <1>4, <3>2 DEF Rows
    <3> QED
      BY <2>4, <3>1, <3>2, <3>3 DEF LiveIn, NoStep
  <2>6. j.op = "back" => \E x \in LiveIn(db) : db[x].rung = j.arg
    <3>1. \A x \in LiveIn(db) : Seen(s, x) = db[x]
      BY <1>4 DEF Rows, LiveIn
    <3>2. j.op = "back" => \E x \in LiveIn(db) : Seen(s, x).rung = j.arg
      BY <1>4, <1>6 DEF HasRung, Rungs
    <3> QED
      BY <3>1, <3>2
  <2>7. JobTyped(k)
    BY <1>1, <1>2, <2>4 DEF JobTyped, Points, Past
  <2>8. Early(k, mine[s], db, posted)
    <3>1. SignFacts(k, mine[s], db)
      BY <1>1, <1>3, <2>4, <2>5 DEF SignFacts
    <3>2. RejectFacts(k, mine[s], db)
      BY <1>1, <2>4, <2>5 DEF RejectFacts
    <3>3. BackFacts(k, mine[s], db)
      BY <1>1, <1>3, <2>4, <2>6 DEF BackFacts
    <3> QED
      BY <1>1, <1>3, <2>4, <3>1, <3>2, <3>3 DEF Early, SubmitFacts, PriceFacts, OrderFacts
  <2>9. Facts(k, mine[s], db, posted)
    <3>1. k.pc \notin Past /\ db[Request].status \in Stands(k)
      BY <1>1, <1>2, <2>4 DEF Past, Stands
    <3> QED
      BY <1>1, <1>3, <2>4, <2>7, <2>8, <3>1 DEF Facts
  <2> QED
    BY <2>1, <2>3, <2>4, <2>9, ReadGoesOn
<1> QED
  BY <1>5, <1>6

\* receive_items reads what has come, and writes what will have.
LEMMA ReadLineKeeps ==
  ASSUME RequestAssumption, PInv, NEW s \in Sessions, ReadLine(s)
  PROVE  PInv'
<1> DEFINE j == job[s]
           k == [j EXCEPT !.got = Seen(s, Line).received, !.pc = "put"]
<1>1. /\ j.op = "receive" /\ j.pc = "read" /\ Read /\ UNCHANGED posted
      /\ job' = [job EXCEPT ![s].got = Seen(s, Line).received, ![s].pc = "put"]
  BY DEF ReadLine, At
<1>2. /\ JobTyped(j) /\ DOMAIN j = JobFields /\ db[Request].status \in Stands(j)
      /\ Early(j, mine[s], db, posted)
  BY <1>1, AtWork DEF Past
<1>3. DOMAIN mine[s] = {} /\ OrderFacts(j, mine[s], db, posted)
  BY <1>1, <1>2 DEF Early, Clean
<1>4. Seen(s, Line) = db[Line]
  BY <1>3, SeenClean, RowsApart
<1>5. job' = [job EXCEPT ![s] = k]
  BY <1>1
<1>6. /\ DOMAIN k = JobFields /\ k.op = "receive" /\ k.pc = "put" /\ k.got = db[Line].received
      /\ k.arg = j.arg /\ k.adds = j.adds
  BY <1>1, <1>2, <1>4 DEF JobFields
<1> HIDE DEF k
<1>7. JobTyped(k)
  BY <1>1, <1>2, <1>6 DEF JobTyped, Points, Past
<1>8. Early(k, mine[s], db, posted)
  BY <1>1, <1>3, <1>6 DEF Early, SubmitFacts, PriceFacts, SignFacts, RejectFacts, BackFacts, OrderFacts
<1>9. Facts(k, mine[s], db, posted)
  BY <1>1, <1>2, <1>3, <1>6, <1>7, <1>8 DEF Facts, Stands, Past
<1> QED
  BY <1>1, <1>5, <1>6, <1>9, ReadGoesOn

\* issue_po writes the orders that are not there yet.
LEMMA OrdersKeeps ==
  ASSUME RequestAssumption, PInv, NEW s \in Sessions, Orders(s)
  PROVE  PInv'
<1> DEFINE j == job[s]
           one == IF posted.orders = 0 THEN 1 ELSE 0
           k == [j EXCEPT !.pc = "head", !.adds.orders = one]
<1>1. /\ j.op = "issue" /\ j.pc = "orders" /\ Read /\ UNCHANGED posted
      /\ job' = [job EXCEPT ![s].pc = "head", ![s].adds.orders = IF posted.orders = 0 THEN 1 ELSE 0]
  BY DEF Orders, At
<1>2. /\ JobTyped(j) /\ DOMAIN j = JobFields /\ db[Request].status \in Stands(j)
      /\ Early(j, mine[s], db, posted)
  BY <1>1, AtWork DEF Past
<1>3. DOMAIN mine[s] = {} /\ j.adds = NoPosting
  BY <1>1, <1>2 DEF Early, Clean, OrderFacts
<1>4. posted \in Postings /\ posted.orders <= 1
  BY DEF PInv, Sound, Totals
<1>5. job' = [job EXCEPT ![s] = k]
  BY <1>1
<1>6. /\ DOMAIN k = JobFields /\ k.op = "issue" /\ k.pc = "head"
      /\ k.adds = [NoPosting EXCEPT !.orders = one]
  BY <1>1, <1>2, <1>3 DEF JobFields
<1>7. /\ k.adds \in Postings /\ k.adds.paid = 0 /\ k.adds.goods = 0 /\ posted.orders + k.adds.orders <= 1
  <2>1. one \in Nat /\ posted.orders + one <= 1
    BY <1>4 DEF Postings
  <2> QED
    BY <1>6, <2>1 DEF NoPosting, Postings
<1> HIDE DEF k
<1>8. JobTyped(k)
  BY <1>1, <1>2, <1>6, <1>7 DEF JobTyped, Points, Past
<1>9. Early(k, mine[s], db, posted)
  BY <1>1, <1>3, <1>6, <1>7 DEF Early, SubmitFacts, PriceFacts, SignFacts, RejectFacts, BackFacts, OrderFacts
<1>10. Facts(k, mine[s], db, posted)
  BY <1>1, <1>2, <1>3, <1>6, <1>8, <1>9 DEF Facts, Stands, Past
<1>11. Read /\ UNCHANGED posted /\ k.op = job[s].op
  BY <1>1, <1>6
<1> QED
  BY <1>5, <1>10, <1>11, ReadGoesOn
\* The smaller of two numbers.
LEMMA MinOfTwo ==
  ASSUME NEW a \in Nat, NEW b \in Nat
  PROVE  Min({a, b}) = IF a <= b THEN a ELSE b
<1> DEFINE least == IF a <= b THEN a ELSE b
<1>1. least \in {a, b} /\ \A y \in {a, b} : least <= y
  OBVIOUS
<1>2. \A x \in {a, b} : (\A y \in {a, b} : x <= y) => x = least
  OBVIOUS
<1> QED
  BY <1>1, <1>2 DEF Min

\* The goods that are in once a receipt is written.
LEMMA ReceiptIs ==
  ASSUME RequestAssumption, NEW got \in Nat, got <= Ordered, NEW arg \in Deliveries
  PROVE  /\ Min({Ordered, got + arg}) \in 1 .. Ordered
         /\ got <= Min({Ordered, got + arg})
<1>1. Ordered \in Nat \ {0} /\ arg \in Nat \ {0}
  BY DEF RequestAssumption
<1>2. Min({Ordered, got + arg}) = IF Ordered <= got + arg THEN Ordered ELSE got + arg
  BY <1>1, MinOfTwo
<1> QED
  BY <1>1, <1>2

\* The line of the order, with what a receipt brings.
LEMMA PutLineKeeps ==
  ASSUME RequestAssumption, PInv, NEW s \in Sessions, PutLine(s)
  PROVE  PInv'
<1> DEFINE j == job[s]
           total == Min({Ordered, j.got + j.arg})
           k == [j EXCEPT !.pc = "head", !.adds.goods = total - j.got]
           rows == [x \in {Line} |-> [received |-> total]]
           n == Over(rows, mine[s])
<1>0. /\ rows = [x \in {Line} |-> [received |-> total]]
      /\ n = Over(rows, mine[s])
  OBVIOUS
<1>1. /\ j.op = "receive" /\ j.pc = "put" /\ Write(s, Line, [received |-> total])
      /\ job' = [job EXCEPT ![s].pc = "head", ![s].adds.goods = total - j.got] /\ UNCHANGED posted
  BY DEF PutLine, At
<1>2. /\ JobTyped(j) /\ DOMAIN j = JobFields /\ db[Request].status \in Stands(j)
      /\ Early(j, mine[s], db, posted) /\ RowsTyped(db)
  BY <1>1, AtWork DEF Past
<1>3. /\ DOMAIN mine[s] = {} /\ j.got = db[Line].received /\ j.adds = NoPosting
      /\ j.arg \in Deliveries
  BY <1>1, <1>2 DEF Early, Clean, OrderFacts, JobTyped
<1>4. /\ j.got \in Nat /\ total \in 1 .. Ordered /\ j.got <= total /\ Ordered \in Nat
  <2>1. db[Line].received \in Nat /\ db[Line].received <= Ordered /\ Ordered \in Nat
    BY <1>2, Columns
  <2> QED
    BY <1>3, <2>1, ReceiptIs
<1>5. job' = [job EXCEPT ![s] = k]
  BY <1>1
<1>6. /\ DOMAIN k = JobFields /\ k.op = "receive" /\ k.pc = "head" /\ k.got = j.got /\ k.arg = j.arg
      /\ k.adds = [NoPosting EXCEPT !.goods = total - j.got]
  BY <1>1, <1>2, <1>3 DEF JobFields
<1> HIDE DEF total
<1>7. /\ k.adds \in Postings /\ k.adds.paid = 0 /\ k.adds.orders = 0 /\ k.got + k.adds.goods = total
  <2>1. total - j.got \in Nat /\ j.got + (total - j.got) = total
    BY <1>4
  <2>2. k.adds = [paid |-> 0, goods |-> total - j.got, orders |-> 0]
    BY <1>6 DEF NoPosting
  <2> QED
    BY <1>6, <2>1, <2>2 DEF Postings
<1>8. DOMAIN n = {Line} /\ n[Line] = [received |-> total]
  <2>1. DOMAIN n = DOMAIN mine[s] \cup DOMAIN rows /\ \A x \in DOMAIN rows : n[x] = rows[x]
    BY <1>0 DEF Over
  <2>2. DOMAIN rows = {Line} /\ rows[Line] = [received |-> total]
    BY <1>0
  <2> QED
    BY <1>3, <2>1, <2>2
<1> HIDE DEF k, n, rows
<1>9. JobTyped(k)
  BY <1>1, <1>2, <1>6, <1>7 DEF JobTyped, Points, Past
<1>10. Early(k, n, db, posted)
  <2>1. Request \notin DOMAIN n
    BY <1>8, RowsApart
  <2>2. OrderFacts(k, n, db, posted)
    BY <1>3, <1>4, <1>6, <1>7, <1>8 DEF OrderFacts
  <2> QED
    BY <1>6, <2>1, <2>2 DEF Early, Clean, SubmitFacts, PriceFacts, SignFacts, RejectFacts, BackFacts
<1>11. Facts(k, n, db, posted)
  <2>1. DOMAIN n \subseteq Rows
    BY <1>8, RowsApart
  <2>2. k.op # "idle" /\ k.pc \notin Past /\ db[Request].status \in Stands(k)
    BY <1>1, <1>2, <1>6 DEF Stands, Past
  <2> QED
    BY <1>9, <1>10, <2>1, <2>2 DEF Facts
<1>12. WriteAll(s, rows) /\ k.op = j.op
  BY <1>0, <1>1, <1>6, WriteIsAll
<1>13. posted' = posted
  BY <1>1
<1> QED
  BY <1>0, <1>5, <1>11, <1>12, <1>13, WriteMovesOn
\* add_payment goes on with what the received goods allow.
LEMMA CapsKeeps ==
  ASSUME RequestAssumption, PInv, NEW s \in Sessions, Caps(s)
  PROVE  PInv'
<1> DEFINE j == job[s]
           open == Header(s).status \in OpenTo("pay") /\ Header(s).paid + Amount <= j.got
           k == [j EXCEPT !.pr = Header(s), !.pc = "head", !.adds.paid = Amount]
<1>1. j.op = "pay" /\ j.pc = "caps"
  BY DEF Caps, At
<1>2. /\ JobTyped(j) /\ DOMAIN j = JobFields /\ Early(j, mine[s], db, posted) /\ RowsTyped(db)
  BY <1>1, AtWork DEF Past
<1>3. /\ DOMAIN mine[s] = {} /\ j.adds = NoPosting
      /\ j.got \in Nat /\ j.got <= db[Line].received * db[Request].price
  BY <1>1, <1>2 DEF Early, Clean, OrderFacts
<1>4. Header(s) = db[Request]
  BY <1>3, SeenClean
<1>5. ASSUME ~open PROVE PInv'
  <2>1. Refuse(s)
    BY <1>5 DEF Caps
  <2> QED
    BY <2>1, RefuseKeeps
<1>6. ASSUME open PROVE PInv'
  <2>1. /\ Read /\ UNCHANGED posted
        /\ job' = [job EXCEPT ![s].pr = Header(s), ![s].pc = "head", ![s].adds.paid = Amount]
    BY <1>6 DEF Caps
  <2>2. job' = [job EXCEPT ![s] = k]
    BY <2>1
  <2>3. /\ DOMAIN k = JobFields /\ k.op = "pay" /\ k.pc = "head" /\ k.pr = db[Request]
        /\ k.adds = [NoPosting EXCEPT !.paid = Amount]
    BY <1>1, <1>2, <1>3, <1>4 DEF JobFields
  <2> HIDE DEF k
  <2>4. k.adds \in Postings
    BY <2>3 DEF NoPosting, Postings, RequestAssumption
  <2>5. JobTyped(k)
    BY <1>1, <1>2, <2>3, <2>4 DEF JobTyped, Points, Past
  <2>6. k.pr.paid = db[Request].paid /\ k.pr.paid + Amount <= db[Line].received * db[Request].price
    <3>1. /\ db[Line].received \in Nat /\ db[Request].price \in Nat /\ db[Request].paid \in Nat
          /\ Amount \in Nat
      BY <1>2, Columns DEF RequestAssumption
    <3>2. db[Line].received * db[Request].price \in Nat
      BY <3>1
    <3>3. db[Request].paid + Amount <= j.got
      BY <1>4, <1>6
    <3> DEFINE value == db[Line].received * db[Request].price
    <3>4. value \in Nat /\ j.got <= value
      BY <1>3, <3>2
    <3> HIDE DEF value
    <3>5. db[Request].paid + Amount <= value
      BY <1>3, <3>1, <3>3, <3>4
    <3> QED
      BY <2>3, <3>5 DEF value
  <2>7. Early(k, mine[s], db, posted)
    BY <1>3, <2>3, <2>6, RowsApart DEF Early, SubmitFacts, PriceFacts, SignFacts, RejectFacts, BackFacts, OrderFacts
  <2>8. Facts(k, mine[s], db, posted)
    <3>1. db[Request].status \in Stands(k)
      BY <1>4, <1>6, <2>3 DEF Stands, OpenTo
    <3> QED
      BY <1>3, <2>3, <2>5, <2>7, <3>1 DEF Facts, Past
  <2>9. k.op = j.op
    BY <1>1, <2>3
  <2> QED
    BY <2>1, <2>2, <2>8, <2>9, ReadGoesOn
<1> QED
  BY <1>5, <1>6

\* The signature, or the refusal, on the step that was picked.
LEMMA SignKeeps ==
  ASSUME RequestAssumption, PInv, NEW s \in Sessions, Sign(s)
  PROVE  PInv'
<1> DEFINE j == job[s]
           row == Seen(s, j.id)
           signed == IF row = Gone THEN Gone
                     ELSE [row EXCEPT !.status = IF j.op = "sign" THEN "approved" ELSE "rejected"]
           pc == IF j.op = "sign" THEN "count" ELSE "head"
           k == [j EXCEPT !.pc = pc]
           rows == [x \in {j.id} |-> signed]
           n == Over(rows, mine[s])
<1>0. /\ k = [j EXCEPT !.pc = pc]
      /\ rows = [x \in {j.id} |-> signed]
      /\ n = Over(rows, mine[s])
  OBVIOUS
<1>1. /\ j.op \in {"sign", "reject"} /\ j.pc = "write" /\ Write(s, j.id, signed) /\ Goto(s, pc)
      /\ UNCHANGED posted
  BY DEF Sign, At
<1>2. /\ JobTyped(j) /\ DOMAIN j = JobFields /\ db[Request].status \in Stands(j)
      /\ Early(j, mine[s], db, posted)
  BY <1>1, AtWork DEF Past
<1>3. /\ DOMAIN mine[s] = {} /\ j.adds = NoPosting
      /\ SignFacts(j, mine[s], db) /\ RejectFacts(j, mine[s], db)
  BY <1>1, <1>2 DEF Early, JobTyped, Past
<1>4. j.id \in Steps /\ (j.op = "sign" => j.id \in LiveIn(db))
  BY <1>1, <1>3 DEF SignFacts, RejectFacts, LiveIn
<1>5. row = db[j.id]
  BY <1>3, <1>4, SeenClean DEF Rows
<1>6. j.op = "sign" => signed = [db[j.id] EXCEPT !.status = "approved"]
  BY <1>4, <1>5 DEF LiveIn, Gone, NoStep
<1>7. j.op = "reject" => signed = IF db[j.id] = Gone THEN Gone ELSE [db[j.id] EXCEPT !.status = "rejected"]
  BY <1>5
<1> HIDE DEF signed
<1>8. DOMAIN n = {j.id} /\ n[j.id] = signed
  <2>1. DOMAIN n = DOMAIN mine[s] \cup DOMAIN rows /\ \A x \in DOMAIN rows : n[x] = rows[x]
    BY <1>0 DEF Over
  <2>2. DOMAIN rows = {j.id} /\ rows[j.id] = signed
    BY <1>0
  <2> QED
    BY <1>3, <2>1, <2>2
<1>9. /\ DOMAIN k = JobFields /\ k.op = j.op /\ k.pc = pc /\ k.id = j.id /\ k.rung = j.rung
      /\ k.arg = j.arg /\ k.adds = j.adds
  BY <1>2, GotoIs
<1> HIDE DEF k, n, rows
<1>10. JobTyped(k)
  BY <1>1, <1>2, <1>3, <1>9 DEF JobTyped, Points, Past
<1>11. Early(k, n, db, posted)
  <2>1. Request \notin DOMAIN n
    BY <1>4, <1>8, RowsApart
  <2>2. SignFacts(k, n, db)
    BY <1>1, <1>3, <1>6, <1>8, <1>9 DEF SignFacts
  <2>3. RejectFacts(k, n, db)
    BY <1>1, <1>3, <1>7, <1>8, <1>9 DEF RejectFacts
  <2> QED
    BY <1>1, <1>9, <2>1, <2>2, <2>3 DEF Early, Clean, SubmitFacts, PriceFacts, BackFacts, OrderFacts
<1>12. Facts(k, n, db, posted)
  <2>1. DOMAIN n \subseteq Rows
    BY <1>4, <1>8, RowsApart
  <2>2. k.op # "idle" /\ k.pc \notin Past /\ db[Request].status \in Stands(k)
    BY <1>1, <1>2, <1>9 DEF Stands, Past
  <2> QED
    BY <1>10, <1>11, <2>1, <2>2 DEF Facts
<1>13. WriteAll(s, rows)
  BY <1>0, <1>1, WriteIsAll
<1>14. j.op # "idle"
  BY <1>1
<1> QED
  BY <1>0, <1>1, <1>12, <1>13, <1>14, WriteGoesOn
-----------------------------------------------------------------------------
(* The ladder while signatures come and go.                                *)

\* A finite set of numbers has a least and a greatest.
LEMMA Extremes ==
  ASSUME NEW S, IsFiniteSet(S), S # {}, S \subseteq Nat
  PROVE  /\ \E x \in S : \A y \in S : x <= y
         /\ \E x \in S : \A y \in S : x >= y
<1> DEFINE Low(T) == \E x \in T : \A y \in T : x <= y
           High(T) == \E x \in T : \A y \in T : x >= y
           F == {T \in SUBSET S : T = {} \/ (Low(T) /\ High(T))}
<1>1. ASSUME NEW T \in SUBSET S, \A U \in SUBSET T : U # T => U \in F
      PROVE  T \in F
  <2>1. SUFFICES ASSUME T # {} PROVE Low(T) /\ High(T)
    OBVIOUS
  <2>2. PICK x \in T : TRUE
    BY <2>1
  <2> DEFINE U == T \ {x}
  <2>3. U \in SUBSET T /\ U # T /\ T = U \cup {x} /\ x \in Nat /\ U \subseteq Nat
    BY <2>2
  <2>4. U = {} \/ (Low(U) /\ High(U))
    BY <1>1, <2>3
  <2> HIDE DEF U
  <2>5. CASE U = {}
    <3>1. T = {x}
      BY <2>3, <2>5
    <3> QED
      BY <2>3, <3>1
  <2>6. CASE Low(U) /\ High(U)
    <3>1. Low(T)
      <4>1. PICK z \in U : \A y \in U : z <= y
        BY <2>6
      <4>2. CASE x <= z
        <5>1. \A y \in T : x <= y
          BY <2>3, <4>1, <4>2
        <5> QED
          BY <2>3, <5>1
      <4>3. CASE ~(x <= z)
        <5>1. \A y \in T : z <= y
          BY <2>3, <4>1, <4>3
        <5> QED
          BY <2>3, <4>1, <5>1
      <4> QED
        BY <4>2, <4>3
    <3>2. High(T)
      <4>1. PICK z \in U : \A y \in U : z >= y
        BY <2>6
      <4>2. CASE x >= z
        <5>1. \A y \in T : x >= y
          BY <2>3, <4>1, <4>2
        <5> QED
          BY <2>3, <5>1
      <4>3. CASE ~(x >= z)
        <5>1. \A y \in T : z >= y
          BY <2>3, <4>1, <4>3
        <5> QED
          BY <2>3, <4>1, <5>1
      <4> QED
        BY <4>2, <4>3
    <3> QED
      BY <3>1, <3>2
  <2> QED
    BY <2>4, <2>5, <2>6
<1> HIDE DEF F
<1>2. SUBSET S \subseteq F
  BY <1>1, SubsetInduction
<1>3. S \in F
  BY <1>2
<1> QED
  BY <1>3 DEF F

\* What Min and Max choose.
LEMMA MinMaxIs ==
  ASSUME NEW S, IsFiniteSet(S), S # {}, S \subseteq Nat
  PROVE  /\ Min(S) \in S /\ \A y \in S : Min(S) <= y
         /\ Max(S) \in S /\ \A y \in S : Max(S) >= y
<1>1. /\ \E x \in S : \A y \in S : x <= y
      /\ \E x \in S : \A y \in S : x >= y
  BY Extremes
<1> QED
  BY <1>1 DEF Min, Max

\* The rungs of some rows are finitely many numbers.
LEMMA RungsFinite ==
  ASSUME RequestAssumption, NEW d, RowsTyped(d), NEW ids \in SUBSET LiveIn(d)
  PROVE  /\ {d[i].rung : i \in ids} \subseteq Nat \ {0}
         /\ IsFiniteSet({d[i].rung : i \in ids})
<1>1. ids \subseteq Steps
  BY DEF LiveIn
<1>2. IsFiniteSet(ids)
  BY <1>1, FS_Subset DEF RequestAssumption
<1>3. \A i \in ids : d[i].rung \in Nat \ {0}
  BY <1>1 DEF RowsTyped, LiveIn, StepRow, NoStep, Gone
<1>4. IsFiniteSet({d[i].rung : i \in ids})
  <2> DEFINE R == {d[i].rung : i \in ids}
             f == [i \in ids |-> d[i].rung]
  <2>1. f \in Surjection(ids, R)
    BY DEF Surjection
  <2> QED
    BY <1>2, <2>1, FS_Surjection
<1> QED
  BY <1>3, <1>4
\* A row with another status.
LEMMA StatusRow ==
  ASSUME NEW r \in StepRow, NEW st \in {"pending", "approved", "rejected"},
         NEW q, q = [r EXCEPT !.status = st]
  PROVE  q \in StepRow /\ q.rung = r.rung /\ q.stage = r.stage /\ q.status = st
         /\ q.status \notin {"none", "gone"}
BY DEF StepRow

\* Steps written with a new status: the ladder keeps its rungs and stages.
LEMMA NewStatus ==
  ASSUME RequestAssumption, NEW d, RowsTyped(d),
         NEW m, DOMAIN m \subseteq Steps \cup {Request},
         NEW st \in {"pending", "approved", "rejected"},
         \A i \in DOMAIN m \ {Request} : i \in LiveIn(d) /\ m[i] = [d[i] EXCEPT !.status = st],
         NEW e, e = Over(m, d)
  PROVE  /\ DOMAIN e = Rows /\ e[Line] = d[Line]
         /\ e[Request] = IF Request \in DOMAIN m THEN m[Request] ELSE d[Request]
         /\ \A i \in Steps : e[i] \in StepRow \/ e[i] \in {NoStep, Gone}
         /\ \A i \in Steps : d[i] # NoStep => e[i] # NoStep
         /\ LiveIn(e) = LiveIn(d)
         /\ \A i \in LiveIn(d) : /\ e[i].rung = d[i].rung /\ e[i].stage = d[i].stage
                                 /\ e[i].status = IF i \in DOMAIN m THEN st ELSE d[i].status
<1>1. /\ DOMAIN e = Rows /\ \A r \in DOMAIN m : e[r] = m[r]
      /\ \A r \in Rows \ DOMAIN m : e[r] = d[r]
  <2>1. DOMAIN m \subseteq Rows /\ DOMAIN d = Rows
    BY DEF RowsTyped, Rows
  <2> QED
    BY <2>1, OverIs
<1>2. e[Line] = d[Line] /\ e[Request] = IF Request \in DOMAIN m THEN m[Request] ELSE d[Request]
  BY <1>1, RowsApart
<1>3. \A i \in LiveIn(d) : i \in Steps /\ d[i] \in StepRow
  BY DEF LiveIn, RowsTyped, NoStep, Gone
<1>4. ASSUME NEW i \in Steps, i \in DOMAIN m
      PROVE  /\ i \in LiveIn(d) /\ e[i] \in StepRow /\ e[i].status = st /\ e[i].status \notin {"none", "gone"}
             /\ e[i].rung = d[i].rung /\ e[i].stage = d[i].stage
  <2>1. i \in LiveIn(d) /\ e[i] = [d[i] EXCEPT !.status = st]
    BY <1>1, <1>4, RowsApart
  <2> QED
    BY <1>3, <2>1, StatusRow
<1>5. ASSUME NEW i \in Steps, i \notin DOMAIN m PROVE e[i] = d[i]
  BY <1>1, <1>5, RowsApart
<1>6. \A i \in Steps : e[i] \in StepRow \/ e[i] \in {NoStep, Gone}
  BY <1>4, <1>5 DEF RowsTyped
<1>7. LiveIn(e) = LiveIn(d)
  BY <1>4, <1>5 DEF LiveIn
<1>8. \A i \in Steps : d[i] # NoStep => e[i] # NoStep
  <2>1. NoStep.status = "none"
    BY DEF NoStep
  <2> QED
    BY <1>4, <1>5, <2>1
<1> QED
  BY <1>1, <1>2, <1>3, <1>4, <1>5, <1>6, <1>7, <1>8

\* A ladder with the same rungs and stages has its stages once, and covers the same price.
LEMMA SameLadder ==
  ASSUME NEW d, NEW e, Distinct(d), LiveIn(e) = LiveIn(d),
         \A i \in LiveIn(d) : e[i].stage = d[i].stage
  PROVE  /\ Distinct(e)
         /\ Covers(d) /\ e[Request].price = d[Request].price => Covers(e)
BY DEF Distinct, Covers

\* What a signature on the current rung makes of the rows.
LEMMA SignedIs ==
  ASSUME RequestAssumption, NEW d, Good(d), d[Request].status = "pending",
         NEW id \in LiveIn(d), d[id].rung = d[Request].seq,
         NEW m, DOMAIN m = {id}, m[id] = [d[id] EXCEPT !.status = "approved"],
         NEW e, e = Over(m, d)
  PROVE  /\ RowsTyped(e) /\ Distinct(e) /\ Covers(e) /\ LiveIn(e) = LiveIn(d)
         /\ e[Request] = d[Request] /\ e[Line] = d[Line]
         /\ \A i \in Steps : d[i] # NoStep => e[i] # NoStep
         /\ \A i \in LiveIn(e) : /\ e[i].status \in {"pending", "approved"}
                                 /\ e[i].rung < d[Request].seq => e[i].status = "approved"
                                 /\ e[i].rung \in Nat \ {0}
<1>1. /\ DOMAIN m \subseteq Steps \cup {Request} /\ Request \notin DOMAIN m
      /\ \A i \in DOMAIN m \ {Request} : i \in LiveIn(d) /\ m[i] = [d[i] EXCEPT !.status = "approved"]
  BY RowsApart DEF LiveIn
<1>2. RowsTyped(d)
  BY DEF Good
<1>3. /\ DOMAIN e = Rows /\ e[Line] = d[Line]
      /\ e[Request] = IF Request \in DOMAIN m THEN m[Request] ELSE d[Request]
      /\ \A i \in Steps : e[i] \in StepRow \/ e[i] \in {NoStep, Gone}
      /\ \A i \in Steps : d[i] # NoStep => e[i] # NoStep
      /\ LiveIn(e) = LiveIn(d)
      /\ \A i \in LiveIn(d) : /\ e[i].rung = d[i].rung /\ e[i].stage = d[i].stage
                              /\ e[i].status = IF i \in DOMAIN m THEN "approved" ELSE d[i].status
  <2>1. "approved" \in {"pending", "approved", "rejected"}
    OBVIOUS
  <2> QED
    BY <1>1, <1>2, <2>1, NewStatus
<1>4. RowsTyped(e) /\ e[Request] = d[Request]
  BY <1>1, <1>2, <1>3 DEF RowsTyped
<1>5. Distinct(e) /\ Covers(e)
  <2>1. Distinct(d) /\ Covers(d)
    BY DEF Good, Circulates
  <2> QED
    BY <1>3, <1>4, <2>1, SameLadder
<1>6. \A i \in LiveIn(d) : /\ d[i].status \in {"pending", "approved"}
                           /\ d[i].rung < d[Request].seq => d[i].status = "approved"
                           /\ d[i].rung \in Nat \ {0}
  <2>1. \A i \in LiveIn(d) : d[i] \in StepRow
    BY <1>2 DEF LiveIn, RowsTyped, NoStep, Gone
  <2> QED
    BY <2>1 DEF Good, Circulates, StepRow
<1> QED
  BY <1>3, <1>4, <1>5, <1>6

\* Co-approvers still pending, or the next rung, or none.
LEMMA CountKeeps ==
  ASSUME RequestAssumption, PInv, NEW s \in Sessions, Count(s)
  PROVE  PInv'
<1> DEFINE j == job[s]
           m == mine[s]
           e == Over(m, db)
           waiting == {i \in Ladder(s) : Seen(s, i).status = "pending"}
           above == {n \in Rungs(s, waiting) : n > j.rung}
           next == IF above = {} THEN 0 ELSE Min(above)
<1>0. e = Over(m, db)
  OBVIOUS
<1>1. j.op = "sign" /\ j.pc = "count" /\ Read /\ UNCHANGED posted
  BY DEF Count, At
<1>2. /\ JobTyped(j) /\ DOMAIN j = JobFields /\ db[Request].status = "pending"
      /\ Early(j, m, db, posted) /\ Good(db) /\ DOMAIN m \subseteq Rows
  BY <1>1, AtWork DEF Past, Stands
<1>3. /\ SignFacts(j, m, db) /\ j.adds = NoPosting /\ Request \notin DOMAIN m
      /\ j.id \in LiveIn(db) /\ db[j.id].rung = db[Request].seq /\ j.rung = db[Request].seq
      /\ DOMAIN m = {j.id} /\ m[j.id] = [db[j.id] EXCEPT !.status = "approved"]
  BY <1>1, <1>2 DEF Early, SignFacts, JobTyped, Past
<1>4. /\ RowsTyped(e) /\ Distinct(e) /\ Covers(e) /\ LiveIn(e) = LiveIn(db)
      /\ e[Request] = db[Request] /\ e[Line] = db[Line]
      /\ \A i \in Steps : db[i] # NoStep => e[i] # NoStep
      /\ \A i \in LiveIn(e) : /\ e[i].status \in {"pending", "approved"}
                              /\ e[i].rung < db[Request].seq => e[i].status = "approved"
                              /\ e[i].rung \in Nat \ {0}
  BY <1>2, <1>3, SignedIs
<1>5. /\ Ladder(s) = LiveIn(e) /\ \A i \in LiveIn(e) : Seen(s, i) = e[i]
  BY <1>0, SeenIs DEF LiveIn, Rows
<1> HIDE DEF e
<1>6. CASE Pending(s, j.rung) # {}
  <2> DEFINE k == [j EXCEPT !.pc = "commit"]
  <2>1. job' = [job EXCEPT ![s] = k]
    BY <1>6 DEF Count, Goto
  <2>2. /\ DOMAIN k = JobFields /\ k.op = "sign" /\ k.pc = "commit" /\ k.adds = NoPosting
    BY <1>1, <1>2, <1>3, GotoIs
  <2> HIDE DEF k
  <2>3. PICK i \in LiveIn(e) : e[i].rung = db[Request].seq /\ e[i].status = "pending"
    BY <1>3, <1>5, <1>6 DEF Pending
  <2>4. Good(e)
    <3>1. Circulates(e)
      BY <1>4, <2>3 DEF Circulates
    <3>2. Decided(e) /\ Accounts(e)
      BY <1>2, <1>4 DEF Good, Decided, Accounts, InOrder
    <3> QED
      BY <1>4, <3>1, <3>2 DEF Good
  <2>5. Totals(e, Plus(posted, k.adds))
    <3>1. Totals(db, posted) /\ posted \in Postings
      BY DEF PInv, Sound
    <3>2. Plus(posted, NoPosting).paid = posted.paid /\ Plus(posted, NoPosting).goods = posted.goods
          /\ Plus(posted, NoPosting).orders = posted.orders
      BY <3>1 DEF Plus, NoPosting, Postings
    <3> QED
      BY <1>4, <2>2, <3>1, <3>2 DEF Totals
  <2>6. Becomes(k, db, e)
    BY <1>2, <1>4, <2>2 DEF Becomes
  <2>7. JobTyped(k)
    <3>1. NoPosting \in Postings
      BY DEF NoPosting, Postings
    <3> QED
      BY <1>2, <2>2, <3>1 DEF JobTyped, Points, Past, Ops, FirstStatement
  <2>8. Facts(k, m, db, posted)
    <3>1. Late(k, m, db, posted)
      BY <1>0, <2>2, <2>4, <2>5, <2>6 DEF Late
    <3> QED
      BY <1>2, <2>2, <2>7, <3>1 DEF Facts, Past, Stands
  <2> QED
    BY <1>1, <2>1, <2>2, <2>8, ReadGoesOn
<1>7. CASE Pending(s, j.rung) = {}
  <2> DEFINE k == [j EXCEPT !.rung = next, !.pc = "head"]
  <2>1. job' = [job EXCEPT ![s] = k]
    BY <1>7 DEF Count
  <2>2. /\ DOMAIN k = JobFields /\ k.op = "sign" /\ k.pc = "head" /\ k.rung = next /\ k.id = j.id
        /\ k.adds = NoPosting
    BY <1>1, <1>2, <1>3 DEF JobFields
  <2> HIDE DEF k
  <2>3. \A i \in LiveIn(e) : e[i].rung = db[Request].seq => e[i].status = "approved"
    BY <1>3, <1>4, <1>5, <1>7 DEF Pending
  <2>4. above = {e[i].rung : i \in {x \in LiveIn(e) : e[x].status = "pending" /\ e[x].rung > db[Request].seq}}
    BY <1>3, <1>5 DEF Rungs
  <2>5. above \subseteq Nat /\ IsFiniteSet(above)
    <3> DEFINE ids == {x \in LiveIn(e) : e[x].status = "pending" /\ e[x].rung > db[Request].seq}
    <3>1. ids \in SUBSET LiveIn(e) /\ above = {e[i].rung : i \in ids}
      BY <2>4
    <3> HIDE DEF ids, above
    <3>2. {e[i].rung : i \in ids} \subseteq Nat \ {0} /\ IsFiniteSet({e[i].rung : i \in ids})
      BY <1>4, <3>1, RungsFinite
    <3> QED
      BY <3>1, <3>2
  <2> HIDE DEF above
  <2>6. db[Request].seq \in Nat
    BY <1>2, Columns DEF Good
  <2>7. \A i \in LiveIn(e) : e[i].status = "pending" => e[i].rung \in above
    BY <1>4, <2>3, <2>4, <2>6
  <2>8. /\ next \in Nat
        /\ next = 0 => \A i \in LiveIn(e) : e[i].status = "approved"
        /\ next > 0 =>
             /\ \E i \in LiveIn(e) : e[i].rung = next /\ e[i].status = "pending"
             /\ \A i \in LiveIn(e) : e[i].rung < next => e[i].status = "approved"
    <3>1. CASE above = {}
      BY <1>4, <2>7, <3>1
    <3>2. CASE above # {}
      <4>1. next \in above /\ \A y \in above : next <= y
        BY <2>5, <3>2, MinMaxIs
      <4>2. next \in Nat /\ next > 0
        BY <2>4, <2>5, <2>6, <4>1
      <4>3. \E i \in LiveIn(e) : e[i].rung = next /\ e[i].status = "pending"
        BY <2>4, <4>1
      <4>4. \A i \in LiveIn(e) : e[i].rung < next => e[i].status = "approved"
        BY <1>4, <2>5, <2>7, <4>1, <4>2
      <4> QED
        BY <4>2, <4>3, <4>4
    <3> QED
      BY <3>1, <3>2
  <2> HIDE DEF next
  <2>9. SignFacts(k, m, db)
    BY <1>0, <1>3, <2>2, <2>8 DEF SignFacts
  <2>10. JobTyped(k)
    <3>1. NoPosting \in Postings
      BY DEF NoPosting, Postings
    <3> QED
      BY <1>2, <2>2, <3>1 DEF JobTyped, Points, Past, Ops, FirstStatement
  <2>11. Early(k, m, db, posted)
    BY <1>3, <2>2, <2>9 DEF Early, Clean, SubmitFacts, PriceFacts, RejectFacts, BackFacts, OrderFacts
  <2>12. Facts(k, m, db, posted)
    BY <1>2, <2>2, <2>10, <2>11 DEF Facts, Past, Stands
  <2> QED
    BY <1>1, <2>1, <2>2, <2>12, ReadGoesOn
<1> QED
  BY <1>6, <1>7
\* send_back reopens the rungs from its target on.
LEMMA ReopenKeeps ==
  ASSUME RequestAssumption, PInv, NEW s \in Sessions, Reopen(s)
  PROVE  PInv'
<1> DEFINE j == job[s]
           ids == {i \in Ladder(s) : Seen(s, i).rung >= j.arg}
           k == [j EXCEPT !.pc = "head"]
           rows == [i \in ids |-> [Seen(s, i) EXCEPT !.status = "pending"]]
           n == Over(rows, mine[s])
<1>0. /\ k = [j EXCEPT !.pc = "head"]
      /\ rows = [i \in ids |-> [Seen(s, i) EXCEPT !.status = "pending"]]
      /\ n = Over(rows, mine[s])
  OBVIOUS
<1>1. /\ j.op = "back" /\ j.pc = "reopen" /\ WriteAll(s, rows) /\ Goto(s, "head") /\ UNCHANGED posted
  BY DEF Reopen, At
<1>2. /\ JobTyped(j) /\ DOMAIN j = JobFields /\ db[Request].status \in Stands(j)
      /\ Early(j, mine[s], db, posted)
  BY <1>1, AtWork DEF Past
<1>3. DOMAIN mine[s] = {} /\ BackFacts(j, mine[s], db) /\ j.adds = NoPosting
  BY <1>1, <1>2 DEF Early, Clean, JobTyped, Past
<1>4. /\ Ladder(s) = LiveIn(db) /\ \A i \in LiveIn(db) : Seen(s, i) = db[i]
  BY <1>3, SeenClean DEF Rows, LiveIn
<1>5. /\ DOMAIN n = ids
      /\ \A i \in DOMAIN n : /\ i \in LiveIn(db) /\ db[i].rung >= j.arg
                             /\ n[i] = [db[i] EXCEPT !.status = "pending"]
  <2>1. DOMAIN n = DOMAIN mine[s] \cup DOMAIN rows /\ \A x \in DOMAIN rows : n[x] = rows[x]
    BY <1>0 DEF Over
  <2>2. DOMAIN rows = ids /\ \A x \in ids : rows[x] = [Seen(s, x) EXCEPT !.status = "pending"]
    BY <1>0
  <2>3. \A x \in ids : x \in LiveIn(db) /\ db[x].rung >= j.arg /\ Seen(s, x) = db[x]
    BY <1>4
  <2> QED
    BY <1>3, <2>1, <2>2, <2>3
<1>6. \A i \in LiveIn(db) : db[i].rung >= j.arg => i \in DOMAIN n
  BY <1>4, <1>5
<1>7. /\ DOMAIN k = JobFields /\ k.op = "back" /\ k.pc = "head" /\ k.arg = j.arg /\ k.adds = j.adds
  BY <1>0, <1>1, <1>2, GotoIs
<1> HIDE DEF k, n, rows, ids
<1>8. JobTyped(k)
  BY <1>1, <1>2, <1>3, <1>7 DEF JobTyped, Points, Past
<1>9. DOMAIN n \subseteq Steps
  BY <1>5 DEF LiveIn
<1>10. Early(k, n, db, posted)
  <2>1. Request \notin DOMAIN n
    BY <1>9, RowsApart
  <2>2. BackFacts(k, n, db)
    BY <1>1, <1>3, <1>5, <1>6, <1>7 DEF BackFacts
  <2> QED
    BY <1>7, <2>1, <2>2 DEF Early, Clean, SubmitFacts, PriceFacts, SignFacts, RejectFacts, OrderFacts
<1>11. Facts(k, n, db, posted)
  BY <1>1, <1>2, <1>7, <1>8, <1>9, <1>10 DEF Facts, Stands, Past, Rows
<1>12. j.op # "idle"
  BY <1>1
<1> QED
  BY <1>0, <1>1, <1>11, <1>12, WriteGoesOn

\* The stages a price calls for are finitely many, and the first is 1.
LEMMA StagesAre ==
  ASSUME RequestAssumption, NEW price
  PROVE  /\ StagesFor(price) \subseteq Nat /\ IsFiniteSet(StagesFor(price))
         /\ 1 \in StagesFor(price) /\ \A n \in StagesFor(price) : 1 <= n
<1> DEFINE called == {n \in Prices : n <= price}
<1>1. called \subseteq Prices /\ Prices \subseteq Nat \ {0} /\ IsFiniteSet(Prices)
  BY DEF RequestAssumption
<1>2. IsFiniteSet(called)
  BY <1>1, FS_Subset
<1>3. StagesFor(price) = called \cup {1}
  BY DEF StagesFor
<1>6. \A n \in called : n \in Nat \ {0}
  BY <1>1, Zenon
<1> HIDE DEF called
<1>4. IsFiniteSet(StagesFor(price))
  BY <1>2, <1>3, FS_AddElement
<1>5. \A n \in StagesFor(price) : n \in Nat /\ 1 <= n
  <2> SUFFICES ASSUME NEW n \in StagesFor(price) PROVE n \in Nat /\ 1 <= n
    OBVIOUS
  <2>1. n \in Nat \ {0} \/ n = 1
    BY <1>3, <1>6
  <2> QED
    BY <2>1
<1> QED
  BY <1>3, <1>4, <1>5

\* A row of its own for each stage, pending, above what is there.
RungsFor(new, stages, above) ==
    /\ DOMAIN new \subseteq Unused
    /\ \A i \in DOMAIN new : /\ new[i] \in StepRow /\ new[i].status = "pending"
                             /\ new[i].rung > above /\ new[i].stage \in stages
    /\ \A n \in stages : \E i \in DOMAIN new : new[i].stage = n
    /\ \A i, k \in DOMAIN new : new[i].stage = new[k].stage => i = k
    /\ \A n \in stages : (\A m \in stages : n <= m) => \E i \in DOMAIN new : new[i].rung = above + 1

\* NewRungs finds such rows.
LEMMA NewRungsAre ==
  ASSUME NEW stages, stages \subseteq Nat, IsFiniteSet(stages), NEW above \in Nat,
         ExistsInjection(stages, Unused), NEW new, new = NewRungs(stages, above)
  PROVE  RungsFor(new, stages, above)
<1> DEFINE ids == NewIds(stages)
           place(n) == Cardinality({m \in stages : m <= n})
           stageOf(i) == CHOOSE m \in stages : ids[m] = i
<1>1. ids \in Injection(stages, Unused)
  BY DEF NewIds, ExistsInjection
<1>2. ids \in [stages -> Unused] /\ \A a, b \in stages : ids[a] = ids[b] => a = b
  BY <1>1 DEF Injection, IsInjective
<1>3. /\ DOMAIN new = {ids[n] : n \in stages}
      /\ \A i \in DOMAIN new : new[i] = [rung |-> above + place(stageOf(i)), stage |-> stageOf(i),
                                         status |-> "pending"]
  BY DEF NewRungs
<1> HIDE DEF ids
<1>4. \A n \in stages : ids[n] \in DOMAIN new /\ stageOf(ids[n]) = n
  BY <1>2, <1>3
<1>5. \A i \in DOMAIN new : i \in Unused /\ stageOf(i) \in stages /\ ids[stageOf(i)] = i
  BY <1>2, <1>3, <1>4
<1> HIDE DEF stageOf
<1>6. ASSUME NEW n \in stages PROVE place(n) \in Nat \ {0}
  <2>1. IsFiniteSet({m \in stages : m <= n}) /\ n \in {m \in stages : m <= n}
    BY FS_Subset
  <2>2. Cardinality({m \in stages : m <= n}) \in Nat /\ Cardinality({m \in stages : m <= n}) # 0
    BY <2>1, FS_CardinalityType, FS_EmptySet
  <2> QED
    BY <2>2
<1>7. ASSUME NEW n \in stages, \A m \in stages : n <= m PROVE place(n) = 1
  <2>0. \A m \in stages : m <= n <=> m = n
    <3>1. \A m \in stages : m \in Nat
      OBVIOUS
    <3> QED
      BY <1>7, <3>1
  <2>1. {m \in stages : m <= n} = {n}
    BY <2>0
  <2> QED
    BY <2>1, FS_Singleton
<1> HIDE DEF place
<1>8. ASSUME NEW i \in DOMAIN new
      PROVE  /\ new[i] \in StepRow /\ new[i].status = "pending" /\ new[i].rung > above
             /\ new[i].stage = stageOf(i) /\ new[i].rung = above + place(stageOf(i))
  <2>1. stageOf(i) \in Nat /\ place(stageOf(i)) \in Nat \ {0}
    BY <1>5, <1>6
  <2>2. above + place(stageOf(i)) \in Nat \ {0} /\ above + place(stageOf(i)) > above
    BY <2>1
  <2>3. new[i] = [rung |-> above + place(stageOf(i)), stage |-> stageOf(i), status |-> "pending"]
    BY <1>3
  <2> QED
    BY <2>1, <2>2, <2>3 DEF StepRow
<1>9. \A i, k \in DOMAIN new : new[i].stage = new[k].stage => i = k
  BY <1>5, <1>8
<1>10. \A n \in stages : (\A m \in stages : n <= m) => \E i \in DOMAIN new : new[i].rung = above + 1
  BY <1>4, <1>7, <1>8
<1> QED
  BY <1>4, <1>5, <1>8, <1>9, <1>10 DEF RungsFor
\* submit_pr clears what is left of a ladder and writes a new one.
LEMMA ClearKeeps ==
  ASSUME RequestAssumption, PInv, NEW s \in Sessions, Clear(s)
  PROVE  PInv'
<1> DEFINE j == job[s]
           price == j.pr.price
           stages == StagesFor(price)
           new == NewRungs(stages, 0)
           old == [i \in Ladder(s) |-> Gone]
           rows == Over(new, old)
           k == [j EXCEPT !.pc = "head"]
           n == Over(rows, mine[s])
<1>0. k = [j EXCEPT !.pc = "head"]
  OBVIOUS
<1>1. /\ j.op = "submit" /\ j.pc = "clear" /\ ExistsInjection(stages, Unused)
      /\ WriteAll(s, rows) /\ Goto(s, "head") /\ UNCHANGED posted
  BY DEF Clear, At
<1>2. /\ JobTyped(j) /\ DOMAIN j = JobFields /\ db[Request].status \in Stands(j)
      /\ Early(j, mine[s], db, posted)
  BY <1>1, AtWork DEF Past
<1>3. DOMAIN mine[s] = {} /\ SubmitFacts(j, mine[s], db) /\ j.adds = NoPosting
  BY <1>1, <1>2 DEF Early, Clean, JobTyped, Past
<1>4. Ladder(s) = LiveIn(db)
  BY <1>3, SeenClean
<1>5. /\ stages \subseteq Nat /\ IsFiniteSet(stages) /\ 1 \in stages /\ \A x \in stages : 1 <= x
  BY StagesAre
<1> HIDE DEF stages
<1>6. /\ DOMAIN new \subseteq Unused
      /\ \A i \in DOMAIN new : /\ new[i] \in StepRow /\ new[i].status = "pending"
                               /\ new[i].rung > 0 /\ new[i].stage \in stages
      /\ \A x \in stages : \E i \in DOMAIN new : new[i].stage = x
      /\ \A i, y \in DOMAIN new : new[i].stage = new[y].stage => i = y
      /\ \A x \in stages : (\A y \in stages : x <= y) => \E i \in DOMAIN new : new[i].rung = 0 + 1
  <2>1. new = NewRungs(stages, 0) /\ 0 \in Nat
    OBVIOUS
  <2> HIDE DEF new
  <2>2. RungsFor(new, stages, 0)
    BY <1>1, <1>5, <2>1, NewRungsAre
  <2> QED
    BY <2>2 DEF RungsFor
<1> HIDE DEF new
<1>7. \E i \in DOMAIN new : new[i].rung = 1
  BY <1>5, <1>6
<1>8. DOMAIN old = LiveIn(db) /\ \A i \in LiveIn(db) : old[i] = Gone
  BY <1>4
<1>9. /\ DOMAIN n = DOMAIN new \cup LiveIn(db)
      /\ \A i \in DOMAIN new : n[i] = new[i]
      /\ \A i \in LiveIn(db) \ DOMAIN new : n[i] = Gone
  <2> HIDE DEF old
  <2>1. /\ DOMAIN rows = DOMAIN new \cup LiveIn(db)
        /\ \A i \in DOMAIN new : rows[i] = new[i]
        /\ \A i \in LiveIn(db) \ DOMAIN new : rows[i] = Gone
    BY <1>8 DEF Over
  <2> HIDE DEF rows
  <2>2. DOMAIN n = DOMAIN mine[s] \cup DOMAIN rows /\ \A i \in DOMAIN rows : n[i] = rows[i]
    BY DEF Over
  <2> QED
    BY <1>3, <2>1, <2>2
<1>10. /\ DOMAIN k = JobFields /\ k.op = "submit" /\ k.pc = "head" /\ k.pr = j.pr /\ k.adds = j.adds
  BY <1>0, <1>1, <1>2, GotoIs
<1>11. n = Over(rows, mine[s])
  OBVIOUS
<1> HIDE DEF k, n, rows, old
<1>12. JobTyped(k)
  BY <1>1, <1>2, <1>3, <1>10 DEF JobTyped, Points, Past
<1>13. DOMAIN n \subseteq Steps /\ LiveIn(db) \subseteq DOMAIN n
  BY <1>6, <1>9 DEF Unused, LiveIn
<1>14. Fresh(n, price)
  <2>1. \A i \in DOMAIN new : n[i] \in StepRow /\ n[i].status = "pending" /\ n[i] # Gone
    BY <1>6, <1>9 DEF Gone, NoStep
  <2>2. \A i \in DOMAIN n : n[i] = Gone \/ i \in DOMAIN new
    BY <1>9
  <2>3. \A i \in DOMAIN n : n[i] = Gone \/ (n[i] \in StepRow /\ n[i].status = "pending")
    BY <2>1, <2>2
  <2>4. \A i, y \in DOMAIN n : n[i] # Gone /\ n[y] # Gone /\ n[i].stage = n[y].stage => i = y
    BY <1>6, <1>9, <2>2
  <2>5. \A x \in stages : \E i \in DOMAIN n : n[i] # Gone /\ n[i].stage = x
    BY <1>6, <1>9, <2>1
  <2>6. \E i \in DOMAIN n : n[i] # Gone /\ n[i].rung = 1
    BY <1>7, <1>9, <2>1
  <2> QED
    BY <2>3, <2>4, <2>5, <2>6 DEF Fresh, stages
<1>15. Early(k, n, db, posted)
  <2>1. Request \notin DOMAIN n
    BY <1>13, RowsApart
  <2>2. SubmitFacts(k, n, db)
    BY <1>1, <1>3, <1>10, <1>13, <1>14 DEF SubmitFacts
  <2> QED
    BY <1>10, <2>1, <2>2 DEF Early, Clean, BackFacts, PriceFacts, SignFacts, RejectFacts, OrderFacts
<1>16. Facts(k, n, db, posted)
  BY <1>1, <1>2, <1>10, <1>12, <1>13, <1>15 DEF Facts, Stands, Past, Rows
<1>17. j.op # "idle"
  BY <1>1
<1> QED
  BY <1>0, <1>1, <1>11, <1>16, <1>17, WriteGoesOn
-----------------------------------------------------------------------------
(* The UPDATE of pr_requests.                                              *)

\* A function at its UPDATE of pr_requests: n is what it has then written, f what the rows
\* become when it commits.
Heading(j, m, d, p, n, f) ==
    /\ RequestAssumption
    /\ Good(d) /\ p \in Postings /\ Totals(d, p)
    /\ JobTyped(j) /\ j.pc = "head" /\ DOMAIN m \subseteq Rows
    /\ d[Request].status \in Stands(j) /\ Early(j, m, d, p)
    /\ DOMAIN n = DOMAIN m \cup {Request} /\ \A r \in DOMAIN m : n[r] = m[r]
    /\ f = Over(n, d)

\* The function leaves the request sound.
Done(j, d, p, f) == Good(f) /\ Totals(f, Plus(p, j.adds)) /\ Becomes(j, d, f)

\* More goods are worth more.
LEMMA WorthMore ==
  ASSUME NEW a \in Nat, NEW b \in Nat, a <= b, NEW price \in Nat
  PROVE  a * price <= b * price
<1>1. PICK c \in Nat : b = a + c
  <2>1. b - a \in Nat /\ b = a + (b - a)
    OBVIOUS
  <2> QED
    BY <2>1
<1>2. b * price = a * price + c * price /\ c * price \in Nat /\ a * price \in Nat
  BY <1>1
<1> QED
  BY <1>2

\* No documents: the totals stay.
LEMMA PlusNothing ==
  ASSUME NEW p \in Postings
  PROVE  LET q == Plus(p, NoPosting) IN q.paid = p.paid /\ q.goods = p.goods /\ q.orders = p.orders
BY DEF Plus, NoPosting, Postings

\* The rows a function leaves.
LEMMA HeadingIs ==
  ASSUME NEW j, NEW m, NEW d, NEW p, NEW n, NEW f, Heading(j, m, d, p, n, f)
  PROVE  /\ DOMAIN f = Rows /\ f[Request] = n[Request] /\ Request \notin DOMAIN m
         /\ \A r \in DOMAIN m : f[r] = m[r]
         /\ \A r \in Rows \ DOMAIN m : r # Request => f[r] = d[r]
         /\ RowsTyped(d) /\ Distinct(d) /\ Circulates(d) /\ Decided(d) /\ Accounts(d)
         /\ d[Request] \in HeaderRow /\ RequestAssumption
<1>1. /\ DOMAIN n \subseteq Rows /\ DOMAIN d = Rows /\ Request \notin DOMAIN m
      /\ RequestAssumption
  BY RowsApart DEF Heading, Good, RowsTyped, Early
<1>2. /\ DOMAIN f = Rows
      /\ \A r \in DOMAIN n : f[r] = n[r]
      /\ \A r \in Rows \ DOMAIN n : f[r] = d[r]
  BY <1>1, OverIs DEF Heading
<1> QED
  BY <1>1, <1>2 DEF Heading, Good, RowsTyped

\* Only the header changes.
LEMMA HeaderOnly ==
  ASSUME NEW j, NEW m, NEW d, NEW p, NEW n, NEW f, Heading(j, m, d, p, n, f),
         DOMAIN m = {}, n[Request] \in HeaderRow
  PROVE  /\ RowsTyped(f) /\ Distinct(f) /\ f[Request] = n[Request] /\ f[Line] = d[Line]
         /\ LiveIn(f) = LiveIn(d) /\ \A i \in Steps : f[i] = d[i]
<1>1. /\ DOMAIN f = Rows /\ f[Request] = n[Request]
      /\ \A r \in Rows : r # Request => f[r] = d[r]
      /\ RowsTyped(d) /\ Distinct(d) /\ RequestAssumption
  BY HeadingIs
<1>2. f[Line] = d[Line] /\ \A i \in Steps : f[i] = d[i]
  BY <1>1, RowsApart
<1>3. LiveIn(f) = LiveIn(d)
  BY <1>2 DEF LiveIn
<1>4. RowsTyped(f)
  BY <1>1, <1>2 DEF RowsTyped
<1>5. Distinct(f)
  BY <1>1, <1>2, <1>3 DEF Distinct, LiveIn
<1> QED
  BY <1>1, <1>2, <1>3, <1>4, <1>5

\* issue_po
LEMMA IssueDone ==
  ASSUME NEW j, NEW m, NEW d, NEW p, NEW n, NEW f, Heading(j, m, d, p, n, f), j.op = "issue",
         n[Request] = [d[Request] EXCEPT !.status = "po_issued"]
  PROVE  Done(j, d, p, f)
<1>1. /\ DOMAIN m = {} /\ d[Request].status = "approved"
      /\ j.adds \in Postings /\ j.adds.paid = 0 /\ j.adds.goods = 0 /\ p.orders + j.adds.orders <= 1
  BY DEF Heading, Early, OrderFacts, Stands, JobTyped
<1>2. d[Request] \in HeaderRow /\ Decided(d) /\ Accounts(d) /\ RowsTyped(d) /\ RequestAssumption
  BY HeadingIs
<1>3. /\ n[Request] \in HeaderRow /\ n[Request].status = "po_issued"
      /\ n[Request].price = d[Request].price /\ n[Request].paid = d[Request].paid
  BY <1>2 DEF HeaderRow, Statuses
<1>4. /\ RowsTyped(f) /\ Distinct(f) /\ f[Request] = n[Request] /\ f[Line] = d[Line]
      /\ LiveIn(f) = LiveIn(d) /\ \A i \in Steps : f[i] = d[i]
      /\ Covers(d) => Covers(f)
  <2>1. /\ RowsTyped(f) /\ Distinct(f) /\ f[Request] = n[Request] /\ f[Line] = d[Line]
        /\ LiveIn(f) = LiveIn(d) /\ \A i \in Steps : f[i] = d[i]
    BY <1>1, <1>3, HeaderOnly
  <2>2. Covers(d) => Covers(f)
    BY <1>3, <2>1 DEF Covers, LiveIn
  <2> QED
    BY <2>1, <2>2
<1>5. Circulates(f) /\ Decided(f)
  BY <1>1, <1>2, <1>3, <1>4 DEF Circulates, Decided, InOrder, LiveIn
<1>6. Accounts(f)
  <2>1. d[Line].received = 0 /\ ~(d[Line].received >= Ordered)
    <3>1. d[Line].received = 0 /\ Ordered \in Nat \ {0}
      BY <1>1, <1>2, Columns DEF Accounts, Delivered
    <3> QED
      BY <3>1
  <2> QED
    BY <1>2, <1>3, <1>4, <2>1 DEF Accounts, Delivered
<1>7. Totals(f, Plus(p, j.adds))
  <2>1. /\ Plus(p, j.adds).paid = p.paid /\ Plus(p, j.adds).goods = p.goods
        /\ Plus(p, j.adds).orders = p.orders + j.adds.orders
    BY <1>1 DEF Heading, Plus, Postings
  <2> QED
    BY <1>1, <1>3, <1>4, <2>1 DEF Heading, Totals
<1>8. Becomes(j, d, f)
  BY <1>3, <1>4 DEF Becomes
<1> QED
  BY <1>4, <1>5, <1>6, <1>7, <1>8 DEF Done, Good

\* add_payment
LEMMA PayDone ==
  ASSUME NEW j, NEW m, NEW d, NEW p, NEW n, NEW f, Heading(j, m, d, p, n, f), j.op = "pay",
         n[Request] = [d[Request] EXCEPT !.paid = j.pr.paid + Amount]
  PROVE  Done(j, d, p, f)
<1>1. /\ DOMAIN m = {} /\ d[Request].status \in InOrder \cup {"closed"}
      /\ j.adds = [NoPosting EXCEPT !.paid = Amount]
      /\ j.pr.paid = d[Request].paid /\ j.pr.paid + Amount <= d[Line].received * d[Request].price
  BY DEF Heading, Early, OrderFacts, Stands
<1>2. d[Request] \in HeaderRow /\ Decided(d) /\ Accounts(d) /\ RowsTyped(d) /\ RequestAssumption
  BY HeadingIs
<1>3. d[Request].paid \in Nat /\ Amount \in Nat /\ d[Request].paid + Amount \in Nat
  BY <1>2, Columns DEF RequestAssumption
<1>4. /\ n[Request] \in HeaderRow /\ n[Request].status = d[Request].status
      /\ n[Request].price = d[Request].price /\ n[Request].paid = d[Request].paid + Amount
  BY <1>1, <1>2, <1>3 DEF HeaderRow
<1>5. /\ RowsTyped(f) /\ Distinct(f) /\ f[Request] = n[Request] /\ f[Line] = d[Line]
      /\ LiveIn(f) = LiveIn(d) /\ \A i \in Steps : f[i] = d[i]
      /\ Covers(d) => Covers(f)
  <2>1. /\ RowsTyped(f) /\ Distinct(f) /\ f[Request] = n[Request] /\ f[Line] = d[Line]
        /\ LiveIn(f) = LiveIn(d) /\ \A i \in Steps : f[i] = d[i]
    BY <1>1, <1>4, HeaderOnly
  <2>2. Covers(d) => Covers(f)
    BY <1>4, <2>1 DEF Covers, LiveIn
  <2> QED
    BY <2>1, <2>2
<1>6. Circulates(f) /\ Decided(f)
  BY <1>1, <1>2, <1>4, <1>5 DEF Circulates, Decided, InOrder, LiveIn
<1>7. Accounts(f)
  BY <1>1, <1>2, <1>4, <1>5 DEF Accounts
<1>8. Totals(f, Plus(p, j.adds))
  <2>1. j.adds.paid = Amount /\ j.adds.goods = 0 /\ j.adds.orders = 0
    BY <1>1 DEF NoPosting
  <2>2. /\ Plus(p, j.adds).paid = p.paid + Amount /\ Plus(p, j.adds).goods = p.goods
        /\ Plus(p, j.adds).orders = p.orders
    BY <2>1 DEF Heading, Plus, Postings
  <2> QED
    BY <1>4, <1>5, <2>2 DEF Heading, Totals
<1>9. Becomes(j, d, f)
  BY <1>4, <1>5 DEF Becomes
<1> QED
  BY <1>5, <1>6, <1>7, <1>8, <1>9 DEF Done, Good

\* close_pr and cancel_pr
LEMMA EndDone ==
  ASSUME NEW j, NEW m, NEW d, NEW p, NEW n, NEW f, Heading(j, m, d, p, n, f),
         j.op \in {"close", "cancel"}, n[Request] \in HeaderRow,
         n[Request].status = (IF j.op = "close" THEN "closed" ELSE "cancelled"),
         n[Request].price = d[Request].price, n[Request].paid = d[Request].paid
  PROVE  Done(j, d, p, f)
<1>1. /\ DOMAIN m = {} /\ j.adds = NoPosting /\ p \in Postings /\ Totals(d, p)
      /\ j.op = "cancel" => d[Line].received = 0
  BY DEF Heading, Early, OrderFacts, JobTyped, Past
<1>2. d[Request] \in HeaderRow /\ Accounts(d) /\ RowsTyped(d) /\ RequestAssumption
  BY HeadingIs
<1>3. /\ n[Request] \in HeaderRow
      /\ n[Request].status = IF j.op = "close" THEN "closed" ELSE "cancelled"
      /\ n[Request].price = d[Request].price /\ n[Request].paid = d[Request].paid
  OBVIOUS
<1>4. /\ RowsTyped(f) /\ Distinct(f) /\ f[Request] = n[Request] /\ f[Line] = d[Line]
      /\ LiveIn(f) = LiveIn(d) /\ \A i \in Steps : f[i] = d[i]
  BY <1>1, <1>3, HeaderOnly
<1>5. Circulates(f) /\ Decided(f)
  <2>1. f[Request].status \in {"closed", "cancelled"}
    BY <1>3, <1>4
  <2> QED
    BY <2>1 DEF Circulates, Decided, InOrder
<1>6. Accounts(f)
  <2>1. j.op = "cancel" => d[Line].received = 0 /\ ~(d[Line].received >= Ordered)
    <3>1. Ordered \in Nat \ {0}
      BY <1>2 DEF RequestAssumption
    <3> QED
      BY <1>1, <3>1
  <2> QED
    BY <1>2, <1>3, <1>4, <2>1 DEF Accounts, Delivered
<1>7. Totals(f, Plus(p, j.adds))
  BY <1>1, <1>3, <1>4, PlusNothing DEF Totals
<1>8. Becomes(j, d, f)
  BY <1>3, <1>4 DEF Becomes
<1> QED
  BY <1>4, <1>5, <1>6, <1>7, <1>8 DEF Done, Good

\* receive_items
LEMMA ReceiveDone ==
  ASSUME NEW j, NEW m, NEW d, NEW p, NEW n, NEW f, Heading(j, m, d, p, n, f), j.op = "receive",
         n[Request] = [d[Request] EXCEPT
           !.status = IF m[Line].received >= Ordered THEN "received" ELSE "partially_received"]
  PROVE  Done(j, d, p, f)
<1> DEFINE got == d[Line].received
           total == j.got + j.adds.goods
           st == IF total >= Ordered THEN "received" ELSE "partially_received"
<1>1. /\ d[Request].status \in InOrder \cup {"approved"} /\ j.got = got
      /\ DOMAIN m = {Line} /\ m[Line] = [received |-> total] /\ total \in 1 .. Ordered
      /\ j.adds \in Postings /\ j.adds.paid = 0 /\ j.adds.orders = 0
  BY DEF Heading, Early, OrderFacts, Stands, JobTyped
<1>2. d[Request] \in HeaderRow /\ Distinct(d) /\ Decided(d) /\ Accounts(d) /\ RowsTyped(d) /\ RequestAssumption
  BY HeadingIs
<1>3. m[Line].received = total
  BY <1>1
<1>4. n[Request] = [d[Request] EXCEPT !.status = st] /\ st \in {"received", "partially_received"}
  BY <1>3
<1> HIDE DEF st
<1>5. /\ n[Request] \in HeaderRow /\ n[Request].status = st
      /\ n[Request].price = d[Request].price /\ n[Request].paid = d[Request].paid
  BY <1>2, <1>4 DEF HeaderRow, Statuses, Delivered
<1>6. /\ DOMAIN f = Rows /\ f[Request] = n[Request] /\ f[Line] = [received |-> total]
      /\ \A i \in Steps : f[i] = d[i]
  <2>1. /\ DOMAIN f = Rows /\ f[Request] = n[Request] /\ f[Line] = m[Line]
        /\ \A r \in Rows \ {Line} : r # Request => f[r] = d[r]
    BY <1>1, HeadingIs
  <2> QED
    BY <1>1, <1>2, <2>1, RowsApart
<1>7. /\ got \in Nat /\ total \in Nat /\ got <= total /\ total <= Ordered /\ total > 0 /\ Ordered \in Nat
      /\ d[Request].price \in Nat /\ d[Request].paid \in Nat
  <2>1. /\ got \in Nat /\ Ordered \in Nat /\ d[Request].price \in Nat /\ d[Request].paid \in Nat
    BY <1>2, Columns
  <2>2. j.adds.goods \in Nat
    BY <1>1 DEF Postings
  <2> QED
    BY <1>1, <2>1, <2>2
<1>8. st = IF total >= Ordered THEN "received" ELSE "partially_received"
  BY DEF st
<1>9. j.adds.goods \in Nat /\ p \in Postings /\ Totals(d, p) /\ total = got + j.adds.goods
  BY <1>1 DEF Heading, Postings
<1> HIDE DEF total
<1>10. RowsTyped(f)
  <2>1. f[Line] \in [received : 0 .. Ordered]
    BY <1>6, <1>7
  <2> QED
    BY <1>2, <1>5, <1>6, <2>1 DEF RowsTyped
<1>11. LiveIn(f) = LiveIn(d) /\ \A i \in LiveIn(d) : f[i] = d[i]
  BY <1>6 DEF LiveIn
<1>12. Distinct(f) /\ (Covers(d) => Covers(f))
  BY <1>2, <1>5, <1>6, <1>11, SameLadder
<1>13. Circulates(f) /\ Decided(f)
  BY <1>1, <1>2, <1>4, <1>5, <1>6, <1>11, <1>12 DEF Circulates, Decided, InOrder
<1>14. Accounts(f)
  <2>1. f[Line].received = total
    BY <1>6
  <2>2. d[Request].paid <= got * d[Request].price
    BY <1>2 DEF Accounts
  <2>3. got * d[Request].price <= total * d[Request].price
    BY <1>7, WorthMore
  <2>4. got * d[Request].price \in Nat /\ total * d[Request].price \in Nat
    BY <1>7
  <2>5. d[Request].paid <= total * d[Request].price
    <3> DEFINE x == got * d[Request].price
               y == total * d[Request].price
    <3>1. x \in Nat /\ y \in Nat /\ d[Request].paid <= x /\ x <= y /\ d[Request].paid \in Nat
      BY <1>7, <2>2, <2>3, <2>4
    <3> HIDE DEF x, y
    <3>2. d[Request].paid <= y
      BY <3>1
    <3> QED
      BY <3>2 DEF y
  <2>6. st = "received" <=> total >= Ordered
    BY <1>8
  <2>7. st = "partially_received" => total < Ordered
    BY <1>7, <1>8
  <2> QED
    BY <1>4, <1>5, <1>6, <2>1, <2>5, <2>6, <2>7 DEF Accounts, Delivered
<1>15. Totals(f, Plus(p, j.adds))
  <2>1. /\ Plus(p, j.adds).paid = p.paid /\ Plus(p, j.adds).goods = p.goods + j.adds.goods
        /\ Plus(p, j.adds).orders = p.orders
    BY <1>1, <1>9 DEF Plus, Postings
  <2> QED
    BY <1>5, <1>6, <1>9, <2>1 DEF Totals
<1>16. Becomes(j, d, f)
  BY <1>4, <1>5, <1>6, <1>7 DEF Becomes
<1> QED
  BY <1>10, <1>12, <1>13, <1>14, <1>15, <1>16 DEF Done, Good
\* submit_pr
LEMMA SubmitDone ==
  ASSUME NEW j, NEW m, NEW d, NEW p, NEW n, NEW f, Heading(j, m, d, p, n, f), j.op = "submit",
         n[Request] = [d[Request] EXCEPT !.status = "pending", !.seq = 1]
  PROVE  Done(j, d, p, f)
<1> DEFINE price == d[Request].price
<1>1. /\ LiveIn(d) \subseteq DOMAIN m /\ DOMAIN m \subseteq Steps /\ Fresh(m, price)
      /\ d[Request].status \in {"draft", "rejected"}
      /\ j.adds = NoPosting /\ p \in Postings /\ Totals(d, p)
  BY DEF Heading, Early, SubmitFacts, Stands, JobTyped, Past
<1>2. d[Request] \in HeaderRow /\ Accounts(d) /\ RowsTyped(d) /\ RequestAssumption
  BY HeadingIs
<1>3. /\ n[Request] \in HeaderRow /\ n[Request].status = "pending" /\ n[Request].seq = 1
      /\ n[Request].price = price /\ n[Request].paid = d[Request].paid
  <2>1. n[Request] = [status |-> "pending", seq |-> 1, price |-> price, paid |-> d[Request].paid]
    BY <1>2 DEF HeaderRow
  <2> QED
    BY <1>2, <2>1 DEF HeaderRow, Statuses
<1>4. /\ DOMAIN f = Rows /\ f[Request] = n[Request] /\ f[Line] = d[Line]
      /\ \A i \in DOMAIN m : f[i] = m[i]
      /\ \A i \in Steps \ DOMAIN m : f[i] = d[i]
  <2>1. /\ DOMAIN f = Rows /\ f[Request] = n[Request] /\ \A r \in DOMAIN m : f[r] = m[r]
        /\ \A r \in Rows \ DOMAIN m : r # Request => f[r] = d[r]
    BY HeadingIs
  <2> QED
    BY <1>1, <1>2, <2>1, RowsApart
<1>5. \A i \in DOMAIN m : m[i] = Gone \/ (m[i] \in StepRow /\ m[i].status = "pending")
  BY <1>1 DEF Fresh
<1>6. \A i \in LiveIn(f) : /\ i \in DOMAIN m /\ f[i] = m[i] /\ m[i] # Gone
                           /\ f[i] \in StepRow /\ f[i].status = "pending"
  <2> SUFFICES ASSUME NEW i \in LiveIn(f)
               PROVE  i \in DOMAIN m /\ f[i] = m[i] /\ m[i] # Gone /\ f[i] \in StepRow /\ f[i].status = "pending"
    OBVIOUS
  <2>1. i \in Steps /\ f[i].status \notin {"none", "gone"}
    BY DEF LiveIn
  <2>2. i \in DOMAIN m
    BY <1>1, <1>4, <2>1 DEF LiveIn
  <2>3. m[i] # Gone
    BY <1>4, <2>1, <2>2 DEF Gone, NoStep
  <2> QED
    BY <1>4, <1>5, <2>2, <2>3
<1>7. \A i \in DOMAIN m : m[i] # Gone => i \in LiveIn(f)
  BY <1>1, <1>4, <1>5 DEF LiveIn
<1>8. RowsTyped(f)
  <2>1. \A i \in Steps : f[i] \in StepRow \/ f[i] \in {NoStep, Gone}
    BY <1>2, <1>4, <1>5 DEF RowsTyped
  <2> QED
    BY <1>2, <1>3, <1>4, <2>1 DEF RowsTyped
<1>9. Distinct(f)
  BY <1>1, <1>4, <1>6 DEF Distinct, Fresh
<1>10. Covers(f)
  <2>1. \A x \in StagesFor(price) : \E i \in DOMAIN m : m[i] # Gone /\ m[i].stage = x
    BY <1>1 DEF Fresh
  <2> QED
    BY <1>3, <1>4, <1>7, <2>1 DEF Covers
<1>11. Circulates(f) /\ Decided(f)
  <2>1. \E i \in LiveIn(f) : f[i].rung = 1 /\ f[i].status = "pending"
    <3>1. PICK i \in DOMAIN m : m[i] # Gone /\ m[i].rung = 1
      BY <1>1 DEF Fresh
    <3>2. i \in LiveIn(f) /\ f[i] = m[i]
      BY <1>4, <1>7, <3>1
    <3> QED
      BY <1>6, <3>1, <3>2
  <2>2. \A i \in LiveIn(f) : f[i].status # "rejected" /\ ~(f[i].rung < 1)
    BY <1>6 DEF StepRow
  <2> QED
    BY <1>3, <1>4, <1>10, <2>1, <2>2 DEF Circulates, Decided, InOrder
<1>12. Accounts(f)
  <2>1. d[Line].received = 0 /\ Ordered \in Nat \ {0}
    BY <1>1, <1>2 DEF Accounts, Delivered, RequestAssumption
  <2>2. ~(d[Line].received >= Ordered)
    BY <2>1
  <2> QED
    BY <1>2, <1>3, <1>4, <2>1, <2>2 DEF Accounts, Delivered
<1>13. Totals(f, Plus(p, j.adds))
  BY <1>1, <1>3, <1>4, PlusNothing DEF Totals
<1>14. Becomes(j, d, f)
  <2>1. \A i \in Steps : d[i] # NoStep => f[i] # NoStep
    <3> SUFFICES ASSUME NEW i \in Steps, d[i] # NoStep PROVE f[i] # NoStep
      OBVIOUS
    <3>1. CASE i \in DOMAIN m
      BY <1>4, <1>5, <3>1 DEF StepRow, Gone, NoStep
    <3>2. CASE i \notin DOMAIN m
      BY <1>4, <3>2
    <3> QED
      BY <3>1, <3>2
  <2> QED
    BY <1>3, <1>4, <2>1 DEF Becomes
<1> QED
  BY <1>8, <1>9, <1>11, <1>12, <1>13, <1>14 DEF Done, Good

\* act_on_step, rejecting
LEMMA RejectDone ==
  ASSUME NEW j, NEW m, NEW d, NEW p, NEW n, NEW f, Heading(j, m, d, p, n, f), j.op = "reject",
         n[Request] = [d[Request] EXCEPT !.status = "rejected"]
  PROVE  Done(j, d, p, f)
<1>1. /\ DOMAIN m = {j.id} /\ j.id \in Steps /\ d[j.id] # NoStep
      /\ m[j.id] = IF d[j.id] = Gone THEN Gone ELSE [d[j.id] EXCEPT !.status = "rejected"]
      /\ d[Request].status \in {"pending", "rejected"}
      /\ j.adds = NoPosting /\ p \in Postings /\ Totals(d, p)
  BY DEF Heading, Early, RejectFacts, Stands, JobTyped, Past
<1>2. /\ d[Request] \in HeaderRow /\ Accounts(d) /\ RowsTyped(d) /\ Distinct(d) /\ RequestAssumption
  BY HeadingIs
<1>3. /\ n[Request] \in HeaderRow /\ n[Request].status = "rejected"
      /\ n[Request].price = d[Request].price /\ n[Request].paid = d[Request].paid
  BY <1>2 DEF HeaderRow, Statuses
<1>4. /\ DOMAIN f = Rows /\ f[Request] = n[Request] /\ f[Line] = d[Line]
      /\ f[j.id] = m[j.id] /\ \A i \in Steps \ {j.id} : f[i] = d[i]
  <2>1. /\ DOMAIN f = Rows /\ f[Request] = n[Request] /\ \A r \in DOMAIN m : f[r] = m[r]
        /\ \A r \in Rows \ DOMAIN m : r # Request => f[r] = d[r]
    BY HeadingIs
  <2> QED
    BY <1>1, <1>2, <2>1, RowsApart
<1>5. /\ f[j.id] \in StepRow \/ f[j.id] = Gone
      /\ j.id \in LiveIn(f) => j.id \in LiveIn(d) /\ f[j.id].stage = d[j.id].stage
  <2>1. CASE d[j.id] = Gone
    BY <1>1, <1>4, <2>1 DEF LiveIn, Gone
  <2>2. CASE d[j.id] # Gone
    <3>1. d[j.id] \in StepRow
      BY <1>1, <1>2, <2>2 DEF RowsTyped
    <3>2. m[j.id] = [d[j.id] EXCEPT !.status = "rejected"]
      BY <1>1, <2>2
    <3>3. m[j.id] \in StepRow /\ m[j.id].stage = d[j.id].stage
      BY <3>1, <3>2, StatusRow
    <3>4. j.id \in LiveIn(d)
      BY <1>1, <3>1 DEF LiveIn, StepRow
    <3> QED
      BY <1>4, <3>3, <3>4
  <2> QED
    BY <2>1, <2>2
<1>6. LiveIn(f) \subseteq LiveIn(d) /\ \A i \in LiveIn(f) : f[i].stage = d[i].stage
  BY <1>4, <1>5 DEF LiveIn
<1>7. RowsTyped(f)
  <2>1. \A i \in Steps : f[i] \in StepRow \/ f[i] \in {NoStep, Gone}
    BY <1>2, <1>4, <1>5 DEF RowsTyped
  <2> QED
    BY <1>2, <1>3, <1>4, <2>1 DEF RowsTyped
<1>8. Distinct(f)
  BY <1>2, <1>6 DEF Distinct
<1>9. Circulates(f) /\ Decided(f)
  BY <1>3, <1>4 DEF Circulates, Decided, InOrder
<1>10. Accounts(f)
  <2>1. d[Line].received = 0 /\ Ordered \in Nat \ {0}
    BY <1>1, <1>2 DEF Accounts, Delivered, RequestAssumption
  <2>2. ~(d[Line].received >= Ordered)
    BY <2>1
  <2> QED
    BY <1>2, <1>3, <1>4, <2>1, <2>2 DEF Accounts, Delivered
<1>11. Totals(f, Plus(p, j.adds))
  BY <1>1, <1>3, <1>4, PlusNothing DEF Totals
<1>12. Becomes(j, d, f)
  <2>1. \A i \in Steps : d[i] # NoStep => f[i] # NoStep
    BY <1>4, <1>5 DEF StepRow, Gone, NoStep
  <2> QED
    BY <1>3, <1>4, <1>6, <2>1 DEF Becomes
<1> QED
  BY <1>7, <1>8, <1>9, <1>10, <1>11, <1>12 DEF Done, Good
\* send_back
LEMMA BackDone ==
  ASSUME NEW j, NEW m, NEW d, NEW p, NEW n, NEW f, Heading(j, m, d, p, n, f), j.op = "back",
         n[Request] = [d[Request] EXCEPT !.seq = j.arg]
  PROVE  Done(j, d, p, f)
<1> DEFINE seq == d[Request].seq
<1>1. /\ j.arg \in Nat \ {0} /\ d[Request].status \in {"pending", "rejected", "cancelled"}
      /\ \A i \in DOMAIN m : /\ i \in LiveIn(d) /\ d[i].rung >= j.arg
                             /\ m[i] = [d[i] EXCEPT !.status = "pending"]
      /\ d[Request].status = "pending" =>
           /\ j.arg < seq /\ \E i \in LiveIn(d) : d[i].rung = j.arg
           /\ \A i \in LiveIn(d) : d[i].rung >= j.arg => i \in DOMAIN m \/ d[i].status = "pending"
      /\ j.adds = NoPosting /\ p \in Postings /\ Totals(d, p)
  BY DEF Heading, Early, BackFacts, Stands, JobTyped, Past
<1>2. /\ d[Request] \in HeaderRow /\ Accounts(d) /\ RowsTyped(d) /\ Distinct(d) /\ Circulates(d)
      /\ RequestAssumption
  BY HeadingIs
<1>3. /\ n[Request] \in HeaderRow /\ n[Request].status = d[Request].status /\ n[Request].seq = j.arg
      /\ n[Request].price = d[Request].price /\ n[Request].paid = d[Request].paid
  BY <1>1, <1>2 DEF HeaderRow
<1>4. /\ f[Line] = d[Line] /\ f[Request] = n[Request] /\ DOMAIN f = Rows
      /\ \A i \in Steps : f[i] \in StepRow \/ f[i] \in {NoStep, Gone}
      /\ \A i \in Steps : d[i] # NoStep => f[i] # NoStep
      /\ LiveIn(f) = LiveIn(d)
      /\ \A i \in LiveIn(d) : /\ f[i].rung = d[i].rung /\ f[i].stage = d[i].stage
                              /\ f[i].status = IF i \in DOMAIN m THEN "pending" ELSE d[i].status
  <2>1. /\ DOMAIN n = DOMAIN m \cup {Request} /\ \A r \in DOMAIN m : n[r] = m[r]
        /\ f = Over(n, d)
    BY DEF Heading
  <2>2. Request \notin DOMAIN m
    BY HeadingIs
  <2>3. /\ DOMAIN n \subseteq Steps \cup {Request}
        /\ \A i \in DOMAIN n \ {Request} : i \in LiveIn(d) /\ n[i] = [d[i] EXCEPT !.status = "pending"]
    BY <1>1, <2>1 DEF LiveIn
  <2>4. /\ f[Line] = d[Line] /\ DOMAIN f = Rows
        /\ f[Request] = IF Request \in DOMAIN n THEN n[Request] ELSE d[Request]
        /\ \A i \in Steps : f[i] \in StepRow \/ f[i] \in {NoStep, Gone}
        /\ \A i \in Steps : d[i] # NoStep => f[i] # NoStep
        /\ LiveIn(f) = LiveIn(d)
        /\ \A i \in LiveIn(d) : /\ f[i].rung = d[i].rung /\ f[i].stage = d[i].stage
                                /\ f[i].status = IF i \in DOMAIN n THEN "pending" ELSE d[i].status
    <3>1. "pending" \in {"pending", "approved", "rejected"}
      OBVIOUS
    <3>2. RequestAssumption /\ RowsTyped(d) /\ f = Over(n, d)
      BY <1>2, <2>1
    <3> QED
      BY <2>3, <3>1, <3>2, NewStatus
  <2>5. \A i \in LiveIn(d) : i \in DOMAIN n <=> i \in DOMAIN m
    BY <1>2, <2>1, RowsApart DEF LiveIn
  <2> QED
    BY <2>1, <2>4, <2>5
<1>5. RowsTyped(f)
  BY <1>2, <1>3, <1>4 DEF RowsTyped
<1>6. Distinct(f) /\ (Covers(d) => Covers(f))
  <2>1. Distinct(f)
    BY <1>2, <1>4 DEF Distinct
  <2>2. Covers(d) => Covers(f)
    BY <1>3, <1>4 DEF Covers
  <2> QED
    BY <2>1, <2>2
<1>7. Circulates(f) /\ Decided(f)
  <2>1. CASE d[Request].status # "pending"
    BY <1>1, <1>3, <1>4, <2>1 DEF Circulates, Decided, InOrder
  <2>2. CASE d[Request].status = "pending"
    <3>1. /\ Covers(d)
          /\ \A i \in LiveIn(d) : /\ d[i].status # "rejected"
                                  /\ d[i].rung < seq => d[i].status = "approved"
      BY <1>2, <2>2 DEF Circulates
    <3>2. Covers(f)
      BY <1>6, <3>1
    <3>3. \E i \in LiveIn(f) : f[i].rung = j.arg /\ f[i].status = "pending"
      <4>1. PICK i \in LiveIn(d) : d[i].rung = j.arg
        BY <1>1, <2>2
      <4>2. d[i].rung >= j.arg
        BY <1>1, <4>1
      <4>3. f[i].status = "pending" /\ f[i].rung = j.arg
        BY <1>1, <1>4, <2>2, <4>1, <4>2
      <4> QED
        BY <1>4, <4>3
    <3>4. \A i \in LiveIn(f) : f[i].status # "rejected"
      BY <1>4, <3>1
    <3>5. ASSUME NEW i \in LiveIn(f), f[i].rung < j.arg PROVE f[i].status = "approved"
      <4>1. i \in LiveIn(d) /\ d[i].rung \in Nat /\ seq \in Nat /\ d[i].rung < j.arg
        BY <1>2, <1>4, <3>5, Columns DEF RowsTyped, LiveIn, StepRow, NoStep, Gone
      <4>2. i \notin DOMAIN m /\ d[i].rung < seq
        BY <1>1, <2>2, <4>1
      <4> QED
        BY <1>4, <3>1, <4>1, <4>2
    <3> QED
      BY <1>3, <1>4, <2>2, <3>2, <3>3, <3>4, <3>5 DEF Circulates, Decided, InOrder
  <2> QED
    BY <2>1, <2>2
<1>8. Accounts(f)
  BY <1>2, <1>3, <1>4 DEF Accounts
<1>9. Totals(f, Plus(p, j.adds))
  BY <1>1, <1>3, <1>4, PlusNothing DEF Totals
<1>10. Becomes(j, d, f)
  BY <1>3, <1>4 DEF Becomes
<1> QED
  BY <1>5, <1>6, <1>7, <1>8, <1>9, <1>10 DEF Done, Good

\* price_pr on a request that does not circulate
LEMMA PriceDone ==
  ASSUME NEW j, NEW m, NEW d, NEW p, NEW n, NEW f, Heading(j, m, d, p, n, f), j.op = "price",
         j.pr.status # "pending", n[Request] = [d[Request] EXCEPT !.price = j.arg]
  PROVE  Done(j, d, p, f)
<1>1. /\ DOMAIN m = {Line} /\ m[Line] = d[Line] /\ j.arg \in Prices
      /\ d[Request].status \in {"draft", "rejected", "cancelled"}
      /\ j.adds = NoPosting /\ p \in Postings /\ Totals(d, p)
  BY DEF Heading, Early, PriceFacts, Stands, JobTyped, Past
<1>2. /\ d[Request] \in HeaderRow /\ Accounts(d) /\ RowsTyped(d) /\ Distinct(d) /\ RequestAssumption
  BY HeadingIs
<1>3. /\ n[Request] \in HeaderRow /\ n[Request].status = d[Request].status
      /\ n[Request].seq = d[Request].seq /\ n[Request].price = j.arg /\ n[Request].paid = d[Request].paid
  BY <1>1, <1>2 DEF HeaderRow
<1>4. /\ DOMAIN f = Rows /\ f[Request] = n[Request] /\ f[Line] = d[Line]
      /\ \A i \in Steps : f[i] = d[i]
  <2>1. /\ DOMAIN f = Rows /\ f[Request] = n[Request] /\ f[Line] = m[Line]
        /\ \A r \in Rows \ {Line} : r # Request => f[r] = d[r]
    BY <1>1, HeadingIs
  <2> QED
    BY <1>1, <1>2, <2>1, RowsApart
<1>5. LiveIn(f) = LiveIn(d)
  BY <1>4 DEF LiveIn
<1>6. RowsTyped(f) /\ Distinct(f)
  BY <1>2, <1>3, <1>4, <1>5 DEF RowsTyped, Distinct, LiveIn
<1>7. Circulates(f) /\ Decided(f)
  BY <1>1, <1>3, <1>4 DEF Circulates, Decided, InOrder
<1>8. Accounts(f)
  <2>1. d[Line].received = 0 /\ d[Request].paid <= d[Line].received * d[Request].price
    BY <1>1, <1>2 DEF Accounts, Delivered
  <2>2. d[Request].paid \in Nat /\ d[Request].price \in Nat /\ j.arg \in Nat
    <3>1. Prices \subseteq Nat
      BY <1>2 DEF RequestAssumption
    <3> QED
      BY <1>1, <1>2, <3>1, Columns
  <2>3. d[Request].paid <= d[Line].received * j.arg
    BY <2>1, <2>2
  <2> QED
    BY <1>2, <1>3, <1>4, <2>3 DEF Accounts
<1>9. Totals(f, Plus(p, j.adds))
  BY <1>1, <1>3, <1>4, PlusNothing DEF Totals
<1>10. Becomes(j, d, f)
  <2>1. /\ \A i \in LiveIn(d) : f[i] = d[i]
        /\ \A i \in LiveIn(f) \ LiveIn(d) : f[i].status = "pending"
    BY <1>4, <1>5 DEF LiveIn
  <2>2. /\ f[Request].status = d[Request].status /\ f[Request].seq = d[Request].seq
        /\ f[Request].paid = d[Request].paid
    BY <1>3, <1>4
  <2>3. \A i \in Steps : d[i] # NoStep => f[i] # NoStep
    BY <1>4
  <2> QED
    BY <1>4, <2>1, <2>2, <2>3 DEF Becomes
<1> QED
  BY <1>6, <1>7, <1>8, <1>9, <1>10 DEF Done, Good

\* act_on_step, signing: the next rung, or the approval
LEMMA SignDone ==
  ASSUME NEW j, NEW m, NEW d, NEW p, NEW n, NEW f, Heading(j, m, d, p, n, f), j.op = "sign",
         n[Request] = IF j.rung = 0 THEN [d[Request] EXCEPT !.status = "approved", !.seq = 0]
                                    ELSE [d[Request] EXCEPT !.seq = j.rung]
  PROVE  Done(j, d, p, f)
<1> DEFINE e == Over(m, d)
           st == IF j.rung = 0 THEN "approved" ELSE "pending"
<1>1. /\ d[Request].status = "pending" /\ j.rung \in Nat
      /\ j.id \in LiveIn(d) /\ d[j.id].rung = d[Request].seq
      /\ DOMAIN m = {j.id} /\ m[j.id] = [d[j.id] EXCEPT !.status = "approved"]
      /\ j.rung = 0 => \A i \in LiveIn(e) : e[i].status = "approved"
      /\ j.rung > 0 =>
           /\ \E i \in LiveIn(e) : e[i].rung = j.rung /\ e[i].status = "pending"
           /\ \A i \in LiveIn(e) : e[i].rung < j.rung => e[i].status = "approved"
      /\ j.adds = NoPosting /\ p \in Postings /\ Totals(d, p)
  BY DEF Heading, Early, SignFacts, Stands, JobTyped, Past
<1>2. /\ d[Request] \in HeaderRow /\ Accounts(d) /\ Good(d) /\ RowsTyped(d) /\ RequestAssumption
  BY HeadingIs DEF Good
<1>3. /\ n[Request] \in HeaderRow /\ n[Request].status = st /\ n[Request].seq = j.rung
      /\ n[Request].price = d[Request].price /\ n[Request].paid = d[Request].paid
  <2>1. n[Request] = [status |-> st, seq |-> j.rung, price |-> d[Request].price, paid |-> d[Request].paid]
    BY <1>1, <1>2 DEF HeaderRow
  <2>2. st \in Statuses
    BY DEF Statuses
  <2> QED
    BY <1>1, <1>2, <2>1, <2>2 DEF HeaderRow
<1>4. e = Over(m, d)
  OBVIOUS
<1> HIDE DEF e
<1>5. /\ RowsTyped(e) /\ Distinct(e) /\ Covers(e) /\ LiveIn(e) = LiveIn(d)
      /\ e[Request] = d[Request] /\ e[Line] = d[Line]
      /\ \A i \in Steps : d[i] # NoStep => e[i] # NoStep
      /\ \A i \in LiveIn(e) : e[i].status \in {"pending", "approved"}
  BY <1>1, <1>2, <1>4, SignedIs
<1>6. /\ DOMAIN f = Rows /\ f[Request] = n[Request] /\ f[Line] = e[Line]
      /\ \A i \in Steps : f[i] = e[i]
  <2>1. /\ DOMAIN f = Rows /\ f[Request] = n[Request] /\ f[j.id] = m[j.id]
        /\ \A r \in Rows \ {j.id} : r # Request => f[r] = d[r]
    BY <1>1, HeadingIs
  <2>2. e[j.id] = m[j.id] /\ \A r \in Rows \ {j.id} : e[r] = d[r]
    BY <1>1, <1>2, <1>4 DEF Over, RowsTyped
  <2> QED
    BY <1>1, <1>2, <2>1, <2>2, RowsApart DEF LiveIn
<1>7. LiveIn(f) = LiveIn(e)
  BY <1>6 DEF LiveIn
<1>8. RowsTyped(f) /\ Distinct(f)
  BY <1>3, <1>5, <1>6, <1>7 DEF RowsTyped, Distinct, LiveIn
<1>9. Covers(f)
  BY <1>3, <1>5, <1>6, <1>7 DEF Covers, LiveIn
<1>10. Circulates(f) /\ Decided(f)
  <2>1. CASE j.rung = 0
    BY <1>1, <1>3, <1>6, <1>7, <1>9, <2>1 DEF Circulates, Decided, LiveIn
  <2>2. CASE j.rung # 0
    <3>1. /\ \E i \in LiveIn(f) : f[i].rung = j.rung /\ f[i].status = "pending"
          /\ \A i \in LiveIn(f) : f[i].rung < j.rung => f[i].status = "approved"
      BY <1>1, <1>6, <1>7, <2>2 DEF LiveIn
    <3>2. \A i \in LiveIn(f) : f[i].status # "rejected"
      BY <1>5, <1>6, <1>7 DEF LiveIn
    <3>3. f[Request].status = "pending" /\ f[Request].seq = j.rung
      BY <1>3, <1>6, <2>2
    <3> QED
      BY <1>9, <3>1, <3>2, <3>3 DEF Circulates, Decided, InOrder
  <2> QED
    BY <2>1, <2>2
<1>11. Accounts(f)
  <2>1. /\ d[Line].received = 0 /\ Ordered \in Nat \ {0}
    BY <1>1, <1>2 DEF Accounts, Delivered, RequestAssumption
  <2>2. ~(d[Line].received >= Ordered)
    BY <2>1
  <2>3. st \notin Delivered
    BY DEF Delivered
  <2> QED
    BY <1>2, <1>3, <1>5, <1>6, <2>1, <2>2, <2>3 DEF Accounts, Delivered
<1>12. Totals(f, Plus(p, j.adds))
  BY <1>1, <1>3, <1>5, <1>6, PlusNothing DEF Totals
<1>13. Becomes(j, d, f)
  BY <1>3, <1>5, <1>6 DEF Becomes
<1> QED
  BY <1>8, <1>10, <1>11, <1>12, <1>13 DEF Done, Good
\* A function that has updated pr_requests, and left it sound.
LEMMA DoneFacts ==
  ASSUME NEW j, NEW m, NEW d, NEW p, NEW n, NEW f, Heading(j, m, d, p, n, f), Done(j, d, p, f),
         j.op # "idle", NEW pc, pc = "commit" \/ (pc = "activate" /\ j.op = "sign"),
         NEW k, k = [j EXCEPT !.pc = pc]
  PROVE  Facts(k, n, d, p)
<1>1. /\ JobTyped(j) /\ j.pc = "head" /\ DOMAIN j = JobFields /\ DOMAIN n = DOMAIN m \cup {Request}
      /\ DOMAIN m \subseteq Rows /\ d[Request].status \in Stands(j) /\ f = Over(n, d)
  BY DEF Heading, JobTyped
<1>2. /\ DOMAIN k = JobFields /\ k.op = j.op /\ k.pc = pc /\ k.arg = j.arg /\ k.adds = j.adds
  BY <1>1, GotoIs
<1>3. JobTyped(k)
  <2>1. j.op \in Ops /\ pc \in Points(j.op) /\ pc \in Past
    BY <1>1 DEF JobTyped, Points, Past, Ops, FirstStatement
  <2> QED
    BY <1>1, <1>2, <2>1 DEF JobTyped
<1>4. d[Request].status \in Stands(k)
  BY <1>1, <1>2 DEF Stands
<1>5. DOMAIN n \subseteq Rows
  BY <1>1 DEF Rows
<1>6. Late(k, n, d, p)
  <2>1. Becomes(k, d, f)
    BY <1>2 DEF Done, Becomes
  <2>2. Good(f) /\ Totals(f, Plus(p, k.adds))
    BY <1>2 DEF Done
  <2>3. k.pc # "ladder" /\ Request \in DOMAIN n
    BY <1>1, <1>2
  <2> QED
    BY <1>1, <2>1, <2>2, <2>3 DEF Late
<1>7. k.pc \in Past /\ k.op # "idle"
  BY <1>2 DEF Past
<1> QED
  BY <1>3, <1>4, <1>5, <1>6, <1>7 DEF Facts

\* price_pr on a request that circulates: the ladder comes next.
LEMMA LadderFacts ==
  ASSUME NEW j, NEW m, NEW d, NEW p, NEW n, NEW f, Heading(j, m, d, p, n, f), j.op = "price",
         n[Request] = [d[Request] EXCEPT !.price = j.arg], NEW k, k = [j EXCEPT !.pc = "ladder"]
  PROVE  Facts(k, n, d, p)
<1>1. /\ JobTyped(j) /\ j.pc = "head" /\ DOMAIN j = JobFields /\ DOMAIN n = DOMAIN m \cup {Request}
      /\ DOMAIN m \subseteq Rows /\ d[Request].status \in Stands(j)
      /\ j.adds = NoPosting /\ \A r \in DOMAIN m : n[r] = m[r]
  BY DEF Heading, JobTyped, Past
<1>2. DOMAIN m = {Line} /\ m[Line] = d[Line]
  BY DEF Heading, Early, PriceFacts
<1>3. /\ DOMAIN k = JobFields /\ k.op = j.op /\ k.pc = "ladder" /\ k.arg = j.arg /\ k.adds = j.adds
  BY <1>1, GotoIs
<1>4. JobTyped(k)
  BY <1>1, <1>3 DEF JobTyped, Points, Past
<1>5. d[Request].status \in Stands(k)
  BY <1>1, <1>3 DEF Stands
<1>6. DOMAIN n \subseteq Rows
  BY <1>1 DEF Rows
<1>7. Late(k, n, d, p)
  BY <1>1, <1>2, <1>3 DEF Late
<1>8. k.pc \in Past /\ k.op # "idle"
  BY <1>3 DEF Past
<1> QED
  BY <1>4, <1>5, <1>6, <1>7, <1>8 DEF Facts

\* The UPDATE of pr_requests, whichever the function.
LEMMA PutHeaderKeeps ==
  ASSUME RequestAssumption, PInv, NEW s \in Sessions, PutHeader(s)
  PROVE  PInv'
<1> DEFINE j == job[s]
           m == mine[s]
           pc == IF j.op = "sign" /\ j.rung > 0 THEN "activate"
                 ELSE IF j.op = "price" /\ j.pr.status = "pending" THEN "ladder" ELSE "commit"
           k == [j EXCEPT !.pc = pc]
           v == NewHeader(s)
           rows == [x \in {Request} |-> v]
           n == Over(rows, m)
           f == Over(n, db)
<1>0. /\ k = [j EXCEPT !.pc = pc] /\ v = NewHeader(s)
      /\ rows = [x \in {Request} |-> v] /\ n = Over(rows, m) /\ f = Over(n, db)
  OBVIOUS
<1>1. j.pc = "head" /\ Write(s, Request, v) /\ Goto(s, pc) /\ UNCHANGED posted
  BY DEF PutHeader
<1>2. j.op # "idle"
  BY <1>1 DEF PInv, Sound, Facts, JobTyped, Idle
<1>3. /\ JobTyped(j) /\ DOMAIN j = JobFields /\ j.op \in Ops /\ DOMAIN m \subseteq Rows
      /\ db[Request].status \in Stands(j) /\ Early(j, m, db, posted)
  BY <1>1, <1>2, AtWork DEF Past
<1>4. Good(db) /\ posted \in Postings /\ Totals(db, posted)
  BY DEF PInv, Sound
<1>5. DOMAIN rows = {Request} /\ rows[Request] = v
  BY <1>0
<1>6. Request \notin DOMAIN m /\ Header(s) = db[Request]
  BY <1>3 DEF Early, Header, Seen
<1>11. WriteAll(s, rows)
  BY <1>1, WriteIsAll
<1> HIDE DEF v, rows
<1>7. DOMAIN n = DOMAIN m \cup {Request} /\ n[Request] = v /\ \A r \in DOMAIN m : n[r] = m[r]
  BY <1>5, <1>6 DEF Over
<1> HIDE DEF k, n, f
<1>8. Heading(j, m, db, posted, n, f)
  BY <1>0, <1>1, <1>3, <1>4, <1>7 DEF Heading
<1>9. CASE j.op = "price" /\ j.pr.status = "pending"
  <2>1. Facts(k, n, db, posted)
    <3>1. k = [j EXCEPT !.pc = "ladder"]
      BY <1>0, <1>9
    <3>2. n[Request] = [db[Request] EXCEPT !.price = j.arg]
      BY <1>0, <1>6, <1>7, <1>9 DEF NewHeader, Current
    <3> HIDE DEF j, m, pc
    <3> QED
      BY <1>8, <1>9, <3>1, <3>2, LadderFacts
  <2> QED
    BY <1>0, <1>1, <1>2, <1>11, <2>1, WriteGoesOn
<1>10. CASE ~(j.op = "price" /\ j.pr.status = "pending")
  <2>1. Done(j, db, posted, f)
    <3>1. CASE j.op = "submit"
      <4>1. n[Request] = [db[Request] EXCEPT !.status = "pending", !.seq = 1]
        BY <1>0, <1>6, <1>7, <3>1 DEF NewHeader, Current
      <4> QED
        BY <1>8, <3>1, <4>1, SubmitDone
    <3>2. CASE j.op = "price"
      <4>1. n[Request] = [db[Request] EXCEPT !.price = j.arg]
        BY <1>0, <1>6, <1>7, <3>2 DEF NewHeader, Current
      <4> QED
        BY <1>8, <1>10, <3>2, <4>1, PriceDone
    <3>3. CASE j.op = "sign"
      <4>1. j.rung \in Nat
        BY <1>1, <1>3, <3>3 DEF Early, SignFacts
      <4>2. n[Request] = IF j.rung = 0 THEN [db[Request] EXCEPT !.status = "approved", !.seq = 0]
                                       ELSE [db[Request] EXCEPT !.seq = j.rung]
        BY <1>0, <1>6, <1>7, <3>3, <4>1 DEF NewHeader, Current
      <4> QED
        BY <1>8, <3>3, <4>2, SignDone
    <3>4. CASE j.op = "reject"
      <4>1. n[Request] = [db[Request] EXCEPT !.status = "rejected"]
        BY <1>0, <1>6, <1>7, <3>4 DEF NewHeader, Current
      <4> QED
        BY <1>8, <3>4, <4>1, RejectDone
    <3>5. CASE j.op = "back"
      <4>1. n[Request] = [db[Request] EXCEPT !.seq = j.arg]
        BY <1>0, <1>6, <1>7, <3>5 DEF NewHeader, Current
      <4> QED
        BY <1>8, <3>5, <4>1, BackDone
    <3>6. CASE j.op = "issue"
      <4>1. n[Request] = [db[Request] EXCEPT !.status = "po_issued"]
        BY <1>0, <1>6, <1>7, <3>6 DEF NewHeader, Current
      <4> QED
        BY <1>8, <3>6, <4>1, IssueDone
    <3>7. CASE j.op = "receive"
      <4>1. DOMAIN m = {Line}
        BY <1>1, <1>3, <3>7 DEF Early, OrderFacts
      <4>2. Full(s) <=> m[Line].received >= Ordered
        BY <4>1 DEF Full, Seen
      <4>3. n[Request] = [db[Request] EXCEPT
               !.status = IF m[Line].received >= Ordered THEN "received" ELSE "partially_received"]
        BY <1>0, <1>6, <1>7, <3>7, <4>2 DEF NewHeader, Current
      <4> QED
        BY <1>8, <3>7, <4>3, ReceiveDone
    <3>8. CASE j.op = "pay"
      <4>1. n[Request] = [db[Request] EXCEPT !.paid = j.pr.paid + Amount]
        BY <1>0, <1>6, <1>7, <3>8 DEF NewHeader, Current
      <4> QED
        BY <1>8, <3>8, <4>1, PayDone
    <3>9. CASE j.op \in {"close", "cancel"}
      <4>1. db[Request] \in HeaderRow
        BY <1>4 DEF Good, RowsTyped
      <4>2. /\ n[Request] \in HeaderRow
            /\ n[Request].status = IF j.op = "close" THEN "closed" ELSE "cancelled"
            /\ n[Request].price = db[Request].price /\ n[Request].paid = db[Request].paid
        <5>1. CASE j.op = "close"
          <6>1. n[Request] = [db[Request] EXCEPT !.status = "closed"]
            BY <1>0, <1>6, <1>7, <5>1 DEF NewHeader, Current
          <6> QED
            BY <4>1, <5>1, <6>1 DEF HeaderRow, Statuses, Delivered
        <5>2. CASE j.op = "cancel"
          <6>1. n[Request] = [db[Request] EXCEPT !.status = "cancelled", !.seq = 0]
            BY <1>0, <1>6, <1>7, <5>2 DEF NewHeader, Current
          <6>2. n[Request] = [status |-> "cancelled", seq |-> 0, price |-> db[Request].price,
                              paid |-> db[Request].paid]
            BY <4>1, <6>1 DEF HeaderRow
          <6> QED
            BY <4>1, <5>2, <6>2 DEF HeaderRow, Statuses
        <5> QED
          BY <3>9, <5>1, <5>2
      <4> QED
        BY <1>8, <3>9, <4>2, EndDone
    <3> QED
      BY <1>3, <3>1, <3>2, <3>3, <3>4, <3>5, <3>6, <3>7, <3>8, <3>9 DEF Ops, FirstStatement
  <2>2. Facts(k, n, db, posted)
    <3>1. pc = "commit" \/ (pc = "activate" /\ j.op = "sign")
      BY <1>10
    <3> HIDE DEF j, m, pc
    <3> QED
      BY <1>0, <1>2, <1>8, <2>1, <3>1, DoneFacts
  <2> QED
    BY <1>0, <1>1, <1>2, <1>11, <2>2, WriteGoesOn
<1> QED
  BY <1>9, <1>10
\* The rung somebody is asked on next is stamped: rows rewritten as they are.
LEMMA ActivateKeeps ==
  ASSUME RequestAssumption, PInv, NEW s \in Sessions, Activate(s)
  PROVE  PInv'
<1> DEFINE j == job[s]
           m == mine[s]
           rows == [i \in {i \in Ladder(s) : Seen(s, i).rung = j.rung} |-> Seen(s, i)]
           k == [j EXCEPT !.pc = "commit"]
           n == Over(rows, m)
           e == Over(m, db)
           f == Over(n, db)
<1>0. k = [j EXCEPT !.pc = "commit"] /\ n = Over(rows, m) /\ e = Over(m, db) /\ f = Over(n, db)
  OBVIOUS
<1>1. /\ j.op = "sign" /\ j.pc = "activate" /\ WriteAll(s, rows) /\ Goto(s, "commit") /\ UNCHANGED posted
  BY DEF Activate, At
<1>2. /\ JobTyped(j) /\ DOMAIN j = JobFields /\ DOMAIN m \subseteq Rows
      /\ db[Request].status \in Stands(j) /\ Late(j, m, db, posted) /\ DOMAIN db = Rows
  BY <1>1, AtWork DEF Past, RowsTyped
<1>3. Good(e) /\ Totals(e, Plus(posted, j.adds)) /\ Becomes(j, db, e)
  BY <1>1, <1>2 DEF Late
<1>4. DOMAIN rows \subseteq Steps /\ \A i \in DOMAIN rows : rows[i] = Seen(s, i)
  BY DEF Ladder
<1> HIDE DEF rows
<1>5. DOMAIN n = DOMAIN m \cup DOMAIN rows
      /\ \A x \in DOMAIN n : n[x] = IF x \in DOMAIN rows THEN rows[x] ELSE m[x]
  BY DEF Over
<1>6. e = [r \in Rows |-> Seen(s, r)]
  BY <1>2 DEF Over, Seen
<1>7. f = [r \in Rows |-> Seen(s, r)]
  <2>1. DOMAIN n \subseteq Rows
    BY <1>2, <1>4, <1>5 DEF Rows
  <2>2. \A r \in Rows : Seen(s, r) = IF r \in DOMAIN n THEN n[r] ELSE db[r]
    BY <1>4, <1>5 DEF Seen
  <2> HIDE DEF n
  <2>3. f = [r \in Rows |-> IF r \in DOMAIN n THEN n[r] ELSE db[r]]
    BY <1>2, <2>1 DEF Over
  <2> QED
    BY <2>2, <2>3
<1>8. f = e
  BY <1>6, <1>7
<1>9. /\ DOMAIN k = JobFields /\ k.op = "sign" /\ k.pc = "commit" /\ k.arg = j.arg /\ k.adds = j.adds
  BY <1>0, <1>1, <1>2, GotoIs
<1> HIDE DEF k, n, e, f
<1>10. JobTyped(k)
  BY <1>1, <1>2, <1>9 DEF JobTyped, Points, Past
<1>11. Late(k, n, db, posted)
  <2>1. Becomes(k, db, f)
    BY <1>1, <1>3, <1>8, <1>9 DEF Becomes
  <2>2. Good(f) /\ Totals(f, Plus(posted, k.adds))
    BY <1>3, <1>8, <1>9
  <2> QED
    BY <1>0, <1>9, <2>1, <2>2 DEF Late
<1>12. Facts(k, n, db, posted)
  <2>1. DOMAIN n \subseteq Rows
    BY <1>2, <1>4, <1>5 DEF Rows
  <2> QED
    BY <1>1, <1>2, <1>9, <1>10, <1>11, <2>1 DEF Facts, Stands, Past
<1>13. j.op # "idle"
  BY <1>1
<1> QED
  BY <1>0, <1>1, <1>12, <1>13, WriteGoesOn

\* The ladder of a new price: rungs no longer called for go, missing ones come on top.
Reladdered(d, price, gone, new, f) ==
    /\ Good(d) /\ price \in Prices
    /\ d[Request].status \in {"draft", "pending", "rejected", "cancelled"}
    /\ gone \in SUBSET LiveIn(d)
    /\ \A i \in gone : d[i].stage \notin StagesFor(price) /\ d[i].rung > d[Request].seq
    /\ DOMAIN new \subseteq Steps /\ \A i \in DOMAIN new : d[i] = NoStep
    /\ \A i \in DOMAIN new : /\ new[i] \in StepRow /\ new[i].status = "pending"
                             /\ \A x \in LiveIn(d) : /\ new[i].rung > d[x].rung
                                                     /\ new[i].stage # d[x].stage
    /\ \A i, x \in DOMAIN new : new[i].stage = new[x].stage => i = x
    /\ \A c \in StagesFor(price) : \/ \E i \in DOMAIN new : new[i].stage = c
                                   \/ \E i \in LiveIn(d) : d[i].stage = c
    /\ DOMAIN f = Rows /\ f[Line] = d[Line] /\ f[Request] = [d[Request] EXCEPT !.price = price]
    /\ \A i \in Steps :
         f[i] = IF i \in DOMAIN new THEN new[i] ELSE IF i \in gone THEN Gone ELSE d[i]

\* It is sound.
LEMMA Reladder ==
  ASSUME RequestAssumption, NEW d, NEW price, NEW gone, NEW new, NEW f,
         Reladdered(d, price, gone, new, f)
  PROVE  /\ Good(f)
         /\ \A i \in Steps : d[i] # NoStep => f[i] # NoStep
         /\ \A i \in LiveIn(d) : f[i] = d[i] \/ (f[i] = Gone /\ d[i].rung > d[Request].seq)
         /\ \A i \in LiveIn(f) \ LiveIn(d) : f[i].status = "pending"
         /\ f[Request].status = d[Request].status /\ f[Request].seq = d[Request].seq
         /\ f[Request].paid = d[Request].paid
<1> USE DEF Reladdered
<1>1. /\ RowsTyped(d) /\ Distinct(d) /\ Circulates(d) /\ Accounts(d) /\ d[Request] \in HeaderRow
  BY DEF Good, RowsTyped
<1>2. /\ f[Request] \in HeaderRow /\ f[Request].status = d[Request].status
      /\ f[Request].seq = d[Request].seq /\ f[Request].price = price /\ f[Request].paid = d[Request].paid
  BY <1>1 DEF HeaderRow
<1>3. \A i \in LiveIn(d) : i \in Steps /\ d[i] \in StepRow /\ i \notin DOMAIN new
  BY <1>1 DEF LiveIn, RowsTyped, NoStep, Gone
<1>4. \A i \in DOMAIN new : i \in LiveIn(f) /\ f[i] = new[i]
  BY DEF LiveIn
<1>5. \A i \in LiveIn(d) \ gone : i \in LiveIn(f) /\ f[i] = d[i]
  BY <1>3 DEF LiveIn
<1>6. \A i \in LiveIn(f) : i \in DOMAIN new \/ i \in LiveIn(d) \ gone
  BY DEF LiveIn, Gone, NoStep
<1>7. RowsTyped(f)
  <2>1. \A i \in Steps : f[i] \in StepRow \/ f[i] \in {NoStep, Gone}
    BY <1>1 DEF RowsTyped
  <2> QED
    BY <1>1, <1>2, <2>1 DEF RowsTyped
<1>8. Distinct(f)
  <2> SUFFICES ASSUME NEW i \in LiveIn(f), NEW x \in LiveIn(f), f[i].stage = f[x].stage PROVE i = x
    BY DEF Distinct
  <2>1. CASE i \in DOMAIN new /\ x \in DOMAIN new
    BY <1>4, <2>1
  <2>2. CASE i \in LiveIn(d) \ gone /\ x \in LiveIn(d) \ gone
    BY <1>1, <1>5, <2>2 DEF Distinct
  <2>3. CASE i \in DOMAIN new /\ x \in LiveIn(d) \ gone
    BY <1>4, <1>5, <2>3
  <2>4. CASE x \in DOMAIN new /\ i \in LiveIn(d) \ gone
    BY <1>4, <1>5, <2>4
  <2> QED
    BY <1>6, <2>1, <2>2, <2>3, <2>4
<1>9. Covers(f)
  <2> SUFFICES ASSUME NEW c \in StagesFor(price) PROVE \E i \in LiveIn(f) : f[i].stage = c
    BY <1>2 DEF Covers
  <2>1. CASE \E i \in DOMAIN new : new[i].stage = c
    BY <1>4, <2>1
  <2>2. CASE \E i \in LiveIn(d) : d[i].stage = c
    BY <1>5, <2>2
  <2> QED
    BY <2>1, <2>2
<1>10. Circulates(f) /\ Decided(f)
  <2>1. CASE d[Request].status # "pending"
    BY <1>2, <2>1 DEF Circulates, Decided, InOrder
  <2>2. CASE d[Request].status = "pending"
    <3>1. PICK i \in LiveIn(d) : d[i].rung = d[Request].seq /\ d[i].status = "pending"
      BY <1>1, <2>2 DEF Circulates
    <3>2. d[i].rung \in Nat
      BY <1>3 DEF StepRow
    <3>3. i \in LiveIn(f) /\ f[i] = d[i]
      BY <1>5, <3>1, <3>2
    <3>4. ASSUME NEW x \in LiveIn(f)
          PROVE  f[x].status # "rejected" /\ (f[x].rung < d[Request].seq => f[x].status = "approved")
      <4>1. CASE x \in DOMAIN new
        <5>1. f[x].status = "pending" /\ f[x].rung > d[i].rung /\ f[x].rung \in Nat
          BY <1>4, <4>1 DEF StepRow
        <5> QED
          BY <3>1, <3>2, <5>1
      <4>2. CASE x \in LiveIn(d) \ gone
        BY <1>1, <1>5, <2>2, <4>2 DEF Circulates
      <4> QED
        BY <1>6, <4>1, <4>2
    <3> QED
      BY <1>2, <1>9, <2>2, <3>1, <3>3, <3>4 DEF Circulates, Decided, InOrder
  <2> QED
    BY <2>1, <2>2
<1>11. Accounts(f)
  <2>1. d[Line].received = 0 /\ d[Request].paid <= d[Line].received * d[Request].price
    BY <1>1 DEF Accounts, Delivered
  <2>2. d[Request].paid \in Nat /\ d[Request].price \in Nat /\ price \in Nat
    <3>1. Prices \subseteq Nat
      BY DEF RequestAssumption
    <3> QED
      BY <1>1, <3>1, Columns
  <2>3. d[Request].paid <= d[Line].received * price
    BY <2>1, <2>2
  <2> QED
    BY <1>1, <1>2, <2>3 DEF Accounts
<1>12. \A i \in Steps : d[i] # NoStep => f[i] # NoStep
  <2>1. Gone # NoStep
    BY DEF Gone, NoStep
  <2> QED
    BY <2>1
<1>13. \A i \in LiveIn(d) : f[i] = d[i] \/ (f[i] = Gone /\ d[i].rung > d[Request].seq)
  BY <1>3
<1>14. \A i \in LiveIn(f) \ LiveIn(d) : f[i].status = "pending"
  BY <1>4, <1>6
<1> QED
  BY <1>2, <1>7, <1>8, <1>10, <1>11, <1>12, <1>13, <1>14 DEF Good
\* price_pr reconciles the ladder of a circulating request with its new price.
LEMMA ReconcileKeeps ==
  ASSUME RequestAssumption, PInv, NEW s \in Sessions, Reconcile(s)
  PROVE  PInv'
<1> DEFINE j == job[s]
           m == mine[s]
           e == Over(m, db)
           stages == {Seen(s, i).stage : i \in Ladder(s)}
           missing == StagesFor(j.arg) \ stages
           rungs == Rungs(s, Ladder(s))
           top == Max(rungs \cup {0})
           new == NewRungs(missing, top)
           gone == Dropped(s)
           old == [i \in gone |-> Gone]
           rows == Over(new, old)
           k == [j EXCEPT !.pc = "commit"]
           n == Over(rows, m)
           f == Over(n, db)
<1>0. /\ k = [j EXCEPT !.pc = "commit"] /\ n = Over(rows, m) /\ e = Over(m, db) /\ f = Over(n, db)
  OBVIOUS
<1>1. /\ j.op = "price" /\ j.pc = "ladder" /\ ExistsInjection(missing, Unused)
      /\ WriteAll(s, rows) /\ Goto(s, "commit") /\ UNCHANGED posted
  BY DEF Reconcile, At
<1>2. /\ JobTyped(j) /\ DOMAIN j = JobFields /\ DOMAIN m \subseteq Rows /\ j.arg \in Prices
      /\ db[Request].status \in Stands(j) /\ Late(j, m, db, posted) /\ Good(db) /\ RowsTyped(db)
  BY <1>1, AtWork DEF Past, JobTyped
<1>3. /\ DOMAIN m = {Request, Line} /\ m[Line] = db[Line]
      /\ m[Request] = [db[Request] EXCEPT !.price = j.arg] /\ j.adds = NoPosting
  BY <1>1, <1>2 DEF Late
<1>4. /\ \A i \in Steps : Seen(s, i) = db[i]
      /\ Ladder(s) = LiveIn(db) /\ Header(s).seq = db[Request].seq
  <2>1. \A i \in Steps : Seen(s, i) = db[i]
    BY <1>3, RowsApart DEF Seen
  <2>2. Header(s) = [db[Request] EXCEPT !.price = j.arg]
    BY <1>3 DEF Header, Seen
  <2>3. db[Request] \in HeaderRow
    BY <1>2 DEF RowsTyped
  <2> QED
    BY <2>1, <2>2, <2>3 DEF Ladder, LiveIn, HeaderRow
<1>5. /\ gone \in SUBSET LiveIn(db)
      /\ \A i \in gone : db[i].stage \notin StagesFor(j.arg) /\ db[i].rung > db[Request].seq
  BY <1>4 DEF Dropped, LiveIn
<1>6. stages = {db[i].stage : i \in LiveIn(db)} /\ rungs = {db[i].rung : i \in LiveIn(db)}
  <2>1. \A i \in Ladder(s) : Seen(s, i).stage = db[i].stage /\ Seen(s, i).rung = db[i].rung
    BY <1>4 DEF LiveIn
  <2>2. stages = {db[i].stage : i \in Ladder(s)}
    BY <2>1
  <2>3. rungs = {db[i].rung : i \in Ladder(s)}
    BY <2>1 DEF Rungs
  <2> QED
    BY <1>4, <2>2, <2>3
<1>7. missing \subseteq Nat /\ IsFiniteSet(missing)
  BY StagesAre, FS_Subset
<1>8. top \in Nat /\ \A i \in LiveIn(db) : top >= db[i].rung
  <2>1. rungs \subseteq Nat \ {0} /\ IsFiniteSet(rungs)
    BY <1>2, <1>6, RungsFinite
  <2> DEFINE all == rungs \cup {0}
  <2>2. IsFiniteSet(all) /\ all # {} /\ all \subseteq Nat
    BY <2>1, FS_AddElement
  <2>3. \A i \in LiveIn(db) : db[i].rung \in all
    BY <1>6
  <2>4. top = Max(all)
    OBVIOUS
  <2> HIDE DEF top, all
  <2>5. Max(all) \in all /\ \A y \in all : Max(all) >= y
    BY <2>2, MinMaxIs
  <2> QED
    BY <2>2, <2>3, <2>4, <2>5
<1>9. /\ DOMAIN new \subseteq Unused
      /\ \A i \in DOMAIN new : /\ new[i] \in StepRow /\ new[i].status = "pending"
                               /\ new[i].rung > top /\ new[i].stage \in missing
      /\ \A c \in missing : \E i \in DOMAIN new : new[i].stage = c
      /\ \A i, x \in DOMAIN new : new[i].stage = new[x].stage => i = x
  <2>1. new = NewRungs(missing, top)
    OBVIOUS
  <2>2. ExistsInjection(missing, Unused) /\ top \in Nat
    BY <1>1, <1>8
  <2> HIDE DEF new, missing, top
  <2>3. missing \subseteq Nat /\ IsFiniteSet(missing)
    BY <1>7
  <2>4. RungsFor(new, missing, top)
    BY <2>1, <2>2, <2>3, NewRungsAre
  <2> QED
    BY <2>4 DEF RungsFor
<1>10. DOMAIN new \subseteq Steps /\ \A i \in DOMAIN new : db[i] = NoStep
  BY <1>9 DEF Unused
<1> HIDE DEF new, top, gone
<1>11. \A i \in DOMAIN new, x \in LiveIn(db) : new[i].rung > db[x].rung /\ new[i].stage # db[x].stage
  <2> SUFFICES ASSUME NEW i \in DOMAIN new, NEW x \in LiveIn(db)
               PROVE  new[i].rung > db[x].rung /\ new[i].stage # db[x].stage
    OBVIOUS
  <2>1. new[i].rung \in Nat /\ new[i].rung > top /\ new[i].stage \in missing
    BY <1>9 DEF StepRow
  <2>2. db[x].rung \in Nat /\ top >= db[x].rung
    BY <1>2, <1>8 DEF RowsTyped, LiveIn, StepRow, NoStep, Gone
  <2>3. db[x].stage \notin missing
    BY <1>6
  <2> QED
    BY <1>8, <2>1, <2>2, <2>3
<1>12. \A c \in StagesFor(j.arg) : \/ \E i \in DOMAIN new : new[i].stage = c
                                   \/ \E i \in LiveIn(db) : db[i].stage = c
  BY <1>6, <1>9
<1> HIDE DEF missing, stages, rungs
<1>13. /\ DOMAIN rows = DOMAIN new \cup gone
       /\ \A i \in DOMAIN new : rows[i] = new[i]
       /\ \A i \in gone \ DOMAIN new : rows[i] = Gone
  BY DEF Over
<1> HIDE DEF rows
<1>14. /\ DOMAIN n = DOMAIN m \cup DOMAIN rows
       /\ \A x \in DOMAIN rows : n[x] = rows[x]
       /\ \A x \in DOMAIN m \ DOMAIN rows : n[x] = m[x]
  BY DEF Over
<1>15. DOMAIN rows \subseteq Steps /\ DOMAIN n \subseteq Rows
  BY <1>2, <1>5, <1>10, <1>13, <1>14 DEF LiveIn, Rows
<1> HIDE DEF n
<1>16. /\ DOMAIN f = Rows /\ f[Line] = db[Line] /\ f[Request] = [db[Request] EXCEPT !.price = j.arg]
       /\ \A i \in Steps : f[i] = IF i \in DOMAIN new THEN new[i] ELSE IF i \in gone THEN Gone ELSE db[i]
  <2>1. /\ DOMAIN f = Rows /\ \A r \in DOMAIN n : f[r] = n[r]
        /\ \A r \in Rows \ DOMAIN n : f[r] = db[r]
    BY <1>2, <1>15, OverIs DEF RowsTyped
  <2>2. f[Line] = db[Line] /\ f[Request] = m[Request]
    BY <1>3, <1>14, <1>15, <2>1, RowsApart
  <2>3. ASSUME NEW i \in Steps
        PROVE  f[i] = IF i \in DOMAIN new THEN new[i] ELSE IF i \in gone THEN Gone ELSE db[i]
    <3>1. i \notin DOMAIN m /\ i \in Rows
      BY <1>3, RowsApart
    <3>2. CASE i \in DOMAIN rows
      BY <1>13, <1>14, <2>1, <3>2
    <3>3. CASE i \notin DOMAIN rows
      BY <1>13, <1>14, <2>1, <3>1, <3>3
    <3> QED
      BY <3>2, <3>3
  <2> QED
    BY <1>3, <2>1, <2>2, <2>3
<1> HIDE DEF f
<1>17. db[Request].status \in {"draft", "pending", "rejected", "cancelled"}
  BY <1>1, <1>2 DEF Stands
<1>18. \A i \in DOMAIN new : /\ new[i] \in StepRow /\ new[i].status = "pending"
                             /\ \A x \in LiveIn(db) : /\ new[i].rung > db[x].rung
                                                      /\ new[i].stage # db[x].stage
  BY <1>9, <1>11
<1>19. /\ Good(f)
       /\ \A i \in Steps : db[i] # NoStep => f[i] # NoStep
       /\ \A i \in LiveIn(db) : f[i] = db[i] \/ (f[i] = Gone /\ db[i].rung > db[Request].seq)
       /\ \A i \in LiveIn(f) \ LiveIn(db) : f[i].status = "pending"
       /\ f[Request].status = db[Request].status /\ f[Request].seq = db[Request].seq
       /\ f[Request].paid = db[Request].paid
  <2>1. Reladdered(db, j.arg, gone, new, f)
    BY <1>2, <1>5, <1>9, <1>10, <1>12, <1>16, <1>17, <1>18 DEF Reladdered
  <2> QED
    BY <2>1, Reladder
<1>20. /\ DOMAIN k = JobFields /\ k.op = "price" /\ k.pc = "commit" /\ k.arg = j.arg /\ k.adds = j.adds
  BY <1>0, <1>1, <1>2, GotoIs
<1> HIDE DEF k
<1>21. JobTyped(k)
  BY <1>1, <1>2, <1>20 DEF JobTyped, Points, Past
<1>22. Late(k, n, db, posted)
  <2>1. Becomes(k, db, f)
    BY <1>16, <1>19, <1>20 DEF Becomes
  <2>2. Totals(f, Plus(posted, k.adds))
    <3>1. posted \in Postings /\ Totals(db, posted)
      BY DEF PInv, Sound
    <3> QED
      BY <1>3, <1>16, <1>19, <1>20, <3>1, PlusNothing DEF Totals
  <2>3. Request \in DOMAIN n
    BY <1>3, <1>14
  <2> QED
    BY <1>0, <1>19, <1>20, <2>1, <2>2, <2>3 DEF Late
<1>23. Facts(k, n, db, posted)
  BY <1>1, <1>2, <1>15, <1>20, <1>21, <1>22 DEF Facts, Stands, Past
<1>24. j.op # "idle"
  BY <1>1
<1> QED
  BY <1>0, <1>1, <1>23, <1>24, WriteGoesOn
-----------------------------------------------------------------------------
(* The commit.                                                             *)

\* The functions that harm a function.
LEMMA Enemies ==
  ASSUME NEW a, NEW b, {a, b} \notin Harmful
  PROVE  /\ a = "submit" => b \notin {"submit", "price", "back", "cancel"}
         /\ a = "price" => b \notin {"submit", "sign"}
         /\ a = "sign" => b \notin {"sign", "price", "reject", "back", "cancel"}
         /\ a = "reject" => b \notin {"sign", "cancel"}
         /\ a = "back" => b \notin {"submit", "sign", "back"}
         /\ a = "issue" => b \notin {"issue", "receive", "cancel"}
         /\ a = "receive" => b \notin {"issue", "receive", "close", "cancel"}
         /\ a = "pay" => b # "pay"
         /\ a = "close" => b \notin {"receive", "cancel"}
         /\ a = "cancel" => b \notin {"submit", "sign", "reject", "issue", "receive", "close"}
<1>1. \A x, y : {x, y} = {y, x} /\ {x, x} = {x}
  OBVIOUS
<1>2. /\ {"submit"} \in Harmful /\ {"submit", "price"} \in Harmful /\ {"submit", "cancel"} \in Harmful
      /\ {"submit", "back"} \in Harmful /\ {"sign"} \in Harmful /\ {"sign", "price"} \in Harmful
      /\ {"sign", "reject"} \in Harmful /\ {"sign", "back"} \in Harmful /\ {"sign", "cancel"} \in Harmful
      /\ {"reject", "cancel"} \in Harmful /\ {"back"} \in Harmful /\ {"issue"} \in Harmful
      /\ {"issue", "receive"} \in Harmful /\ {"issue", "cancel"} \in Harmful /\ {"receive"} \in Harmful
      /\ {"receive", "close"} \in Harmful /\ {"receive", "cancel"} \in Harmful /\ {"pay"} \in Harmful
      /\ {"close", "cancel"} \in Harmful
  BY DEF Harmful
<1> HIDE DEF Harmful
<1> QED
  BY <1>1, <1>2

\* Who may be at work on a request when a function commits.
LEMMA Company ==
  ASSUME NEW i, NEW j, i.op \in Ops, j.op \in Ops, {i.op, j.op} \notin Harmful, j.pc = "commit",
         NEW st, st \in Stands(i), st \in Stands(j)
  PROVE  /\ i.op # "pay" \/ i.pc # "caps" => i.op \notin {"sign", "issue"} /\ j.op # "sign"
         /\ i.op = "submit" => j.op = "reject"
         /\ i.op = "price" => j.op \in {"price", "reject", "back", "cancel"}
         /\ i.op = "reject" => j.op \in {"submit", "price", "reject", "back"}
         /\ i.op = "back" => j.op \in {"price", "reject", "cancel"}
         /\ i.op = "receive" => j.op = "pay"
         /\ i.op = "pay" /\ i.pc # "caps" => j.op \in {"receive", "close", "cancel"}
         /\ i.op = "close" => j.op \in {"pay", "close"}
         /\ i.op = "cancel" => j.op \in {"price", "back", "cancel", "pay"}
<1>1. i.op \in {"submit", "price", "sign", "reject", "back", "issue", "receive", "pay", "close", "cancel"}
      /\ j.op \in {"submit", "price", "sign", "reject", "back", "issue", "receive", "pay", "close", "cancel"}
  BY DEF Ops, FirstStatement
<1>2. /\ i.op = "submit" => j.op \notin {"submit", "price", "back", "cancel"}
      /\ i.op = "price" => j.op \notin {"submit", "sign"}
      /\ i.op = "sign" => j.op \notin {"sign", "price", "reject", "back", "cancel"}
      /\ i.op = "reject" => j.op \notin {"sign", "cancel"}
      /\ i.op = "back" => j.op \notin {"submit", "sign", "back"}
      /\ i.op = "issue" => j.op \notin {"issue", "receive", "cancel"}
      /\ i.op = "receive" => j.op \notin {"issue", "receive", "close", "cancel"}
      /\ i.op = "pay" => j.op # "pay"
      /\ i.op = "close" => j.op \notin {"receive", "cancel"}
      /\ i.op = "cancel" => j.op \notin {"submit", "sign", "reject", "issue", "receive", "close"}
  BY Enemies
<1>3. /\ j.op = "submit" => st \in {"draft", "rejected"}
      /\ j.op = "price" => st \in {"draft", "pending", "rejected", "cancelled"}
      /\ j.op = "sign" => st = "pending"
      /\ j.op = "reject" => st \in {"pending", "rejected"}
      /\ j.op = "back" => st \in {"pending", "rejected", "cancelled"}
      /\ j.op = "issue" => st = "approved"
      /\ j.op = "receive" => st \in {"po_issued", "partially_received", "received", "approved"}
      /\ j.op \in {"pay", "close"} => st \in {"po_issued", "partially_received", "received", "closed"}
      /\ j.op = "cancel" => st \in {"draft", "pending", "rejected", "approved", "po_issued", "cancelled"}
  BY <1>1 DEF Stands, InOrder
<1>4. /\ i.op = "submit" => st \in {"draft", "rejected"}
      /\ i.op = "price" => st \in {"draft", "pending", "rejected", "cancelled"}
      /\ i.op = "sign" => st = "pending"
      /\ i.op = "reject" => st \in {"pending", "rejected"}
      /\ i.op = "back" => st \in {"pending", "rejected", "cancelled"}
      /\ i.op = "issue" => st = "approved"
      /\ i.op = "receive" => st \in {"po_issued", "partially_received", "received", "approved"}
      /\ i.op = "close" \/ (i.op = "pay" /\ i.pc # "caps") =>
           st \in {"po_issued", "partially_received", "received", "closed"}
      /\ i.op = "cancel" => st \in {"draft", "pending", "rejected", "approved", "po_issued", "cancelled"}
  BY <1>1 DEF Stands, InOrder
<1> QED
  BY <1>1, <1>2, <1>3, <1>4

\* A commit adds its documents.
LEMMA PlusIs ==
  ASSUME NEW p \in Postings, NEW a \in Postings
  PROVE  [f \in DOMAIN p |-> p[f] + a[f]] = Plus(p, a) /\ Plus(p, a) \in Postings
<1>1. DOMAIN p = {"paid", "goods", "orders"}
      /\ p.paid \in Nat /\ p.goods \in Nat /\ p.orders \in Nat
      /\ a.paid \in Nat /\ a.goods \in Nat /\ a.orders \in Nat
  BY DEF Postings
<1> QED
  BY <1>1 DEF Plus, Postings
\* Next to the function i, which has written mt, the function j commits and turns d into e.
Beside(i, mt, j, m, d, p, e) ==
    /\ RequestAssumption
    /\ Good(d) /\ Good(e) /\ Becomes(j, d, e)
    /\ i.op # "idle" /\ Facts(i, mt, d, p) /\ Apart(i, j)
    /\ JobTyped(j) /\ j.op # "idle" /\ j.pc = "commit" /\ d[Request].status \in Stands(j)
    /\ DOMAIN m \subseteq Rows /\ e = Over(m, d)
    /\ Request \in DOMAIN m \/ j.op = "sign"
    /\ DOMAIN mt \cap DOMAIN m = {}

\* Then i has not written the header, and is one of a few functions.
LEMMA BesideIs ==
  ASSUME NEW i, NEW mt, NEW j, NEW m, NEW d, NEW p, NEW e, Beside(i, mt, j, m, d, p, e)
  PROVE  /\ i.pc \notin Past /\ Early(i, mt, d, p) /\ JobTyped(i) /\ DOMAIN mt \subseteq Rows
         /\ i.op \in Ops /\ j.op \in Ops
         /\ \A x \in DOMAIN mt : e[x] = d[x]
         /\ d[Request].status \in Stands(i)
         /\ i.op # "pay" \/ i.pc # "caps" => i.op \notin {"sign", "issue"} /\ j.op # "sign"
         /\ i.op = "submit" => j.op = "reject"
         /\ i.op = "price" => j.op \in {"price", "reject", "back", "cancel"}
         /\ i.op = "reject" => j.op \in {"submit", "price", "reject", "back"}
         /\ i.op = "back" => j.op \in {"price", "reject", "cancel"}
         /\ i.op = "receive" => j.op = "pay"
         /\ i.op = "pay" /\ i.pc # "caps" => j.op \in {"receive", "close", "cancel"}
         /\ i.op = "close" => j.op \in {"pay", "close"}
         /\ i.op = "cancel" => j.op \in {"price", "back", "cancel", "pay"}
<1>1. /\ JobTyped(i) /\ DOMAIN mt \subseteq Rows /\ i.op \in Ops /\ j.op \in Ops
      /\ d[Request].status \in Stands(i) /\ d[Request].status \in Stands(j)
      /\ {i.op, j.op} \notin Harmful /\ j.pc = "commit"
  BY DEF Beside, Facts, JobTyped, Apart
<1>2. /\ i.op # "pay" \/ i.pc # "caps" => i.op \notin {"sign", "issue"} /\ j.op # "sign"
      /\ i.op = "submit" => j.op = "reject"
      /\ i.op = "price" => j.op \in {"price", "reject", "back", "cancel"}
      /\ i.op = "reject" => j.op \in {"submit", "price", "reject", "back"}
      /\ i.op = "back" => j.op \in {"price", "reject", "cancel"}
      /\ i.op = "receive" => j.op = "pay"
      /\ i.op = "pay" /\ i.pc # "caps" => j.op \in {"receive", "close", "cancel"}
      /\ i.op = "close" => j.op \in {"pay", "close"}
      /\ i.op = "cancel" => j.op \in {"price", "back", "cancel", "pay"}
  BY <1>1, Company
<1>3. i.pc \notin Past
  <2>1. SUFFICES ASSUME i.pc \in Past PROVE FALSE
    OBVIOUS
  <2>2. Request \in DOMAIN mt \/ i.op = "sign"
    BY <2>1 DEF Beside, Facts, Late
  <2>3. i.op # "sign" /\ j.op # "sign"
    BY <1>2, <2>1 DEF Past
  <2> QED
    BY <2>2, <2>3 DEF Beside
<1>4. Early(i, mt, d, p)
  BY <1>3 DEF Beside, Facts
<1>5. \A x \in DOMAIN mt : e[x] = d[x]
  <2>1. DOMAIN d = Rows /\ e = Over(m, d) /\ DOMAIN mt \cap DOMAIN m = {}
    BY DEF Beside, Good, RowsTyped
  <2> QED
    BY <1>1, <2>1 DEF Over
<1> QED
  BY <1>1, <1>2, <1>3, <1>4, <1>5

\* What the commit of j does, by function.
LEMMA BecomesIs ==
  ASSUME NEW j, NEW d, NEW e, Becomes(j, d, e), j.op \in Ops
  PROVE  LET old == d[Request].status
             new == e[Request].status
         IN  /\ j.op \in {"price", "back", "pay"} => new = old
             /\ j.op = "submit" => new = "pending"
             /\ j.op = "reject" => new = "rejected" /\ LiveIn(e) \subseteq LiveIn(d)
             /\ j.op = "receive" => new \in InOrder /\ e[Line].received >= d[Line].received
             /\ j.op = "close" => new = "closed"
             /\ j.op = "cancel" => new = "cancelled"
             /\ j.op # "price" => e[Request].price = d[Request].price
             /\ j.op # "pay" => e[Request].paid = d[Request].paid
             /\ j.op # "receive" => e[Line] = d[Line]
             /\ \A x \in Steps : d[x] # NoStep => e[x] # NoStep
BY DEF Becomes, InOrder

\* The request stands where i may work on it.
LEMMA StandsStay ==
  ASSUME NEW i, NEW mt, NEW j, NEW m, NEW d, NEW p, NEW e, Beside(i, mt, j, m, d, p, e)
  PROVE  e[Request].status \in Stands(i)
<1>1. /\ i.op \in Ops /\ j.op \in Ops /\ d[Request].status \in Stands(i)
      /\ i.op # "pay" \/ i.pc # "caps" => i.op \notin {"sign", "issue"} /\ j.op # "sign"
      /\ i.op = "submit" => j.op = "reject"
      /\ i.op = "price" => j.op \in {"price", "reject", "back", "cancel"}
      /\ i.op = "reject" => j.op \in {"submit", "price", "reject", "back"}
      /\ i.op = "back" => j.op \in {"price", "reject", "cancel"}
      /\ i.op = "receive" => j.op = "pay"
      /\ i.op = "pay" /\ i.pc # "caps" => j.op \in {"receive", "close", "cancel"}
      /\ i.op = "close" => j.op \in {"pay", "close"}
      /\ i.op = "cancel" => j.op \in {"price", "back", "cancel", "pay"}
  BY BesideIs
<1>2. Becomes(j, d, e) /\ e[Request].status \in Statuses /\ e[Request].price \in Nat
  BY Columns DEF Beside, Good
<1>3. /\ j.op \in {"price", "back", "pay"} => e[Request].status = d[Request].status
      /\ j.op = "submit" => e[Request].status = "pending"
      /\ j.op = "reject" => e[Request].status = "rejected"
      /\ j.op = "receive" => e[Request].status \in InOrder
      /\ j.op = "close" => e[Request].status = "closed"
      /\ j.op = "cancel" => e[Request].status = "cancelled"
  BY <1>1, <1>2, BecomesIs
<1>4. CASE i.op = "pay" /\ i.pc = "caps"
  BY <1>2, <1>4 DEF Stands
<1>5. CASE i.op = "pay" /\ i.pc # "caps"
  <2>1. CASE j.op = "cancel"
    <3>1. /\ e[Line] = d[Line] /\ Accounts(e) /\ e[Request].status = "cancelled"
      BY <1>1, <1>2, <1>3, <2>1, BecomesIs DEF Beside, Good
    <3>2. d[Line].received = 0
      BY <3>1 DEF Accounts, Delivered
    <3>3. i.pc = "head"
      BY <1>5, BesideIs DEF JobTyped, Points, Past
    <3>4. i.pr.paid + Amount <= d[Line].received * d[Request].price /\ i.pr.paid = d[Request].paid
      <4>1. OrderFacts(i, mt, d, p)
        BY BesideIs DEF Early
      <4> QED
        BY <1>5, <3>3, <4>1 DEF OrderFacts
    <3>5. d[Request].paid \in Nat /\ d[Request].price \in Nat /\ Amount \in Nat \ {0}
      BY Columns DEF Beside, Good, RequestAssumption
    <3> QED
      BY <3>2, <3>4, <3>5
  <2> QED
    BY <1>1, <1>3, <1>5, <2>1 DEF Stands
<1>6. CASE i.op # "pay"
  BY <1>1, <1>3, <1>6 DEF Stands, Ops, FirstStatement
<1> QED
  BY <1>4, <1>5, <1>6
\* What i has read of the ladder and the header stays true.
LEMMA PapersStay ==
  ASSUME NEW i, NEW mt, NEW j, NEW m, NEW d, NEW p, NEW e, Beside(i, mt, j, m, d, p, e)
  PROVE  /\ SubmitFacts(i, mt, e) /\ PriceFacts(i, mt, e) /\ SignFacts(i, mt, e)
         /\ RejectFacts(i, mt, e) /\ BackFacts(i, mt, e)
<1>1. /\ i.op \in Ops /\ j.op \in Ops /\ JobTyped(i)
      /\ i.op # "sign"
      /\ i.op = "submit" => j.op = "reject"
      /\ i.op = "price" => j.op \in {"price", "reject", "back", "cancel"}
      /\ i.op = "reject" => j.op \in {"submit", "price", "reject", "back"}
      /\ i.op = "back" => j.op \in {"price", "reject", "cancel"}
      /\ \A x \in DOMAIN mt : e[x] = d[x]
  BY BesideIs
<1>2. /\ SubmitFacts(i, mt, d) /\ PriceFacts(i, mt, d) /\ RejectFacts(i, mt, d) /\ BackFacts(i, mt, d)
  BY BesideIs DEF Early
<1>3. Becomes(j, d, e) /\ RowsTyped(d) /\ RowsTyped(e) /\ RequestAssumption
  BY DEF Beside, Good
<1>4. /\ j.op \in {"price", "back"} => e[Request].status = d[Request].status
      /\ j.op = "reject" => e[Request].status = "rejected" /\ LiveIn(e) \subseteq LiveIn(d)
      /\ j.op = "cancel" => e[Request].status = "cancelled"
      /\ j.op # "price" => e[Request].price = d[Request].price
      /\ j.op # "receive" => e[Line] = d[Line]
      /\ \A x \in Steps : d[x] # NoStep => e[x] # NoStep
  BY <1>1, <1>3, BecomesIs
<1>5. SubmitFacts(i, mt, e)
  <2>1. CASE i.op = "submit"
    <3>1. e[Request].price = d[Request].price /\ LiveIn(e) \subseteq LiveIn(d)
      BY <1>1, <1>4, <2>1
    <3> QED
      BY <1>2, <3>1 DEF SubmitFacts
  <2> QED
    BY <2>1 DEF SubmitFacts
<1>6. PriceFacts(i, mt, e)
  <2>1. CASE i.op = "price"
    <3>1. d[Request].status # "pending" => e[Request].status # "pending"
      BY <1>1, <1>4, <2>1
    <3>2. e[Line] = d[Line]
      BY <1>1, <1>4, <2>1
    <3> QED
      BY <1>2, <3>1, <3>2 DEF PriceFacts
  <2> QED
    BY <2>1 DEF PriceFacts
<1>7. SignFacts(i, mt, e)
  BY <1>1 DEF SignFacts
<1>8. RejectFacts(i, mt, e)
  <2>1. CASE i.op = "reject"
    <3>1. i.pc # "pick" => i.id \in Steps /\ e[i.id] # NoStep
      BY <1>2, <1>4, <2>1 DEF RejectFacts
    <3>2. ASSUME i.pc = "head"
          PROVE  /\ DOMAIN mt = {i.id}
                 /\ mt[i.id] = IF e[i.id] = Gone THEN Gone ELSE [e[i.id] EXCEPT !.status = "rejected"]
      <4>1. /\ DOMAIN mt = {i.id}
            /\ mt[i.id] = IF d[i.id] = Gone THEN Gone ELSE [d[i.id] EXCEPT !.status = "rejected"]
        BY <1>2, <2>1, <3>2 DEF RejectFacts
      <4>2. e[i.id] = d[i.id]
        BY <1>1, <4>1
      <4> QED
        BY <4>1, <4>2
    <3> QED
      BY <3>1, <3>2 DEF RejectFacts
  <2> QED
    BY <2>1 DEF RejectFacts
<1>9. BackFacts(i, mt, e)
  <2>1. CASE i.op = "back"
    <3>1. ASSUME i.pc = "head", NEW x \in DOMAIN mt
          PROVE  x \in LiveIn(e) /\ e[x].rung >= i.arg /\ mt[x] = [e[x] EXCEPT !.status = "pending"]
      <4>1. x \in LiveIn(d) /\ d[x].rung >= i.arg /\ mt[x] = [d[x] EXCEPT !.status = "pending"]
        BY <1>2, <2>1, <3>1 DEF BackFacts
      <4>2. e[x] = d[x]
        BY <1>1
      <4> QED
        BY <4>1, <4>2 DEF LiveIn
    <3>2. ASSUME e[Request].status = "pending"
          PROVE  /\ i.arg < e[Request].seq
                 /\ i.pc # "pick" => \E x \in LiveIn(e) : e[x].rung = i.arg
                 /\ i.pc = "head" => \A x \in LiveIn(e) :
                                        e[x].rung >= i.arg => x \in DOMAIN mt \/ e[x].status = "pending"
      <4>1. j.op = "price" /\ d[Request].status = "pending"
        BY <1>1, <1>4, <2>1, <3>2
      <4>2. /\ e[Request].seq = d[Request].seq
            /\ \A x \in LiveIn(d) : e[x] = d[x] \/ (e[x] = Gone /\ d[x].rung > d[Request].seq)
            /\ \A x \in LiveIn(e) \ LiveIn(d) : e[x].status = "pending"
        BY <1>3, <4>1 DEF Becomes
      <4>3. /\ i.arg < d[Request].seq
            /\ i.pc # "pick" => \E x \in LiveIn(d) : d[x].rung = i.arg
            /\ i.pc = "head" => \A x \in LiveIn(d) :
                                   d[x].rung >= i.arg => x \in DOMAIN mt \/ d[x].status = "pending"
        BY <1>2, <2>1, <4>1 DEF BackFacts
      <4>4. d[Request].seq \in Nat /\ i.arg \in Nat
        BY <1>1, <1>3, <2>1, Columns DEF JobTyped
      <4>5. ASSUME i.pc # "pick" PROVE \E x \in LiveIn(e) : e[x].rung = i.arg
        <5>1. PICK x \in LiveIn(d) : d[x].rung = i.arg
          BY <4>3, <4>5
        <5>2. e[x] = d[x]
          BY <4>2, <4>3, <4>4, <5>1
        <5> QED
          BY <5>1, <5>2 DEF LiveIn
      <4>6. ASSUME i.pc = "head", NEW x \in LiveIn(e), e[x].rung >= i.arg
            PROVE  x \in DOMAIN mt \/ e[x].status = "pending"
        <5>1. CASE x \in LiveIn(d)
          <6>1. e[x] = d[x]
            BY <4>2, <5>1 DEF LiveIn, Gone, NoStep
          <6> QED
            BY <4>3, <4>6, <5>1, <6>1
        <5>2. CASE x \notin LiveIn(d)
          BY <4>2, <5>2
        <5> QED
          BY <5>1, <5>2
      <4> QED
        BY <4>2, <4>3, <4>5, <4>6
    <3> QED
      BY <3>1, <3>2 DEF BackFacts
  <2> QED
    BY <2>1 DEF BackFacts
<1> QED
  BY <1>5, <1>6, <1>7, <1>8, <1>9

\* And of the order.
LEMMA OrderStays ==
  ASSUME NEW i, NEW mt, NEW j, NEW m, NEW d, NEW p, NEW e, Beside(i, mt, j, m, d, p, e), NEW q
  PROVE  OrderFacts(i, mt, e, q)
<1>1. /\ i.op \in Ops /\ j.op \in Ops /\ JobTyped(i) /\ i.pc \notin Past /\ i.op # "issue"
      /\ i.op = "receive" => j.op = "pay"
      /\ i.op = "pay" /\ i.pc # "caps" => j.op \in {"receive", "close", "cancel"}
      /\ i.op = "cancel" => j.op \in {"price", "back", "cancel", "pay"}
      /\ OrderFacts(i, mt, d, p)
  BY BesideIs DEF Early
<1>2. /\ Becomes(j, d, e) /\ RowsTyped(d) /\ RowsTyped(e) /\ Accounts(d) /\ Accounts(e) /\ RequestAssumption
  BY DEF Beside, Good
<1>3. /\ j.op # "price" => e[Request].price = d[Request].price
      /\ j.op # "pay" => e[Request].paid = d[Request].paid
      /\ j.op = "receive" => e[Line].received >= d[Line].received
      /\ j.op # "receive" => e[Line] = d[Line]
  BY <1>1, <1>2, BecomesIs
<1> DEFINE was == d[Line].received
           is == e[Line].received
           price == d[Request].price
<1>4. was \in Nat /\ is \in Nat /\ price \in Nat /\ e[Request].price \in Nat /\ was <= is
  BY <1>2, <1>3, Columns
<1>5. j.op # "price" => was * price <= is * e[Request].price
  BY <1>3, <1>4, WorthMore
<1>6. CASE i.op = "receive"
  <2>1. e[Line] = d[Line]
    BY <1>1, <1>3, <1>6
  <2> QED
    BY <1>1, <1>6, <2>1 DEF OrderFacts
<1>7. CASE i.op = "pay"
  <2>1. i.pc \in {"caps", "head"}
    BY <1>1, <1>7 DEF JobTyped, Points, Past
  <2>2. CASE i.pc = "caps"
    <3>1. i.adds = NoPosting /\ i.got \in Nat /\ i.got <= was * price
      BY <1>1, <1>7, <2>2 DEF OrderFacts
    <3>2. i.got <= is * e[Request].price
      <4>1. CASE j.op = "price"
        <5>1. was = 0
          BY <1>2, <4>1 DEF Beside, Stands, Accounts, Delivered
        <5>2. i.got = 0
          BY <1>4, <3>1, <5>1
        <5>3. is * e[Request].price \in Nat
          BY <1>4
        <5> QED
          BY <5>2, <5>3
      <4>2. CASE j.op # "price"
        <5> DEFINE x == was * price
                   y == is * e[Request].price
        <5>1. x \in Nat /\ y \in Nat /\ x <= y /\ i.got <= x /\ i.got \in Nat
          BY <1>4, <1>5, <3>1, <4>2
        <5> HIDE DEF x, y
        <5>2. i.got <= y
          BY <5>1
        <5> QED
          BY <5>2 DEF y
      <4> QED
        BY <4>1, <4>2
    <3> QED
      BY <1>7, <2>2, <3>1, <3>2 DEF OrderFacts
  <2>3. CASE i.pc = "head"
    <3>1. /\ i.adds = [NoPosting EXCEPT !.paid = Amount] /\ i.pr.paid = d[Request].paid
          /\ i.pr.paid + Amount <= was * price
      BY <1>1, <1>7, <2>3 DEF OrderFacts
    <3>2. j.op \notin {"pay", "price"}
      BY <1>1, <1>7, <2>3
    <3>3. i.pr.paid = e[Request].paid
      BY <1>3, <3>1, <3>2
    <3>4. i.pr.paid + Amount <= is * e[Request].price
      <4> DEFINE x == was * price
                 y == is * e[Request].price
                 z == i.pr.paid + Amount
      <4>1. z \in Nat
        BY <1>2, <3>1, Columns DEF RequestAssumption
      <4>2. x \in Nat /\ y \in Nat /\ x <= y /\ z <= x
        BY <1>4, <1>5, <3>1, <3>2
      <4> HIDE DEF x, y, z
      <4>3. z <= y
        BY <4>1, <4>2
      <4> QED
        BY <4>3 DEF y, z
    <3> QED
      BY <1>7, <2>3, <3>1, <3>3, <3>4 DEF OrderFacts
  <2> QED
    BY <2>1, <2>2, <2>3
<1>8. CASE i.op = "cancel"
  <2>1. e[Line] = d[Line]
    BY <1>1, <1>3, <1>8
  <2> QED
    BY <1>1, <1>8, <2>1 DEF OrderFacts
<1>9. CASE i.op \notin {"receive", "pay", "cancel"}
  BY <1>1, <1>9 DEF OrderFacts
<1> QED
  BY <1>6, <1>7, <1>8, <1>9
\* The facts of a function survive the commit of another.
LEMMA FactsStay ==
  ASSUME NEW i, NEW mt, NEW j, NEW m, NEW d, NEW p, NEW e, Beside(i, mt, j, m, d, p, e), NEW q
  PROVE  Facts(i, mt, e, q)
<1>1. Early(i, mt, e, q)
  <2>1. Early(i, mt, d, p)
    BY BesideIs
  <2>2. /\ SubmitFacts(i, mt, e) /\ PriceFacts(i, mt, e) /\ SignFacts(i, mt, e)
        /\ RejectFacts(i, mt, e) /\ BackFacts(i, mt, e)
    BY PapersStay
  <2>3. OrderFacts(i, mt, e, q)
    BY OrderStays
  <2> QED
    BY <2>1, <2>2, <2>3 DEF Early
<1>2. /\ i.pc \notin Past /\ JobTyped(i) /\ DOMAIN mt \subseteq Rows /\ i.op # "idle"
  BY BesideIs DEF Beside
<1>3. e[Request].status \in Stands(i)
  BY StandsStay
<1> QED
  BY <1>1, <1>2, <1>3 DEF Facts

\* What a session commits.
LEMMA CommitIs ==
  ASSUME RequestAssumption, PInv, NEW s \in Sessions, CommitJob(s)
  PROVE  LET j == job[s]
             e == Over(mine[s], db)
         IN  /\ j.op # "idle" /\ JobTyped(j) /\ j.pc = "commit" /\ j.op \in Ops
             /\ DOMAIN mine[s] \subseteq Rows /\ db[Request].status \in Stands(j)
             /\ Request \in DOMAIN mine[s] \/ j.op = "sign"
             /\ Good(e) /\ Totals(e, Plus(posted, j.adds)) /\ Becomes(j, db, e)
             /\ db' = e /\ posted' = Plus(posted, j.adds) /\ posted' \in Postings
             /\ mine' = [mine EXCEPT ![s] = NoRows] /\ job' = [job EXCEPT ![s] = Idle]
<1> DEFINE j == job[s]
           e == Over(mine[s], db)
<1>1. /\ j.pc = "commit" /\ db' = e /\ mine' = [mine EXCEPT ![s] = NoRows]
      /\ posted' = [f \in DOMAIN posted |-> posted[f] + j.adds[f]] /\ job' = [job EXCEPT ![s] = Idle]
  BY DEF CommitJob, Commit, Quit
<1>2. j.op # "idle"
  BY <1>1 DEF PInv, Sound, Facts, JobTyped, Idle
<1>3. /\ JobTyped(j) /\ j.op \in Ops /\ DOMAIN mine[s] \subseteq Rows
      /\ db[Request].status \in Stands(j) /\ Late(j, mine[s], db, posted)
  BY <1>1, <1>2, AtWork DEF Past
<1>4. /\ Request \in DOMAIN mine[s] \/ j.op = "sign"
      /\ Good(e) /\ Totals(e, Plus(posted, j.adds)) /\ Becomes(j, db, e)
  BY <1>1, <1>3 DEF Late
<1>5. posted' = Plus(posted, j.adds) /\ posted' \in Postings
  <2>1. posted \in Postings /\ j.adds \in Postings
    BY <1>2, <1>3 DEF PInv, Sound, JobTyped
  <2> QED
    BY <1>1, <2>1, PlusIs
<1> QED
  BY <1>1, <1>2, <1>3, <1>4, <1>5

\* The commit.
LEMMA CommitKeeps ==
  ASSUME RequestAssumption, PInv, NEW s \in Sessions, CommitJob(s)
  PROVE  PInv'
<1> DEFINE j == job[s]
           m == mine[s]
           e == Over(m, db)
           q == Plus(posted, j.adds)
<1>1. /\ j.op # "idle" /\ JobTyped(j) /\ j.pc = "commit"
      /\ DOMAIN m \subseteq Rows /\ db[Request].status \in Stands(j)
      /\ Request \in DOMAIN m \/ j.op = "sign"
      /\ Good(e) /\ Totals(e, q) /\ Becomes(j, db, e)
      /\ db' = e /\ posted' = q /\ q \in Postings
      /\ mine' = [mine EXCEPT ![s] = NoRows] /\ job' = [job EXCEPT ![s] = Idle]
  BY CommitIs
<1>2. /\ DOMAIN mine = Sessions /\ DOMAIN job = Sessions /\ Good(db)
      /\ \A t \in Sessions : Facts(job[t], mine[t], db, posted)
      /\ \A t, u \in Sessions : t # u => Apart(job[t], job[u]) /\ DOMAIN mine[t] \cap DOMAIN mine[u] = {}
  BY DEF PInv, Sound
<1>3. /\ DOMAIN mine' = Sessions /\ DOMAIN job' = Sessions /\ mine'[s] = NoRows /\ job'[s] = Idle
      /\ \A t \in Sessions \ {s} : mine'[t] = mine[t] /\ job'[t] = job[t]
  BY <1>1, <1>2
<1>4. DOMAIN NoRows = {} /\ Idle.op = "idle"
  BY DEF NoRows, Idle
<1>5. e = Over(m, db)
  OBVIOUS
<1> HIDE DEF e, q
<1>6. ASSUME NEW t \in Sessions PROVE Facts(job'[t], mine'[t], e, q)
  <2>1. CASE t = s
    BY <1>3, <1>4, <2>1, IdleFacts
  <2>2. CASE t # s /\ job[t].op = "idle"
    <3>1. Facts(job[t], mine[t], e, q)
      BY <1>2, <2>2 DEF Facts
    <3> QED
      BY <1>3, <2>2, <3>1
  <2>3. CASE t # s /\ job[t].op # "idle"
    <3>1. Beside(job[t], mine[t], j, m, db, posted, e)
      <4>1. Apart(job[t], j) /\ DOMAIN mine[t] \cap DOMAIN m = {}
        BY <1>2, <2>3
      <4> QED
        BY <1>1, <1>2, <1>5, <2>3, <4>1 DEF Beside
    <3>2. Facts(job[t], mine[t], e, q)
      BY <3>1, FactsStay
    <3> QED
      BY <1>3, <2>3, <3>2
  <2> QED
    BY <2>1, <2>2, <2>3
<1>7. ASSUME NEW t \in Sessions, NEW u \in Sessions, t # u
      PROVE  Apart(job'[t], job'[u]) /\ DOMAIN mine'[t] \cap DOMAIN mine'[u] = {}
  <2>1. CASE t = s \/ u = s
    BY <1>3, <1>4, <1>7, <2>1 DEF Apart
  <2>2. CASE t # s /\ u # s
    BY <1>2, <1>3, <1>7, <2>2
  <2> QED
    BY <2>1, <2>2
<1> QED
  BY <1>1, <1>3, <1>6, <1>7 DEF PInv, Sound
-----------------------------------------------------------------------------
(* The theorems.                                                           *)

\* A new request is sound.
LEMMA InitSound ==
  ASSUME RequestAssumption, Init
  PROVE  PInv
<1>1. /\ DOMAIN db = Rows /\ db[Request] = [status |-> "draft", seq |-> 0, price |-> 0, paid |-> 0]
      /\ db[Line] = [received |-> 0] /\ \A i \in Steps : db[i] = NoStep
  BY RowsApart DEF Init, Rows
<1>2. LiveIn(db) = {}
  <2>1. \A i \in Steps : db[i].status = "none"
    <3>1. NoStep.status = "none"
      BY DEF NoStep
    <3>2. \A i \in Steps : db[i] = NoStep
      BY <1>1
    <3> QED
      BY <3>1, <3>2
  <2> QED
    BY <2>1 DEF LiveIn
<1>3. RowsTyped(db)
  <2>1. db[Request] \in HeaderRow
    BY <1>1 DEF HeaderRow, Statuses
  <2>2. db[Line] \in [received : 0 .. Ordered]
    BY <1>1 DEF RequestAssumption
  <2> QED
    BY <1>1, <2>1, <2>2 DEF RowsTyped
<1>4. Distinct(db) /\ Circulates(db) /\ Decided(db)
  BY <1>1, <1>2 DEF Distinct, Circulates, Decided, InOrder
<1>5. Accounts(db)
  <2>1. ~(0 >= Ordered) /\ 0 <= 0 * 0
    BY DEF RequestAssumption
  <2> QED
    BY <1>1, <2>1 DEF Accounts, Delivered
<1>6. posted \in Postings /\ Totals(db, posted)
  BY <1>1 DEF Init, NoPosting, Postings, Totals
<1>7. /\ DOMAIN mine = Sessions /\ DOMAIN job = Sessions
      /\ \A s \in Sessions : job[s] = Idle /\ DOMAIN mine[s] = {}
  BY DEF Init, NoRows
<1>8. \A s \in Sessions : Facts(job[s], mine[s], db, posted)
  BY <1>7, IdleFacts
<1>9. \A s, t \in Sessions : s # t => Apart(job[s], job[t]) /\ DOMAIN mine[s] \cap DOMAIN mine[t] = {}
  BY <1>7 DEF Apart, Idle
<1> QED
  BY <1>3, <1>4, <1>5, <1>6, <1>7, <1>8, <1>9 DEF PInv, Sound, Good

\* Every step keeps the request sound.
LEMMA NextKeeps ==
  ASSUME RequestAssumption, Safe, PInv, [Next]_vars
  PROVE  PInv'
<1>1. ASSUME NEW s \in Sessions, Start(s) PROVE PInv'
  BY <1>1, StartsKeep
<1>2. ASSUME NEW s \in Sessions, Work(s) PROVE PInv'
  <2>1. CASE Clear(s)
    BY <2>1, ClearKeeps
  <2>2. CASE Pick(s)
    BY <2>2, PickKeeps
  <2>3. CASE Sign(s)
    BY <2>3, SignKeeps
  <2>4. CASE Count(s)
    BY <2>4, CountKeeps
  <2>5. CASE Activate(s)
    BY <2>5, ActivateKeeps
  <2>6. CASE Reopen(s)
    BY <2>6, ReopenKeeps
  <2>7. CASE PriceLine(s)
    BY <2>7, PriceLineKeeps
  <2>8. CASE Reconcile(s)
    BY <2>8, ReconcileKeeps
  <2>9. CASE Orders(s)
    BY <2>9, OrdersKeeps
  <2>10. CASE ReadLine(s)
    BY <2>10, ReadLineKeeps
  <2>11. CASE PutLine(s)
    BY <2>11, PutLineKeeps
  <2>12. CASE Caps(s)
    BY <2>12, CapsKeeps
  <2>13. CASE PutHeader(s)
    BY <2>13, PutHeaderKeeps
  <2>14. CASE CommitJob(s)
    BY <2>14, CommitKeeps
  <2>15. CASE LockTimeout(s)
    BY <2>15, RefuseKeeps DEF LockTimeout
  <2> QED
    BY <1>2, <2>1, <2>2, <2>3, <2>4, <2>5, <2>6, <2>7, <2>8, <2>9, <2>10, <2>11, <2>12, <2>13,
       <2>14, <2>15 DEF Work
<1>3. CASE UNCHANGED vars
  BY <1>3 DEF vars, PInv, Sound
<1> QED
  BY <1>1, <1>2, <1>3 DEF Next

\* The inductive invariant holds in every state.
LEMMA AlwaysSound ==
  ASSUME Safe
  PROVE  Spec => []PInv
<1>1. Init => PInv
  BY RequestAssumption, InitSound
<1>2. PInv /\ [Next]_vars => PInv'
  BY RequestAssumption, NextKeeps
<1> QED
  BY <1>1, <1>2, PTL DEF Spec

\* However many people work on a request, and whatever it is priced at: as long as no two
\* functions of a harmful pair overlap, somebody can always decide a circulating request, no
\* stage is asked for twice, and what is approved or bought carries every signature its
\* price calls for (submit_pr, price_pr, act_on_step, send_back).
THEOREM LadderStands ==
  ASSUME Safe
  PROVE  Spec => []LadderSound
<1>1. PInv => LadderSound
  <2> SUFFICES ASSUME PInv PROVE LadderSound
    OBVIOUS
  <2>1. Good(db) /\ Live = LiveIn(db)
    BY DEF PInv, Sound, Live, LiveIn
  <2>2. NeverStuck
    BY <2>1 DEF NeverStuck, Good, Circulates, PR
  <2>3. OneSignatureEach
    BY <2>1 DEF OneSignatureEach, Good, Distinct
  <2>4. FullySigned
    <3> SUFFICES ASSUME Bought
                 PROVE  /\ \A i \in Live : db[i].status = "approved"
                        /\ StagesFor(PR.price) \subseteq {db[i].stage : i \in Live}
      BY DEF FullySigned
    <3>1. Covers(db) /\ \A i \in Live : db[i].status = "approved"
      BY <2>1 DEF Good, Decided, Bought, PR
    <3> QED
      BY <2>1, <3>1 DEF Covers, PR
  <2> QED
    BY <2>2, <2>3, <2>4 DEF LadderSound
<1> QED
  BY <1>1, AlwaysSound, PTL

\* Under the same condition the totals on the request are the documents behind them, nobody
\* pays for goods that have not come, nothing is cancelled once goods are in, and the order
\* says what has come (issue_po, receive_items, add_payment, cancel_pr, close_pr).
THEOREM BooksAgree ==
  ASSUME Safe
  PROVE  Spec => []BooksTrue
<1>1. PInv => BooksTrue
  <2> SUFFICES ASSUME PInv PROVE BooksTrue
    OBVIOUS
  <2>1. /\ Good(db) /\ RowsTyped(db) /\ Accounts(db) /\ posted \in Postings /\ Totals(db, posted)
        /\ Live = LiveIn(db) /\ RequestAssumption
    BY RequestAssumption DEF PInv, Sound, Good, Live, LiveIn
  <2>2. /\ PR.status \in Statuses /\ PR.price \in Prices \cup {0} /\ PR.price \in Nat
        /\ PR.paid \in Nat /\ db[Line].received \in Nat /\ db[Line].received <= Ordered
        /\ Ordered \in Nat \ {0}
    BY <2>1, Columns DEF PR
  <2>3. posted.orders \in Nat /\ posted.goods \in Nat /\ posted.paid \in Nat
    BY <2>1 DEF Postings
  <2>4. TypeOK
    <3>1. PR.status \in {"cancelled"} \cup UNION {OpenTo(op) : op \in Ops}
      <4>1. /\ {"draft", "pending", "rejected", "approved", "po_issued"} \subseteq OpenTo("cancel")
            /\ {"partially_received", "received", "closed"} \subseteq OpenTo("pay")
            /\ "cancel" \in Ops /\ "pay" \in Ops
        BY DEF OpenTo, InOrder, Ops, FirstStatement
      <4> QED
        BY <2>2, <4>1 DEF Statuses, Delivered
    <3>2. \A i \in Live : db[i].status \in {"pending", "approved", "rejected"} /\ db[i].rung > 0
      <4>1. \A i \in Live : db[i] \in StepRow
        BY <2>1 DEF LiveIn, RowsTyped, NoStep, Gone
      <4> QED
        BY <4>1 DEF StepRow
    <3> QED
      BY <2>2, <2>3, <3>1, <3>2 DEF TypeOK
  <2>5. TotalsTrue
    BY <2>1 DEF Totals, TotalsTrue, PR
  <2>6. PaidForReceived
    BY <2>1 DEF Accounts, Totals, PaidForReceived, PR
  <2>7. CancelledEmpty
    <3>1. ASSUME PR.status = "cancelled" PROVE posted.goods = 0 /\ posted.paid = 0
      <4>1. db[Line].received = 0 /\ PR.paid <= db[Line].received * PR.price
        BY <2>1, <3>1 DEF Accounts, Delivered, PR
      <4>2. PR.paid = 0
        BY <2>2, <4>1
      <4> QED
        BY <2>1, <4>1, <4>2 DEF Totals, PR
    <3> QED
      BY <3>1 DEF CancelledEmpty
  <2>8. StatusTrue
    BY <2>1 DEF Accounts, StatusTrue, PR
  <2> QED
    BY <2>4, <2>5, <2>6, <2>7, <2>8 DEF BooksTrue
<1> QED
  BY <1>1, AlwaysSound, PTL

\* One step of the status.
StatusStep ==
    /\ PR.status \in {"closed", "cancelled"} => db'[Request].status = PR.status
    /\ PR.status \in InOrder => db'[Request].status \in InOrder \cup {"closed", "cancelled"}

\* Only a commit changes what is committed.
LEMMA OnlyCommits ==
  ASSUME [Next]_vars, db' # db
  PROVE  \E s \in Sessions : CommitJob(s)
<1>1. ~UNCHANGED vars
  BY DEF vars
<1>2. PICK s \in Sessions : Start(s) \/ Work(s)
  BY <1>1 DEF Next
<1>3. ~Start(s)
  BY DEF Start, Begin, BeginPay, Read
<1>4. ~Refuse(s)
  BY DEF Refuse, Rollback
<1>5. /\ ~Clear(s) /\ ~Activate(s) /\ ~Reopen(s) /\ ~Reconcile(s)
      /\ ~Sign(s) /\ ~PriceLine(s) /\ ~PutLine(s) /\ ~PutHeader(s)
  BY DEF Clear, Activate, Reopen, Reconcile, WriteAll, Sign, PriceLine, PutLine, PutHeader, Write
<1>6. /\ ~Pick(s) /\ ~Count(s) /\ ~Orders(s) /\ ~ReadLine(s) /\ ~Caps(s) /\ ~LockTimeout(s)
  BY <1>4 DEF Pick, Count, Orders, ReadLine, Caps, LockTimeout, Read
<1> QED
  BY <1>2, <1>3, <1>5, <1>6 DEF Work

\* What is closed or cancelled stays so, and an order does not go back to its approval,
\* whichever function of whichever session commits (close_pr, cancel_pr, receive_items).
THEOREM StatusKept ==
  ASSUME Safe
  PROVE  Spec => StatusSteps
<1>1. PInv /\ [Next]_vars => [StatusStep]_vars
  <2> SUFFICES ASSUME PInv, [Next]_vars, ~UNCHANGED vars PROVE StatusStep
    OBVIOUS
  <2>1. CASE db' = db
    BY <2>1 DEF StatusStep, PR
  <2>2. CASE db' # db
    <3>1. PICK s \in Sessions : CommitJob(s)
      BY <2>2, OnlyCommits
    <3> DEFINE j == job[s]
    <3>2. /\ j.op \in Ops /\ j.pc = "commit" /\ db[Request].status \in Stands(j) /\ Becomes(j, db, db')
      BY <3>1, RequestAssumption, CommitIs
    <3>3. /\ j.op \in {"price", "back", "pay"} => db'[Request].status = db[Request].status
          /\ j.op = "receive" => db'[Request].status \in InOrder
          /\ j.op = "close" => db'[Request].status = "closed"
          /\ j.op = "cancel" => db'[Request].status = "cancelled"
      BY <3>2, BecomesIs
    <3>4. /\ db[Request].status = "closed" => j.op \in {"pay", "close"}
          /\ db[Request].status = "cancelled" => j.op \in {"price", "back", "cancel"}
          /\ db[Request].status \in InOrder => j.op \in {"receive", "pay", "close", "cancel"}
      BY <3>2 DEF Stands, InOrder, Ops, FirstStatement
    <3> QED
      BY <3>3, <3>4 DEF StatusStep, PR
  <2> QED
    BY <2>1, <2>2
<1>2. [StatusStep]_vars =>
        [ /\ PR.status \in {"closed", "cancelled"} => db'[Request].status = PR.status
          /\ PR.status \in InOrder => db'[Request].status \in InOrder \cup {"closed", "cancelled"} ]_vars
  BY DEF StatusStep
<1> QED
  BY <1>1, <1>2, AlwaysSound, PTL DEF Spec, StatusSteps

=============================================================================
