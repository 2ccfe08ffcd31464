-------------------------- MODULE CompanyDesksProofs --------------------------
(***************************************************************************)
(* Theorems about what stands on the one database: the spare-parts desk    *)
(* and the five desks next to it, for any number of sessions as long as no *)
(* two functions of a harmful pair overlap, and the pool of connections,   *)
(* for any number of threads, addresses, slots and resets.                 *)
(*                                                                         *)
(* The spare parts: what a session has written is what its job makes of    *)
(* the committed rows (SpareWritten), and what the job has read stays true *)
(* whatever the functions it may overlap with commit (SpareFacts).  So a   *)
(* commit is the function executed at once on the rows as they are.        *)
(*                                                                         *)
(* The pool: OneHolder is inductive only together with what a thread at    *)
(* each point of its request holds and with the pool's own count: idle and *)
(* used connections together never exceed its limit.  A step then is one   *)
(* of six: nobody's hands change, a request takes a new connection, takes  *)
(* the idle one, lets one go, gives one back, or the pool is made or       *)
(* thrown away.                                                            *)
(*                                                                         *)
(* The five desks (DeskInv): the rows of the desk are good (DeskRows), a   *)
(* session is at a point of one of its functions, where the statements     *)
(* left and the rows it has written fit the committed rows (DeskJob), no   *)
(* two sessions have written one row, and functions under way on one       *)
(* document may overlap.  Per desk: a statement leads from point to point  *)
(* (...Goes), a commit leaves good rows (...Ends, ...Good) and takes no    *)
(* other session from its point (...Stays).                                *)
(***************************************************************************)
EXTENDS CompanyDesks, DbPool, FiniteSetTheorems, SequenceTheorems, TLAPS

-----------------------------------------------------------------------------
(* The spare-parts desk: what its rows and its sessions look like.         *)

Requests == {Asked, Given}
SpareRows == {Part, Ticket, Machine, Asked, Given} \cup Rungs
RequestStatuses == {"waiting_approval", "approved", "rejected", "out_of_stock", "issued", "cancelled"}
TicketStatuses ==
  {"waiting_approval", "closed", "approved_issue", "waiting_stock", "spare_required", "parts_issued", "resolved"}

\* What is written on a ticket when a function on one of its requests ends so.
TicketAfter(outcome) ==
  CASE outcome = "approved" -> "approved_issue" [] outcome = "out_of_stock" -> "waiting_stock"
    [] outcome = "rejected" -> "spare_required" [] outcome = "issued" -> "parts_issued"
    [] outcome = "none" -> "resolved"

SpareRowsTyped(d) ==
  /\ d = [x \in SpareRows |-> d[x]]
  /\ d[Part] \in [stock : Nat, reserved : Nat]
  /\ d[Ticket] \in [status : TicketStatuses, rolled : BOOLEAN]
  /\ d[Machine] \in [breakdowns : Nat]
  /\ \A r \in Requests : d[r] \in [status : RequestStatuses]
  /\ \A g \in Rungs : d[g] \in [status : {"pending", "approved", "rejected"}]

SparePosted(p) ==
  /\ DOMAIN p = {"stock", "vouchers"} /\ p.stock \in Int
  /\ p = [stock |-> p.stock, vouchers |-> p.vouchers]
  /\ p.vouchers \in [Requests -> Int]

ApprovedIn(d) == {r \in Requests : d[r].status = "approved"}
Undecided(d) == d[Asked].status \in {"waiting_approval", "rejected"}

\* The rows as the properties want them; and a signature is outstanding only on a request
\* that was not granted.
SpareGood(d, p) ==
  /\ SpareRowsTyped(d) /\ SparePosted(p)
  /\ d[Part].stock <= MaxStock
  /\ d[Part].reserved = Need * Cardinality(ApprovedIn(d))
  /\ d[Part].stock = InStock + p.stock
  /\ \A r \in Requests : p.vouchers[r] = IF d[r].status = "issued" THEN 1 ELSE 0
  /\ d[Asked].status = "waiting_approval" => \E g \in Rungs : d[g].status = "pending"
  /\ d[Machine].breakdowns = IF d[Ticket].rolled THEN 1 ELSE 0
  /\ d[Ticket].status = "closed" => ApprovedIn(d) = {}
  /\ \A g \in Rungs : d[g].status = "pending" => Undecided(d)

SpareJobs ==
  [op : {"idle"} \cup Spares!Ops,
   pc : {"idle", "sign", "count", "reserve", "request", "put", "free", "cancel", "ticket", "machine", "commit"},
   row : {"none"} \cup Requests, was : Int, delta : Int,
   outcome : {"none", "approved", "out_of_stock", "rejected", "issued"},
   held : SUBSET (Rungs \cup Requests), charge : BOOLEAN]

\* What a job has written into the row x, which says old as committed.
PartWritten(j, old) ==
  CASE j.op = "approve" -> [stock |-> old.stock, reserved |-> old.reserved + Need]
    [] j.op = "issue" -> [stock |-> old.stock + j.delta, reserved |-> old.reserved - Need]
    [] j.op = "close" ->
         [stock |-> old.stock, reserved |-> Need * (Cardinality(j.held) - IF j.pc = "cancel" THEN 1 ELSE 0)]
    [] OTHER -> [stock |-> old.stock + j.delta, reserved |-> old.reserved]

SpareWritten(j, old, x) ==
  CASE x = Part -> PartWritten(j, old)
    [] x = Ticket -> [status |-> IF j.op = "close" THEN "closed" ELSE TicketAfter(j.outcome),
                      rolled |-> j.op = "close" \/ old.rolled]
    [] x = Machine -> [breakdowns |-> old.breakdowns + 1]
    [] x \in Requests -> [status |-> IF j.op = "close" THEN "cancelled" ELSE j.outcome]
    [] OTHER -> [status |-> IF j.op = "approve" THEN "approved" ELSE "rejected"]

\* The rows it has written when it stands before the statement pc.
SpareTouched(j, d) ==
  LET after(pcs, rows) == IF j.pc \in pcs THEN rows ELSE {}
  IN  CASE j.op \in {"approve", "refuse"} ->
             after({"count", "reserve", "request", "ticket", "commit"}, j.held)
             \cup after({"request", "ticket", "commit"}, IF j.outcome = "approved" THEN {Part} ELSE {})
             \cup (IF j.op = "approve" /\ j.outcome = "rejected" THEN {}
                   ELSE after({"ticket", "commit"}, {Asked}) \cup after({"commit"}, {Ticket}))
        [] j.op = "issue" ->
             after({"request", "ticket", "commit"}, {Part}) \cup after({"ticket", "commit"}, {j.row})
             \cup after({"commit"}, {Ticket})
        [] j.op = "test" -> after({"commit"}, {Ticket})
        [] j.op = "close" ->
             (ApprovedIn(d) \ j.held)
             \cup (IF ApprovedIn(d) \ j.held # {} \/ j.pc = "cancel" THEN {Part} ELSE {})
             \cup after({"machine", "commit"}, {Ticket})
             \cup after({"commit"}, IF j.charge THEN {Machine} ELSE {})
        [] j.op \in {"adjust", "receive", "counter"} -> after({"commit"}, {Part})
        [] OTHER -> {}

\* What a job has read or found out, and what nobody else changes meanwhile.
SignFacts(j, d) ==
  j.op \in {"approve", "refuse"} =>
    /\ j.row = Asked /\ j.delta = 0 /\ ~j.charge /\ Undecided(d)
    /\ \E g \in Rungs : j.held = {g} /\ (j.op = "approve" => d[g].status = "pending")
    /\ j.op = "approve" => j.pc \in {"sign", "count", "reserve", "request", "ticket", "commit"}
    /\ j.op = "refuse" => j.pc \in {"sign", "request", "ticket", "commit"}
    /\ j.op = "refuse" /\ j.pc # "sign" => j.outcome = "rejected"
    /\ j.op = "approve" /\ j.pc \in {"request", "ticket"} => j.outcome \in {"approved", "out_of_stock"}
    /\ j.op = "approve" /\ j.pc \in {"count", "reserve"} => j.outcome = "rejected"
    /\ j.op = "approve" /\ j.pc = "commit" => j.outcome \in {"approved", "out_of_stock", "rejected"}
    /\ j.op = "approve" /\ j.pc = "commit" /\ j.outcome = "rejected" =>
         \E h \in Rungs \ j.held : d[h].status = "pending"
    /\ j.op = "approve" /\ (j.pc \in {"reserve", "request", "ticket"} \/ (j.pc = "commit" /\ j.outcome # "rejected")) =>
         \A h \in Rungs \ j.held : d[h].status # "pending"

IssueFacts(j, d) ==
  j.op = "issue" =>
    /\ j.pc \in {"put", "request", "ticket", "commit"} /\ j.outcome = "issued" /\ ~j.charge
    /\ j.row \in Requests /\ d[j.row].status = "approved"
    /\ j.was = d[Part].stock /\ j.was >= Need /\ j.delta = -Need

TestFacts(j) ==
  j.op = "test" => j.pc \in {"ticket", "commit"} /\ j.outcome = "none" /\ j.delta = 0 /\ ~j.charge

CloseFacts(j, d) ==
  j.op = "close" =>
    /\ j.pc \in {"free", "cancel", "ticket", "machine", "commit"} /\ j.delta = 0
    /\ j.held \subseteq ApprovedIn(d) /\ (j.charge <=> ~d[Ticket].rolled)
    /\ j.pc = "cancel" => j.held # {}
    /\ j.pc \in {"ticket", "machine", "commit"} => j.held = {}
    /\ j.pc = "machine" => j.charge

MoveFacts(j, d) ==
  j.op \in {"adjust", "receive", "counter"} =>
    /\ j.pc \in {"put", "commit"} /\ ~j.charge
    /\ j.was = d[Part].stock /\ j.was + j.delta \in 0 .. MaxStock

SpareFacts(j, d) ==
  /\ SignFacts(j, d) /\ IssueFacts(j, d) /\ TestFacts(j) /\ CloseFacts(j, d) /\ MoveFacts(j, d)

\* A session's own rows are what its job makes of the committed ones.
SpareDoing(j, m, d) ==
  /\ j \in SpareJobs /\ (j.op = "idle" => j = Spares!Idle)
  /\ m = [x \in DOMAIN m |-> m[x]]
  /\ DOMAIN m = SpareTouched(j, d)
  /\ \A x \in DOMAIN m : m[x] = SpareWritten(j, d[x], x)
  /\ SpareFacts(j, d)

SpareApart(i, j) == i.op # "idle" /\ j.op # "idle" => {i.op, j.op} \notin Spares!Harmful

SpareInv ==
  /\ SpareGood(db, posted)
  /\ mine = [s \in Sessions |-> mine[s]] /\ job = [s \in Sessions |-> job[s]]
  /\ \A s \in Sessions : SpareDoing(job[s], mine[s], db)
  /\ \A s, t \in Sessions : s # t =>
       DOMAIN mine[s] \cap DOMAIN mine[t] = {} /\ SpareApart(job[s], job[t])

\* Only pairs overlap that do no harm.
SparesSafe == SparesTogether \cap Spares!Harmful = {}

-----------------------------------------------------------------------------
(* Steps that leave the committed rows alone.                              *)

\* The assumption on the rows and bounds of the desk.
LEMMA SparesFit ==
  /\ Part \notin {Ticket, Machine, Asked, Given} /\ Ticket \notin {Machine, Asked, Given}
  /\ Machine \notin {Asked, Given} /\ Asked # Given
  /\ Rungs # {} /\ {Part, Ticket, Machine, Asked, Given} \cap Rungs = {}
  /\ Need \in Nat \ {0} /\ InStock \in Nat /\ MaxStock \in Nat /\ Need <= InStock /\ InStock <= MaxStock
  /\ Spares!Requests = Requests /\ Spares!Rows = SpareRows
BY SparesAssumption DEF Spares!StoreAssumption, Spares!Requests, Spares!Rows, Requests, SpareRows

\* The statuses a function leaves on the ticket.
LEMMA TicketAfterIs ==
  ASSUME NEW o \in {"none", "approved", "out_of_stock", "rejected", "issued"}
  PROVE  Spares!NewStatus[o] = TicketAfter(o) /\ TicketAfter(o) \in TicketStatuses \ {"closed"}
BY DEF Spares!NewStatus, TicketAfter, TicketStatuses

\* MAX(reserved_qty - n, 0) when enough is reserved.
LEMMA SparesMax ==
  ASSUME NEW a \in Nat
  PROVE  Spares!Max({a, 0}) = a
<1>1. \A x \in {a, 0} : (\A y \in {a, 0} : x >= y) <=> x = a
  OBVIOUS
<1>2. (CHOOSE x \in {a, 0} : \A y \in {a, 0} : x >= y) = a
  BY <1>1
<1> QED
  BY <1>2 DEF Spares!Max

\* Session s goes on with job j and own rows m, and takes no row another holds.
Turned(s, j, m) ==
  /\ UNCHANGED <<db, posted>>
  /\ job' = [job EXCEPT ![s] = j] /\ mine' = [mine EXCEPT ![s] = m]
  /\ SpareDoing(j, m, db)
  /\ \A t \in Sessions \ {s} : DOMAIN m \cap DOMAIN mine[t] = {} /\ SpareApart(j, job[t])

\* Such a step keeps the invariant.
LEMMA TurnedKeeps ==
  ASSUME SpareInv, NEW s \in Sessions, NEW j, NEW m, Turned(s, j, m)
  PROVE  SpareInv'
<1>1. /\ mine' = [t \in Sessions |-> mine'[t]] /\ job' = [t \in Sessions |-> job'[t]]
      /\ job'[s] = j /\ mine'[s] = m
      /\ \A t \in Sessions \ {s} : job'[t] = job[t] /\ mine'[t] = mine[t]
  BY DEF SpareInv, Turned
<1>2. SpareGood(db, posted)'
  BY ZenonT(40) DEF SpareInv, Turned, SpareGood, SpareRowsTyped, SparePosted, ApprovedIn, Undecided
<1>3. db' = db
  BY DEF Turned
<1>4. ASSUME NEW t \in Sessions PROVE SpareDoing(job'[t], mine'[t], db')
  BY <1>1, <1>3 DEF SpareInv, Turned
<1>5. ASSUME NEW t \in Sessions, NEW u \in Sessions, t # u
      PROVE  DOMAIN mine'[t] \cap DOMAIN mine'[u] = {} /\ SpareApart(job'[t], job'[u])
  <2>1. \A a, b : SpareApart(a, b) <=> SpareApart(b, a)
    <3>1. \A a, b : {a.op, b.op} = {b.op, a.op}
      OBVIOUS
    <3> QED
      BY <3>1 DEF SpareApart
  <2>2. CASE t = s
    BY <1>1, <1>5, <2>2 DEF Turned
  <2>3. CASE u = s
    <3>1. DOMAIN m \cap DOMAIN mine[t] = {} /\ SpareApart(j, job[t])
      BY <1>5, <2>3 DEF Turned
    <3>2. SpareApart(job[t], j)
      BY <3>1, <2>1
    <3> QED
      BY <1>1, <1>5, <2>3, <3>1, <3>2
  <2>4. CASE t # s /\ u # s
    BY <1>1, <1>5, <2>4 DEF SpareInv
  <2> QED
    BY <2>2, <2>3, <2>4
<1>6. \A t \in Sessions : SpareDoing(job[t], mine[t], db)'
  BY <1>4 DEF SpareDoing, SpareTouched, SpareWritten, PartWritten, SpareFacts, SignFacts, IssueFacts, TestFacts,
              CloseFacts, MoveFacts, ApprovedIn, Undecided
<1> QED
  BY <1>1, <1>2, <1>5, <1>6 DEF SpareInv, SpareApart

\* A function that reads.
LEMMA ReadsOn ==
  ASSUME SpareInv, NEW s \in Sessions, NEW j,
         Spares!Read, job' = [job EXCEPT ![s] = j], UNCHANGED posted,
         j \in SpareJobs, j.op # "idle", SpareFacts(j, db),
         SpareTouched(j, db) = DOMAIN mine[s],
         \A x \in DOMAIN mine[s] : SpareWritten(j, db[x], x) = mine[s][x],
         \A t \in Sessions \ {s} : SpareApart(j, job[t])
  PROVE  SpareInv'
<1>1. mine' = [mine EXCEPT ![s] = mine[s]] /\ UNCHANGED <<db, posted>>
  BY DEF Spares!Read, SpareInv
<1>2. SpareDoing(j, mine[s], db)
  BY DEF SpareDoing, SpareInv
<1>3. Turned(s, j, mine[s])
  BY <1>1, <1>2 DEF Turned, SpareInv
<1> QED
  BY <1>3, TurnedKeeps

\* A function that writes the row x.
LEMMA WritesOn ==
  ASSUME SpareInv, NEW s \in Sessions, NEW j, NEW x, NEW v,
         Spares!Write(s, x, v), job' = [job EXCEPT ![s] = j], UNCHANGED posted,
         j \in SpareJobs, j.op = job[s].op, j.op # "idle", SpareFacts(j, db),
         SpareTouched(j, db) = DOMAIN mine[s] \cup {x}, SpareWritten(j, db[x], x) = v,
         \A y \in DOMAIN mine[s] \ {x} : SpareWritten(j, db[y], y) = mine[s][y]
  PROVE  SpareInv'
<1> DEFINE m == Spares!Over([y \in {x} |-> v], mine[s])
<1>1. mine' = [mine EXCEPT ![s] = m] /\ UNCHANGED <<db, posted>>
  BY DEF Spares!Write, SpareInv
<1>2. /\ m = [y \in DOMAIN m |-> m[y]] /\ DOMAIN m = DOMAIN mine[s] \cup {x} /\ m[x] = v
      /\ \A y \in DOMAIN mine[s] \ {x} : m[y] = mine[s][y]
  BY DEF Spares!Over
<1> HIDE DEF m
<1>3. SpareDoing(j, m, db)
  BY <1>2 DEF SpareDoing
<1>4. ASSUME NEW t \in Sessions \ {s} PROVE DOMAIN m \cap DOMAIN mine[t] = {} /\ SpareApart(j, job[t])
  <2>1. x \notin DOMAIN mine[t]
    BY DEF Spares!Write, Spares!Free
  <2>2. DOMAIN mine[s] \cap DOMAIN mine[t] = {} /\ SpareApart(job[s], job[t])
    BY DEF SpareInv
  <2> QED
    BY <1>2, <2>1, <2>2 DEF SpareApart
<1>5. Turned(s, j, m)
  BY <1>1, <1>3, <1>4 DEF Turned
<1> QED
  BY <1>5, TurnedKeeps

-----------------------------------------------------------------------------
(* One statement of a function.                                            *)

\* What the invariant says of session s.
LEMMA SpareSession ==
  ASSUME SpareInv, NEW s \in Sessions
  PROVE  /\ job[s] \in SpareJobs /\ SpareFacts(job[s], db) /\ SpareRowsTyped(db)
         /\ (job[s].op = "idle" => job[s] = Spares!Idle)
         /\ DOMAIN mine[s] = SpareTouched(job[s], db)
         /\ \A x \in DOMAIN mine[s] : mine[s][x] = SpareWritten(job[s], db[x], x)
BY DEF SpareInv, SpareDoing, SpareGood

\* A job that moves to the statement pc, or does so with an outcome.
LEMMA MovedOn ==
  ASSUME SpareInv, NEW s \in Sessions, NEW k,
         NEW pc \in {"count", "reserve", "request", "put", "free", "cancel", "ticket", "machine", "commit"},
         Spares!Goto(s, pc), k = [job[s] EXCEPT !.pc = pc]
  PROVE  job' = [job EXCEPT ![s] = k] /\ k \in SpareJobs
<1>1. job[s] \in SpareJobs /\ DOMAIN job = Sessions
  BY SpareSession DEF SpareInv
<1> QED
  BY <1>1 DEF Spares!Goto, SpareJobs

\* The same with an outcome.
LEMMA MovedOut ==
  ASSUME SpareInv, NEW s \in Sessions, NEW k,
         NEW pc \in {"count", "request"}, NEW out \in {"approved", "out_of_stock", "rejected"},
         job' = [job EXCEPT ![s].pc = pc, ![s].outcome = out], k = [job[s] EXCEPT !.pc = pc, !.outcome = out]
  PROVE  job' = [job EXCEPT ![s] = k] /\ k \in SpareJobs
<1>1. job[s] \in SpareJobs /\ DOMAIN job = Sessions
  BY SpareSession DEF SpareInv
<1> QED
  BY <1>1 DEF SpareJobs

\* A signature or a refusal.
LEMMA SignKeeps ==
  ASSUME SpareInv, NEW s \in Sessions, Spares!Sign(s)
  PROVE  SpareInv'
<1>1. PICK j : j = job[s]
  OBVIOUS
<1>2. /\ j \in SpareJobs /\ SpareFacts(j, db) /\ SpareRowsTyped(db) /\ DOMAIN mine[s] = SpareTouched(j, db)
      /\ \A x \in DOMAIN mine[s] : mine[s][x] = SpareWritten(j, db[x], x)
  BY <1>1, SpareSession
<1>3. j.op \in {"approve", "refuse"} /\ j.pc = "sign"
  BY <1>1 DEF Spares!Sign, Spares!At
<1>4. PICK g \in Rungs : j.held = {g}
  BY <1>2, <1>3 DEF SpareFacts, SignFacts
<1>5. Spares!Rung(s) = g
  BY <1>1, <1>4 DEF Spares!Rung
<1>6. DOMAIN mine[s] = {}
  BY <1>2, <1>3 DEF SpareTouched
<1> DEFINE verdict == IF j.op = "approve" THEN "approved" ELSE "rejected"
           next == IF j.op = "approve" THEN "count" ELSE "request"
<1>7. PICK k : k = [j EXCEPT !.pc = next, !.outcome = "rejected"]
  OBVIOUS
<1>8. job' = [job EXCEPT ![s] = k] /\ k \in SpareJobs /\ UNCHANGED posted
  <2>1. job' = [job EXCEPT ![s].pc = next, ![s].outcome = "rejected"] /\ UNCHANGED posted
    BY <1>1 DEF Spares!Sign
  <2>2. next \in {"count", "request"}
    OBVIOUS
  <2> HIDE DEF next
  <2> QED
    BY <1>1, <1>7, <2>1, <2>2, MovedOut, Zenon
<1>9. Spares!Write(s, g, [status |-> verdict])
  <2>1. Spares!Seen(s, g) = db[g]
    BY <1>6 DEF Spares!Seen
  <2>2. [db[g] EXCEPT !.status = verdict] = [status |-> verdict]
    BY <1>2 DEF SpareRowsTyped
  <2> QED
    BY <1>1, <1>5, <2>1, <2>2 DEF Spares!Sign, Spares!SetStatus
<1>10. k.op = j.op /\ k.op # "idle" /\ k.held = {g} /\ k.pc = next /\ k.outcome = "rejected"
       /\ k.row = j.row /\ k.delta = j.delta /\ k.charge = j.charge
  BY <1>2, <1>3, <1>4, <1>7 DEF SpareJobs
<1>11. SpareFacts(k, db)
  BY <1>2, <1>3, <1>4, <1>10 DEF SpareFacts, SignFacts, IssueFacts, TestFacts, CloseFacts, MoveFacts
<1>12. SpareTouched(k, db) = DOMAIN mine[s] \cup {g}
  BY <1>3, <1>6, <1>10 DEF SpareTouched
<1>13. SpareWritten(k, db[g], g) = [status |-> verdict]
  BY <1>3, <1>10, SparesFit DEF SpareWritten, PartWritten, Requests
<1> QED
  BY <1>1, <1>6, <1>8, <1>9, <1>10, <1>11, <1>12, <1>13, WritesOn

\* The count of the signatures that are left.
LEMMA CountKeeps ==
  ASSUME SpareInv, NEW s \in Sessions, Spares!Count(s)
  PROVE  SpareInv'
<1>1. PICK j : j = job[s]
  OBVIOUS
<1>2. /\ j \in SpareJobs /\ SpareFacts(j, db) /\ SpareRowsTyped(db) /\ DOMAIN mine[s] = SpareTouched(j, db)
      /\ \A x \in DOMAIN mine[s] : mine[s][x] = SpareWritten(j, db[x], x)
  BY <1>1, SpareSession
<1>3. j.op = "approve" /\ j.pc = "count"
  BY <1>1 DEF Spares!Count, Spares!At
<1>4. PICK g \in Rungs : j.held = {g}
  BY <1>2, <1>3 DEF SpareFacts, SignFacts
<1>5. j.outcome = "rejected"
  BY <1>2, <1>3 DEF SpareFacts, SignFacts
<1>6. DOMAIN mine[s] = {g} /\ mine[s][g].status = "approved"
  <2>1. DOMAIN mine[s] = {g}
    BY <1>2, <1>3, <1>4, <1>5 DEF SpareTouched
  <2>2. mine[s][g] = SpareWritten(j, db[g], g)
    BY <1>2, <2>1
  <2> QED
    BY <1>3, <2>1, <2>2, SparesFit DEF SpareWritten, PartWritten, Requests
<1>7. Spares!AllSigned(s) <=> \A h \in Rungs \ {g} : db[h].status # "pending"
  BY <1>6 DEF Spares!AllSigned, Spares!Status, Spares!Seen
<1> DEFINE next == IF Spares!AllSigned(s) THEN "reserve" ELSE "commit"
<1>8. PICK k : k = [j EXCEPT !.pc = next]
  OBVIOUS
<1>9. job' = [job EXCEPT ![s] = k] /\ k \in SpareJobs /\ UNCHANGED posted /\ Spares!Read
  BY <1>1, <1>8, MovedOn DEF Spares!Count
<1>10. k.op = j.op /\ k.op # "idle" /\ k.held = {g} /\ k.pc = next /\ k.outcome = "rejected"
       /\ k.row = j.row /\ k.delta = j.delta /\ k.charge = j.charge
  BY <1>2, <1>3, <1>4, <1>5, <1>8 DEF SpareJobs
<1>11. SpareFacts(k, db)
  BY <1>2, <1>3, <1>4, <1>7, <1>10 DEF SpareFacts, SignFacts, IssueFacts, TestFacts, CloseFacts, MoveFacts
<1>12. SpareTouched(k, db) = DOMAIN mine[s]
  BY <1>3, <1>6, <1>10 DEF SpareTouched
<1>13. \A x \in DOMAIN mine[s] : SpareWritten(k, db[x], x) = mine[s][x]
  BY <1>2, <1>3, <1>6, <1>10, SparesFit DEF SpareWritten, PartWritten, Requests
<1>14. \A t \in Sessions \ {s} : SpareApart(k, job[t])
  BY <1>1, <1>10 DEF SpareInv, SpareApart
<1> QED
  BY <1>9, <1>10, <1>11, <1>12, <1>13, <1>14, ReadsOn

\* The reservation, or none when too little is free.
LEMMA ReserveKeeps ==
  ASSUME SpareInv, NEW s \in Sessions, Spares!ReservePart(s)
  PROVE  SpareInv'
<1>1. PICK j : j = job[s]
  OBVIOUS
<1>2. /\ j \in SpareJobs /\ SpareFacts(j, db) /\ SpareRowsTyped(db) /\ DOMAIN mine[s] = SpareTouched(j, db)
      /\ \A x \in DOMAIN mine[s] : mine[s][x] = SpareWritten(j, db[x], x)
  BY <1>1, SpareSession
<1>3. j.op = "approve" /\ j.pc = "reserve"
  BY <1>1 DEF Spares!ReservePart, Spares!At
<1>4. PICK g \in Rungs : j.held = {g}
  BY <1>2, <1>3 DEF SpareFacts, SignFacts
<1>5. j.outcome = "rejected"
  BY <1>2, <1>3 DEF SpareFacts, SignFacts
<1>6. DOMAIN mine[s] = {g}
  BY <1>2, <1>3, <1>4, <1>5 DEF SpareTouched
<1>7. mine[s][g] = [status |-> "approved"]
  BY <1>2, <1>3, <1>6, SparesFit DEF SpareWritten, PartWritten, Requests
<1>8. PICK out \in {"approved", "out_of_stock"} :
        /\ job' = [job EXCEPT ![s].pc = "request", ![s].outcome = out]
        /\ out = "approved" =>
             Spares!Write(s, Part, [Spares!Seen(s, Part) EXCEPT !.reserved = @ + Need])
        /\ out = "out_of_stock" => Spares!Read
  BY DEF Spares!ReservePart
<1>9. PICK k : k = [j EXCEPT !.pc = "request", !.outcome = out]
  OBVIOUS
<1>10. job' = [job EXCEPT ![s] = k] /\ k \in SpareJobs /\ UNCHANGED posted
  <2>1. UNCHANGED posted
    BY DEF Spares!ReservePart
  <2> QED
    BY <1>1, <1>8, <1>9, <2>1, MovedOut, ZenonT(40)
<1>11. k.op = j.op /\ k.op # "idle" /\ k.held = {g} /\ k.pc = "request" /\ k.outcome = out
       /\ k.row = j.row /\ k.delta = j.delta /\ k.charge = j.charge
  BY <1>2, <1>3, <1>4, <1>9 DEF SpareJobs
<1>12. SpareFacts(k, db)
  BY <1>2, <1>3, <1>4, <1>11 DEF SpareFacts, SignFacts, IssueFacts, TestFacts, CloseFacts, MoveFacts
<1>13. SpareWritten(k, db[g], g) = mine[s][g]
  BY <1>3, <1>7, <1>11, SparesFit DEF SpareWritten, PartWritten, Requests
<1>14. CASE out = "approved"
  <2>1. SpareTouched(k, db) = DOMAIN mine[s] \cup {Part}
    BY <1>3, <1>6, <1>11, <1>14 DEF SpareTouched
  <2>2. Spares!Seen(s, Part) = db[Part]
    BY <1>6, SparesFit DEF Spares!Seen
  <2>3. SpareWritten(k, db[Part], Part) = [db[Part] EXCEPT !.reserved = @ + Need]
    <3>1. SpareWritten(k, db[Part], Part) = [stock |-> db[Part].stock, reserved |-> db[Part].reserved + Need]
      BY <1>3, <1>11, SparesFit DEF SpareWritten, PartWritten, Requests
    <3> QED
      BY <1>2, <3>1 DEF SpareRowsTyped
  <2>4. Spares!Write(s, Part, SpareWritten(k, db[Part], Part))
    BY <1>8, <1>14, <2>2, <2>3
  <2> QED
    BY <1>1, <1>6, <1>10, <1>11, <1>12, <1>13, <2>1, <2>4, WritesOn
<1>15. CASE out = "out_of_stock"
  <2>1. SpareTouched(k, db) = DOMAIN mine[s]
    BY <1>3, <1>6, <1>11, <1>15 DEF SpareTouched
  <2>2. \A t \in Sessions \ {s} : SpareApart(k, job[t])
    BY <1>1, <1>11 DEF SpareInv, SpareApart
  <2> QED
    BY <1>6, <1>8, <1>10, <1>11, <1>12, <1>13, <1>15, <2>1, <2>2, ReadsOn
<1> QED
  BY <1>14, <1>15

\* The status of the request.
LEMMA PutRequestKeeps ==
  ASSUME SpareInv, NEW s \in Sessions, Spares!PutRequest(s)
  PROVE  SpareInv'
<1>1. PICK j : j = job[s]
  OBVIOUS
<1>2. /\ j \in SpareJobs /\ SpareFacts(j, db) /\ SpareRowsTyped(db) /\ DOMAIN mine[s] = SpareTouched(j, db)
      /\ \A x \in DOMAIN mine[s] : mine[s][x] = SpareWritten(j, db[x], x)
  BY <1>1, SpareSession
<1>3. j.op \in {"approve", "refuse", "issue"} /\ j.pc = "request"
  BY <1>1 DEF Spares!PutRequest, Spares!At
<1>4. j.row \in Requests
  BY <1>2, <1>3 DEF SpareFacts, SignFacts, IssueFacts, Requests
<1>5. DOMAIN mine[s] \subseteq Rungs \cup {Part}
  <2>1. j.op \in {"approve", "refuse"} => j.held \subseteq Rungs
    BY <1>2 DEF SpareFacts, SignFacts
  <2> QED
    BY <1>2, <1>3, <2>1 DEF SpareTouched
<1>6. j.row \notin DOMAIN mine[s]
  BY <1>4, <1>5, SparesFit DEF Requests
<1>7. PICK k : k = [j EXCEPT !.pc = "ticket"]
  OBVIOUS
<1>8. job' = [job EXCEPT ![s] = k] /\ k \in SpareJobs /\ UNCHANGED posted
  BY <1>1, <1>7, MovedOn DEF Spares!PutRequest
<1>9. Spares!Write(s, j.row, [status |-> j.outcome])
  <2>1. Spares!Seen(s, j.row) = db[j.row]
    BY <1>6 DEF Spares!Seen
  <2>2. [db[j.row] EXCEPT !.status = j.outcome] = [status |-> j.outcome]
    BY <1>2, <1>4 DEF SpareRowsTyped
  <2> QED
    BY <1>1, <2>1, <2>2 DEF Spares!PutRequest, Spares!SetStatus
<1>10. k.op = j.op /\ k.op # "idle" /\ k.held = j.held /\ k.pc = "ticket" /\ k.outcome = j.outcome
       /\ k.row = j.row /\ k.was = j.was /\ k.delta = j.delta /\ k.charge = j.charge
  BY <1>2, <1>3, <1>7 DEF SpareJobs
<1>11. SpareFacts(k, db)
  BY <1>2, <1>3, <1>10 DEF SpareFacts, SignFacts, IssueFacts, TestFacts, CloseFacts, MoveFacts
<1>12. SpareTouched(k, db) = DOMAIN mine[s] \cup {j.row}
  BY <1>2, <1>3, <1>10 DEF SpareTouched, SpareFacts, SignFacts
<1>13. SpareWritten(k, db[j.row], j.row) = [status |-> j.outcome]
  BY <1>3, <1>4, <1>10, SparesFit DEF SpareWritten, PartWritten, Requests
<1>14. \A y \in DOMAIN mine[s] \ {j.row} : SpareWritten(k, db[y], y) = mine[s][y]
  <2>1. SUFFICES ASSUME NEW y \in DOMAIN mine[s] PROVE SpareWritten(k, db[y], y) = SpareWritten(j, db[y], y)
    BY <1>2
  <2> QED
    BY <1>3, <1>10 DEF SpareWritten, PartWritten
<1> QED
  BY <1>1, <1>8, <1>9, <1>10, <1>11, <1>12, <1>13, <1>14, WritesOn

\* The new total of the part.
LEMMA PutStockKeeps ==
  ASSUME SpareInv, NEW s \in Sessions, Spares!PutStock(s)
  PROVE  SpareInv'
<1>1. PICK j : j = job[s]
  OBVIOUS
<1>2. /\ j \in SpareJobs /\ SpareFacts(j, db) /\ SpareRowsTyped(db) /\ DOMAIN mine[s] = SpareTouched(j, db)
      /\ \A x \in DOMAIN mine[s] : mine[s][x] = SpareWritten(j, db[x], x)
  BY <1>1, SpareSession
<1>3. j.op \in {"issue", "adjust", "receive", "counter"} /\ j.pc = "put"
  BY <1>1 DEF Spares!PutStock, Spares!At
<1>4. DOMAIN mine[s] = {} /\ Spares!Seen(s, Part) = db[Part]
  BY <1>2, <1>3 DEF SpareTouched, Spares!Seen
<1> DEFINE next == IF j.op = "issue" THEN "request" ELSE "commit"
<1>5. PICK k : k = [j EXCEPT !.pc = next]
  OBVIOUS
<1>6. job' = [job EXCEPT ![s] = k] /\ k \in SpareJobs /\ UNCHANGED posted
  BY <1>1, <1>5, MovedOn DEF Spares!PutStock
<1>7. k.op = j.op /\ k.op # "idle" /\ k.held = j.held /\ k.pc = next /\ k.outcome = j.outcome
       /\ k.row = j.row /\ k.was = j.was /\ k.delta = j.delta /\ k.charge = j.charge
  BY <1>2, <1>3, <1>5 DEF SpareJobs
<1>8. SpareFacts(k, db)
  BY <1>2, <1>3, <1>7 DEF SpareFacts, SignFacts, IssueFacts, TestFacts, CloseFacts, MoveFacts
<1>9. SpareTouched(k, db) = {Part}
  BY <1>3, <1>7 DEF SpareTouched
<1>10. j.was = db[Part].stock
  BY <1>2, <1>3 DEF SpareFacts, IssueFacts, MoveFacts
<1>11. j.op = "issue" => Spares!Fulfilled(s, db[Part].reserved) = db[Part].reserved - Need
  <2>1. SUFFICES ASSUME j.op = "issue"
                 PROVE  Spares!Fulfilled(s, db[Part].reserved) = db[Part].reserved - Need
    OBVIOUS
  <2>2. j.row \in ApprovedIn(db)
    BY <1>2, <2>1 DEF SpareFacts, IssueFacts, ApprovedIn
  <2>3. IsFiniteSet(ApprovedIn(db)) /\ Cardinality(ApprovedIn(db)) \in Nat \ {0}
    <3>1. IsFiniteSet(Requests)
      <4>1. IsFiniteSet({Asked}) /\ IsFiniteSet({Asked} \cup {Given})
        BY FS_AddElement, FS_Singleton
      <4>2. Requests = {Asked} \cup {Given}
        BY DEF Requests
      <4> QED
        BY <4>1, <4>2, Zenon
    <3>2. IsFiniteSet(ApprovedIn(db))
      BY <3>1, FS_Subset DEF ApprovedIn
    <3>3. Cardinality(ApprovedIn(db)) # 0
      BY <2>2, <3>2, FS_EmptySet
    <3> QED
      BY <3>2, <3>3, FS_CardinalityType
  <2>4. db[Part].reserved = Need * Cardinality(ApprovedIn(db))
    BY DEF SpareInv, SpareGood
  <2>5. \A n \in Nat \ {0} : Need * n - Need \in Nat
    <3>1. SUFFICES ASSUME NEW n \in Nat \ {0} PROVE Need * n - Need \in Nat
      OBVIOUS
    <3>2. Need \in Nat /\ n - 1 \in Nat
      BY SparesFit
    <3>3. Need * (n - 1) \in Nat /\ Need * (n - 1) = Need * n - Need
      BY <3>2
    <3> QED
      BY <3>3
  <2>6. db[Part].reserved - Need \in Nat
    BY <2>3, <2>4, <2>5
  <2> QED
    BY <1>1, <2>1, <2>6, SparesMax DEF Spares!Fulfilled
<1>12. j.op # "issue" => Spares!Fulfilled(s, db[Part].reserved) = db[Part].reserved
  BY <1>1 DEF Spares!Fulfilled
<1>13. SpareWritten(k, db[Part], Part)
         = [stock |-> j.was + j.delta, reserved |-> Spares!Fulfilled(s, db[Part].reserved)]
  <2>1. CASE j.op = "issue"
    BY <1>7, <1>10, <1>11, <2>1, SparesFit DEF SpareWritten, PartWritten, Requests
  <2>2. CASE j.op # "issue"
    BY <1>3, <1>7, <1>10, <1>12, <2>2, SparesFit DEF SpareWritten, PartWritten, Requests
  <2> QED
    BY <2>1, <2>2
<1>14. Spares!Write(s, Part, SpareWritten(k, db[Part], Part))
  BY <1>1, <1>4, <1>13 DEF Spares!PutStock
<1> QED
  BY <1>1, <1>4, <1>6, <1>7, <1>8, <1>9, <1>14, WritesOn

\* Pieces reserved for some of the two requests.
LEMMA Counted ==
  ASSUME NEW H \in SUBSET Requests, H # {}
  PROVE  /\ Cardinality(H) \in Nat \ {0}
         /\ \A r \in H : Cardinality(H \ {r}) = Cardinality(H) - 1
         /\ Need * Cardinality(H) - Need = Need * (Cardinality(H) - 1)
         /\ Need * (Cardinality(H) - 1) \in Nat /\ Need * Cardinality(H) \in Nat
<1>1. IsFiniteSet(H)
  <2>1. IsFiniteSet({Asked}) /\ IsFiniteSet({Asked} \cup {Given})
    BY FS_AddElement, FS_Singleton
  <2>2. Requests = {Asked} \cup {Given}
    BY DEF Requests
  <2>3. IsFiniteSet(Requests)
    BY <2>1, <2>2, Zenon
  <2> QED
    BY <2>3, FS_Subset
<1>2. Cardinality(H) \in Nat /\ Cardinality(H) # 0
  BY <1>1, FS_CardinalityType, FS_EmptySet
<1>3. \A r \in H : Cardinality(H \ {r}) = Cardinality(H) - 1
  BY <1>1, FS_RemoveElement
<1>4. PICK n \in Nat : n = Cardinality(H) - 1
  BY <1>2
<1>5. Need * (n + 1) - Need = Need * n /\ Need * n \in Nat /\ Need * (n + 1) \in Nat
  BY SparesFit
<1>6. Cardinality(H) = n + 1
  BY <1>2, <1>4
<1> QED
  BY <1>2, <1>3, <1>4, <1>5, <1>6

\* A request freed by the ticket that closes: its pieces.
LEMMA FreeKeeps ==
  ASSUME SpareInv, NEW s \in Sessions, Spares!FreeHeld(s)
  PROVE  SpareInv'
<1>1. PICK j : j = job[s]
  OBVIOUS
<1>2. /\ j \in SpareJobs /\ SpareFacts(j, db) /\ SpareRowsTyped(db) /\ DOMAIN mine[s] = SpareTouched(j, db)
      /\ \A x \in DOMAIN mine[s] : mine[s][x] = SpareWritten(j, db[x], x)
  BY <1>1, SpareSession
<1>3. j.op = "close" /\ j.pc = "free"
  BY <1>1 DEF Spares!FreeHeld, Spares!At
<1>4. j.held \subseteq ApprovedIn(db) /\ ApprovedIn(db) \subseteq Requests
  BY <1>2, <1>3 DEF SpareFacts, CloseFacts, ApprovedIn
<1>5. PICK A : A = ApprovedIn(db) \ j.held
  OBVIOUS
<1>6. DOMAIN mine[s] = A \cup IF A # {} THEN {Part} ELSE {}
  BY <1>2, <1>3, <1>5 DEF SpareTouched
<1>7. UNCHANGED posted
  BY DEF Spares!FreeHeld
<1>8. CASE j.held = {}
  <2>1. PICK k : k = [j EXCEPT !.pc = "ticket"]
    OBVIOUS
  <2>2. Spares!Read /\ Spares!Goto(s, "ticket")
    BY <1>1, <1>8 DEF Spares!FreeHeld
  <2>3. job' = [job EXCEPT ![s] = k] /\ k \in SpareJobs
    BY <1>1, <2>1, <2>2, MovedOn
  <2>4. k.op = j.op /\ k.op # "idle" /\ k.held = j.held /\ k.pc = "ticket" /\ k.outcome = j.outcome
        /\ k.row = j.row /\ k.was = j.was /\ k.delta = j.delta /\ k.charge = j.charge
    BY <1>2, <1>3, <2>1 DEF SpareJobs
  <2>5. SpareFacts(k, db)
    BY <1>2, <1>3, <1>8, <2>4 DEF SpareFacts, SignFacts, IssueFacts, TestFacts, CloseFacts, MoveFacts
  <2>6. SpareTouched(k, db) = DOMAIN mine[s]
    BY <1>3, <1>5, <1>6, <2>4 DEF SpareTouched
  <2>7. \A x \in DOMAIN mine[s] : SpareWritten(k, db[x], x) = mine[s][x]
    <3>1. SUFFICES ASSUME NEW x \in DOMAIN mine[s] PROVE SpareWritten(k, db[x], x) = SpareWritten(j, db[x], x)
      BY <1>2
    <3> QED
      BY <1>3, <2>4 DEF SpareWritten, PartWritten
  <2>8. \A t \in Sessions \ {s} : SpareApart(k, job[t])
    BY <1>1, <2>4 DEF SpareInv, SpareApart
  <2> QED
    BY <1>7, <2>2, <2>3, <2>4, <2>5, <2>6, <2>7, <2>8, ReadsOn
<1>9. CASE j.held # {}
  <2>1. PICK k : k = [j EXCEPT !.pc = "cancel"]
    OBVIOUS
  <2>2. PICK row : row = Spares!Seen(s, Part)
    OBVIOUS
  <2>3. Spares!Write(s, Part, [row EXCEPT !.reserved = Spares!Max({row.reserved - Need, 0})])
        /\ Spares!Goto(s, "cancel")
    BY <1>1, <1>9, <2>2 DEF Spares!FreeHeld
  <2>4. job' = [job EXCEPT ![s] = k] /\ k \in SpareJobs
    BY <1>1, <2>1, <2>3, MovedOn
  <2>5. k.op = j.op /\ k.op # "idle" /\ k.held = j.held /\ k.pc = "cancel" /\ k.outcome = j.outcome
        /\ k.row = j.row /\ k.was = j.was /\ k.delta = j.delta /\ k.charge = j.charge
    BY <1>2, <1>3, <2>1 DEF SpareJobs
  <2>6. SpareFacts(k, db)
    BY <1>2, <1>3, <1>9, <2>5 DEF SpareFacts, SignFacts, IssueFacts, TestFacts, CloseFacts, MoveFacts
  <2>7. SpareTouched(k, db) = DOMAIN mine[s] \cup {Part}
    BY <1>3, <1>5, <1>6, <2>5 DEF SpareTouched
  <2>8. row = [stock |-> db[Part].stock, reserved |-> Need * Cardinality(j.held)]
    <3>1. CASE A = {}
      <4>1. row = db[Part]
        BY <1>6, <2>2, <3>1 DEF Spares!Seen
      <4>2. j.held = ApprovedIn(db)
        BY <1>4, <1>5, <3>1
      <4>3. db[Part].reserved = Need * Cardinality(ApprovedIn(db))
        BY DEF SpareInv, SpareGood
      <4> QED
        BY <1>2, <4>1, <4>2, <4>3 DEF SpareRowsTyped
    <3>2. CASE A # {}
      <4>1. row = SpareWritten(j, db[Part], Part)
        BY <1>2, <1>6, <2>2, <3>2 DEF Spares!Seen
      <4>2. Cardinality(j.held) - 0 = Cardinality(j.held)
        BY <1>2, <1>4, <1>9, Counted
      <4>3. SpareWritten(j, db[Part], Part)
              = [stock |-> db[Part].stock, reserved |-> Need * (Cardinality(j.held) - 0)]
        BY <1>3, SparesFit DEF SpareWritten, PartWritten, Requests
      <4> QED
        BY <4>1, <4>2, <4>3
    <3> QED
      BY <3>1, <3>2
  <2>9. SpareWritten(k, db[Part], Part) = [row EXCEPT !.reserved = Spares!Max({row.reserved - Need, 0})]
    <3>1. SpareWritten(k, db[Part], Part)
            = [stock |-> db[Part].stock, reserved |-> Need * (Cardinality(j.held) - 1)]
      BY <1>3, <2>5, SparesFit DEF SpareWritten, PartWritten, Requests
    <3>2. row.reserved - Need = Need * (Cardinality(j.held) - 1) /\ Need * (Cardinality(j.held) - 1) \in Nat
      BY <1>2, <1>4, <1>9, <2>8, Counted
    <3>3. Spares!Max({row.reserved - Need, 0}) = Need * (Cardinality(j.held) - 1)
      BY <3>2, SparesMax
    <3> QED
      BY <2>8, <3>1, <3>3
  <2>10. \A y \in DOMAIN mine[s] \ {Part} : SpareWritten(k, db[y], y) = mine[s][y]
    <3>1. SUFFICES ASSUME NEW y \in DOMAIN mine[s] \ {Part}
                   PROVE  SpareWritten(k, db[y], y) = SpareWritten(j, db[y], y)
      BY <1>2
    <3>2. y \in Requests
      BY <1>4, <1>5, <1>6, <3>1
    <3> QED
      BY <1>3, <2>5, <3>2, SparesFit DEF SpareWritten, Requests
  <2> QED
    BY <1>1, <1>7, <2>3, <2>4, <2>5, <2>6, <2>7, <2>9, <2>10, WritesOn
<1> QED
  BY <1>8, <1>9

\* The same: its status.
LEMMA CancelKeeps ==
  ASSUME SpareInv, NEW s \in Sessions, Spares!CancelHeld(s)
  PROVE  SpareInv'
<1>1. PICK j : j = job[s]
  OBVIOUS
<1>2. /\ j \in SpareJobs /\ SpareFacts(j, db) /\ SpareRowsTyped(db) /\ DOMAIN mine[s] = SpareTouched(j, db)
      /\ \A x \in DOMAIN mine[s] : mine[s][x] = SpareWritten(j, db[x], x)
  BY <1>1, SpareSession
<1>3. j.op = "close" /\ j.pc = "cancel"
  BY <1>1 DEF Spares!CancelHeld, Spares!At
<1>4. j.held \subseteq ApprovedIn(db) /\ ApprovedIn(db) \subseteq Requests /\ j.held # {}
  BY <1>2, <1>3 DEF SpareFacts, CloseFacts, ApprovedIn
<1>5. PICK r : r = CHOOSE q \in j.held : TRUE
  OBVIOUS
<1>6. r \in j.held /\ r \in Requests
  BY <1>4, <1>5
<1>7. PICK k : k = [j EXCEPT !.pc = "free", !.held = j.held \ {r}]
  OBVIOUS
<1>8. /\ job' = [job EXCEPT ![s].pc = "free", ![s].held = j.held \ {r}] /\ UNCHANGED posted
      /\ Spares!SetStatus(s, r, "cancelled")
  BY <1>1, <1>5 DEF Spares!CancelHeld
<1>9. job' = [job EXCEPT ![s] = k] /\ k \in SpareJobs
  <2>1. DOMAIN job = Sessions
    BY DEF SpareInv
  <2> QED
    BY <1>1, <1>2, <1>7, <1>8, <2>1 DEF SpareJobs
<1>10. k.op = j.op /\ k.op # "idle" /\ k.held = j.held \ {r} /\ k.pc = "free" /\ k.outcome = j.outcome
       /\ k.row = j.row /\ k.was = j.was /\ k.delta = j.delta /\ k.charge = j.charge
  BY <1>2, <1>3, <1>7 DEF SpareJobs
<1>11. DOMAIN mine[s] = (ApprovedIn(db) \ j.held) \cup {Part}
  BY <1>2, <1>3 DEF SpareTouched
<1>12. Spares!Write(s, r, [status |-> "cancelled"])
  <2>1. r \notin DOMAIN mine[s]
    BY <1>6, <1>11, SparesFit DEF Requests
  <2>2. Spares!Seen(s, r) = db[r]
    BY <2>1 DEF Spares!Seen
  <2>3. [db[r] EXCEPT !.status = "cancelled"] = [status |-> "cancelled"]
    BY <1>2, <1>6 DEF SpareRowsTyped
  <2> QED
    BY <1>8, <2>2, <2>3 DEF Spares!SetStatus
<1>13. SpareFacts(k, db)
  BY <1>2, <1>3, <1>10 DEF SpareFacts, SignFacts, IssueFacts, TestFacts, CloseFacts, MoveFacts
<1>14. SpareTouched(k, db) = DOMAIN mine[s] \cup {r}
  <2>1. ApprovedIn(db) \ (j.held \ {r}) = (ApprovedIn(db) \ j.held) \cup {r}
    BY <1>4, <1>6
  <2>2. SpareTouched(k, db) = (ApprovedIn(db) \ (j.held \ {r})) \cup {Part}
    BY <1>3, <1>10, <2>1 DEF SpareTouched
  <2> QED
    BY <1>11, <2>1, <2>2
<1>15. SpareWritten(k, db[r], r) = [status |-> "cancelled"]
  BY <1>3, <1>6, <1>10, SparesFit DEF SpareWritten, Requests
<1>16. \A y \in DOMAIN mine[s] \ {r} : SpareWritten(k, db[y], y) = mine[s][y]
  <2>1. SUFFICES ASSUME NEW y \in DOMAIN mine[s] \ {r}
                 PROVE  SpareWritten(k, db[y], y) = SpareWritten(j, db[y], y)
    BY <1>2
  <2>2. CASE y \in Requests
    BY <1>3, <1>10, <2>2, SparesFit DEF SpareWritten, Requests
  <2>3. CASE y = Part
    <3>1. Cardinality(j.held \ {r}) - 0 = Cardinality(j.held) - 1
      BY <1>2, <1>4, <1>6, Counted
    <3>2. PartWritten(k, db[y]) = [stock |-> db[y].stock, reserved |-> Need * (Cardinality(j.held \ {r}) - 0)]
      BY <1>3, <1>10 DEF PartWritten
    <3>3. PartWritten(j, db[y]) = [stock |-> db[y].stock, reserved |-> Need * (Cardinality(j.held) - 1)]
      BY <1>3 DEF PartWritten
    <3>4. PartWritten(k, db[y]) = PartWritten(j, db[y])
      BY <3>1, <3>2, <3>3
    <3> QED
      BY <2>3, <3>4, SparesFit DEF SpareWritten, Requests
  <2> QED
    BY <1>4, <1>11, <2>1, <2>2, <2>3
<1> QED
  BY <1>1, <1>8, <1>9, <1>10, <1>12, <1>13, <1>14, <1>15, <1>16, WritesOn

\* The status of the ticket.
LEMMA PutTicketKeeps ==
  ASSUME SpareInv, NEW s \in Sessions, Spares!PutTicket(s)
  PROVE  SpareInv'
<1>1. PICK j : j = job[s]
  OBVIOUS
<1>2. /\ j \in SpareJobs /\ SpareFacts(j, db) /\ SpareRowsTyped(db) /\ DOMAIN mine[s] = SpareTouched(j, db)
      /\ \A x \in DOMAIN mine[s] : mine[s][x] = SpareWritten(j, db[x], x)
  BY <1>1, SpareSession
<1>3. j.op \in {"approve", "refuse", "issue", "test", "close"} /\ j.pc = "ticket"
  <2>1. j.op \in Spares!Ops /\ j.pc = "ticket"
    BY <1>1 DEF Spares!PutTicket, Spares!At
  <2> QED
    BY <1>2, <2>1 DEF SpareFacts, MoveFacts, Spares!Ops, Spares!StockMovers
<1>4. Ticket \notin DOMAIN mine[s]
  <2>1. j.op \in {"approve", "refuse"} => j.held \subseteq Rungs
    BY <1>2 DEF SpareFacts, SignFacts
  <2>2. j.op = "issue" => j.row \in Requests
    BY <1>2 DEF SpareFacts, IssueFacts
  <2>3. ApprovedIn(db) \subseteq Requests
    BY DEF ApprovedIn
  <2> QED
    BY <1>2, <1>3, <2>1, <2>2, <2>3, SparesFit DEF SpareTouched, Requests
<1>5. Spares!Seen(s, Ticket) = db[Ticket] /\ DOMAIN db[Ticket] = {"status", "rolled"}
  BY <1>2, <1>4 DEF Spares!Seen, SpareRowsTyped
<1> DEFINE next == IF j.charge THEN "machine" ELSE "commit"
<1>6. PICK k : k = [j EXCEPT !.pc = next]
  OBVIOUS
<1>7. job' = [job EXCEPT ![s] = k] /\ k \in SpareJobs /\ UNCHANGED posted
  BY <1>1, <1>6, MovedOn DEF Spares!PutTicket
<1>8. k.op = j.op /\ k.op # "idle" /\ k.held = j.held /\ k.pc = next /\ k.outcome = j.outcome
      /\ k.row = j.row /\ k.was = j.was /\ k.delta = j.delta /\ k.charge = j.charge
  BY <1>2, <1>3, <1>6 DEF SpareJobs
<1>9. j.op # "close" => ~j.charge
  BY <1>2, <1>3 DEF SpareFacts, SignFacts, IssueFacts, TestFacts
<1>10. SpareFacts(k, db)
  <2>1. CASE j.op = "close"
    BY <1>2, <1>3, <1>8, <2>1 DEF SpareFacts, SignFacts, IssueFacts, TestFacts, CloseFacts, MoveFacts
  <2>2. CASE j.op # "close"
    BY <1>2, <1>3, <1>8, <1>9, <2>2 DEF SpareFacts, SignFacts, IssueFacts, TestFacts, CloseFacts, MoveFacts
  <2> QED
    BY <2>1, <2>2
<1>11. SpareTouched(k, db) = DOMAIN mine[s] \cup {Ticket}
  <2>1. CASE j.op \in {"approve", "refuse"}
    <3>1. j.op = "approve" => j.outcome \in {"approved", "out_of_stock"}
      BY <1>2, <1>3, <2>1 DEF SpareFacts, SignFacts
    <3> QED
      BY <1>2, <1>3, <1>8, <1>9, <2>1, <3>1 DEF SpareTouched
  <2>2. CASE j.op \in {"issue", "test"}
    BY <1>2, <1>3, <1>8, <1>9, <2>2 DEF SpareTouched
  <2>3. CASE j.op = "close" /\ j.charge
    BY <1>2, <1>3, <1>8, <2>3 DEF SpareTouched
  <2>4. CASE j.op = "close" /\ ~j.charge
    BY <1>2, <1>3, <1>8, <2>4 DEF SpareTouched
  <2> QED
    BY <1>3, <2>1, <2>2, <2>3, <2>4
<1>12. \A y \in DOMAIN mine[s] \ {Ticket} : SpareWritten(k, db[y], y) = mine[s][y]
  <2>1. SUFFICES ASSUME NEW y \in DOMAIN mine[s] PROVE SpareWritten(k, db[y], y) = SpareWritten(j, db[y], y)
    BY <1>2
  <2> QED
    BY <1>3, <1>8 DEF SpareWritten, PartWritten
<1>13. Spares!Write(s, Ticket, SpareWritten(k, db[Ticket], Ticket))
  <2>1. CASE j.op = "close"
    <3>1. SpareWritten(k, db[Ticket], Ticket) = [status |-> "closed", rolled |-> TRUE]
      BY <1>8, <2>1, SparesFit DEF SpareWritten, Requests
    <3> QED
      BY <1>1, <2>1, <3>1 DEF Spares!PutTicket
  <2>2. CASE j.op # "close"
    <3>1. SpareWritten(k, db[Ticket], Ticket) = [status |-> TicketAfter(j.outcome), rolled |-> db[Ticket].rolled]
      <4>1. db[Ticket].rolled \in BOOLEAN
        BY <1>2 DEF SpareRowsTyped
      <4> QED
        BY <1>8, <2>2, <4>1, SparesFit DEF SpareWritten, Requests
    <3>2. Spares!NewStatus[j.outcome] = TicketAfter(j.outcome)
      BY <1>2, TicketAfterIs DEF SpareJobs
    <3>3. [db[Ticket] EXCEPT !.status = TicketAfter(j.outcome)]
            = [status |-> TicketAfter(j.outcome), rolled |-> db[Ticket].rolled]
      BY <1>2 DEF SpareRowsTyped
    <3>4. Spares!Write(s, Ticket, [db[Ticket] EXCEPT !.status = Spares!NewStatus[j.outcome]])
      BY <1>1, <1>5, <2>2 DEF Spares!PutTicket, Spares!SetStatus
    <3> QED
      BY <3>1, <3>2, <3>3, <3>4
  <2> QED
    BY <2>1, <2>2
<1> QED
  BY <1>1, <1>7, <1>8, <1>10, <1>11, <1>12, <1>13, WritesOn

\* The breakdown on the machine.
LEMMA ChargeKeeps ==
  ASSUME SpareInv, NEW s \in Sessions, Spares!ChargeMachine(s)
  PROVE  SpareInv'
<1>1. PICK j : j = job[s]
  OBVIOUS
<1>2. /\ j \in SpareJobs /\ SpareFacts(j, db) /\ SpareRowsTyped(db) /\ DOMAIN mine[s] = SpareTouched(j, db)
      /\ \A x \in DOMAIN mine[s] : mine[s][x] = SpareWritten(j, db[x], x)
  BY <1>1, SpareSession
<1>3. j.op = "close" /\ j.pc = "machine"
  BY <1>1 DEF Spares!ChargeMachine, Spares!At
<1>4. j.held = {} /\ j.charge
  BY <1>2, <1>3 DEF SpareFacts, CloseFacts
<1>5. DOMAIN mine[s] \subseteq Requests \cup {Part, Ticket} /\ Machine \notin DOMAIN mine[s]
  <2>1. ApprovedIn(db) \subseteq Requests
    BY DEF ApprovedIn
  <2> QED
    BY <1>2, <1>3, <2>1, SparesFit DEF SpareTouched, Requests
<1>6. PICK k : k = [j EXCEPT !.pc = "commit"]
  OBVIOUS
<1>7. job' = [job EXCEPT ![s] = k] /\ k \in SpareJobs /\ UNCHANGED posted
  BY <1>1, <1>6, MovedOn DEF Spares!ChargeMachine
<1>8. k.op = j.op /\ k.op # "idle" /\ k.held = j.held /\ k.pc = "commit" /\ k.outcome = j.outcome
      /\ k.row = j.row /\ k.was = j.was /\ k.delta = j.delta /\ k.charge = j.charge
  BY <1>2, <1>3, <1>6 DEF SpareJobs
<1>9. SpareFacts(k, db)
  BY <1>2, <1>3, <1>8 DEF SpareFacts, SignFacts, IssueFacts, TestFacts, CloseFacts, MoveFacts
<1>10. SpareTouched(k, db) = DOMAIN mine[s] \cup {Machine}
  BY <1>2, <1>3, <1>4, <1>8 DEF SpareTouched
<1>11. \A y \in DOMAIN mine[s] \ {Machine} : SpareWritten(k, db[y], y) = mine[s][y]
  <2>1. SUFFICES ASSUME NEW y \in DOMAIN mine[s] PROVE SpareWritten(k, db[y], y) = SpareWritten(j, db[y], y)
    BY <1>2
  <2> QED
    BY <1>3, <1>8 DEF SpareWritten, PartWritten
<1>12. Spares!Write(s, Machine, SpareWritten(k, db[Machine], Machine))
  <2>1. SpareWritten(k, db[Machine], Machine) = [breakdowns |-> db[Machine].breakdowns + 1]
    BY SparesFit DEF SpareWritten, Requests
  <2>2. Spares!Seen(s, Machine) = db[Machine]
    BY <1>5 DEF Spares!Seen
  <2> QED
    BY <2>1, <2>2 DEF Spares!ChargeMachine
<1> QED
  BY <1>1, <1>7, <1>8, <1>9, <1>10, <1>11, <1>12, WritesOn

\* A session that gives up leaves nothing.
LEMMA GivesUp ==
  ASSUME SpareInv, NEW s \in Sessions, Spares!LockTimeout(s)
  PROVE  SpareInv'
<1>1. /\ job' = [job EXCEPT ![s] = Spares!Idle] /\ mine' = [mine EXCEPT ![s] = Spares!NoRows]
      /\ UNCHANGED <<db, posted>>
  BY DEF Spares!LockTimeout, Spares!Rollback, Spares!Quit
<1>2. /\ Spares!Idle \in SpareJobs /\ Spares!Idle.op = "idle"
      /\ Spares!NoRows = [x \in DOMAIN Spares!NoRows |-> Spares!NoRows[x]] /\ DOMAIN Spares!NoRows = {}
  BY DEF Spares!Idle, SpareJobs, Spares!NoRows
<1>3. SpareTouched(Spares!Idle, db) = {}
  BY <1>2 DEF SpareTouched
<1>4. SpareFacts(Spares!Idle, db)
  BY <1>2 DEF SpareFacts, SignFacts, IssueFacts, TestFacts, CloseFacts, MoveFacts
<1>5. SpareDoing(Spares!Idle, Spares!NoRows, db)
  BY <1>2, <1>3, <1>4 DEF SpareDoing
<1>6. Turned(s, Spares!Idle, Spares!NoRows)
  BY <1>1, <1>2, <1>5 DEF Turned, SpareApart
<1> QED
  BY <1>6, TurnedKeeps

-----------------------------------------------------------------------------
(* The start of a function.                                                *)

\* A function begins that does no harm to those in progress.
LEMMA BegunKeeps ==
  ASSUME SpareInv, SparesSafe, NEW s \in Sessions, NEW j, Spares!Begin(s, j),
         j \in SpareJobs, j.op # "idle", SpareTouched(j, db) = {}, SpareFacts(j, db)
  PROVE  SpareInv'
<1>1. /\ job[s] = Spares!Idle /\ job' = [job EXCEPT ![s] = j] /\ Spares!Read /\ UNCHANGED posted
      /\ \A t \in Sessions \ {s} : job[t] # Spares!Idle => {j.op, job[t].op} \in SparesTogether
  BY DEF Spares!Begin, Spares!MayStart
<1>2. DOMAIN mine[s] = {}
  <2>1. DOMAIN mine[s] = SpareTouched(Spares!Idle, db) /\ Spares!Idle.op = "idle"
    BY <1>1, SpareSession DEF Spares!Idle
  <2> QED
    BY <2>1 DEF SpareTouched
<1>3. \A t \in Sessions \ {s} : SpareApart(j, job[t])
  <2>1. SUFFICES ASSUME NEW t \in Sessions \ {s}, job[t].op # "idle" PROVE {j.op, job[t].op} \notin Spares!Harmful
    BY DEF SpareApart
  <2>2. job[t] # Spares!Idle
    BY <2>1 DEF Spares!Idle
  <2> QED
    BY <1>1, <2>1, <2>2 DEF SparesSafe
<1> QED
  BY <1>1, <1>2, <1>3, ReadsOn

\* Every function begins with what it reads.
LEMMA StartKeeps ==
  ASSUME SpareInv, SparesSafe, NEW s \in Sessions, Spares!Start(s)
  PROVE  SpareInv'
<1>1. SpareGood(db, posted) /\ SpareRowsTyped(db)
  BY DEF SpareInv, SpareGood
<1>2. ASSUME job[s] = Spares!Idle
      PROVE  \A x : Spares!Seen(s, x) = db[x]
  <2>1. DOMAIN mine[s] = SpareTouched(Spares!Idle, db) /\ Spares!Idle.op = "idle"
    BY <1>2, SpareSession DEF Spares!Idle
  <2> QED
    BY <2>1 DEF SpareTouched, Spares!Seen
<1>3. \A k : Spares!Begin(s, k) => job[s] = Spares!Idle
  BY DEF Spares!Begin, Spares!MayStart
<1>4. ASSUME NEW op \in {"approve", "refuse"}, NEW g \in Rungs, Spares!BeginDecide(s, op, g) PROVE SpareInv'
  <2>1. PICK k : k = [Spares!Idle EXCEPT !.op = op, !.pc = "sign", !.row = Asked, !.held = {g}]
    OBVIOUS
  <2>2. Spares!Begin(s, k) /\ Spares!Seen(s, g).status = "pending"
    BY <1>4, <2>1 DEF Spares!BeginDecide, Spares!Status
  <2>3. db[g].status = "pending"
    BY <1>2, <1>3, <2>2
  <2>4. Undecided(db)
    BY <1>1, <2>3 DEF SpareGood
  <2>5. k = [op |-> op, pc |-> "sign", row |-> Asked, was |-> 0, delta |-> 0,
             outcome |-> "none", held |-> {g}, charge |-> FALSE]
    BY <2>1 DEF Spares!Idle
  <2>6. k \in SpareJobs /\ k.op # "idle"
    BY <2>5 DEF SpareJobs, Spares!Ops, Requests
  <2>7. SpareTouched(k, db) = {}
    BY <2>5 DEF SpareTouched
  <2>8. SpareFacts(k, db)
    BY <2>3, <2>4, <2>5 DEF SpareFacts, SignFacts, IssueFacts, TestFacts, CloseFacts, MoveFacts
  <2> QED
    BY <2>2, <2>6, <2>7, <2>8, BegunKeeps
<1>5. ASSUME NEW r \in Spares!Requests, Spares!BeginIssue(s, r) PROVE SpareInv'
  <2>1. PICK k : k = [Spares!Idle EXCEPT !.op = "issue", !.pc = "put", !.row = r, !.was = Spares!Seen(s, Part).stock,
                                         !.delta = -Need, !.outcome = "issued"]
    OBVIOUS
  <2>2. Spares!Begin(s, k) /\ Spares!Seen(s, r).status = "approved" /\ Spares!Seen(s, Part).stock >= Need
    BY <1>5, <2>1 DEF Spares!BeginIssue, Spares!Issuable, Spares!OnShelf, Spares!Status
  <2>3. db[r].status = "approved" /\ db[Part].stock >= Need /\ Spares!Seen(s, Part) = db[Part]
    BY <1>2, <1>3, <2>2
  <2>4. k = [op |-> "issue", pc |-> "put", row |-> r, was |-> db[Part].stock, delta |-> -Need,
             outcome |-> "issued", held |-> {}, charge |-> FALSE]
    BY <2>1, <2>3 DEF Spares!Idle
  <2>5. r \in Requests /\ db[Part].stock \in Int /\ -Need \in Int
    BY <1>1, SparesFit DEF SpareRowsTyped
  <2>6. k \in SpareJobs /\ k.op # "idle"
    BY <2>4, <2>5 DEF SpareJobs, Spares!Ops, Spares!StockMovers
  <2>7. SpareTouched(k, db) = {}
    BY <2>4 DEF SpareTouched
  <2>8. SpareFacts(k, db)
    BY <2>3, <2>4, <2>5 DEF SpareFacts, SignFacts, IssueFacts, TestFacts, CloseFacts, MoveFacts
  <2> QED
    BY <2>2, <2>6, <2>7, <2>8, BegunKeeps
<1>6. ASSUME Spares!BeginTest(s) PROVE SpareInv'
  <2>1. PICK k : k = [Spares!Idle EXCEPT !.op = "test", !.pc = "ticket"]
    OBVIOUS
  <2>2. Spares!Begin(s, k)
    BY <1>6, <2>1 DEF Spares!BeginTest
  <2>3. k = [op |-> "test", pc |-> "ticket", row |-> "none", was |-> 0, delta |-> 0,
             outcome |-> "none", held |-> {}, charge |-> FALSE]
    BY <2>1 DEF Spares!Idle
  <2>4. k \in SpareJobs /\ k.op # "idle" /\ SpareTouched(k, db) = {}
    BY <2>3 DEF SpareJobs, Spares!Ops, SpareTouched
  <2>5. SpareFacts(k, db)
    BY <2>3 DEF SpareFacts, SignFacts, IssueFacts, TestFacts, CloseFacts, MoveFacts
  <2> QED
    BY <2>2, <2>4, <2>5, BegunKeeps
<1>7. ASSUME Spares!BeginClose(s) PROVE SpareInv'
  <2>1. PICK k : k = [Spares!Idle EXCEPT !.op = "close", !.pc = "free", !.held = Spares!ToRelease(s),
                                         !.charge = Spares!Charges(s)]
    OBVIOUS
  <2>2. Spares!Begin(s, k)
    BY <1>7, <2>1 DEF Spares!BeginClose
  <2>3. Spares!ToRelease(s) = ApprovedIn(db) /\ Spares!Charges(s) = ~db[Ticket].rolled
    BY <1>2, <1>3, <2>2, SparesFit DEF Spares!ToRelease, Spares!Charges, Spares!Status, ApprovedIn
  <2>4. k = [op |-> "close", pc |-> "free", row |-> "none", was |-> 0, delta |-> 0,
             outcome |-> "none", held |-> ApprovedIn(db), charge |-> ~db[Ticket].rolled]
    BY <2>1, <2>3 DEF Spares!Idle
  <2>5. ApprovedIn(db) \subseteq Requests
    BY DEF ApprovedIn
  <2>6. k \in SpareJobs /\ k.op # "idle"
    BY <2>4, <2>5 DEF SpareJobs, Spares!Ops
  <2>7. SpareTouched(k, db) = {}
    BY <2>4 DEF SpareTouched
  <2>8. SpareFacts(k, db)
    BY <2>4 DEF SpareFacts, SignFacts, IssueFacts, TestFacts, CloseFacts, MoveFacts
  <2> QED
    BY <2>2, <2>6, <2>7, <2>8, BegunKeeps
<1>8. ASSUME NEW op \in {"adjust", "receive", "counter"}, NEW d \in -MaxStock .. MaxStock,
             Spares!BeginMove(s, op, d)
      PROVE  SpareInv'
  <2>1. PICK k : k = [Spares!Idle EXCEPT !.op = op, !.pc = "put", !.was = Spares!Seen(s, Part).stock, !.delta = d]
    OBVIOUS
  <2>2. Spares!Begin(s, k) /\ Spares!Seen(s, Part).stock + d \in 0 .. MaxStock
    BY <1>8, <2>1 DEF Spares!BeginMove
  <2>3. Spares!Seen(s, Part) = db[Part] /\ db[Part].stock + d \in 0 .. MaxStock
    BY <1>2, <1>3, <2>2
  <2>4. k = [op |-> op, pc |-> "put", row |-> "none", was |-> db[Part].stock, delta |-> d,
             outcome |-> "none", held |-> {}, charge |-> FALSE]
    BY <2>1, <2>3 DEF Spares!Idle
  <2>5. db[Part].stock \in Int /\ d \in Int
    BY <1>1, SparesFit DEF SpareRowsTyped
  <2>6. k \in SpareJobs /\ k.op # "idle"
    BY <2>4, <2>5 DEF SpareJobs, Spares!Ops, Spares!StockMovers
  <2>7. SpareTouched(k, db) = {}
    BY <2>4 DEF SpareTouched
  <2>8. SpareFacts(k, db)
    BY <2>3, <2>4, <2>5 DEF SpareFacts, SignFacts, IssueFacts, TestFacts, CloseFacts, MoveFacts
  <2> QED
    BY <2>2, <2>6, <2>7, <2>8, BegunKeeps
<1> QED
  BY <1>4, <1>5, <1>6, <1>7, <1>8 DEF Spares!Start

-----------------------------------------------------------------------------
(* A commit.                                                               *)

\* The committed rows d turn into e, the sums p into q, when the job j commits.
Committed(j, d, e, p, q) ==
  /\ e = [x \in SpareRows |-> IF x \in SpareTouched(j, d) THEN SpareWritten(j, d[x], x) ELSE d[x]]
  /\ q = [stock |-> p.stock + j.delta,
          vouchers |-> [r \in Requests |-> p.vouchers[r] + IF j.op = "issue" /\ j.row = r THEN 1 ELSE 0]]

\* What CommitJob does to the committed rows and the sums.
LEMMA CommitIs ==
  ASSUME SpareInv, NEW s \in Sessions, Spares!CommitJob(s)
  PROVE  /\ Committed(job[s], db, db', posted, posted')
         /\ job[s].op \in Spares!Ops /\ job[s].pc = "commit"
         /\ job' = [job EXCEPT ![s] = Spares!Idle] /\ mine' = [mine EXCEPT ![s] = Spares!NoRows]
<1>1. /\ db' = Spares!Over(mine[s], db) /\ job[s].op \in Spares!Ops /\ job[s].pc = "commit"
      /\ job' = [job EXCEPT ![s] = Spares!Idle] /\ mine' = [mine EXCEPT ![s] = Spares!NoRows]
      /\ posted' = [stock |-> posted.stock + job[s].delta,
                    vouchers |-> [r \in Requests |-> posted.vouchers[r] +
                                    IF job[s].op = "issue" /\ job[s].row = r THEN 1 ELSE 0]]
  BY SparesFit DEF Spares!CommitJob, Spares!At, Spares!Commit, Spares!Quit, Spares!Movement
<1>2. /\ SpareRowsTyped(db) /\ DOMAIN mine[s] = SpareTouched(job[s], db)
      /\ \A x \in DOMAIN mine[s] : mine[s][x] = SpareWritten(job[s], db[x], x)
  BY SpareSession
<1>3. DOMAIN mine[s] \subseteq SpareRows
  <2>1. job[s].op \in {"approve", "refuse"} => job[s].held \subseteq Rungs
    BY SpareSession DEF SpareFacts, SignFacts
  <2>2. job[s].op = "issue" => job[s].row \in Requests
    BY SpareSession DEF SpareFacts, IssueFacts
  <2>3. ApprovedIn(db) \subseteq Requests /\ Requests \subseteq SpareRows
    BY DEF ApprovedIn, Requests, SpareRows
  <2> QED
    BY <1>1, <1>2, <2>1, <2>2, <2>3 DEF SpareTouched, SpareRows
<1>4. DOMAIN db = SpareRows
  BY <1>2 DEF SpareRowsTyped
<1>5. db' = [x \in SpareRows |-> IF x \in SpareTouched(job[s], db) THEN SpareWritten(job[s], db[x], x) ELSE db[x]]
  BY <1>1, <1>2, <1>3, <1>4 DEF Spares!Over
<1> QED
  BY <1>1, <1>5 DEF Committed

\* A function about to commit.
Ready(j, d) == j \in SpareJobs /\ SpareFacts(j, d) /\ j.pc = "commit" /\ j.op # "idle"

\* What each function leaves of the rows.
LEMMA CommitLeaves ==
  ASSUME NEW j, NEW d, NEW e, NEW p, NEW q, SpareGood(d, p), Ready(j, d), Committed(j, d, e, p, q)
  PROVE  /\ j.op \notin {"approve", "refuse"} => \A g \in Rungs : e[g] = d[g]
         /\ j.op = "refuse" => Undecided(e)
         /\ j.op \notin {"approve", "refuse"} /\ Undecided(d) => Undecided(e)
         /\ j.op \in {"approve", "refuse"} => e[Given] = d[Given] /\ Undecided(d)
         /\ j.op \in {"refuse", "test", "adjust", "receive", "counter"} => ApprovedIn(e) = ApprovedIn(d)
         /\ j.op \notin {"issue", "close"} => ApprovedIn(d) \subseteq ApprovedIn(e)
         /\ j.op = "issue" => ApprovedIn(e) = ApprovedIn(d) \ {j.row}
         /\ j.op \in {"approve", "refuse", "test", "close"} => e[Part].stock = d[Part].stock
         /\ j.op # "close" => e[Ticket].rolled = d[Ticket].rolled
         /\ \A x \in SpareRows \ SpareTouched(j, d) : e[x] = d[x]
<1>1. \A x \in SpareRows : e[x] = IF x \in SpareTouched(j, d) THEN SpareWritten(j, d[x], x) ELSE d[x]
  BY DEF Committed
<1>2. SpareRowsTyped(d) /\ Asked \in SpareRows /\ Given \in SpareRows /\ Part \in SpareRows /\ Ticket \in SpareRows
      /\ Rungs \subseteq SpareRows
  BY DEF SpareGood, SpareRows
<1>3. j.pc = "commit" /\ j.op \in Spares!Ops
  BY DEF Ready, SpareJobs
<1>4. CASE j.op \in {"approve", "refuse"}
  <2>1. PICK g \in Rungs : j.held = {g}
    BY <1>4 DEF Ready, SpareFacts, SignFacts
  <2>2. Undecided(d) /\ j.delta = 0
    BY <1>4 DEF Ready, SpareFacts, SignFacts
  <2>3. j.op = "refuse" => j.outcome = "rejected"
    BY <1>3 DEF Ready, SpareFacts, SignFacts
  <2>4. SpareTouched(j, d) \subseteq {g, Part, Asked, Ticket}
        /\ (j.op = "refuse" => SpareTouched(j, d) = {g, Asked, Ticket})
    BY <1>3, <1>4, <2>1, <2>3 DEF SpareTouched
  <2>5. e[Given] = d[Given]
    BY <1>1, <1>2, <2>4, SparesFit
  <2>6. e[Part].stock = d[Part].stock
    <3>1. SpareWritten(j, d[Part], Part).stock = d[Part].stock
      BY <1>2, <1>4, <2>2, SparesFit DEF SpareWritten, PartWritten, Requests, SpareRowsTyped
    <3> QED
      BY <1>1, <1>2, <3>1
  <2>7. e[Ticket].rolled = d[Ticket].rolled
    <3>1. d[Ticket].rolled \in BOOLEAN
      BY <1>2 DEF SpareRowsTyped
    <3>2. SpareWritten(j, d[Ticket], Ticket).rolled = d[Ticket].rolled
      BY <1>4, <3>1, SparesFit DEF SpareWritten, Requests
    <3> QED
      BY <1>1, <1>2, <3>2
  <2>8. j.op = "refuse" => e[Asked] = [status |-> "rejected"]
    BY <1>1, <1>2, <2>3, <2>4, SparesFit DEF SpareWritten, Requests
  <2>9. j.op = "refuse" => Undecided(e)
    BY <2>8 DEF Undecided
  <2>10. Asked \notin ApprovedIn(d)
    BY <2>2 DEF ApprovedIn, Undecided
  <2>11. ApprovedIn(d) \subseteq ApprovedIn(e) /\ ApprovedIn(e) \subseteq ApprovedIn(d) \cup {Asked}
    BY <2>5, <2>10 DEF ApprovedIn, Requests
  <2>12. j.op = "refuse" => ApprovedIn(e) = ApprovedIn(d)
    BY <2>8, <2>10, <2>11 DEF ApprovedIn
  <2> QED
    BY <1>1, <1>4, <2>2, <2>5, <2>6, <2>7, <2>9, <2>11, <2>12
<1>5. CASE j.op = "issue"
  <2>1. j.row \in Requests /\ d[j.row].status = "approved" /\ j.outcome = "issued"
    BY <1>5 DEF Ready, SpareFacts, IssueFacts
  <2>2. SpareTouched(j, d) = {Part, j.row, Ticket}
    BY <1>3, <1>5 DEF SpareTouched
  <2>3. \A g \in Rungs : e[g] = d[g]
    BY <1>1, <1>2, <2>1, <2>2, SparesFit DEF Requests
  <2>4. e[j.row] = [status |-> "issued"]
    BY <1>1, <1>2, <1>5, <2>1, <2>2, SparesFit DEF SpareWritten, Requests
  <2>5. \A r \in Requests \ {j.row} : e[r] = d[r]
    BY <1>1, <1>2, <2>2, SparesFit DEF Requests
  <2>6. ApprovedIn(e) = ApprovedIn(d) \ {j.row}
    BY <2>4, <2>5 DEF ApprovedIn
  <2>7. Undecided(d) => Undecided(e)
    BY <2>1, <2>5 DEF Undecided, Requests
  <2>8. e[Ticket].rolled = d[Ticket].rolled
    <3>1. d[Ticket].rolled \in BOOLEAN
      BY <1>2 DEF SpareRowsTyped
    <3>2. SpareWritten(j, d[Ticket], Ticket).rolled = d[Ticket].rolled
      BY <1>5, <3>1, SparesFit DEF SpareWritten, Requests
    <3> QED
      BY <1>1, <1>2, <3>2
  <2> QED
    BY <1>1, <1>5, <2>3, <2>6, <2>7, <2>8
<1>6. CASE j.op \in {"test", "adjust", "receive", "counter"}
  <2>1. SpareTouched(j, d) \subseteq {Part, Ticket} /\ (j.op = "test" => SpareTouched(j, d) = {Ticket})
    BY <1>3, <1>6 DEF SpareTouched
  <2>2. \A x \in Rungs \cup Requests : e[x] = d[x]
    BY <1>1, <1>2, <2>1, SparesFit DEF Requests
  <2>3. ApprovedIn(e) = ApprovedIn(d) /\ (Undecided(d) => Undecided(e))
    BY <2>2 DEF ApprovedIn, Undecided, Requests
  <2>4. j.op = "test" => e[Part].stock = d[Part].stock
    BY <1>1, <1>2, <2>1, SparesFit
  <2>5. e[Ticket].rolled = d[Ticket].rolled
    <3>1. d[Ticket].rolled \in BOOLEAN
      BY <1>2 DEF SpareRowsTyped
    <3>2. SpareWritten(j, d[Ticket], Ticket).rolled = d[Ticket].rolled
      BY <1>6, <3>1, SparesFit DEF SpareWritten, Requests
    <3> QED
      BY <1>1, <1>2, <3>2
  <2> QED
    BY <1>1, <1>6, <2>2, <2>3, <2>4, <2>5
<1>7. CASE j.op = "close"
  <2>1. ApprovedIn(d) \subseteq Requests
    BY DEF ApprovedIn
  <2>2. SpareTouched(j, d) \subseteq ApprovedIn(d) \cup {Part, Ticket, Machine}
    BY <1>3, <1>7 DEF SpareTouched
  <2>3. \A g \in Rungs : e[g] = d[g]
    BY <1>1, <1>2, <2>1, <2>2, SparesFit DEF Requests
  <2>4. Undecided(d) => Undecided(e)
    <3>1. SUFFICES ASSUME Undecided(d) PROVE Undecided(e)
      OBVIOUS
    <3>2. Asked \notin ApprovedIn(d)
      BY <3>1 DEF ApprovedIn, Undecided
    <3>3. e[Asked] = d[Asked]
      BY <1>1, <1>2, <2>2, <3>2, SparesFit
    <3> QED
      BY <3>1, <3>3 DEF Undecided
  <2>5. e[Part].stock = d[Part].stock
    <3>1. SpareWritten(j, d[Part], Part).stock = d[Part].stock
      BY <1>7, SparesFit DEF SpareWritten, PartWritten, Requests
    <3> QED
      BY <1>1, <1>2, <3>1
  <2> QED
    BY <1>1, <1>7, <2>3, <2>4, <2>5
<1> QED
  BY <1>3, <1>4, <1>5, <1>6, <1>7 DEF Spares!Ops, Spares!StockMovers

\* The pairs that may overlap.
LEMMA SpareHarmfulIs ==
  ASSUME NEW i, NEW j, SpareApart(i, j), i.op # "idle", j.op # "idle"
  PROVE  /\ i.op \in Spares!StockMovers => j.op \notin Spares!StockMovers
         /\ i.op = "approve" => j.op \notin {"approve", "refuse", "close"}
         /\ i.op = "refuse" => j.op # "approve"
         /\ i.op = "issue" => j.op # "close"
         /\ i.op = "close" => j.op \notin {"approve", "issue", "close"}
<1>1. {i.op, j.op} \notin Spares!Harmful
  BY DEF SpareApart
<1>2. i.op \in Spares!StockMovers => j.op \notin Spares!StockMovers
  BY <1>1 DEF Spares!Harmful
<1>3. {i.op, j.op} \notin {{"approve"}, {"approve", "refuse"}, {"approve", "close"}, {"issue", "close"}, {"close"}}
  BY <1>1 DEF Spares!Harmful
<1> QED
  BY <1>2, <1>3

\* What a session has read and found out stands when another commits.
LEMMA FactsStand ==
  ASSUME NEW i, NEW j, NEW d, NEW e, NEW p, NEW q, SpareGood(d, p), Ready(j, d), Committed(j, d, e, p, q),
         i \in SpareJobs, SpareFacts(i, d), SpareApart(i, j)
  PROVE  SpareFacts(i, e) /\ SpareTouched(i, e) = SpareTouched(i, d)
<1>1. j.op # "idle" /\ j.op \in Spares!Ops
  BY DEF Ready, SpareJobs
<1>2. CASE i.op = "idle"
  BY <1>2 DEF SpareFacts, SignFacts, IssueFacts, TestFacts, CloseFacts, MoveFacts, SpareTouched
<1>3. CASE i.op = "approve"
  <2>1. j.op \notin {"approve", "refuse"}
    BY <1>1, <1>3, SpareHarmfulIs
  <2>2. Undecided(e) /\ \A g \in Rungs : e[g] = d[g]
    BY <1>3, <2>1, CommitLeaves DEF SpareFacts, SignFacts
  <2> QED
    BY <1>3, <2>2 DEF SpareFacts, SignFacts, IssueFacts, TestFacts, CloseFacts, MoveFacts, SpareTouched
<1>4. CASE i.op = "refuse"
  <2>1. j.op # "approve" /\ Undecided(d)
    BY <1>1, <1>4, SpareHarmfulIs DEF SpareFacts, SignFacts
  <2>2. Undecided(e)
    BY <2>1, CommitLeaves
  <2> QED
    BY <1>4, <2>2 DEF SpareFacts, SignFacts, IssueFacts, TestFacts, CloseFacts, MoveFacts, SpareTouched
<1>5. CASE i.op = "issue"
  <2>1. j.op \in {"approve", "refuse", "test"}
    BY <1>1, <1>5, SpareHarmfulIs DEF Spares!Ops, Spares!StockMovers
  <2>2. ApprovedIn(d) \subseteq ApprovedIn(e) /\ e[Part].stock = d[Part].stock
    BY <2>1, CommitLeaves
  <2>3. i.row \in ApprovedIn(e)
    BY <1>5, <2>2 DEF SpareFacts, IssueFacts, ApprovedIn
  <2> QED
    BY <1>5, <2>2, <2>3 DEF SpareFacts, SignFacts, IssueFacts, TestFacts, CloseFacts, MoveFacts, SpareTouched,
                            ApprovedIn
<1>6. CASE i.op = "test"
  BY <1>6 DEF SpareFacts, SignFacts, IssueFacts, TestFacts, CloseFacts, MoveFacts, SpareTouched
<1>7. CASE i.op = "close"
  <2>1. j.op \in {"refuse", "test", "adjust", "receive", "counter"}
    BY <1>1, <1>7, SpareHarmfulIs DEF Spares!Ops, Spares!StockMovers
  <2>2. ApprovedIn(e) = ApprovedIn(d) /\ e[Ticket].rolled = d[Ticket].rolled
    BY <2>1, CommitLeaves
  <2> QED
    BY <1>7, <2>2 DEF SpareFacts, SignFacts, IssueFacts, TestFacts, CloseFacts, MoveFacts, SpareTouched
<1>8. CASE i.op \in {"adjust", "receive", "counter"}
  <2>1. j.op \in {"approve", "refuse", "test", "close"}
    BY <1>1, <1>8, SpareHarmfulIs DEF Spares!Ops, Spares!StockMovers
  <2>2. e[Part].stock = d[Part].stock
    BY <2>1, CommitLeaves
  <2> QED
    BY <1>8, <2>2 DEF SpareFacts, SignFacts, IssueFacts, TestFacts, CloseFacts, MoveFacts, SpareTouched
<1> QED
  BY <1>2, <1>3, <1>4, <1>5, <1>6, <1>7, <1>8 DEF SpareJobs, Spares!Ops, Spares!StockMovers

\* The rows stay as the properties want them.
LEMMA CommitGood ==
  ASSUME NEW j, NEW d, NEW e, NEW p, NEW q, SpareGood(d, p), Ready(j, d), Committed(j, d, e, p, q)
  PROVE  SpareGood(e, q)
<1>1. /\ e = [x \in SpareRows |-> e[x]]
      /\ \A x \in SpareRows : e[x] = IF x \in SpareTouched(j, d) THEN SpareWritten(j, d[x], x) ELSE d[x]
  BY DEF Committed
<1>2. SpareRowsTyped(d) /\ SparePosted(p) /\ SpareRows = {Part, Ticket, Machine, Asked, Given} \cup Rungs
  BY DEF SpareGood, SpareRows
<1>3. j.pc = "commit" /\ j.op \in Spares!Ops /\ j \in SpareJobs
  BY DEF Ready, SpareJobs
<1>4. /\ q = [stock |-> q.stock, vouchers |-> q.vouchers] /\ q.stock = p.stock + j.delta
      /\ DOMAIN q = {"stock", "vouchers"} /\ q.vouchers \in [Requests -> Int] /\ q.stock \in Int
      /\ \A r \in Requests : q.vouchers[r] = p.vouchers[r] + IF j.op = "issue" /\ j.row = r THEN 1 ELSE 0
  BY <1>2, <1>3 DEF Committed, SparePosted, SpareJobs
<1>5. SparePosted(q)
  BY <1>4 DEF SparePosted
<1>6. d[Part].reserved = Need * Cardinality(ApprovedIn(d)) /\ ApprovedIn(d) \in SUBSET Requests
  BY DEF SpareGood, ApprovedIn
<1>7. j.op \notin {"issue", "adjust", "receive", "counter"} => j.delta = 0 /\ q.stock = p.stock /\ q.vouchers = p.vouchers
  <2>1. SUFFICES ASSUME j.op \in {"approve", "refuse", "test", "close"}
                 PROVE  j.delta = 0 /\ q.stock = p.stock /\ q.vouchers = p.vouchers
    BY <1>3 DEF Spares!Ops, Spares!StockMovers
  <2>2. j.delta = 0
    BY <2>1 DEF Ready, SpareFacts, SignFacts, TestFacts, CloseFacts
  <2>3. \A r \in Requests : q.vouchers[r] = p.vouchers[r]
    BY <1>2, <1>4, <2>1 DEF SparePosted
  <2>4. q.vouchers = p.vouchers
    BY <1>2, <1>4, <2>3 DEF SparePosted
  <2> QED
    BY <1>2, <1>4, <2>2, <2>4 DEF SparePosted
<1>8. CASE j.op \in {"approve", "refuse"}
  <2>1. PICK g \in Rungs : j.held = {g}
    BY <1>8 DEF Ready, SpareFacts, SignFacts
  <2>2. Undecided(d) /\ Asked \notin ApprovedIn(d) /\ d[Asked].status # "issued"
    BY <1>8 DEF Ready, SpareFacts, SignFacts, Undecided, ApprovedIn
  <2>3. e[Given] = d[Given] /\ e[Machine] = d[Machine] /\ \A h \in Rungs \ {g} : e[h] = d[h]
    <3>1. SpareTouched(j, d) \subseteq {g, Part, Asked, Ticket}
      BY <1>3, <1>8, <2>1 DEF SpareTouched
    <3> QED
      BY <1>1, <1>2, <3>1, SparesFit
  <2>4. e[g] = [status |-> IF j.op = "approve" THEN "approved" ELSE "rejected"]
    <3>1. g \in SpareTouched(j, d)
      BY <1>3, <1>8, <2>1 DEF SpareTouched
    <3> QED
      BY <1>1, <1>2, <3>1, SparesFit DEF SpareWritten, Requests
  <2>5. \A h \in Rungs : e[h] \in [status : {"pending", "approved", "rejected"}]
    BY <1>2, <2>3, <2>4 DEF SpareRowsTyped
  <2>6. CASE j.op = "approve" /\ j.outcome = "rejected"
    <3>1. SpareTouched(j, d) = {g}
      BY <1>3, <2>1, <2>6 DEF SpareTouched
    <3>2. \A x \in SpareRows \ {g} : e[x] = d[x]
      BY <1>1, <3>1
    <3>3. /\ e[Part] = d[Part] /\ e[Ticket] = d[Ticket] /\ e[Machine] = d[Machine]
          /\ \A r \in Requests : e[r] = d[r]
      BY <1>2, <3>2, SparesFit DEF Requests
    <3>4. \E h \in Rungs \ {g} : d[h].status = "pending"
      BY <1>3, <2>1, <2>6 DEF Ready, SpareFacts, SignFacts
    <3>5. ApprovedIn(e) = ApprovedIn(d) /\ Undecided(e)
      BY <2>2, <3>3 DEF ApprovedIn, Undecided, Requests
    <3>6. SpareRowsTyped(e)
      BY <1>1, <1>2, <2>5, <3>3 DEF SpareRowsTyped
    <3> QED
      BY <1>5, <1>7, <2>3, <2>6, <3>3, <3>4, <3>5, <3>6 DEF SpareGood
  <2>7. CASE j.op = "refuse" \/ j.outcome # "rejected"
    <3>1. /\ j.outcome \in {"approved", "out_of_stock", "rejected"}
          /\ j.op = "approve" => j.outcome \in {"approved", "out_of_stock"} /\ \A h \in Rungs \ {g} : d[h].status # "pending"
          /\ j.op = "refuse" => j.outcome = "rejected"
      BY <1>3, <1>8, <2>1, <2>7 DEF Ready, SpareFacts, SignFacts
    <3>2. SpareTouched(j, d) = {g, Asked, Ticket} \cup IF j.outcome = "approved" THEN {Part} ELSE {}
      BY <1>3, <1>8, <2>1, <3>1 DEF SpareTouched
    <3>3. e[Asked] = [status |-> j.outcome]
      BY <1>1, <1>2, <1>8, <3>2, SparesFit DEF SpareWritten, Requests
    <3>4. e[Ticket] = [status |-> TicketAfter(j.outcome), rolled |-> d[Ticket].rolled]
      <4>1. d[Ticket].rolled \in BOOLEAN
        BY <1>2 DEF SpareRowsTyped
      <4> QED
        BY <1>1, <1>2, <1>8, <3>2, <4>1, SparesFit DEF SpareWritten, Requests
    <3>5. e[Ticket] \in [status : TicketStatuses \ {"closed"}, rolled : BOOLEAN]
      BY <1>2, <3>1, <3>4, TicketAfterIs DEF SpareRowsTyped
    <3>6. \A r \in Requests : e[r] \in [status : RequestStatuses]
      BY <1>2, <2>3, <3>1, <3>3 DEF SpareRowsTyped, Requests, RequestStatuses
    <3>7. CASE j.outcome = "approved"
      <4>1. ApprovedIn(e) = ApprovedIn(d) \cup {Asked}
        BY <2>3, <3>3, <3>7 DEF ApprovedIn, Requests
      <4>2. ApprovedIn(e) \in SUBSET Requests /\ Asked \in ApprovedIn(e) /\ ApprovedIn(e) \ {Asked} = ApprovedIn(d)
        BY <1>6, <2>2, <4>1 DEF Requests
      <4>3. Need * Cardinality(ApprovedIn(e)) - Need = Need * Cardinality(ApprovedIn(d))
            /\ Need * Cardinality(ApprovedIn(e)) \in Nat
        <5>1. Cardinality(ApprovedIn(d)) = Cardinality(ApprovedIn(e)) - 1
              /\ Need * Cardinality(ApprovedIn(e)) - Need = Need * (Cardinality(ApprovedIn(e)) - 1)
              /\ Need * Cardinality(ApprovedIn(e)) \in Nat
          <6>1. PICK H : H = ApprovedIn(e)
            OBVIOUS
          <6>2. Cardinality(H \ {Asked}) = Cardinality(H) - 1
                /\ Need * Cardinality(H) - Need = Need * (Cardinality(H) - 1) /\ Need * Cardinality(H) \in Nat
            BY <4>2, <6>1, Counted
          <6> QED
            BY <4>2, <6>1, <6>2
        <5> QED
          BY <5>1
      <4>4. e[Part] = [stock |-> d[Part].stock, reserved |-> d[Part].reserved + Need]
        BY <1>1, <1>2, <1>8, <3>1, <3>2, <3>7, SparesFit DEF SpareWritten, PartWritten, Requests
      <4>5. e[Part].reserved = Need * Cardinality(ApprovedIn(e))
        <5>1. Need \in Int /\ d[Part].reserved \in Int
          BY <1>2, SparesFit DEF SpareRowsTyped
        <5> QED
          BY <1>6, <4>3, <4>4, <5>1
      <4>6. e[Part] \in [stock : Nat, reserved : Nat] /\ e[Part].stock = d[Part].stock
        BY <1>2, <4>4, SparesFit DEF SpareRowsTyped
      <4>7. SpareRowsTyped(e)
        BY <1>1, <1>2, <2>3, <2>5, <3>5, <3>6, <4>6 DEF SpareRowsTyped
      <4>8. \A h \in Rungs : e[h].status # "pending"
        <5>1. j.op = "approve"
          BY <1>8, <3>1, <3>7
        <5>2. e[g].status = "approved" /\ \A h \in Rungs \ {g} : e[h].status # "pending"
          BY <2>3, <2>4, <3>1, <5>1
        <5> QED
          BY <5>2
      <4> QED
        BY <1>5, <1>7, <1>8, <2>2, <2>3, <3>3, <3>4, <3>5, <3>7, <4>5, <4>6, <4>7, <4>8 DEF SpareGood, Requests
    <3>8. CASE j.outcome # "approved"
      <4>1. e[Part] = d[Part]
        BY <1>1, <1>2, <3>2, <3>8, SparesFit
      <4>2. ApprovedIn(e) = ApprovedIn(d)
        BY <2>2, <2>3, <3>3, <3>8 DEF ApprovedIn, Requests
      <4>3. SpareRowsTyped(e)
        BY <1>1, <1>2, <2>3, <2>5, <3>5, <3>6, <4>1 DEF SpareRowsTyped
      <4>4. \A h \in Rungs : e[h].status = "pending" => Undecided(e)
        BY <1>8, <2>3, <2>4, <3>1, <3>3 DEF Undecided
      <4> QED
        BY <1>5, <1>7, <1>8, <2>2, <2>3, <3>1, <3>3, <3>4, <3>5, <3>8, <4>1, <4>2, <4>3, <4>4 DEF SpareGood, Requests
    <3> QED
      BY <3>7, <3>8
  <2> QED
    BY <1>8, <2>6, <2>7
<1>9. CASE j.op = "issue"
  <2>1. j.row \in Requests /\ d[j.row].status = "approved" /\ j.outcome = "issued" /\ j.delta = -Need
        /\ d[Part].stock >= Need
    BY <1>9 DEF Ready, SpareFacts, IssueFacts
  <2>2. SpareTouched(j, d) = {Part, j.row, Ticket}
    BY <1>3, <1>9 DEF SpareTouched
  <2>3. e[Machine] = d[Machine] /\ \A x \in Rungs \cup (Requests \ {j.row}) : e[x] = d[x]
    BY <1>1, <1>2, <2>1, <2>2, SparesFit DEF Requests
  <2>4. e[j.row] = [status |-> "issued"]
    BY <1>1, <1>2, <1>9, <2>1, <2>2, SparesFit DEF SpareWritten, Requests
  <2>5. e[Ticket] = [status |-> "parts_issued", rolled |-> d[Ticket].rolled]
    <3>1. d[Ticket].rolled \in BOOLEAN
      BY <1>2 DEF SpareRowsTyped
    <3> QED
      BY <1>1, <1>2, <1>9, <2>1, <2>2, <3>1, SparesFit DEF SpareWritten, Requests, TicketAfter
  <2>6. e[Part] = [stock |-> d[Part].stock - Need, reserved |-> d[Part].reserved - Need]
    <3>1. d[Part].stock + (-Need) = d[Part].stock - Need
      BY <1>2, SparesFit DEF SpareRowsTyped
    <3> QED
      BY <1>1, <1>2, <1>9, <2>1, <2>2, <3>1, SparesFit DEF SpareWritten, PartWritten, Requests
  <2>7. ApprovedIn(e) = ApprovedIn(d) \ {j.row} /\ j.row \in ApprovedIn(d)
    BY <2>1, <2>3, <2>4 DEF ApprovedIn
  <2>8. e[Part].reserved = Need * Cardinality(ApprovedIn(e)) /\ e[Part].reserved \in Nat
    <3>1. PICK H : H = ApprovedIn(d)
      OBVIOUS
    <3>2. /\ Cardinality(H \ {j.row}) = Cardinality(H) - 1
          /\ Need * Cardinality(H) - Need = Need * (Cardinality(H) - 1) /\ Need * (Cardinality(H) - 1) \in Nat
      BY <1>6, <2>7, <3>1, Counted
    <3>3. e[Part].reserved = Need * Cardinality(H) - Need
      BY <1>6, <2>6, <3>1
    <3> QED
      BY <2>7, <3>1, <3>2, <3>3
  <2>9. e[Part].stock \in Nat /\ e[Part].stock <= MaxStock /\ e[Part].stock = InStock + q.stock
    <3>1. d[Part].stock \in Nat /\ d[Part].stock <= MaxStock /\ d[Part].stock = InStock + p.stock /\ p.stock \in Int
      BY <1>2 DEF SpareGood, SpareRowsTyped, SparePosted
    <3> QED
      BY <1>4, <2>1, <2>6, <3>1, SparesFit
  <2>10. SpareRowsTyped(e)
    <3>1. e[Part] \in [stock : Nat, reserved : Nat]
      BY <2>6, <2>8, <2>9
    <3>2. e[Ticket] \in [status : TicketStatuses, rolled : BOOLEAN]
      BY <1>2, <2>5 DEF SpareRowsTyped, TicketStatuses
    <3>3. \A r \in Requests : e[r] \in [status : RequestStatuses]
      BY <1>2, <2>3, <2>4, SMTT(40) DEF SpareRowsTyped, RequestStatuses
    <3> QED
      BY <1>1, <1>2, <2>3, <3>1, <3>2, <3>3 DEF SpareRowsTyped
  <2>11. \A r \in Requests : q.vouchers[r] = IF e[r].status = "issued" THEN 1 ELSE 0
    <3>1. SUFFICES ASSUME NEW r \in Requests PROVE q.vouchers[r] = IF e[r].status = "issued" THEN 1 ELSE 0
      OBVIOUS
    <3>2. p.vouchers[r] = IF d[r].status = "issued" THEN 1 ELSE 0
      BY DEF SpareGood
    <3>3. q.vouchers[r] = p.vouchers[r] + IF r = j.row THEN 1 ELSE 0
      BY <1>4, <1>9
    <3>4. CASE r = j.row
      BY <2>1, <2>4, <3>2, <3>3, <3>4
    <3>5. CASE r # j.row
      BY <2>3, <3>2, <3>3, <3>5
    <3> QED
      BY <3>4, <3>5
  <2>12. e[Asked].status = d[Asked].status \/ (e[Asked].status = "issued" /\ d[Asked].status = "approved")
    BY <2>1, <2>3, <2>4 DEF Requests
  <2>13. \A g \in Rungs : e[g].status = "pending" => Undecided(e)
    <3>1. SUFFICES ASSUME NEW g \in Rungs, e[g].status = "pending" PROVE Undecided(e)
      OBVIOUS
    <3>2. Undecided(d)
      BY <2>3, <3>1 DEF SpareGood
    <3> QED
      BY <2>12, <3>2 DEF Undecided
  <2>14. e[Asked].status = "waiting_approval" => \E g \in Rungs : e[g].status = "pending"
    BY <2>3, <2>12 DEF SpareGood
  <2> QED
    BY <1>5, <2>3, <2>5, <2>8, <2>9, <2>10, <2>11, <2>13, <2>14 DEF SpareGood
<1>10. CASE j.op = "test"
  <2>1. j.outcome = "none" /\ SpareTouched(j, d) = {Ticket}
    BY <1>3, <1>10 DEF Ready, SpareFacts, TestFacts, SpareTouched
  <2>2. e[Part] = d[Part] /\ e[Machine] = d[Machine] /\ \A x \in Rungs \cup Requests : e[x] = d[x]
    BY <1>1, <1>2, <2>1, SparesFit DEF Requests
  <2>3. e[Ticket] = [status |-> "resolved", rolled |-> d[Ticket].rolled]
    <3>1. d[Ticket].rolled \in BOOLEAN
      BY <1>2 DEF SpareRowsTyped
    <3> QED
      BY <1>1, <1>2, <1>10, <2>1, <3>1, SparesFit DEF SpareWritten, Requests, TicketAfter
  <2>4. ApprovedIn(e) = ApprovedIn(d) /\ (Undecided(e) <=> Undecided(d)) /\ e[Asked] = d[Asked]
    BY <2>2 DEF ApprovedIn, Undecided, Requests
  <2>5. SpareRowsTyped(e)
    <3>1. e[Ticket] \in [status : TicketStatuses, rolled : BOOLEAN]
      BY <1>2, <2>3 DEF SpareRowsTyped, TicketStatuses
    <3> QED
      BY <1>1, <1>2, <2>2, <3>1 DEF SpareRowsTyped
  <2> QED
    BY <1>5, <1>7, <1>10, <2>2, <2>3, <2>4, <2>5 DEF SpareGood
<1>11. CASE j.op \in {"adjust", "receive", "counter"}
  <2>1. SpareTouched(j, d) = {Part} /\ d[Part].stock + j.delta \in 0 .. MaxStock
    BY <1>3, <1>11 DEF Ready, SpareFacts, MoveFacts, SpareTouched
  <2>2. e[Ticket] = d[Ticket] /\ e[Machine] = d[Machine] /\ \A x \in Rungs \cup Requests : e[x] = d[x]
    BY <1>1, <1>2, <2>1, SparesFit DEF Requests
  <2>3. e[Part] = [stock |-> d[Part].stock + j.delta, reserved |-> d[Part].reserved]
    BY <1>1, <1>2, <1>11, <2>1, SparesFit DEF SpareWritten, PartWritten, Requests
  <2>4. ApprovedIn(e) = ApprovedIn(d) /\ (Undecided(e) <=> Undecided(d)) /\ e[Asked] = d[Asked]
    BY <2>2 DEF ApprovedIn, Undecided, Requests
  <2>5. e[Part].stock \in Nat /\ e[Part].stock <= MaxStock /\ e[Part].stock = InStock + q.stock
    <3>1. d[Part].stock = InStock + p.stock /\ p.stock \in Int /\ j.delta \in Int
      BY <1>2, <1>3 DEF SpareGood, SparePosted, SpareJobs
    <3> QED
      BY <1>4, <2>1, <2>3, <3>1, SparesFit
  <2>6. SpareRowsTyped(e)
    <3>1. e[Part] \in [stock : Nat, reserved : Nat]
      BY <1>2, <2>3, <2>5 DEF SpareRowsTyped
    <3> QED
      BY <1>1, <1>2, <2>2, <3>1 DEF SpareRowsTyped
  <2>7. \A r \in Requests : q.vouchers[r] = p.vouchers[r]
    BY <1>2, <1>4, <1>11 DEF SparePosted
  <2> QED
    BY <1>5, <2>2, <2>3, <2>4, <2>5, <2>6, <2>7 DEF SpareGood
<1>12. CASE j.op = "close"
  <2>1. j.held = {} /\ (j.charge <=> ~d[Ticket].rolled)
    BY <1>3, <1>12 DEF Ready, SpareFacts, CloseFacts
  <2>2. SpareTouched(j, d) = ApprovedIn(d) \cup (IF ApprovedIn(d) # {} THEN {Part} ELSE {}) \cup {Ticket}
                             \cup IF j.charge THEN {Machine} ELSE {}
    BY <1>3, <1>12, <2>1 DEF SpareTouched
  <2>3. \A x \in Rungs \cup (Requests \ ApprovedIn(d)) : e[x] = d[x]
    BY <1>1, <1>2, <1>6, <2>2, SparesFit DEF Requests
  <2>4. \A r \in ApprovedIn(d) : e[r] = [status |-> "cancelled"]
    BY <1>1, <1>2, <1>6, <1>12, <2>2, SparesFit DEF SpareWritten, Requests
  <2>5. e[Ticket] = [status |-> "closed", rolled |-> TRUE]
    BY <1>1, <1>2, <1>12, <2>2, SparesFit DEF SpareWritten, Requests
  <2>6. e[Machine] = [breakdowns |-> 1]
    <3>1. d[Machine] = [breakdowns |-> IF d[Ticket].rolled THEN 1 ELSE 0]
      BY <1>2 DEF SpareGood, SpareRowsTyped
    <3>2. CASE j.charge
      <4>1. d[Machine].breakdowns = 0
        BY <2>1, <3>1, <3>2
      <4>2. e[Machine] = [breakdowns |-> d[Machine].breakdowns + 1]
        BY <1>1, <1>2, <2>2, <3>2, SparesFit DEF SpareWritten, Requests
      <4> QED
        BY <4>1, <4>2
    <3>3. CASE ~j.charge
      <4>1. Machine \notin SpareTouched(j, d)
        BY <1>6, <2>2, <3>3, SparesFit DEF Requests
      <4> QED
        BY <1>1, <1>2, <2>1, <3>1, <3>3, <4>1
    <3> QED
      BY <3>2, <3>3
  <2>7. ApprovedIn(e) = {}
    <3>1. ASSUME NEW r \in Requests PROVE e[r].status # "approved"
      <4>1. CASE r \in ApprovedIn(d)
        BY <2>4, <4>1
      <4>2. CASE r \notin ApprovedIn(d)
        BY <2>3, <4>2 DEF ApprovedIn
      <4> QED
        BY <4>1, <4>2
    <3> QED
      BY <3>1 DEF ApprovedIn
  <2>8. e[Part] = [stock |-> d[Part].stock, reserved |-> 0]
    <3>1. Cardinality({}) = 0 /\ Need * 0 = 0 /\ Need * (0 - 0) = 0
      BY FS_EmptySet, SparesFit
    <3>2. CASE ApprovedIn(d) = {}
      <4>1. Part \notin SpareTouched(j, d)
        BY <2>2, <3>2, SparesFit
      <4> QED
        BY <1>1, <1>2, <1>6, <3>1, <3>2, <4>1 DEF SpareRowsTyped
    <3>3. CASE ApprovedIn(d) # {}
      <4>1. SpareWritten(j, d[Part], Part) = [stock |-> d[Part].stock, reserved |-> Need * (Cardinality(j.held) - 0)]
        BY <1>3, <1>12, SparesFit DEF SpareWritten, PartWritten, Requests
      <4>2. e[Part] = SpareWritten(j, d[Part], Part)
        BY <1>1, <1>2, <2>2, <3>3
      <4> QED
        BY <2>1, <3>1, <4>1, <4>2
    <3> QED
      BY <3>2, <3>3
  <2>9. SpareRowsTyped(e)
    <3>1. e[Part] \in [stock : Nat, reserved : Nat]
      BY <1>2, <2>8 DEF SpareRowsTyped
    <3>2. \A r \in Requests : e[r] \in [status : RequestStatuses]
      BY <1>2, <2>3, <2>4, SMTT(40) DEF SpareRowsTyped, RequestStatuses
    <3>3. \A g \in Rungs : e[g] \in [status : {"pending", "approved", "rejected"}]
      BY <1>2, <2>3 DEF SpareRowsTyped
    <3>4. e[Ticket] \in [status : TicketStatuses, rolled : BOOLEAN] /\ e[Machine] \in [breakdowns : Nat]
      BY <2>5, <2>6 DEF TicketStatuses
    <3> QED
      BY <1>1, <3>1, <3>2, <3>3, <3>4 DEF SpareRowsTyped
  <2>10. e[Part].reserved = Need * Cardinality(ApprovedIn(e)) /\ e[Part].stock = d[Part].stock
    BY <2>7, <2>8, FS_EmptySet, SparesFit
  <2>11. \A r \in Requests : e[r].status = "issued" <=> d[r].status = "issued"
    BY <2>3, <2>4 DEF ApprovedIn
  <2>12. Undecided(d) => e[Asked] = d[Asked]
    BY <2>3 DEF Undecided, ApprovedIn, Requests
  <2>13. \A g \in Rungs : e[g].status = "pending" => Undecided(e)
    BY <2>3, <2>12 DEF SpareGood, Undecided
  <2>14. e[Asked].status = "waiting_approval" => \E g \in Rungs : e[g].status = "pending"
    <3>1. e[Asked].status = "waiting_approval" => d[Asked].status = "waiting_approval"
      BY <2>3, <2>4 DEF Requests
    <3> QED
      BY <2>3, <3>1 DEF SpareGood
  <2>15. \A r \in Requests : q.vouchers[r] = IF e[r].status = "issued" THEN 1 ELSE 0
    BY <1>7, <1>12, <2>11 DEF SpareGood
  <2>16. e[Part].stock <= MaxStock /\ e[Part].stock = InStock + q.stock
    BY <1>7, <1>12, <2>10 DEF SpareGood
  <2> QED
    BY <1>5, <2>5, <2>6, <2>7, <2>9, <2>10, <2>13, <2>14, <2>15, <2>16 DEF SpareGood
<1> QED
  BY <1>3, <1>8, <1>9, <1>10, <1>11, <1>12 DEF Spares!Ops, Spares!StockMovers

\* A function writes rows of the desk.
LEMMA TouchedRows ==
  ASSUME NEW j, NEW d, SpareFacts(j, d)
  PROVE  SpareTouched(j, d) \subseteq SpareRows
<1>1. j.op \in {"approve", "refuse"} => j.held \subseteq Rungs
  BY DEF SpareFacts, SignFacts
<1>2. j.op = "issue" => j.row \in Requests
  BY DEF SpareFacts, IssueFacts
<1>3. ApprovedIn(d) \subseteq Requests /\ Requests \subseteq SpareRows
  BY DEF ApprovedIn, Requests, SpareRows
<1> QED
  BY <1>1, <1>2, <1>3 DEF SpareTouched, SpareRows

\* Session s commits: its rows are the committed ones, and the others go on as they were.
LEMMA CommitKeeps ==
  ASSUME SpareInv, NEW s \in Sessions, Spares!CommitJob(s)
  PROVE  SpareInv'
<1>1. PICK j, d, e, p, q : j = job[s] /\ d = db /\ e = db' /\ p = posted /\ q = posted'
  OBVIOUS
<1>2. /\ Committed(j, d, e, p, q) /\ Ready(j, d) /\ SpareGood(d, p)
      /\ job' = [job EXCEPT ![s] = Spares!Idle] /\ mine' = [mine EXCEPT ![s] = Spares!NoRows]
  BY <1>1, CommitIs, SpareSession DEF Ready, SpareInv, Spares!Ops, Spares!StockMovers
<1>3. SpareGood(e, q)
  BY <1>2, CommitGood
<1>4. /\ mine' = [t \in Sessions |-> mine'[t]] /\ job' = [t \in Sessions |-> job'[t]]
      /\ job'[s] = Spares!Idle /\ mine'[s] = Spares!NoRows
      /\ \A t \in Sessions \ {s} : job'[t] = job[t] /\ mine'[t] = mine[t]
  BY <1>2 DEF SpareInv
<1>5. SpareDoing(Spares!Idle, Spares!NoRows, e)
  <2>1. /\ Spares!Idle \in SpareJobs /\ Spares!Idle.op = "idle"
        /\ Spares!NoRows = [x \in DOMAIN Spares!NoRows |-> Spares!NoRows[x]] /\ DOMAIN Spares!NoRows = {}
    BY DEF Spares!Idle, SpareJobs, Spares!NoRows
  <2>2. SpareTouched(Spares!Idle, e) = {}
    BY <2>1 DEF SpareTouched
  <2>3. SpareFacts(Spares!Idle, e)
    BY <2>1 DEF SpareFacts, SignFacts, IssueFacts, TestFacts, CloseFacts, MoveFacts
  <2> QED
    BY <2>1, <2>2, <2>3 DEF SpareDoing
<1>6. ASSUME NEW t \in Sessions \ {s} PROVE SpareDoing(job[t], mine[t], e)
  <2>1. PICK i, m : i = job[t] /\ m = mine[t]
    OBVIOUS
  <2>2. SpareDoing(i, m, d) /\ SpareApart(i, j) /\ DOMAIN m \cap DOMAIN mine[s] = {}
    BY <1>1, <2>1 DEF SpareInv
  <2>3. DOMAIN mine[s] = SpareTouched(j, d)
    BY <1>1, SpareSession
  <2>4. SpareFacts(i, e) /\ SpareTouched(i, e) = SpareTouched(i, d)
    BY <1>2, <2>2, FactsStand DEF SpareDoing
  <2>5. DOMAIN m \subseteq SpareRows
    BY <1>1, <2>1, <2>2, TouchedRows DEF SpareDoing
  <2>6. \A x \in DOMAIN m : e[x] = d[x]
    BY <1>2, <2>2, <2>3, <2>5, CommitLeaves
  <2> QED
    BY <2>1, <2>2, <2>4, <2>6 DEF SpareDoing
<1>7. ASSUME NEW t \in Sessions PROVE SpareDoing(job'[t], mine'[t], e)
  BY <1>4, <1>5, <1>6
<1>8. ASSUME NEW t \in Sessions, NEW u \in Sessions, t # u
      PROVE  DOMAIN mine'[t] \cap DOMAIN mine'[u] = {} /\ SpareApart(job'[t], job'[u])
  <2>1. DOMAIN Spares!NoRows = {} /\ Spares!Idle.op = "idle"
    BY DEF Spares!NoRows, Spares!Idle
  <2>2. CASE t = s \/ u = s
    BY <1>4, <2>1, <2>2 DEF SpareApart
  <2>3. CASE t # s /\ u # s
    BY <1>4, <1>8, <2>3 DEF SpareInv
  <2> QED
    BY <2>2, <2>3
<1>9. SpareGood(db, posted)'
  BY <1>1, <1>3, ZenonT(40) DEF SpareGood, SpareRowsTyped, SparePosted, ApprovedIn, Undecided
<1>10. ASSUME NEW t \in Sessions PROVE SpareDoing(job'[t], mine'[t], db')
  BY <1>1, <1>7
<1>11. ASSUME NEW t \in Sessions PROVE SpareDoing(job[t], mine[t], db)'
  BY <1>10 DEF SpareDoing, SpareTouched, SpareWritten, PartWritten, SpareFacts, SignFacts, IssueFacts, TestFacts,
              CloseFacts, MoveFacts, ApprovedIn, Undecided
<1> QED
  BY <1>4, <1>8, <1>9, <1>11 DEF SpareInv, SpareApart

-----------------------------------------------------------------------------
(* The invariant.                                                          *)

\* The desk opens with one request approved and its pieces set aside.
LEMMA SparesOpen ==
  ASSUME Spares!Init
  PROVE  SpareInv
<1>1. PICK d : d = db
  OBVIOUS
<1>2. /\ d = [x \in SpareRows |-> d[x]]
      /\ d[Part] = [stock |-> InStock, reserved |-> Need]
      /\ d[Ticket] = [status |-> "waiting_approval", rolled |-> FALSE]
      /\ d[Machine] = [breakdowns |-> 0]
      /\ d[Asked] = [status |-> "waiting_approval"] /\ d[Given] = [status |-> "approved"]
      /\ \A g \in Rungs : d[g] = [status |-> "pending"]
  BY <1>1, SparesFit DEF Spares!Init, SpareRows
<1>3. SpareRowsTyped(d)
  <2>1. d[Part] \in [stock : Nat, reserved : Nat]
    BY <1>2, SparesFit
  <2>2. d[Ticket] \in [status : TicketStatuses, rolled : BOOLEAN] /\ d[Machine] \in [breakdowns : Nat]
    <3>1. d[Ticket] = [status |-> "waiting_approval", rolled |-> FALSE] /\ d[Machine] = [breakdowns |-> 0]
      BY <1>2, Zenon
    <3>2. [status |-> "waiting_approval", rolled |-> FALSE] \in [status : TicketStatuses, rolled : BOOLEAN]
      BY DEF TicketStatuses
    <3> QED
      BY <3>1, <3>2
  <2>3. \A r \in Requests : d[r] \in [status : RequestStatuses]
    BY <1>2 DEF Requests, RequestStatuses
  <2>4. \A g \in Rungs : d[g] \in [status : {"pending", "approved", "rejected"}]
    BY <1>2
  <2> QED
    BY <1>2, <2>1, <2>2, <2>3, <2>4 DEF SpareRowsTyped
<1>4. ApprovedIn(d) = {Given} /\ Undecided(d)
  BY <1>2, SparesFit DEF ApprovedIn, Undecided, Requests
<1>5. Cardinality(ApprovedIn(d)) = 1
  BY <1>4, FS_Singleton
<1>6. posted = [stock |-> 0, vouchers |-> [r \in Requests |-> 0]]
  BY SparesFit DEF Spares!Init, Spares!NoPosting
<1>7. SpareGood(d, posted)
  <2>1. SparePosted(posted)
    BY <1>6 DEF SparePosted
  <2>2. \A r \in Requests : posted.vouchers[r] = IF d[r].status = "issued" THEN 1 ELSE 0
    BY <1>2, <1>6 DEF Requests
  <2>3. d[Part].reserved = Need * Cardinality(ApprovedIn(d))
    <3>1. Need * 1 = Need
      BY SparesFit
    <3> QED
      BY <1>2, <1>5, <3>1
  <2>4. d[Part].stock <= MaxStock /\ d[Part].stock = InStock + posted.stock
    BY <1>2, <1>6, SparesFit
  <2>5. \E g \in Rungs : d[g].status = "pending"
    <3>1. PICK g \in Rungs : d[g] = [status |-> "pending"]
      BY <1>2, SparesFit, Zenon
    <3> QED
      BY <3>1
  <2>6. d[Machine].breakdowns = 0 /\ ~d[Ticket].rolled /\ d[Ticket].status # "closed"
    BY <1>2
  <2> QED
    BY <1>3, <1>4, <2>1, <2>2, <2>3, <2>4, <2>5, <2>6 DEF SpareGood
<1>8. /\ mine = [s \in Sessions |-> Spares!NoRows] /\ job = [s \in Sessions |-> Spares!Idle]
  BY DEF Spares!Init
<1>9. /\ Spares!Idle \in SpareJobs /\ Spares!Idle.op = "idle"
      /\ Spares!NoRows = [x \in DOMAIN Spares!NoRows |-> Spares!NoRows[x]] /\ DOMAIN Spares!NoRows = {}
  BY DEF Spares!Idle, SpareJobs, Spares!NoRows
<1>10. SpareDoing(Spares!Idle, Spares!NoRows, db)
  <2>1. SpareTouched(Spares!Idle, db) = {}
    BY <1>9 DEF SpareTouched
  <2>2. SpareFacts(Spares!Idle, db)
    BY <1>9 DEF SpareFacts, SignFacts, IssueFacts, TestFacts, CloseFacts, MoveFacts
  <2> QED
    BY <1>9, <2>1, <2>2 DEF SpareDoing
<1> QED
  BY <1>1, <1>7, <1>8, <1>9, <1>10 DEF SpareInv, SpareApart

\* Every step of the desk keeps it.
LEMMA SparesStep ==
  ASSUME SpareInv, SparesSafe, Spares!Next
  PROVE  SpareInv'
<1>1. PICK s \in Sessions : Spares!Start(s) \/ Spares!Work(s)
  BY DEF Spares!Next
<1>2. CASE Spares!Start(s)
  BY <1>2, StartKeeps
<1>3. CASE Spares!Work(s)
  BY <1>3, SignKeeps, CountKeeps, ReserveKeeps, PutRequestKeeps, PutStockKeeps, FreeKeeps, CancelKeeps,
     PutTicketKeeps, ChargeKeeps, CommitKeeps, GivesUp DEF Spares!Work
<1> QED
  BY <1>1, <1>2, <1>3

\* It says what the desk promises.
LEMMA SparesPromise ==
  ASSUME SpareInv
  PROVE  Spares!SparesTrue
<1>1. SpareGood(db, posted) /\ SpareRowsTyped(db)
  BY DEF SpareInv, SpareGood
<1>2. {r \in Spares!Requests : db[r].status = "approved"} = ApprovedIn(db)
  BY SparesFit DEF ApprovedIn
<1>3. Spares!TypeOK
  <2>1. db[Part].stock \in 0 .. MaxStock
    BY <1>1, SparesFit DEF SpareGood, SpareRowsTyped
  <2>2. db[Part].reserved \in 0 .. 2 * Need
    <3>1. PICK n : n = Cardinality(ApprovedIn(db))
      OBVIOUS
    <3>2. n \in {0, 1, 2}
      <4>1. ApprovedIn(db) \in {{}, {Asked}, {Given}, {Asked, Given}}
        BY DEF ApprovedIn, Requests
      <4>2. Cardinality({}) = 0 /\ Cardinality({Asked}) = 1 /\ Cardinality({Given}) = 1
        BY FS_EmptySet, FS_Singleton
      <4>3. Cardinality({Asked, Given}) = 2
        <5>1. Cardinality({Given} \cup {Asked}) = 1 + 1
          <6>1. IsFiniteSet({Given}) /\ Asked \notin {Given}
            BY FS_Singleton, SparesFit
          <6>2. Cardinality({Given} \cup {Asked}) = Cardinality({Given}) + 1
            BY <6>1, FS_AddElement, Zenon
          <6> QED
            BY <4>2, <6>2
        <5> QED
          BY <5>1
      <4> QED
        BY <3>1, <4>1, <4>2, <4>3
    <3>3. db[Part].reserved = Need * n
      BY <1>1, <3>1 DEF SpareGood
    <3>4. Need * 0 = 0 /\ Need * 1 = Need /\ Need * 2 = 2 * Need
      BY SparesFit
    <3> QED
      BY <3>2, <3>3, <3>4, SparesFit
  <2>3. \A r \in Spares!Requests : db[r].status \in
          {"waiting_approval", "approved", "rejected", "out_of_stock", "issued", "cancelled"}
    BY <1>1, SparesFit DEF SpareRowsTyped, RequestStatuses
  <2>4. db[Ticket].status \in {"waiting_approval", "closed"} \cup
          {Spares!NewStatus[o] : o \in DOMAIN Spares!NewStatus}
    <3>1. DOMAIN Spares!NewStatus = {"none", "approved", "out_of_stock", "rejected", "issued"}
      BY DEF Spares!NewStatus
    <3>2. {Spares!NewStatus[o] : o \in DOMAIN Spares!NewStatus}
            = {"approved_issue", "waiting_stock", "spare_required", "parts_issued", "resolved"}
      BY <3>1 DEF Spares!NewStatus
    <3>3. db[Ticket].status \in TicketStatuses
      BY <1>1 DEF SpareRowsTyped
    <3> QED
      BY <3>2, <3>3 DEF TicketStatuses
  <2> QED
    BY <2>1, <2>2, <2>3, <2>4 DEF Spares!TypeOK
<1>4. Spares!ReservedTrue
  <2>1. db[Part].reserved = Need * Cardinality(ApprovedIn(db))
    BY <1>1 DEF SpareGood
  <2> QED
    <3>1. Spares!Cardinality(ApprovedIn(db)) = Cardinality(ApprovedIn(db))
      BY Zenon DEF Spares!Cardinality, Cardinality
    <3>2. Spares!ReservedTrue <=> db[Part].reserved = Need * Spares!Cardinality(ApprovedIn(db))
      BY <1>2, Zenon DEF Spares!ReservedTrue
    <3> QED
      BY <2>1, <3>1, <3>2, Zenon
<1>5. Spares!LedgerTrue /\ Spares!HandedOnce /\ Spares!NotForgotten /\ Spares!CountedOnce
  BY <1>1, SparesFit DEF Spares!LedgerTrue, Spares!HandedOnce, Spares!NotForgotten, Spares!CountedOnce, SpareGood
<1>6. Spares!ClosedHoldsNothing
  BY <1>1, SparesFit DEF Spares!ClosedHoldsNothing, SpareGood, ApprovedIn
<1> QED
  BY <1>3, <1>4, <1>5, <1>6 DEF Spares!SparesTrue

\* The spare-parts desk with any number of people at it (decide_approval, issue_parts,
\* close_ticket, test_result, adjust_stock, receive_stock and issue_from_stock, statement by
\* statement): when only functions overlap that do each other no harm, requests, reservations,
\* movements, vouchers, the machine and the ticket agree whenever they are looked at.
THEOREM SparesAgree ==
  ASSUME SparesSafe
  PROVE  DesksSpec => []SparesTrue
<1> DEFINE I == AtSpares => SpareInv
<1>1. DesksInit => I
  <2>1. ASSUME Init, AtSpares PROVE FALSE
    BY <2>1 DEF Init, AtSpares, Desks, Rows
  <2> QED
    BY <2>1, SparesOpen DEF DesksInit
<1>2. I /\ [DesksNext]_all => I'
  <2>1. CASE DesksNext /\ ~AtSpares
    <3>1. Next => UNCHANGED desk
      BY DEF Next, Raise, Start, Work
    <3> QED
      BY <2>1, <3>1 DEF DesksNext, AtSpares
  <2>2. CASE DesksNext /\ AtSpares
    BY <2>2, SparesStep DEF DesksNext
  <2>3. CASE UNCHANGED all
    <3>1. UNCHANGED <<db, mine, desk, job, posted>>
      BY <2>3 DEF all, vars
    <3>2. ASSUME SpareInv PROVE SpareInv'
      <4>1. SpareGood(db, posted)'
        BY <3>1, <3>2, ZenonT(40) DEF SpareInv, SpareGood, SpareRowsTyped, SparePosted, ApprovedIn, Undecided
      <4>2. ASSUME NEW t \in Sessions PROVE SpareDoing(job'[t], mine'[t], db')
        BY <3>1, <3>2 DEF SpareInv
      <4>3. \A t \in Sessions : SpareDoing(job[t], mine[t], db)'
        BY <4>2 DEF SpareDoing, SpareTouched, SpareWritten, PartWritten, SpareFacts, SignFacts, IssueFacts,
                    TestFacts, CloseFacts, MoveFacts, ApprovedIn, Undecided
      <4>4. /\ mine' = [s \in Sessions |-> mine'[s]] /\ job' = [s \in Sessions |-> job'[s]]
            /\ \A s, t \in Sessions : s # t =>
                 DOMAIN mine'[s] \cap DOMAIN mine'[t] = {} /\ SpareApart(job'[s], job'[t])
        BY <3>1, <3>2 DEF SpareInv
      <4> QED
        BY <4>1, <4>3, <4>4 DEF SpareInv, SpareApart
    <3> QED
      BY <3>1, <3>2 DEF AtSpares
  <2> QED
    BY <2>1, <2>2, <2>3
<1>3. I => SparesTrue
  BY SparesPromise DEF SparesTrue
<1> QED
  BY <1>1, <1>2, <1>3, PTL DEF DesksSpec

-----------------------------------------------------------------------------
(* The pool of connections.                                                *)

Raws == [state : {"none", "open", "dead", "closed"}, guarded : BOOLEAN, tx : BOOLEAN]

Pools == [made : BOOLEAN, gen : Nat, idle : {<<>>} \cup {<<a>> : a \in Addresses}, used : SUBSET Addresses]

EmptyHanded == {"idle", "get", "direct", "resolve"}
Pooled == {"check", "put", "putbroken"}
Points == EmptyHanded \cup Pooled \cup {"use"}

Reqs == [pc : Points, raw : Addresses \cup {NoRaw}, pooled : BOOLEAN, tries : 0..2, gen : Nat, unit : BOOLEAN]

\* r, p and q stand for raw, pool and req.
Typed(r, p, q) ==
    /\ Fits
    /\ r \in [Addresses -> Raws]
    /\ p \in Pools
    /\ q \in [Threads -> Reqs]

\* The idle connection of the pool, if it has one.
Spare(p) == {a \in Addresses : p.idle = <<a>>}

\* A thread holds a connection exactly between getting and giving back.
Handed(q) ==
    \A t \in Threads : /\ q[t].raw = NoRaw <=> q[t].pc \in EmptyHanded
                       /\ q[t].pc \in Pooled => q[t].pooled

\* What a request holds exists, is not idle, and is held by no other.
Alone(r, p, q) ==
    \A t \in Threads : q[t].raw # NoRaw =>
        /\ r[q[t].raw].state # "none"
        /\ q[t].raw \notin Spare(p)
        /\ \A u \in Threads : q[u].raw = q[t].raw => u = t

\* No connection is lost, and the idle one was not closed by the process.
NoneLost(r, p, q) ==
    \A a \in Addresses :
        /\ r[a].state # "none" => a \in Spare(p) \/ \E t \in Threads : q[t].raw = a
        /\ a \in Spare(p) => r[a].state \notin {"none", "closed"}

\* Every slot belongs to a request that knows it holds one of the pool.
Slots(p, q) == \A a \in p.used : \E t \in Threads : q[t].raw = a /\ q[t].pooled

\* The pool counts what it has handed out and what it keeps.
Limit(p) ==
    /\ IsFiniteSet(p.used)
    /\ Cardinality(p.used) <= MaxConn
    /\ p.idle # <<>> => Cardinality(p.used) + 1 <= MaxConn
    /\ ~p.made => p.idle = <<>> /\ p.used = {}

Sound(r, p, q) ==
    /\ Typed(r, p, q)
    /\ Handed(q)
    /\ Alone(r, p, q)
    /\ NoneLost(r, p, q)
    /\ Slots(p, q)
    /\ Limit(p)

\* The inductive invariant.
PInv ==
    /\ Sound(raw, pool, req)
    /\ accepts \in BOOLEAN /\ resolved \in BOOLEAN /\ lastOk \subseteq Addresses

(***************************************************************************)
(* What a step can do to the hands the connections are in: r, p and q      *)
(* before it, r2, p2 and q2 after it.                                      *)
(***************************************************************************)
After(r2, p2, q2) == Typed(r2, p2, q2) /\ Handed(q2) /\ Limit(p2)

OnlyAt(f, g, S, x) == \A y \in S \ {x} : g[y] = f[y]

SameHands(r, r2, p, q, q2) ==
    /\ After(r2, p, q2)
    /\ \A a \in Addresses : /\ r2[a].state = "none" <=> r[a].state = "none"
                            /\ a \in Spare(p) => r2[a].state # "closed"
    /\ \A t \in Threads : /\ q2[t].raw = q[t].raw
                          /\ q[t].pooled => q2[t].pooled \/ q[t].raw = NoRaw

\* Request t takes connection a, which nobody holds: a new one or the idle one.
Takes(r, r2, p, p2, q, q2, t, a) ==
    /\ After(r2, p2, q2)
    /\ q[t].raw = NoRaw /\ q2[t].raw = a
    /\ OnlyAt(q, q2, Threads, t) /\ OnlyAt(r, r2, Addresses, a)
    /\ r2[a].state # "none"
    /\ r[a].state = "none" \/ a \in Spare(p)
    /\ Spare(p2) = Spare(p) \ {a}
    /\ p2.used = p.used \/ (p2.used = p.used \cup {a} /\ q2[t].pooled)

\* Request t lets connection a go: it is closed, or becomes the idle one.
LetsGo(r, r2, p, p2, q, q2, t, a) ==
    /\ After(r2, p2, q2)
    /\ a = q[t].raw /\ a # NoRaw /\ q2[t].raw = NoRaw
    /\ OnlyAt(q, q2, Threads, t) /\ OnlyAt(r, r2, Addresses, a)
    /\ \/ r2[a].state = "none" /\ Spare(p2) = Spare(p)
       \/ r2[a].state \notin {"none", "closed"} /\ Spare(p) = {} /\ Spare(p2) = {a}
    /\ p2.used = p.used \ {a}

\* The pool is made with connection a, new and idle.
Makes(r, r2, p, p2, q, q2, a) ==
    /\ After(r2, p2, q2)
    /\ ~p.made /\ p2.idle = <<a>> /\ p2.used = {}
    /\ r[a].state = "none" /\ r2[a].state = "open"
    /\ OnlyAt(r, r2, Addresses, a)
    /\ \A t \in Threads : q2[t].raw = q[t].raw

\* The pool is thrown away: its idle connection is gone, those in use are closed
\* under the requests that hold them.
Throws(r, r2, p, p2, q, q2) ==
    /\ After(r2, p2, q2)
    /\ p2.idle = <<>> /\ p2.used = {}
    /\ \A a \in Addresses : r2[a].state = "none" <=> r[a].state = "none" \/ a \in Spare(p)
    /\ \A t \in Threads : q2[t].raw = q[t].raw

\* The set of an idle sequence, and its cardinality.
LEMMA IdleSet ==
    ASSUME NEW p, p \in Pools
    PROVE  /\ ToSet(p.idle) = Spare(p)
           /\ p.idle = <<>> <=> Spare(p) = {}
           /\ Len(p.idle) < 1 <=> p.idle = <<>>
           /\ p.idle # <<>> => /\ Last(p.idle) \in Addresses
                               /\ p.idle = <<Last(p.idle)>>
                               /\ Spare(p) = {Last(p.idle)}
                               /\ Front(p.idle) = <<>>
<1>1. p.idle \in {<<>>} \cup {<<a>> : a \in Addresses}
  BY DEF Pools
<1>2. CASE p.idle = <<>>
  <2>1. ToSet(p.idle) = {}
    BY <1>2 DEF ToSet
  <2>2. Spare(p) = {}
    BY <1>2 DEF Spare
  <2> QED  BY <1>2, <2>1, <2>2
<1>3. CASE p.idle # <<>>
  <2>1. PICK a \in Addresses : p.idle = <<a>>
    BY <1>1, <1>3
  <2>2. Len(p.idle) = 1 /\ p.idle[1] = a /\ DOMAIN p.idle = 1..1
    BY <2>1
  <2>3. Last(p.idle) = a
    BY <2>2 DEF Last
  <2>4. Front(p.idle) = <<>>
    BY <2>1, <2>2 DEF Front
  <2>5. ToSet(p.idle) = {a}
    BY <2>2 DEF ToSet
  <2>6. \A b \in Addresses : <<b>> = <<a>> => b = a
    OBVIOUS
  <2>7. Spare(p) = {a}
    BY <2>1, <2>6 DEF Spare
  <2> QED  BY <1>3, <2>1, <2>2, <2>3, <2>4, <2>5, <2>7
<1> QED  BY <1>2, <1>3

\* A step that leaves every connection in the same hands keeps the invariant: the
\* request moves on, or the server drops a session.
LEMMA SameHandsSound ==
    ASSUME NEW r, NEW r2, NEW p, NEW q, NEW q2,
           Sound(r, p, q), SameHands(r, r2, p, q, q2)
    PROVE  Sound(r2, p, q2)
<1>fit. Fits
  BY DEF PInv, Sound, Typed
<1> USE <1>fit DEF Fits
<1>0. /\ \A a \in Addresses : /\ r2[a].state = "none" <=> r[a].state = "none"
                              /\ a \in Spare(p) => r2[a].state # "closed"
      /\ \A t \in Threads : /\ q2[t].raw = q[t].raw
                            /\ q[t].pooled => q2[t].pooled \/ q[t].raw = NoRaw
  BY DEF SameHands
<1>1. Alone(r2, p, q2)
  <2> SUFFICES ASSUME NEW t \in Threads, q2[t].raw # NoRaw
               PROVE  /\ r2[q2[t].raw].state # "none"
                      /\ q2[t].raw \notin Spare(p)
                      /\ \A u \in Threads : q2[u].raw = q2[t].raw => u = t
    BY DEF Alone
  <2>1. q[t].raw = q2[t].raw /\ q[t].raw \in Addresses
    BY <1>0 DEF Sound, Typed, Reqs
  <2>2. /\ r[q[t].raw].state # "none"
        /\ q[t].raw \notin Spare(p)
        /\ \A u \in Threads : q[u].raw = q[t].raw => u = t
    BY <2>1 DEF Sound, Alone
  <2>3. r2[q2[t].raw].state # "none"
    BY <1>0, <2>1, <2>2
  <2> QED  BY <1>0, <2>1, <2>2, <2>3
<1>2. NoneLost(r2, p, q2)
  BY <1>0 DEF Sound, NoneLost
<1>3. Slots(p, q2)
  <2> SUFFICES ASSUME NEW a \in p.used
               PROVE  \E t \in Threads : q2[t].raw = a /\ q2[t].pooled
    BY DEF Slots
  <2>1. a # NoRaw
    BY DEF Sound, Typed, Pools
  <2>2. PICK t \in Threads : q[t].raw = a /\ q[t].pooled
    BY DEF Sound, Slots
  <2> QED  BY <1>0, <2>1, <2>2
<1> QED  BY <1>1, <1>2, <1>3 DEF Sound, SameHands, After

\* So does taking a connection nobody holds.
LEMMA TakesSound ==
    ASSUME NEW r, NEW r2, NEW p, NEW p2, NEW q, NEW q2, NEW t \in Threads, NEW a \in Addresses,
           Sound(r, p, q), Takes(r, r2, p, p2, q, q2, t, a)
    PROVE  Sound(r2, p2, q2)
<1>fit. Fits
  BY DEF PInv, Sound, Typed
<1> USE <1>fit DEF Fits, Takes, After, OnlyAt
<1>1. \A u \in Threads : q[u].raw # a
  BY DEF Sound, Alone
<1>2. Alone(r2, p2, q2)
  <2> SUFFICES ASSUME NEW u \in Threads, q2[u].raw # NoRaw
               PROVE  /\ r2[q2[u].raw].state # "none"
                      /\ q2[u].raw \notin Spare(p2)
                      /\ \A v \in Threads : q2[v].raw = q2[u].raw => v = u
    BY DEF Alone
  <2>1. CASE u = t
    <3>1. \A v \in Threads : q2[v].raw = a => v = t
      BY <1>1
    <3> QED  BY <2>1, <3>1
  <2>2. CASE u # t
    <3>1. q2[u].raw = q[u].raw /\ q[u].raw \in Addresses \ {a}
      BY <1>1, <2>2 DEF Sound, Typed, Reqs
    <3>2. /\ r[q[u].raw].state # "none"
          /\ q[u].raw \notin Spare(p)
          /\ \A v \in Threads : q[v].raw = q[u].raw => v = u
      BY <2>2, <3>1 DEF Sound, Alone
    <3> QED  BY <1>1, <2>2, <3>1, <3>2, ZenonT(40)
  <2> QED  BY <2>1, <2>2
<1>3. NoneLost(r2, p2, q2)
  <2> SUFFICES ASSUME NEW b \in Addresses
               PROVE  /\ r2[b].state # "none" => b \in Spare(p2) \/ \E u \in Threads : q2[u].raw = b
                      /\ b \in Spare(p2) => r2[b].state \notin {"none", "closed"}
    BY DEF NoneLost
  <2>1. CASE b = a
    BY <2>1
  <2>2. CASE b # a
    <3>1. r[b].state # "none" => b \in Spare(p) \/ \E u \in Threads \ {t} : q[u].raw = b
      BY DEF Sound, NoneLost
    <3>2. b \in Spare(p) => r[b].state \notin {"none", "closed"}
      BY DEF Sound, NoneLost
    <3> QED  BY <2>2, <3>1, <3>2
  <2> QED  BY <2>1, <2>2
<1>4. Slots(p2, q2)
  <2> SUFFICES ASSUME NEW b \in p2.used
               PROVE  \E u \in Threads : q2[u].raw = b /\ q2[u].pooled
    BY DEF Slots
  <2>1. CASE b \in p.used
    <3>1. b # NoRaw
      BY <2>1 DEF Sound, Typed, Pools
    <3>2. PICK u \in Threads : q[u].raw = b /\ q[u].pooled
      BY <2>1 DEF Sound, Slots
    <3> QED  BY <3>1, <3>2
  <2>2. CASE b \notin p.used
    BY <2>2
  <2> QED  BY <2>1, <2>2
<1> QED  BY <1>2, <1>3, <1>4 DEF Sound

\* So does letting one go.
LEMMA LetsGoSound ==
    ASSUME NEW r, NEW r2, NEW p, NEW p2, NEW q, NEW q2, NEW t \in Threads, NEW a,
           Sound(r, p, q), LetsGo(r, r2, p, p2, q, q2, t, a)
    PROVE  Sound(r2, p2, q2)
<1>fit. Fits
  BY DEF PInv, Sound, Typed
<1> USE <1>fit DEF Fits, LetsGo, After, OnlyAt
<1>1. \A u \in Threads \ {t} : q[u].raw # a
  BY DEF Sound, Alone
<1>2. a \in Addresses /\ a \notin Spare(p)
  BY DEF Sound, Alone, Typed, Reqs
<1>3. Alone(r2, p2, q2)
  <2> SUFFICES ASSUME NEW u \in Threads, q2[u].raw # NoRaw
               PROVE  /\ r2[q2[u].raw].state # "none"
                      /\ q2[u].raw \notin Spare(p2)
                      /\ \A v \in Threads : q2[v].raw = q2[u].raw => v = u
    BY DEF Alone
  <2>1. u # t /\ q2[u].raw = q[u].raw /\ q[u].raw \in Addresses \ {a}
    BY <1>1 DEF Sound, Typed, Reqs
  <2>2. /\ r[q[u].raw].state # "none"
        /\ q[u].raw \notin Spare(p)
        /\ \A v \in Threads : q[v].raw = q[u].raw => v = u
    BY <2>1 DEF Sound, Alone
  <2> QED  BY <2>1, <2>2
<1>4. NoneLost(r2, p2, q2)
  <2> SUFFICES ASSUME NEW b \in Addresses
               PROVE  /\ r2[b].state # "none" => b \in Spare(p2) \/ \E u \in Threads : q2[u].raw = b
                      /\ b \in Spare(p2) => r2[b].state \notin {"none", "closed"}
    BY DEF NoneLost
  <2>1. CASE b = a
    BY <1>2, <2>1
  <2>2. CASE b # a
    <3>1. r[b].state # "none" => b \in Spare(p) \/ \E u \in Threads \ {t} : q[u].raw = b
      BY <2>2 DEF Sound, NoneLost
    <3>2. b \in Spare(p) => r[b].state \notin {"none", "closed"}
      BY DEF Sound, NoneLost
    <3> QED  BY <2>2, <3>1, <3>2
  <2> QED  BY <2>1, <2>2
<1>5. Slots(p2, q2)
  <2> SUFFICES ASSUME NEW b \in p2.used
               PROVE  \E u \in Threads : q2[u].raw = b /\ q2[u].pooled
    BY DEF Slots
  <2>1. PICK u \in Threads : q[u].raw = b /\ q[u].pooled
    BY DEF Sound, Slots
  <2> QED  BY <2>1
<1> QED  BY <1>3, <1>4, <1>5 DEF Sound

\* So does making the pool.
LEMMA MakesSound ==
    ASSUME NEW r, NEW r2, NEW p, NEW p2, NEW q, NEW q2, NEW a \in Addresses,
           Sound(r, p, q), Makes(r, r2, p, p2, q, q2, a)
    PROVE  Sound(r2, p2, q2)
<1>fit. Fits
  BY DEF PInv, Sound, Typed
<1> USE <1>fit DEF Fits, Makes, After, OnlyAt
<1>1. Spare(p) = {} /\ p2 \in Pools
  BY IdleSet DEF Sound, Typed, Limit
<1>2. Spare(p2) = {a}
  <2>1. \A b \in Addresses : <<b>> = <<a>> => b = a
    OBVIOUS
  <2> QED  BY <2>1 DEF Spare
<1>3. \A t \in Threads : q[t].raw # a
  BY DEF Sound, Alone
<1>4. Alone(r2, p2, q2)
  <2> SUFFICES ASSUME NEW t \in Threads, q2[t].raw # NoRaw
               PROVE  /\ r2[q2[t].raw].state # "none"
                      /\ q2[t].raw \notin Spare(p2)
                      /\ \A u \in Threads : q2[u].raw = q2[t].raw => u = t
    BY DEF Alone
  <2>1. q2[t].raw = q[t].raw /\ q[t].raw \in Addresses \ {a}
    BY <1>3 DEF Sound, Typed, Reqs
  <2>2. /\ r[q[t].raw].state # "none"
        /\ \A u \in Threads : q[u].raw = q[t].raw => u = t
    BY <2>1 DEF Sound, Alone
  <2> QED  BY <1>2, <2>1, <2>2
<1>5. NoneLost(r2, p2, q2)
  <2> SUFFICES ASSUME NEW b \in Addresses
               PROVE  /\ r2[b].state # "none" => b \in Spare(p2) \/ \E t \in Threads : q2[t].raw = b
                      /\ b \in Spare(p2) => r2[b].state \notin {"none", "closed"}
    BY DEF NoneLost
  <2>1. CASE b = a
    BY <1>2, <2>1
  <2>2. CASE b # a
    <3>1. r[b].state # "none" => \E t \in Threads : q[t].raw = b
      BY <1>1 DEF Sound, NoneLost
    <3> QED  BY <1>2, <2>2, <3>1
  <2> QED  BY <2>1, <2>2
<1>6. Slots(p2, q2)
  BY DEF Slots
<1> QED  BY <1>4, <1>5, <1>6 DEF Sound

\* So does throwing it away.
LEMMA ThrowsSound ==
    ASSUME NEW r, NEW r2, NEW p, NEW p2, NEW q, NEW q2,
           Sound(r, p, q), Throws(r, r2, p, p2, q, q2)
    PROVE  Sound(r2, p2, q2)
<1>fit. Fits
  BY DEF PInv, Sound, Typed
<1> USE <1>fit DEF Fits, Throws, After
<1>1. Spare(p2) = {}
  BY IdleSet DEF Typed
<1>2. Alone(r2, p2, q2)
  <2> SUFFICES ASSUME NEW t \in Threads, q2[t].raw # NoRaw
               PROVE  /\ r2[q2[t].raw].state # "none"
                      /\ \A u \in Threads : q2[u].raw = q2[t].raw => u = t
    BY <1>1 DEF Alone
  <2>1. q2[t].raw = q[t].raw /\ q[t].raw \in Addresses
    BY DEF Sound, Typed, Reqs
  <2>2. /\ r[q[t].raw].state # "none"
        /\ q[t].raw \notin Spare(p)
        /\ \A u \in Threads : q[u].raw = q[t].raw => u = t
    BY <2>1 DEF Sound, Alone
  <2> QED  BY <2>1, <2>2
<1>3. NoneLost(r2, p2, q2)
  BY <1>1 DEF Sound, NoneLost
<1>4. Slots(p2, q2)
  BY DEF Slots
<1> QED  BY <1>2, <1>3, <1>4 DEF Sound

---------------------------------------------------------------------------
\* What the rows of a connection and of a request are.
LEMMA PoolRows ==
    /\ Nothing \in Raws /\ Nothing.state = "none"
    /\ Opened \in Raws /\ Opened.state = "open"
    /\ NoRequest \in Reqs /\ NoRequest.raw = NoRaw /\ NoRequest.pc = "idle"
<1>1. Nothing \in Raws /\ Nothing.state = "none"
  BY DEF Nothing, Raws
<1>2. Opened \in Raws /\ Opened.state = "open"
  BY DEF Nothing, Opened, Raws
<1>3. NoRequest \in Reqs /\ NoRequest.raw = NoRaw /\ NoRequest.pc = "idle"
  BY DEF NoRequest, Reqs, Points, EmptyHanded
<1> QED  BY <1>1, <1>2, <1>3

\* A thread's row while the invariant holds.
LEMMA RowOf ==
    ASSUME PInv, NEW t \in Threads
    PROVE  /\ req \in [Threads -> Reqs] /\ req[t] \in Reqs
           /\ Mine(t) = req[t].raw
           /\ req[t].raw = NoRaw <=> req[t].pc \in EmptyHanded
           /\ req[t].pc \in Pooled => req[t].pooled
           /\ req[t].raw # NoRaw => req[t].raw \in Addresses
           /\ raw \in [Addresses -> Raws]
           /\ pool \in Pools
BY DEF PInv, Sound, Typed, Handed, Mine, Reqs

\* _pg_pool.
LEMMA MakePoolSound ==
    ASSUME PInv, NEW t \in Threads, MakePool(t)
    PROVE  PInv'
<1>fit. Fits
  BY DEF PInv, Sound, Typed
<1> USE <1>fit DEF Fits
<1>1. /\ req[t].pc = "idle" /\ UNCHANGED <<accepts, resolved>>
      /\ req' = [req EXCEPT ![t].pc = IF pool.made \/ accepts THEN "get" ELSE "direct",
                            ![t].gen = IF pool.made \/ accepts THEN pool.gen ELSE 0]
  BY DEF MakePool, At
<1> DEFINE point == IF pool.made \/ accepts THEN "get" ELSE "direct"
           number == IF pool.made \/ accepts THEN pool.gen ELSE 0
<1>6. point \in {"get", "direct"} /\ point \in Points /\ number \in Nat
  BY RowOf DEF Points, EmptyHanded, Pools
<1>7. req' = [req EXCEPT ![t] = [req[t] EXCEPT !.pc = point, !.gen = number]]
  BY <1>1, RowOf
<1> HIDE DEF point, number
<1>8. /\ [req[t] EXCEPT !.pc = point, !.gen = number] \in Reqs
      /\ [req[t] EXCEPT !.pc = point, !.gen = number].raw = req[t].raw
      /\ [req[t] EXCEPT !.pc = point, !.gen = number].pooled = req[t].pooled
      /\ [req[t] EXCEPT !.pc = point, !.gen = number].pc = point
  BY <1>6, RowOf DEF Reqs
<1>2. /\ req' \in [Threads -> Reqs]
      /\ \A u \in Threads : req'[u].raw = req[u].raw /\ req'[u].pooled = req[u].pooled
      /\ \A u \in Threads \ {t} : req'[u] = req[u]
      /\ req'[t].pc \in {"get", "direct"}
  BY <1>6, <1>7, <1>8, RowOf
<1>3. Handed(req')
  BY <1>1, <1>2, RowOf DEF PInv, Sound, Handed, EmptyHanded, Pooled
<1>4. CASE pool.made \/ ~accepts
  <2>1. UNCHANGED <<raw, pool, lastOk>>
    BY <1>4 DEF MakePool
  <2>2. Typed(raw, pool, req')
    BY <1>2 DEF PInv, Sound, Typed
  <2>3. Sound(raw, pool, req)
    BY DEF PInv
  <2>4. \A a \in Addresses : a \in Spare(pool) => raw[a].state # "closed"
    BY <2>3 DEF Sound, NoneLost
  <2>7. Limit(pool)
    BY <2>3 DEF Sound
  <2>5. SameHands(raw, raw, pool, req, req')
    BY <1>2, <1>3, <2>2, <2>4, <2>7 DEF SameHands, After
  <2>6. Sound(raw, pool, req')
    BY <2>3, <2>5, SameHandsSound
  <2> QED  BY <1>1, <2>1, <2>6 DEF PInv
<1>5. CASE ~(pool.made \/ ~accepts)
  <2>1. PICK a \in Addresses : /\ Connect(a)
                               /\ pool' = [pool EXCEPT !.made = TRUE, !.idle = <<a>>, !.used = {}]
                               /\ lastOk' = {}
    BY <1>5 DEF MakePool
  <2>2. raw[a] = Nothing /\ raw' = [raw EXCEPT ![a] = Opened]
    BY <2>1 DEF Connect, NewAt
  <2>3. raw' \in [Addresses -> Raws] /\ raw'[a].state = "open" /\ raw[a].state = "none"
    BY <2>2, RowOf, PoolRows
  <2>4. pool' \in Pools /\ pool'.idle = <<a>> /\ pool'.used = {} /\ pool'.made
    BY <2>1, RowOf DEF Pools
  <2>5. Limit(pool')
    BY <2>4, FS_EmptySet DEF Limit
  <2>6. Typed(raw', pool', req')
    BY <1>2, <2>3, <2>4 DEF Typed
  <2>7. Sound(raw, pool, req)
    BY DEF PInv
  <2>8. \A b \in Addresses \ {a} : raw'[b] = raw[b]
    BY <2>2, RowOf
  <2>9. ~pool.made /\ \A u \in Threads : req'[u].raw = req[u].raw
    BY <1>2, <1>5
  <2>10. Makes(raw, raw', pool, pool', req, req', a)
    BY <1>3, <2>3, <2>4, <2>5, <2>6, <2>8, <2>9 DEF Makes, After, OnlyAt
  <2>11. Sound(raw', pool', req')
    BY <2>7, <2>10, MakesSound
  <2> QED  BY <1>1, <2>1, <2>11 DEF PInv
<1> QED  BY <1>4, <1>5

\* A new connection for a request that holds none.
LEMMA ConnectSound ==
    ASSUME PInv, NEW t \in Threads, NEW a \in Addresses, NEW row,
           req[t].raw = NoRaw,
           NewAt(a), row \in Raws, row.state = "open",
           raw' = [raw EXCEPT ![a] = row],
           req'[t] \in Reqs, req'[t].raw = a, req'[t].pc \notin EmptyHanded, req'[t].pooled \/ req'[t].pc = "use",
           req' = [req EXCEPT ![t] = req'[t]],
           \/ pool' = pool
           \/ pool' = [pool EXCEPT !.used = @ \cup {a}] /\ req'[t].pooled
              /\ pool.idle = <<>> /\ Cardinality(pool.used) # MaxConn /\ pool.made
    PROVE  Sound(raw, pool, req)'
<1>fit. Fits
  BY DEF PInv, Sound, Typed
<1> USE <1>fit DEF Fits
<1>1. Sound(raw, pool, req)
  BY DEF PInv
<1>2. raw[a].state = "none"
  BY PoolRows DEF NewAt
<1>3. raw' \in [Addresses -> Raws] /\ raw'[a] = row /\ \A b \in Addresses \ {a} : raw'[b] = raw[b]
  BY RowOf
<1>4. req' \in [Threads -> Reqs] /\ \A u \in Threads \ {t} : req'[u] = req[u]
  BY RowOf
<1>5. Handed(req')
  BY <1>1, <1>4 DEF Sound, Handed, Pooled, Reqs
<1>6. pool' \in Pools /\ Spare(pool') = Spare(pool)
  BY RowOf DEF Pools, Spare
<1>7. Limit(pool')
  <2>1. CASE pool' = pool
    BY <1>1, <2>1 DEF Sound
  <2>2. CASE pool' # pool
    <3>1. /\ pool'.used = pool.used \cup {a} /\ pool'.idle = <<>> /\ pool'.made
          /\ Cardinality(pool.used) # MaxConn
      BY <2>2, RowOf DEF Pools
    <3>2. /\ IsFiniteSet(pool.used) /\ Cardinality(pool.used) <= MaxConn
          /\ Cardinality(pool.used) \in Nat
      BY <1>1, FS_CardinalityType DEF Sound, Limit
    <3>3. /\ IsFiniteSet(pool.used \cup {a})
          /\ Cardinality(pool.used \cup {a}) \in {Cardinality(pool.used), Cardinality(pool.used) + 1}
      BY <3>2, FS_AddElement
    <3> QED  BY <3>1, <3>2, <3>3 DEF Limit
  <2> QED  BY <2>1, <2>2
<1>8. a \notin Spare(pool)
  BY <1>1, <1>2 DEF Sound, NoneLost
<1>9. pool'.used = pool.used \/ (pool'.used = pool.used \cup {a} /\ req'[t].pooled)
  BY RowOf DEF Pools
<1>10. Typed(raw', pool', req')
  BY <1>3, <1>4, <1>6 DEF Typed
<1>11. Sound(raw', pool', req')
  <2>1. Spare(pool') = Spare(pool) \ {a}
    BY <1>6, <1>8
  <2>2. raw'[a].state # "none"
    BY <1>3
  <2>3. Takes(raw, raw', pool, pool', req, req', t, a)
    BY <1>2, <1>3, <1>4, <1>5, <1>7, <1>9, <1>10, <2>1, <2>2 DEF Takes, After, OnlyAt
  <2> QED  BY <1>1, <2>3, TakesSound
<1> QED  BY <1>11

\* A step of a request, or of the server, that leaves the hands as they are.
LEMMA StaysSound ==
    ASSUME PInv, NEW t \in Threads,
           req' = [req EXCEPT ![t] = req'[t]], req'[t] \in Reqs,
           req'[t].raw = req[t].raw,
           req'[t].pc \in EmptyHanded <=> req[t].pc \in EmptyHanded,
           req[t].pooled => req'[t].pooled \/ req[t].raw = NoRaw,
           req'[t].pc \in Pooled => req'[t].pooled,
           pool' = pool,
           raw' \in [Addresses -> Raws],
           \A a \in Addresses : raw'[a].state = "none" <=> raw[a].state = "none",
           \A a \in Addresses : raw'[a].state = "closed" => raw[a].state = "closed" \/ req[t].raw = a
    PROVE  Sound(raw, pool, req)'
<1>fit. Fits
  BY DEF PInv, Sound, Typed
<1> USE <1>fit DEF Fits
<1>1. Sound(raw, pool, req)
  BY DEF PInv
<1>2. req' \in [Threads -> Reqs] /\ \A u \in Threads \ {t} : req'[u] = req[u]
  BY RowOf
<1>3. Handed(req')
  BY <1>1, <1>2, RowOf DEF Sound, Handed
<1>4. Typed(raw', pool, req') /\ Limit(pool)
  BY <1>1, <1>2 DEF Sound, Typed
<1>5. \A a \in Addresses : a \in Spare(pool) => raw'[a].state # "closed"
  <2> SUFFICES ASSUME NEW a \in Addresses, a \in Spare(pool)
               PROVE  raw'[a].state # "closed"
    OBVIOUS
  <2>1. a # NoRaw /\ raw[a].state # "closed"
    BY <1>1 DEF Sound, NoneLost
  <2>2. req[t].raw # a
    BY <1>1, <2>1 DEF Sound, Alone
  <2> QED  BY <2>1, <2>2
<1>6. \A u \in Threads : /\ req'[u].raw = req[u].raw
                         /\ req[u].pooled => req'[u].pooled \/ req[u].raw = NoRaw
  BY <1>2
<1>7. SameHands(raw, raw', pool, req, req')
  BY <1>3, <1>4, <1>5, <1>6 DEF SameHands, After
<1>8. Sound(raw', pool, req')
  BY <1>1, <1>7, SameHandsSound
<1> QED  BY <1>8

\* A slot of the pool is held by a request that knows it.
LEMMA SlotIsPooled ==
    ASSUME PInv, NEW t \in Threads, req[t].raw # NoRaw, req[t].raw \in pool.used
    PROVE  req[t].pooled
<1>1. PICK u \in Threads : req[u].raw = req[t].raw /\ req[u].pooled
  BY DEF PInv, Sound, Slots
<1>2. u = t
  BY <1>1 DEF PInv, Sound, Alone
<1> QED  BY <1>1, <1>2

\* A connection given back to the pool: it is closed there or kept as the idle one.
LEMMA PutSound ==
    ASSUME PInv, NEW t \in Threads, req[t].raw # NoRaw,
           Put(Mine(t), TRUE) \/ Put(Mine(t), FALSE),
           req' = [req EXCEPT ![t] = req'[t]], req'[t] \in Reqs,
           req'[t].raw = NoRaw, req'[t].pc \in EmptyHanded
    PROVE  Sound(raw, pool, req)'
<1>fit. Fits
  BY DEF PInv, Sound, Typed
<1> USE <1>fit DEF Fits
<1> DEFINE a == Mine(t)
<1>1. Sound(raw, pool, req)
  BY DEF PInv
<1>2. a \in Addresses /\ a = req[t].raw /\ a \in pool.used
  BY RowOf DEF Put
<1> HIDE DEF a
<1>3. req' \in [Threads -> Reqs] /\ OnlyAt(req, req', Threads, t)
  BY RowOf DEF OnlyAt
<1>4. Handed(req')
  BY <1>1, <1>3, RowOf DEF Sound, Handed, OnlyAt, EmptyHanded, Pooled
<1>5. pool \in Pools /\ raw \in [Addresses -> Raws] /\ Limit(pool)
  BY <1>1 DEF Sound, Typed
<1>6. pool.made
  BY <1>2, <1>5 DEF Limit
<1>7. /\ IsFiniteSet(pool.used \ {a})
      /\ Cardinality(pool.used) \in Nat /\ Cardinality(pool.used) <= MaxConn
      /\ Cardinality(pool.used \ {a}) = Cardinality(pool.used) - 1
      /\ pool.idle # <<>> => Cardinality(pool.used) + 1 <= MaxConn
  BY <1>2, <1>5, FS_RemoveElement, FS_CardinalityType DEF Limit
<1>8. CASE /\ pool' = [pool EXCEPT !.used = @ \ {a}, !.idle = Append(@, a)]
           /\ raw' = [raw EXCEPT ![a].tx = FALSE]
           /\ Kept(pool, a)
  <2>1. pool.idle = <<>> /\ Spare(pool) = {} /\ raw[a].state # "closed"
    BY <1>5, <1>8, IdleSet DEF Kept, Closed
  <2>2. Append(pool.idle, a) = <<a>>
    BY <2>1
  <2>3. pool' \in Pools /\ pool'.used = pool.used \ {a} /\ pool'.idle = <<a>> /\ pool'.made
    BY <1>2, <1>5, <1>6, <1>8, <2>2 DEF Pools
  <2>4. Spare(pool') = {a}
    <3>1. \A b \in Addresses : <<b>> = <<a>> => b = a
      OBVIOUS
    <3> QED  BY <1>2, <2>3, <3>1 DEF Spare
  <2>5. Limit(pool')
    BY <1>7, <2>3 DEF Limit
  <2>6. /\ raw' \in [Addresses -> Raws] /\ OnlyAt(raw, raw', Addresses, a)
        /\ raw'[a].state = raw[a].state
    <3>1. raw' = [raw EXCEPT ![a] = [raw[a] EXCEPT !.tx = FALSE]]
      BY <1>8
    <3>2. raw[a] \in Raws
      BY <1>2, <1>5
    <3>3. [raw[a] EXCEPT !.tx = FALSE] \in Raws /\ [raw[a] EXCEPT !.tx = FALSE].state = raw[a].state
      BY <3>2 DEF Raws
    <3> QED  BY <1>2, <1>5, <3>1, <3>3 DEF OnlyAt
  <2>7. raw[a].state # "none"
    BY <1>1, <1>2 DEF Sound, Alone
  <2>8. Typed(raw', pool', req')
    BY <1>3, <2>3, <2>6 DEF Typed
  <2>9. LetsGo(raw, raw', pool, pool', req, req', t, a)
    BY <1>2, <1>3, <1>4, <2>1, <2>3, <2>4, <2>5, <2>6, <2>7, <2>8 DEF LetsGo, After
  <2> QED  BY <1>1, <2>9, LetsGoSound
<1>9. CASE /\ pool' = [pool EXCEPT !.used = @ \ {a}]
           /\ raw' = [raw EXCEPT ![a] = Nothing]
  <2>1. /\ pool' \in Pools /\ pool'.used = pool.used \ {a} /\ pool'.idle = pool.idle
        /\ pool'.made
    BY <1>5, <1>6, <1>9 DEF Pools
  <2>2. Spare(pool') = Spare(pool)
    BY <2>1 DEF Spare
  <2>3. Limit(pool')
    BY <1>7, <2>1 DEF Limit
  <2>4. /\ raw' \in [Addresses -> Raws] /\ OnlyAt(raw, raw', Addresses, a)
        /\ raw'[a].state = "none"
    BY <1>2, <1>5, <1>9, PoolRows DEF OnlyAt
  <2>5. Typed(raw', pool', req')
    BY <1>3, <2>1, <2>4 DEF Typed
  <2>6. LetsGo(raw, raw', pool, pool', req, req', t, a)
    BY <1>2, <1>3, <1>4, <2>1, <2>2, <2>3, <2>4, <2>5 DEF LetsGo, After
  <2> QED  BY <1>1, <2>6, LetsGoSound
<1> QED  BY <1>8, <1>9 DEF Put, a

\* A connection the pool does not know, or that never was of it, is closed.
LEMMA DropSound ==
    ASSUME PInv, NEW t \in Threads, req[t].raw # NoRaw,
           Mine(t) \notin pool.used, pool' = pool,
           raw' = [raw EXCEPT ![Mine(t)] = Nothing],
           req' = [req EXCEPT ![t] = req'[t]], req'[t] \in Reqs,
           req'[t].raw = NoRaw, req'[t].pc \in EmptyHanded
    PROVE  Sound(raw, pool, req)'
<1>fit. Fits
  BY DEF PInv, Sound, Typed
<1> USE <1>fit DEF Fits
<1> DEFINE a == Mine(t)
<1>1. Sound(raw, pool, req)
  BY DEF PInv
<1>2. a \in Addresses /\ a = req[t].raw
  BY RowOf
<1>3. a \notin pool.used /\ raw' = [raw EXCEPT ![a] = Nothing]
  OBVIOUS
<1> HIDE DEF a
<1>4. req' \in [Threads -> Reqs] /\ OnlyAt(req, req', Threads, t)
  BY RowOf DEF OnlyAt
<1>5. Handed(req')
  BY <1>1, <1>4, RowOf DEF Sound, Handed, OnlyAt, EmptyHanded, Pooled
<1>6. /\ raw' \in [Addresses -> Raws] /\ OnlyAt(raw, raw', Addresses, a)
      /\ raw'[a].state = "none"
  BY <1>2, <1>3, RowOf, PoolRows DEF OnlyAt
<1>7. Typed(raw', pool, req') /\ Limit(pool)
  BY <1>1, <1>4, <1>6 DEF Sound, Typed
<1>8. pool.used = pool.used \ {a}
  BY <1>3
<1>9. LetsGo(raw, raw', pool, pool, req, req', t, a)
  BY <1>2, <1>4, <1>5, <1>6, <1>7, <1>8 DEF LetsGo, After
<1>10. Sound(raw', pool, req')
  BY <1>1, <1>9, LetsGoSound
<1> QED  BY <1>10

---------------------------------------------------------------------------
\* getconn: the idle connection, a new one, or none.
LEMMA GetConnSound ==
    ASSUME PInv, NEW t \in Threads, GetConn(t)
    PROVE  PInv'
<1>fit. Fits
  BY DEF PInv, Sound, Typed
<1> USE <1>fit DEF Fits
<1>1. /\ req[t].pc = "get" /\ UNCHANGED <<accepts, resolved, lastOk>>
      /\ req[t].raw = NoRaw
  BY RowOf DEF GetConn, At, EmptyHanded
<1>2. Sound(raw, pool, req) /\ pool \in Pools /\ raw \in [Addresses -> Raws]
  BY RowOf DEF PInv
<1>3. CASE /\ req' = [req EXCEPT ![t] = [NoRequest EXCEPT !.pc = "direct"]]
           /\ UNCHANGED <<raw, pool>>
  <2>1. /\ [NoRequest EXCEPT !.pc = "direct"] \in Reqs
        /\ [NoRequest EXCEPT !.pc = "direct"].raw = NoRaw
        /\ [NoRequest EXCEPT !.pc = "direct"].pc = "direct"
    BY PoolRows DEF Reqs, Points, EmptyHanded
  <2>2. req'[t] = [NoRequest EXCEPT !.pc = "direct"] /\ req' = [req EXCEPT ![t] = req'[t]]
    BY <1>3, RowOf
  <2>3. Sound(raw, pool, req)'
    BY <1>1, <1>2, <1>3, <2>1, <2>2, StaysSound DEF EmptyHanded, Pooled
  <2> QED  BY <1>1, <2>3 DEF PInv
<1>4. ASSUME NEW a \in Addresses,
             req' = [req EXCEPT ![t].pc = "check", ![t].raw = a, ![t].pooled = TRUE]
      PROVE  /\ req' = [req EXCEPT ![t] = req'[t]] /\ req'[t] \in Reqs
             /\ req'[t].raw = a /\ req'[t].pc = "check" /\ req'[t].pooled
  <2>1. req'[t] = [req[t] EXCEPT !.pc = "check", !.raw = a, !.pooled = TRUE]
    BY <1>4, RowOf
  <2>2. /\ req'[t] \in Reqs
        /\ req'[t].raw = a /\ req'[t].pc = "check" /\ req'[t].pooled
    BY <2>1, RowOf DEF Reqs, Points, Pooled
  <2> QED  BY <1>4, <2>2, RowOf
<1>5. CASE /\ ~Stale(t) /\ pool.idle # <<>>
           /\ LET a == Last(pool.idle) IN
                /\ pool' = [pool EXCEPT !.idle = Front(@), !.used = @ \cup {a}]
                /\ req' = [req EXCEPT ![t].pc = "check", ![t].raw = a, ![t].pooled = TRUE]
           /\ UNCHANGED raw
  <2> DEFINE a == Last(pool.idle)
  <2>1. /\ a \in Addresses /\ Spare(pool) = {a} /\ Front(pool.idle) = <<>>
    BY <1>2, <1>5, IdleSet
  <2>2. /\ pool' = [pool EXCEPT !.idle = Front(@), !.used = @ \cup {a}]
        /\ req' = [req EXCEPT ![t].pc = "check", ![t].raw = a, ![t].pooled = TRUE]
    BY <1>5
  <2> HIDE DEF a
  <2>3. /\ pool' \in Pools /\ pool'.idle = <<>> /\ pool'.used = pool.used \cup {a}
        /\ pool'.made = pool.made
    BY <1>2, <2>1, <2>2 DEF Pools
  <2>4. Spare(pool') = {}
    BY <2>3, IdleSet
  <2>5. pool.made
    BY <1>2, <1>5 DEF Sound, Limit
  <2>6. Limit(pool')
    <3>1. /\ IsFiniteSet(pool.used) /\ Cardinality(pool.used) + 1 <= MaxConn
      BY <1>2, <1>5 DEF Sound, Limit
    <3>2. Cardinality(pool.used) \in Nat
      BY <3>1, FS_CardinalityType
    <3>3. /\ IsFiniteSet(pool.used \cup {a})
          /\ Cardinality(pool.used \cup {a}) \in {Cardinality(pool.used), Cardinality(pool.used) + 1}
      BY <3>1, FS_AddElement
    <3> QED  BY <2>3, <2>5, <3>1, <3>2, <3>3 DEF Limit
  <2>7. /\ req' = [req EXCEPT ![t] = req'[t]] /\ req'[t] \in Reqs
        /\ req'[t].raw = a /\ req'[t].pc = "check" /\ req'[t].pooled
    BY <1>4, <2>1, <2>2
  <2>8. req' \in [Threads -> Reqs] /\ OnlyAt(req, req', Threads, t)
    BY <2>7, RowOf DEF OnlyAt
  <2>9. Handed(req')
    BY <1>2, <2>1, <2>7, <2>8 DEF Sound, Handed, OnlyAt, EmptyHanded, Pooled
  <2>10. raw[a].state # "none"
    BY <1>2, <2>1 DEF Sound, NoneLost
  <2>11. Typed(raw, pool', req') /\ OnlyAt(raw, raw, Addresses, a)
    BY <1>2, <2>3, <2>8 DEF Typed, OnlyAt
  <2>12. Takes(raw, raw, pool, pool', req, req', t, a)
    BY <1>1, <2>1, <2>3, <2>4, <2>6, <2>7, <2>8, <2>9, <2>10, <2>11 DEF Takes, After
  <2>13. Sound(raw, pool', req')
    BY <1>2, <2>1, <2>12, TakesSound
  <2> QED  BY <1>1, <1>5, <2>13 DEF PInv
<1>6. CASE /\ ~Stale(t) /\ pool.idle = <<>> /\ ~Exhausted
           /\ \E a \in Addresses :
                /\ Connect(a)
                /\ pool' = [pool EXCEPT !.used = @ \cup {a}]
                /\ req' = [req EXCEPT ![t].pc = "check", ![t].raw = a, ![t].pooled = TRUE]
  <2>1. PICK a \in Addresses :
                /\ Connect(a)
                /\ pool' = [pool EXCEPT !.used = @ \cup {a}]
                /\ req' = [req EXCEPT ![t].pc = "check", ![t].raw = a, ![t].pooled = TRUE]
    BY <1>6
  <2>2. NewAt(a) /\ raw' = [raw EXCEPT ![a] = Opened]
    BY <2>1 DEF Connect
  <2>3. /\ req' = [req EXCEPT ![t] = req'[t]] /\ req'[t] \in Reqs
        /\ req'[t].raw = a /\ req'[t].pc \notin EmptyHanded /\ req'[t].pooled
    BY <1>4, <2>1 DEF EmptyHanded
  <2>4. pool.idle = <<>> /\ Cardinality(pool.used) # MaxConn /\ pool.made
    BY <1>6 DEF Exhausted, Stale
  <2>5. Sound(raw, pool, req)'
    BY <1>1, <2>1, <2>2, <2>3, <2>4, PoolRows, ConnectSound
  <2> QED  BY <1>1, <2>5 DEF PInv
<1> QED  BY <1>3, <1>5, <1>6 DEF GetConn

\* The request that now uses connection a.
LEMMA Using ==
    ASSUME PInv, NEW t \in Threads, NEW a \in Addresses, NEW b \in BOOLEAN, Use(t, a, b)
    PROVE  /\ req' = [req EXCEPT ![t] = req'[t]] /\ req'[t] \in Reqs
           /\ req'[t].raw = a /\ req'[t].pc = "use" /\ req'[t].pooled = b
<1>1. req'[t] = [NoRequest EXCEPT !.pc = "use", !.raw = a, !.pooled = b]
  BY RowOf DEF Use
<1>2. /\ req'[t] \in Reqs
      /\ req'[t].raw = a /\ req'[t].pc = "use" /\ req'[t].pooled = b
  BY <1>1, PoolRows DEF Reqs, Points
<1> QED  BY <1>2, RowOf DEF Use

\* A connection outside the pool, by a direct connect or after every host was tried.
LEMMA ConnectAloneSound ==
    ASSUME PInv, NEW t \in Threads, NEW a \in Addresses, ConnectAlone(t, a),
           req[t].raw = NoRaw, pool' = pool
    PROVE  Sound(raw, pool, req)'
<1> DEFINE row == [Opened EXCEPT !.guarded = TRUE]
<1>1. NewAt(a) /\ raw' = [raw EXCEPT ![a] = row]
  BY DEF ConnectAlone
<1>2. row \in Raws /\ row.state = "open"
  BY DEF Opened, Nothing, Raws
<1> HIDE DEF row
<1>3. /\ req' = [req EXCEPT ![t] = req'[t]] /\ req'[t] \in Reqs
      /\ req'[t].raw = a /\ req'[t].pc = "use"
  BY Using DEF ConnectAlone
<1>4. req'[t].pc \notin EmptyHanded
  BY <1>3 DEF EmptyHanded
<1> QED  BY <1>1, <1>2, <1>3, <1>4, ConnectSound

\* A connection handed out without a probe.
LEMMA TrustedSound ==
    ASSUME PInv, NEW t \in Threads, Trusted(t)
    PROVE  PInv'
<1>fit. Fits
  BY DEF PInv, Sound, Typed
<1> USE <1>fit DEF Fits
<1>1. /\ req[t].pc = "check" /\ UNCHANGED <<accepts, raw, pool, resolved, lastOk>>
      /\ Use(t, Mine(t), TRUE)
  BY DEF Trusted, At
<1>2. Mine(t) = req[t].raw /\ req[t].raw \in Addresses
  BY <1>1, RowOf DEF EmptyHanded
<1>3. /\ req' = [req EXCEPT ![t] = req'[t]] /\ req'[t] \in Reqs
      /\ req'[t].raw = req[t].raw /\ req'[t].pc = "use" /\ req'[t].pooled
  BY <1>1, <1>2, Using
<1>4. Sound(raw, pool, req)'
  BY <1>1, <1>3, RowOf, StaysSound DEF EmptyHanded, Pooled
<1> QED  BY <1>1, <1>4 DEF PInv

\* A corpse is given up; the request tries the pool again or connects directly.
LEMMA CorpseSound ==
    ASSUME PInv, NEW t \in Threads, req[t].pc = "check", Corpse(t)
    PROVE  PInv'
<1>fit. Fits
  BY DEF PInv, Sound, Typed
<1> USE <1>fit DEF Fits
<1>1. Mine(t) = req[t].raw /\ req[t].raw \in Addresses /\ req[t].raw # NoRaw
  BY RowOf DEF EmptyHanded
<1>2. /\ IF Mine(t) \in pool.used
         THEN Put(Mine(t), TRUE)
         ELSE raw' = [raw EXCEPT ![Mine(t)] = Nothing] /\ UNCHANGED pool
      /\ lastOk' = IF Mine(t) \in pool.used THEN lastOk \ {Mine(t)} ELSE lastOk
      /\ UNCHANGED <<accepts, resolved>>
  BY DEF Corpse
<1>3. /\ req' = [req EXCEPT ![t] = req'[t]] /\ req'[t] \in Reqs
      /\ req'[t].raw = NoRaw /\ req'[t].pc \in EmptyHanded
  <2>1. CASE Mine(t) \notin pool.used \/ req[t].tries = 2
    <3>1. req'[t] = [NoRequest EXCEPT !.pc = "direct"]
      BY <2>1, RowOf DEF Corpse
    <3>2. /\ req'[t] \in Reqs /\ req'[t].raw = NoRaw /\ req'[t].pc \in EmptyHanded
      BY <3>1, PoolRows DEF Reqs, Points, EmptyHanded
    <3> QED  BY <3>2, RowOf DEF Corpse
  <2>2. CASE ~(Mine(t) \notin pool.used \/ req[t].tries = 2)
    <3>1. req'[t] = [NoRequest EXCEPT !.pc = "get", !.gen = req[t].gen, !.tries = req[t].tries + 1]
      BY <2>2, RowOf DEF Corpse
    <3>2. req[t].gen \in Nat /\ req[t].tries + 1 \in 0..2
      BY <2>2, RowOf DEF Reqs
    <3>3. /\ req'[t] \in Reqs /\ req'[t].raw = NoRaw /\ req'[t].pc \in EmptyHanded
      BY <3>1, <3>2, PoolRows DEF Reqs, Points, EmptyHanded
    <3> QED  BY <3>3, RowOf DEF Corpse
  <2> QED  BY <2>1, <2>2
<1>4. Sound(raw, pool, req)'
  <2>1. CASE Mine(t) \in pool.used
    BY <1>1, <1>2, <1>3, <2>1, PutSound
  <2>2. CASE Mine(t) \notin pool.used
    BY <1>1, <1>2, <1>3, <2>2, DropSound
  <2> QED  BY <2>1, <2>2
<1>5. lastOk' \subseteq Addresses
  BY <1>2 DEF PInv
<1> QED  BY <1>2, <1>4, <1>5 DEF PInv

\* The probe of a connection.
LEMMA ProbeSound ==
    ASSUME PInv, NEW t \in Threads, Probe(t)
    PROVE  PInv'
<1>fit. Fits
  BY DEF PInv, Sound, Typed
<1> USE <1>fit DEF Fits
<1>1. req[t].pc = "check"
  BY DEF Probe, At
<1>2. CASE Alive(Mine(t))
  <2> DEFINE a == Mine(t)
  <2>1. a = req[t].raw /\ req[t].raw \in Addresses
    BY <1>1, RowOf DEF EmptyHanded
  <2>2. /\ lastOk' = lastOk \cup {a}
        /\ raw' = [raw EXCEPT ![a].guarded = TRUE]
        /\ Use(t, a, TRUE)
        /\ UNCHANGED <<accepts, pool, resolved>>
    BY <1>2 DEF Probe
  <2> HIDE DEF a
  <2>3. raw[a] \in Raws /\ raw' = [raw EXCEPT ![a] = [raw[a] EXCEPT !.guarded = TRUE]]
    BY <2>1, <2>2, RowOf
  <2>4. /\ [raw[a] EXCEPT !.guarded = TRUE] \in Raws
        /\ [raw[a] EXCEPT !.guarded = TRUE].state = raw[a].state
    BY <2>3 DEF Raws
  <2>5. raw' \in [Addresses -> Raws] /\ \A b \in Addresses : raw'[b].state = raw[b].state
    BY <2>1, <2>3, <2>4, RowOf
  <2>6. /\ req' = [req EXCEPT ![t] = req'[t]] /\ req'[t] \in Reqs
        /\ req'[t].raw = req[t].raw /\ req'[t].pc = "use" /\ req'[t].pooled
    BY <2>1, <2>2, Using
  <2>7. Sound(raw, pool, req)'
    BY <1>1, <2>2, <2>5, <2>6, RowOf, StaysSound DEF EmptyHanded, Pooled
  <2> QED  BY <2>1, <2>2, <2>7 DEF PInv
<1>3. CASE ~Alive(Mine(t))
  BY <1>1, <1>3, CorpseSound DEF Probe
<1> QED  BY <1>2, <1>3

\* A request that only moves to another point where it holds nothing.
LEMMA MovesOn ==
    ASSUME PInv, NEW t \in Threads, NEW pc \in EmptyHanded, req[t].pc \in EmptyHanded, Goto(t, pc)
    PROVE  /\ req' = [req EXCEPT ![t] = req'[t]] /\ req'[t] \in Reqs
           /\ req'[t].raw = req[t].raw /\ req'[t].pc = pc /\ req'[t].pooled = req[t].pooled
<1>1. req'[t] = [req[t] EXCEPT !.pc = pc]
  BY RowOf DEF Goto
<1>2. /\ req'[t] \in Reqs
      /\ req'[t].raw = req[t].raw /\ req'[t].pc = pc /\ req'[t].pooled = req[t].pooled
  BY <1>1, RowOf DEF Reqs, Points
<1> QED  BY <1>2, RowOf DEF Goto

\* A direct connection, or the refusal that throws the pool away.
LEMMA DirectSound ==
    ASSUME PInv, NEW t \in Threads, Direct(t)
    PROVE  PInv'
<1>fit. Fits
  BY DEF PInv, Sound, Typed
<1> USE <1>fit DEF Fits
<1>1. /\ req[t].pc = "direct" /\ req[t].raw = NoRaw /\ UNCHANGED <<accepts, lastOk>>
      /\ Sound(raw, pool, req)
  BY RowOf DEF Direct, At, EmptyHanded, PInv
<1>2. CASE /\ \E a \in Addresses : ConnectAlone(t, a)
           /\ UNCHANGED <<pool, resolved>>
  BY <1>1, <1>2, ConnectAloneSound DEF PInv
<1>3. ASSUME resolved' = FALSE, Goto(t, "resolve"), pool.made,
             raw' = [a \in Addresses |-> IF a \in ToSet(pool.idle) THEN Nothing
                                         ELSE IF a \in pool.used THEN [raw[a] EXCEPT !.state = "closed", !.tx = FALSE]
                                         ELSE raw[a]],
             pool' = [made |-> FALSE, gen |-> pool.gen + 1, idle |-> <<>>, used |-> {}]
      PROVE  PInv'
  <2>1. /\ req' = [req EXCEPT ![t] = req'[t]] /\ req'[t] \in Reqs
        /\ req'[t].raw = req[t].raw /\ req'[t].pc = "resolve"
    BY <1>1, <1>3, MovesOn DEF EmptyHanded
  <2>2. req' \in [Threads -> Reqs] /\ \A u \in Threads \ {t} : req'[u] = req[u]
    BY <2>1, RowOf
  <2>3. Handed(req')
    BY <1>1, <2>1, <2>2 DEF Sound, Handed, EmptyHanded, Pooled
  <2>4. pool' \in Pools /\ pool'.idle = <<>> /\ pool'.used = {}
    <3>1. pool.gen + 1 \in Nat
      BY RowOf DEF Pools
    <3>2. pool' = [made |-> FALSE, gen |-> pool.gen + 1, idle |-> <<>>, used |-> {}]
      BY <1>3
    <3>3. {} \subseteq Addresses /\ <<>> \in {<<>>} \cup {<<a>> : a \in Addresses}
      OBVIOUS
    <3> QED  BY <3>1, <3>2, <3>3 DEF Pools
  <2>5. Limit(pool')
    BY <2>4, FS_EmptySet DEF Limit
  <2>6. ASSUME NEW a \in Addresses
        PROVE  /\ raw'[a] \in Raws
               /\ raw'[a].state = "none" <=> raw[a].state = "none" \/ a \in Spare(pool)
    <3>1. CASE a \in Spare(pool)
      <4>1. raw'[a] = Nothing
        BY <1>3, <3>1, IdleSet, RowOf
      <4> QED  BY <3>1, <4>1, PoolRows
    <3>2. CASE a \notin Spare(pool) /\ a \in pool.used
      <4>1. raw'[a] = [raw[a] EXCEPT !.state = "closed", !.tx = FALSE]
        BY <1>3, <3>2, IdleSet, RowOf
      <4>2. raw[a] \in Raws
        BY RowOf
      <4>3. raw'[a] \in Raws /\ raw'[a].state = "closed"
        BY <4>1, <4>2 DEF Raws
      <4>4. PICK u \in Threads : req[u].raw = a
        BY <1>1, <3>2 DEF Sound, Slots
      <4>5. raw[a].state # "none"
        BY <1>1, <4>4 DEF Sound, Alone
      <4> QED  BY <3>2, <4>3, <4>5
    <3>3. CASE a \notin Spare(pool) /\ a \notin pool.used
      <4>1. raw'[a] = raw[a]
        BY <1>3, <3>3, IdleSet, RowOf
      <4> QED  BY <3>3, <4>1, RowOf
    <3> QED  BY <3>1, <3>2, <3>3
  <2>7. raw' \in [Addresses -> Raws]
    BY <1>3, <2>6
  <2>8. Typed(raw', pool', req')
    BY <2>2, <2>4, <2>7 DEF Typed
  <2>9. Throws(raw, raw', pool, pool', req, req')
    BY <2>1, <2>2, <2>3, <2>4, <2>5, <2>6, <2>8 DEF Throws, After
  <2>10. Sound(raw', pool', req')
    BY <1>1, <2>9, ThrowsSound
  <2> QED  BY <1>1, <1>3, <2>10 DEF PInv
<1>4. ASSUME resolved' = FALSE, Goto(t, "resolve"), UNCHANGED <<raw, pool>>
      PROVE  PInv'
  <2>1. /\ req' = [req EXCEPT ![t] = req'[t]] /\ req'[t] \in Reqs
        /\ req'[t].raw = req[t].raw /\ req'[t].pc = "resolve"
    BY <1>1, <1>4, MovesOn DEF EmptyHanded
  <2>2. Sound(raw, pool, req)'
    BY <1>1, <1>4, <2>1, RowOf, StaysSound DEF EmptyHanded, Pooled
  <2> QED  BY <1>1, <1>4, <2>2 DEF PInv
<1> QED  BY <1>2, <1>3, <1>4 DEF Direct

\* Every host is tried.
LEMMA ResolveSound ==
    ASSUME PInv, NEW t \in Threads, Resolve(t)
    PROVE  PInv'
<1>fit. Fits
  BY DEF PInv, Sound, Typed
<1> USE <1>fit DEF Fits
<1>1. /\ req[t].pc \in {"resolve", "idle"} /\ req[t].raw = NoRaw /\ UNCHANGED <<accepts, pool, lastOk>>
  BY RowOf DEF Resolve, At, EmptyHanded
<1>2. CASE /\ \E a \in Addresses : ConnectAlone(t, a)
           /\ resolved' = TRUE
  BY <1>1, <1>2, ConnectAloneSound DEF PInv
<1>3. CASE /\ req' = [req EXCEPT ![t] = NoRequest]
           /\ UNCHANGED <<raw, resolved>>
  <2>1. req'[t] = NoRequest /\ req' = [req EXCEPT ![t] = req'[t]]
    BY <1>3, RowOf
  <2>2. Sound(raw, pool, req)'
    BY <1>1, <1>3, <2>1, PoolRows, RowOf, StaysSound DEF EmptyHanded, Pooled
  <2> QED  BY <1>1, <1>3, <2>2 DEF PInv
<1> QED  BY <1>2, <1>3 DEF Resolve

---------------------------------------------------------------------------
\* A step of the service functions, which may end the transaction of the
\* connection and may break it, but not close it.
LEMMA ServeSound ==
    ASSUME PInv, NEW t \in Threads, req[t].pc = "use",
           req' = [req EXCEPT ![t] = req'[t]], req'[t] \in Reqs,
           req'[t].raw = req[t].raw, req'[t].pc = "use", req'[t].pooled = req[t].pooled,
           raw' \in [Addresses -> Raws],
           \A b \in Addresses \ {Mine(t)} : raw'[b] = raw[b],
           raw'[Mine(t)].state # "none",
           UNCHANGED <<accepts, pool, resolved, lastOk>>
    PROVE  PInv'
<1>fit. Fits
  BY DEF PInv, Sound, Typed
<1> USE <1>fit DEF Fits
<1>1. Mine(t) = req[t].raw /\ req[t].raw \in Addresses /\ req[t].raw # NoRaw
  BY RowOf DEF EmptyHanded
<1>2. raw[Mine(t)].state # "none"
  BY <1>1 DEF PInv, Sound, Alone
<1>3. \A a \in Addresses : /\ raw'[a].state = "none" <=> raw[a].state = "none"
                           /\ raw'[a].state = "closed" => raw[a].state = "closed" \/ req[t].raw = a
  BY <1>1, <1>2
<1>4. Sound(raw, pool, req)'
  BY <1>3, StaysSound DEF EmptyHanded, Pooled
<1> QED  BY <1>4 DEF PInv

\* The row of a request whose unit of work begins or ends.
LEMMA UnitIs ==
    ASSUME PInv, NEW t \in Threads, NEW b \in BOOLEAN, req' = [req EXCEPT ![t].unit = b]
    PROVE  /\ req' = [req EXCEPT ![t] = req'[t]] /\ req'[t] \in Reqs
           /\ req'[t].raw = req[t].raw /\ req'[t].pc = req[t].pc /\ req'[t].pooled = req[t].pooled
<1>1. req'[t] = [req[t] EXCEPT !.unit = b]
  BY RowOf
<1>2. /\ req'[t] \in Reqs
      /\ req'[t].raw = req[t].raw /\ req'[t].pc = req[t].pc /\ req'[t].pooled = req[t].pooled
  BY <1>1, RowOf DEF Reqs
<1> QED  BY <1>2, RowOf

\* The rows of the connections when the transaction of one begins or ends.
LEMMA TxIs ==
    ASSUME PInv, NEW a \in Addresses, NEW b \in BOOLEAN, raw' = [raw EXCEPT ![a].tx = b]
    PROVE  /\ raw' \in [Addresses -> Raws]
           /\ raw'[a].state = raw[a].state
           /\ \A c \in Addresses \ {a} : raw'[c] = raw[c]
<1>1. raw \in [Addresses -> Raws]
  BY DEF PInv, Sound, Typed
<1>2. raw[a] \in Raws /\ raw' = [raw EXCEPT ![a] = [raw[a] EXCEPT !.tx = b]]
  BY <1>1
<1>3. [raw[a] EXCEPT !.tx = b] \in Raws /\ [raw[a] EXCEPT !.tx = b].state = raw[a].state
  BY <1>2 DEF Raws
<1> QED  BY <1>1, <1>2, <1>3

\* A statement succeeds.
LEMMA ExecuteSound ==
    ASSUME PInv, NEW t \in Threads, Execute(t)
    PROVE  PInv'
<1>1. /\ req[t].pc = "use" /\ Alive(Mine(t)) /\ UNCHANGED <<accepts, pool, resolved, lastOk>>
      /\ raw' = [raw EXCEPT ![Mine(t)].tx = TRUE]
      /\ req' = [req EXCEPT ![t].unit = TRUE]
  BY DEF Execute, At
<1>2. Mine(t) \in Addresses /\ raw[Mine(t)].state # "none"
  BY <1>1, RowOf DEF EmptyHanded, Alive
<1>3. /\ raw' \in [Addresses -> Raws]
      /\ raw'[Mine(t)].state # "none"
      /\ \A c \in Addresses \ {Mine(t)} : raw'[c] = raw[c]
  BY <1>1, <1>2, TxIs
<1>4. /\ req' = [req EXCEPT ![t] = req'[t]] /\ req'[t] \in Reqs
      /\ req'[t].raw = req[t].raw /\ req'[t].pc = "use" /\ req'[t].pooled = req[t].pooled
  BY <1>1, UnitIs
<1> QED  BY <1>1, <1>3, <1>4, ServeSound

\* A commit.
LEMMA CommitSound ==
    ASSUME PInv, NEW t \in Threads, CommitUnit(t)
    PROVE  PInv'
<1>1. /\ req[t].pc = "use" /\ Alive(Mine(t)) /\ UNCHANGED <<accepts, pool, resolved, lastOk>>
      /\ raw' = [raw EXCEPT ![Mine(t)].tx = FALSE]
      /\ req' = [req EXCEPT ![t].unit = FALSE]
  BY DEF CommitUnit, At
<1>2. Mine(t) \in Addresses /\ raw[Mine(t)].state # "none"
  BY <1>1, RowOf DEF EmptyHanded, Alive
<1>3. /\ raw' \in [Addresses -> Raws]
      /\ raw'[Mine(t)].state # "none"
      /\ \A c \in Addresses \ {Mine(t)} : raw'[c] = raw[c]
  BY <1>1, <1>2, TxIs
<1>4. /\ req' = [req EXCEPT ![t] = req'[t]] /\ req'[t] \in Reqs
      /\ req'[t].raw = req[t].raw /\ req'[t].pc = "use" /\ req'[t].pooled = req[t].pooled
  BY <1>1, UnitIs
<1> QED  BY <1>1, <1>3, <1>4, ServeSound

\* The connection a request uses is not missing.
LEMMA HeldExists ==
    ASSUME PInv, NEW t \in Threads, req[t].raw # NoRaw
    PROVE  /\ Mine(t) \in Addresses /\ raw[Mine(t)] \in Raws
           /\ raw[Mine(t)].state # "none"
BY RowOf DEF PInv, Sound, Alone

\* A statement fails and the transaction is rolled back.
LEMMA ExecuteFailsSound ==
    ASSUME PInv, NEW t \in Threads, NEW swallowed \in BOOLEAN, ExecuteFails(t, swallowed)
    PROVE  PInv'
<1>fit. Fits
  BY DEF PInv, Sound, Typed
<1> USE <1>fit DEF Fits
<1> DEFINE a == Mine(t)
           left == IF Alive(a) THEN "open" ELSE "closed"
<1>1. req[t].pc = "use" /\ UNCHANGED <<accepts, pool, resolved, lastOk>>
  BY DEF ExecuteFails, At
<1>2. req[t].raw # NoRaw
  BY <1>1, RowOf DEF EmptyHanded
<1>3. a \in Addresses /\ raw[a] \in Raws /\ raw[a].state # "none"
  BY <1>2, HeldExists
<1>4. raw' = raw \/ raw' = [raw EXCEPT ![a].tx = FALSE, ![a].state = left]
  BY DEF ExecuteFails
<1>5. req' = req \/ req' = [req EXCEPT ![t].unit = FALSE]
  BY DEF ExecuteFails
<1>6. left \in {"open", "closed"}
  OBVIOUS
<1> HIDE DEF a, left
<1>7. /\ raw' \in [Addresses -> Raws]
      /\ raw'[a].state # "none"
      /\ \A c \in Addresses \ {a} : raw'[c] = raw[c]
  <2>1. CASE raw' = raw
    BY <1>3, <2>1, RowOf
  <2>2. CASE raw' = [raw EXCEPT ![a].tx = FALSE, ![a].state = left]
    <3>1. raw' = [raw EXCEPT ![a] = [raw[a] EXCEPT !.tx = FALSE, !.state = left]]
      BY <1>3, <2>2, RowOf
    <3>2. /\ [raw[a] EXCEPT !.tx = FALSE, !.state = left] \in Raws
          /\ [raw[a] EXCEPT !.tx = FALSE, !.state = left].state = left
      BY <1>3, <1>6 DEF Raws
    <3> QED  BY <1>3, <1>6, <3>1, <3>2, RowOf
  <2> QED  BY <1>4, <2>1, <2>2
<1>8. /\ req' = [req EXCEPT ![t] = req'[t]] /\ req'[t] \in Reqs
      /\ req'[t].raw = req[t].raw /\ req'[t].pc = "use" /\ req'[t].pooled = req[t].pooled
  <2>1. CASE req' = req
    BY <1>1, <2>1, RowOf
  <2>2. CASE req' = [req EXCEPT ![t].unit = FALSE]
    BY <1>1, <2>2, UnitIs
  <2> QED  BY <1>5, <2>1, <2>2
<1> QED  BY <1>1, <1>7, <1>8, ServeSound DEF a

\* A function refuses without a statement of its own.
LEMMA RefuseSound ==
    ASSUME PInv, NEW t \in Threads, Refuse(t)
    PROVE  PInv'
<1>fit. Fits
  BY DEF PInv, Sound, Typed
<1> USE <1>fit DEF Fits
<1>1. /\ req[t].pc = "use" /\ UNCHANGED <<accepts, raw, pool, resolved, lastOk>>
      /\ req' = [req EXCEPT ![t].unit = FALSE]
  BY DEF Refuse, At
<1>2. req[t].raw # NoRaw
  BY <1>1, RowOf DEF EmptyHanded
<1>3. raw' \in [Addresses -> Raws] /\ raw'[Mine(t)].state # "none"
  BY <1>1, <1>2, HeldExists, RowOf
<1>4. /\ req' = [req EXCEPT ![t] = req'[t]] /\ req'[t] \in Reqs
      /\ req'[t].raw = req[t].raw /\ req'[t].pc = "use" /\ req'[t].pooled = req[t].pooled
  BY <1>1, UnitIs
<1> QED  BY <1>1, <1>3, <1>4, ServeSound

---------------------------------------------------------------------------
\* The teardown closes a connection of its own and readies one of the pool.
LEMMA TeardownSound ==
    ASSUME PInv, NEW t \in Threads, Teardown(t)
    PROVE  PInv'
<1>fit. Fits
  BY DEF PInv, Sound, Typed
<1> USE <1>fit DEF Fits
<1> DEFINE a == Mine(t)
           clean == Alive(a) \/ ~raw[a].tx
           left == IF clean THEN raw[a].state ELSE "closed"
           point == IF clean /\ ~Closed(a) THEN "put" ELSE "putbroken"
<1>1. req[t].pc = "use" /\ UNCHANGED <<accepts, pool, resolved, lastOk>>
  BY DEF Teardown, At
<1>2. req[t].raw # NoRaw /\ a = req[t].raw
  BY <1>1, RowOf DEF EmptyHanded
<1>3. a \in Addresses /\ raw[a] \in Raws /\ raw[a].state # "none"
  BY <1>2, HeldExists
<1>4. CASE ~req[t].pooled
  <2>1. a \notin pool.used
    BY <1>2, <1>4, SlotIsPooled
  <2>2. raw' = [raw EXCEPT ![Mine(t)] = Nothing] /\ req' = [req EXCEPT ![t] = NoRequest]
    BY <1>4 DEF Teardown
  <2>3. /\ req' = [req EXCEPT ![t] = req'[t]] /\ req'[t] \in Reqs
        /\ req'[t].raw = NoRaw /\ req'[t].pc \in EmptyHanded
    BY <2>2, PoolRows, RowOf DEF EmptyHanded
  <2>4. Sound(raw, pool, req)'
    BY <1>1, <1>2, <2>1, <2>2, <2>3, DropSound
  <2> QED  BY <1>1, <2>4 DEF PInv
<1>5. CASE req[t].pooled
  <2>1. /\ raw' = IF Closed(a) THEN raw
                  ELSE [raw EXCEPT ![a].tx = FALSE, ![a].state = IF clean THEN @ ELSE "closed"]
        /\ Goto(t, point)
    BY <1>5 DEF Teardown
  <2>2. point \in Points /\ point \in Pooled /\ point \notin EmptyHanded
    BY DEF Points, Pooled, EmptyHanded
  <2>3. left \in {raw[a].state, "closed"}
    OBVIOUS
  <2>4. raw' = raw \/ raw' = [raw EXCEPT ![a] = [raw[a] EXCEPT !.tx = FALSE, !.state = left]]
    BY <1>3, <2>1, RowOf
  <2> HIDE DEF a, left, point, clean
  <2>5. raw' \in [Addresses -> Raws] /\ raw'[a].state # "none" /\ \A b \in Addresses \ {a} : raw'[b] = raw[b]
    <3>1. CASE raw' = raw
      BY <1>3, <3>1, RowOf
    <3>2. CASE raw' = [raw EXCEPT ![a] = [raw[a] EXCEPT !.tx = FALSE, !.state = left]]
      <4>1. /\ [raw[a] EXCEPT !.tx = FALSE, !.state = left] \in Raws
            /\ [raw[a] EXCEPT !.tx = FALSE, !.state = left].state # "none"
        BY <1>3, <2>3 DEF Raws
      <4> QED  BY <1>3, <3>2, <4>1, RowOf
    <3> QED  BY <2>4, <3>1, <3>2
  <2>6. req'[t] = [req[t] EXCEPT !.pc = point]
    BY <2>1, RowOf DEF Goto
  <2>7. /\ req'[t] \in Reqs
        /\ req'[t].raw = req[t].raw /\ req'[t].pc = point /\ req'[t].pooled
    BY <1>5, <2>2, <2>6, RowOf DEF Reqs
  <2>8. req' = [req EXCEPT ![t] = req'[t]]
    BY <2>1, <2>6, RowOf DEF Goto
  <2>9. \A b \in Addresses : /\ raw'[b].state = "none" <=> raw[b].state = "none"
                             /\ raw'[b].state = "closed" => raw[b].state = "closed" \/ req[t].raw = b
    BY <1>2, <1>3, <2>5
  <2>10. req'[t].pc \notin EmptyHanded /\ req[t].pc \notin EmptyHanded
    BY <1>1, <2>2, <2>7 DEF EmptyHanded
  <2>11. Sound(raw, pool, req)'
    BY <1>1, <2>5, <2>7, <2>8, <2>9, <2>10, StaysSound
  <2> QED  BY <1>1, <2>11 DEF PInv
<1> QED  BY <1>4, <1>5

\* The connection goes back to the pool, or is closed when the pool is another.
LEMMA PutBackSound ==
    ASSUME PInv, NEW t \in Threads, PutBack(t)
    PROVE  PInv'
<1>fit. Fits
  BY DEF PInv, Sound, Typed
<1> USE <1>fit DEF Fits
<1>1. /\ req[t].pc \in {"put", "putbroken"} /\ UNCHANGED <<accepts, resolved>>
      /\ req' = [req EXCEPT ![t] = NoRequest]
  BY DEF PutBack, At
<1>2. req[t].raw # NoRaw
  BY <1>1, RowOf DEF EmptyHanded
<1>3. Mine(t) \in Addresses
  BY <1>2, HeldExists
<1>4. /\ req' = [req EXCEPT ![t] = req'[t]] /\ req'[t] \in Reqs
      /\ req'[t].raw = NoRaw /\ req'[t].pc \in EmptyHanded
  BY <1>1, PoolRows, RowOf DEF EmptyHanded
<1>5. Sound(raw, pool, req)'
  <2>1. CASE Mine(t) \in pool.used
    <3>1. Put(Mine(t), At(t, "putbroken"))
      BY <2>1 DEF PutBack
    <3>2. Put(Mine(t), TRUE) \/ Put(Mine(t), FALSE)
      <4>1. CASE At(t, "putbroken")
        BY <3>1, <4>1 DEF Put
      <4>2. CASE ~At(t, "putbroken")
        BY <3>1, <4>2 DEF Put
      <4> QED  BY <4>1, <4>2
    <3> QED  BY <1>2, <1>4, <3>2, PutSound
  <2>2. CASE Mine(t) \notin pool.used
    <3>1. raw' = [raw EXCEPT ![Mine(t)] = Nothing] /\ pool' = pool
      BY <2>2 DEF PutBack
    <3> QED  BY <1>2, <1>4, <2>2, <3>1, DropSound
  <2> QED  BY <2>1, <2>2
<1>6. lastOk' \subseteq Addresses
  <2>1. lastOk' \subseteq lastOk \cup {Mine(t)}
    BY DEF PutBack
  <2> QED  BY <1>3, <2>1 DEF PInv
<1> QED  BY <1>1, <1>5, <1>6 DEF PInv

\* The server drops a session.
LEMMA ReapSound ==
    ASSUME PInv, NEW a \in Addresses, Reap(a)
    PROVE  PInv'
<1>1. /\ raw[a].state = "open" /\ UNCHANGED <<accepts, pool, resolved, lastOk, req>>
      /\ raw' = [raw EXCEPT ![a].state = "dead", ![a].guarded = FALSE]
  BY DEF Reap, Alive
<1>2. Sound(raw, pool, req) /\ raw \in [Addresses -> Raws] /\ raw[a] \in Raws
  BY DEF PInv, Sound, Typed
<1>3. raw' = [raw EXCEPT ![a] = [raw[a] EXCEPT !.state = "dead", !.guarded = FALSE]]
  BY <1>1, <1>2
<1>4. /\ [raw[a] EXCEPT !.state = "dead", !.guarded = FALSE] \in Raws
      /\ [raw[a] EXCEPT !.state = "dead", !.guarded = FALSE].state = "dead"
  BY <1>2 DEF Raws
<1>5. raw' \in [Addresses -> Raws] /\ raw'[a].state = "dead" /\ \A b \in Addresses \ {a} : raw'[b] = raw[b]
  BY <1>2, <1>3, <1>4
<1>6. Typed(raw', pool, req) /\ Handed(req) /\ Limit(pool)
  BY <1>2, <1>5 DEF Sound, Typed
<1>7. \A b \in Addresses : /\ raw'[b].state = "none" <=> raw[b].state = "none"
                           /\ b \in Spare(pool) => raw'[b].state # "closed"
  BY <1>1, <1>2, <1>5 DEF Sound, NoneLost
<1>8. SameHands(raw, raw', pool, req, req)
  BY <1>6, <1>7 DEF SameHands, After
<1>9. Sound(raw', pool, req)
  BY <1>2, <1>8, SameHandsSound
<1> QED  BY <1>1, <1>9 DEF PInv

---------------------------------------------------------------------------
\* The invariant holds before the first request.
LEMMA PInvInit == Fits /\ PoolInit => PInv
<1> SUFFICES ASSUME Fits, PoolInit PROVE PInv
  OBVIOUS
<1> USE DEF Fits
<1>1. raw \in [Addresses -> Raws] /\ \A a \in Addresses : raw[a].state = "none"
  BY PoolRows DEF PoolInit
<1>2. pool \in Pools /\ pool.idle = <<>> /\ pool.used = {}
  <2>1. {} \subseteq Addresses /\ <<>> \in {<<>>} \cup {<<a>> : a \in Addresses}
    OBVIOUS
  <2> QED  BY <2>1 DEF PoolInit, Pools
<1>3. req \in [Threads -> Reqs] /\ \A t \in Threads : req[t] = NoRequest
  BY PoolRows DEF PoolInit
<1>4. Spare(pool) = {}
  BY <1>2, IdleSet
<1>5. Typed(raw, pool, req)
  BY <1>1, <1>2, <1>3 DEF Typed
<1>6. Handed(req) /\ Alone(raw, pool, req)
  BY <1>3, PoolRows DEF Handed, Alone, EmptyHanded, Pooled
<1>7. NoneLost(raw, pool, req) /\ Slots(pool, req)
  BY <1>1, <1>2, <1>4 DEF NoneLost, Slots
<1>8. Limit(pool)
  BY <1>2, FS_EmptySet DEF Limit
<1> QED  BY <1>5, <1>6, <1>7, <1>8 DEF PInv, Sound, PoolInit

\* Every step keeps the invariant.
LEMMA PInvStep == PInv /\ [PoolNext]_(poolVars) => PInv'
<1> SUFFICES ASSUME PInv, [PoolNext]_(poolVars) PROVE PInv'
  OBVIOUS
<1>1. ASSUME NEW t \in Threads, GetDb(t) PROVE PInv'
  BY <1>1, MakePoolSound, GetConnSound, TrustedSound, ProbeSound, DirectSound, ResolveSound DEF GetDb
<1>2. ASSUME NEW t \in Threads, Serve(t) PROVE PInv'
  BY <1>2, ExecuteSound, ExecuteFailsSound, CommitSound, RefuseSound DEF Serve
<1>3. ASSUME NEW t \in Threads, Close(t) PROVE PInv'
  BY <1>3, TeardownSound, PutBackSound DEF Close
<1>4. ASSUME NEW a \in Addresses, Ages(a) PROVE PInv'
  BY <1>4 DEF Ages, PInv
<1>5. ASSUME ServerTurns PROVE PInv'
  BY <1>5 DEF ServerTurns, PInv
<1>6. CASE UNCHANGED poolVars
  BY <1>6 DEF poolVars, PInv
<1>7. ASSUME NEW a \in Addresses, Reap(a) PROVE PInv'
  BY <1>7, ReapSound
<1>8. CASE PoolNext
  BY <1>1, <1>2, <1>3, <1>4, <1>5, <1>7, <1>8, Zenon DEF PoolNext
<1> QED  BY <1>6, <1>8

\* The invariant is the property: the number of holders follows from who they are.
LEMMA PInvHolder == PInv => OneHolder
<1> SUFFICES ASSUME PInv PROVE OneHolder
  OBVIOUS
<1>fit. Fits
  BY DEF PInv, Sound, Typed
<1> USE <1>fit DEF Fits
<1>1. Sound(raw, pool, req) /\ pool \in Pools /\ raw \in [Addresses -> Raws] /\ req \in [Threads -> Reqs]
  BY DEF PInv, Sound, Typed
<1>2. PoolTypeOK
  <2>1. pool.idle \in BoundedSeq(Addresses, 1)
    <3>1. CASE pool.idle = <<>>
      <4>1. <<>> \in [1..0 -> Addresses]
        OBVIOUS
      <4> QED  BY <3>1, <4>1 DEF BoundedSeq, SeqOf
    <3>2. CASE pool.idle # <<>>
      <4>1. PICK a \in Addresses : pool.idle = <<a>>
        BY <1>1, <3>2 DEF Pools
      <4>2. <<a>> \in [1..1 -> Addresses]
        OBVIOUS
      <4> QED  BY <4>1, <4>2 DEF BoundedSeq, SeqOf
    <3> QED  BY <3>1, <3>2
  <2>2. Cardinality(pool.used) <= MaxConn
    BY <1>1 DEF Sound, Limit
  <2>3. pool.made \in BOOLEAN /\ pool.used \subseteq Addresses
    BY <1>1 DEF Pools
  <2>4. \A t \in Threads : req[t].raw \in Addresses \cup {NoRaw} /\ req[t].tries \in 0..2
    BY <1>1 DEF Reqs
  <2>5. raw \in [Addresses -> [state : {"none", "open", "dead", "closed"}, guarded : BOOLEAN, tx : BOOLEAN]]
    BY <1>1 DEF Raws
  <2>6. accepts \in BOOLEAN /\ resolved \in BOOLEAN /\ lastOk \subseteq Addresses
    BY DEF PInv
  <2>7. Cardinality(pool.used) <= MaxConn
    BY <2>2
  <2> QED  BY <2>1, <2>3, <2>4, <2>5, <2>6, <2>7 DEF PoolTypeOK
<1>3. ToSet(pool.idle) = Spare(pool)
  BY <1>1, IdleSet
<1>4. ASSUME NEW a \in Addresses
      PROVE  /\ raw[a].state = "none" => Holders(a) = {} /\ a \notin Spare(pool)
             /\ raw[a].state # "none" => Cardinality(Holders(a)) = (IF a \in Spare(pool) THEN 0 ELSE 1)
             /\ a \in Spare(pool) => raw[a].state # "closed"
  <2>1. a # NoRaw
    OBVIOUS
  <2>2. a \in Spare(pool) => Holders(a) = {} /\ raw[a].state \notin {"none", "closed"}
    BY <1>1, <2>1 DEF Sound, Alone, NoneLost, Holders
  <2>3. raw[a].state = "none" => Holders(a) = {}
    BY <1>1, <2>1 DEF Sound, Alone, Holders
  <2>4. ASSUME raw[a].state # "none", a \notin Spare(pool)
        PROVE  Cardinality(Holders(a)) = 1
    <3>1. PICK t \in Threads : req[t].raw = a
      BY <1>1, <2>4 DEF Sound, NoneLost
    <3>2. Holders(a) = {t}
      BY <1>1, <2>1, <3>1 DEF Sound, Alone, Holders
    <3> QED  BY <3>2, FS_Singleton
  <2>5. Holders(a) = {} => Cardinality(Holders(a)) = 0
    BY FS_EmptySet
  <2> QED  BY <2>2, <2>3, <2>4, <2>5
<1>5. \A a \in pool.used : \E t \in Holders(a) : req[t].pooled
  BY <1>1 DEF Sound, Slots, Holders
<1>6. \A a \in Addresses : raw[a].state # "none" => Cardinality(Holders(a)) = IF a \in Spare(pool) THEN 0 ELSE 1
  BY <1>4
<1> QED  BY <1>2, <1>3, <1>4, <1>5, <1>6 DEF OneHolder

\* Whatever the server does and however often the pool is thrown away under the
\* requests that use it, a connection is idle in the pool or in the hands of one
\* request, none is lost, every slot belongs to a request that will give it back,
\* and no connection the process closed is handed out (_open_db,
\* release_request_db).
THEOREM NoConnectionLost == PoolSpec => []OneHolder
<1>1. PoolInit => PInv
  BY PInvInit, PoolAssumption
<1>2. PInv /\ [PoolNext]_poolVars => PInv'
  BY PInvStep
<1>3. PInv => OneHolder
  BY PInvHolder
<1> QED  BY <1>1, <1>2, <1>3, PTL DEF PoolSpec

-----------------------------------------------------------------------------
(* The five desks: rows and statements.                                    *)

DesksSafe == Together \cap Harmful = {}

\* What a session finds in a row, having written m on the committed rows d.
View(m, d, r) == IF r \in DOMAIN m THEN m[r] ELSE d[r]

PassedIn(m, d, v) == {k \in Dips : View(m, d, k).status = "approved" /\ View(m, d, k).of = v}

\* The rows a session has written, after a statement more.
Result(st, m, d) ==
  LET row == View(m, d, st.row)
      line == View(m, d, Line)
  IN  CASE st.does = "update" -> IF row.status = "none" THEN m ELSE Over(One(st.row, Over(st.cols, row)), m)
        [] st.does = "add" -> Over(One(st.row, [row EXCEPT ![st.cols] = @ + 1]), m)
        [] st.does = "insert" -> Over(One(st.row, st.cols), m)
        [] st.does = "link" ->
             IF line.item # "none" THEN m ELSE Over(One(Line, [line EXCEPT !.item = st.cols]), m)
        [] st.does = "retire" ->
             Over([v \in {w \in Versions \ {st.row} : View(m, d, w).status = "approved"} |->
                     [status |-> "retired"]], m)
        [] st.does = "ring" ->
             IF row.status = "approved" /\ PassedIn(m, d, st.row) = {}
             THEN Over(One(Bell(st.row), [status |-> "critical"]), m) ELSE m

\* A session executes a statement on its own rows ...
Goes(s) ==
  LET st == Head(job[s].todo)
      rows == Result(st, mine[s], db)
  IN  /\ job[s].todo # <<>> /\ st.does \notin {"commit", "number"}
      /\ st.does = "insert" => ~Made(st.row)
      /\ \A r \in DOMAIN rows \ DOMAIN mine[s] : Free(s, r)
      /\ mine' = [mine EXCEPT ![s] = rows]
      /\ job' = [job EXCEPT ![s] = Finished(job[s])]
      /\ db' = db

\* ... counts the cases ...
Numbers(s) ==
  /\ job[s].todo # <<>> /\ Head(job[s].todo).does = "number"
  /\ \E n \in Cases : job' = [job EXCEPT ![s].todo = NewCase(n)]
  /\ UNCHANGED <<db, mine>>

\* ... commits ...
Commits(s) ==
  /\ job[s].todo # <<>> /\ Head(job[s].todo).does = "commit"
  /\ db' = Over(mine[s], db)
  /\ mine' = [mine EXCEPT ![s] = NoRows]
  /\ job' = [job EXCEPT ![s] = Finished(job[s])]

\* ... or gives up.
Drops(s) ==
  /\ mine' = [mine EXCEPT ![s] = NoRows]
  /\ job' = [job EXCEPT ![s] = Idle]
  /\ db' = db

SessionsTyped ==
  /\ mine = [s \in Sessions |-> mine[s]]
  /\ job = [s \in Sessions |-> job[s]]

\* A function that writes one row.
LEMMA WriteGoes ==
  ASSUME SessionsTyped, NEW s \in Sessions, NEW r, NEW x, Write(s, r, x)
  PROVE  /\ mine' = [mine EXCEPT ![s] = Over(One(r, x), mine[s])]
         /\ \A q \in DOMAIN Over(One(r, x), mine[s]) \ DOMAIN mine[s] : Free(s, q)
         /\ db' = db
<1>1. DOMAIN Over(One(r, x), mine[s]) = {r} \cup DOMAIN mine[s]
  BY DEF Over, One
<1> QED
  BY <1>1 DEF Write, One, SessionsTyped

\* A read leaves what the session has written as it is.
LEMMA ReadGoes ==
  ASSUME SessionsTyped, NEW s \in Sessions, Read
  PROVE  /\ mine' = [mine EXCEPT ![s] = mine[s]]
         /\ \A q \in DOMAIN mine[s] \ DOMAIN mine[s] : Free(s, q)
         /\ db' = db
BY DEF Read, SessionsTyped

\* What a thread does is one of these.
LEMMA WorkKinds ==
  ASSUME SessionsTyped, NEW s \in Sessions, Work(s)
  PROVE  Goes(s) \/ Numbers(s) \/ Commits(s) \/ Drops(s)
<1> DEFINE st == Head(job[s].todo)
           m == mine[s]
<1>seen. \A r : Seen(s, r) = View(m, db, r)
  BY DEF Seen, View
<1>1. CASE ExecuteUpdate(s)
  <2>1. job[s].todo # <<>> /\ st.does = "update" /\ job' = [job EXCEPT ![s] = Finished(job[s])]
    BY <1>1 DEF ExecuteUpdate, Due, Continue, SessionsTyped
  <2>2. Result(st, m, db) = IF View(m, db, st.row).status = "none" THEN m
                            ELSE Over(One(st.row, Over(st.cols, View(m, db, st.row))), m)
    BY <2>1 DEF Result
  <2>3. IF View(m, db, st.row).status = "none" THEN Read
        ELSE Write(s, st.row, Over(st.cols, View(m, db, st.row)))
    BY <1>1, <1>seen DEF ExecuteUpdate, Row, Cols
  <2>4. /\ mine' = [mine EXCEPT ![s] = Result(st, m, db)]
        /\ \A q \in DOMAIN Result(st, m, db) \ DOMAIN m : Free(s, q)
        /\ db' = db
    <3>1. CASE View(m, db, st.row).status = "none"
      BY <3>1, <2>2, <2>3, ReadGoes
    <3>2. CASE View(m, db, st.row).status # "none"
      BY <3>2, <2>2, <2>3, WriteGoes
    <3> QED
      BY <3>1, <3>2
  <2> QED
    BY <2>1, <2>4 DEF Goes
<1>2. CASE ExecuteAdd(s)
  <2>1. job[s].todo # <<>> /\ st.does = "add" /\ job' = [job EXCEPT ![s] = Finished(job[s])]
    BY <1>2 DEF ExecuteAdd, Due, Continue, SessionsTyped
  <2> DEFINE x == [View(m, db, st.row) EXCEPT ![st.cols] = @ + 1]
  <2>2. Result(st, m, db) = Over(One(st.row, x), m)
    BY <2>1 DEF Result
  <2>3. Write(s, st.row, x)
    BY <1>2, <1>seen DEF ExecuteAdd, Row, Cols
  <2> HIDE DEF x
  <2> QED
    BY <2>1, <2>2, <2>3, WriteGoes DEF Goes
<1>3. CASE ExecuteInsert(s)
  <2>1. CASE Rollback(s) /\ Quit(s)
    BY <2>1 DEF Rollback, Quit, Drops
  <2>2. CASE ~Made(Row(s)) /\ Write(s, Row(s), Cols(s)) /\ Continue(s)
    <3>1. job[s].todo # <<>> /\ st.does = "insert" /\ job' = [job EXCEPT ![s] = Finished(job[s])]
      BY <1>3, <2>2 DEF ExecuteInsert, Due, Continue, SessionsTyped
    <3>2. Result(st, m, db) = Over(One(st.row, st.cols), m)
      BY <3>1 DEF Result
    <3>3. Write(s, st.row, st.cols) /\ ~Made(st.row)
      BY <2>2 DEF Row, Cols
    <3> QED
      BY <3>1, <3>2, <3>3, WriteGoes DEF Goes
  <2> QED
    BY <1>3, <2>1, <2>2 DEF ExecuteInsert
<1>4. CASE ExecuteLink(s)
  <2>1. job[s].todo # <<>> /\ st.does = "link" /\ job' = [job EXCEPT ![s] = Finished(job[s])]
    BY <1>4 DEF ExecuteLink, Due, Continue, SessionsTyped
  <2> DEFINE x == [View(m, db, Line) EXCEPT !.item = st.cols]
  <2>2. Result(st, m, db) = IF View(m, db, Line).item # "none" THEN m ELSE Over(One(Line, x), m)
    BY <2>1 DEF Result
  <2>3. IF View(m, db, Line).item # "none" THEN Read ELSE Write(s, Line, x)
    BY <1>4, <1>seen DEF ExecuteLink, Cols
  <2> HIDE DEF x
  <2>4. CASE View(m, db, Line).item # "none"
    BY <2>1, <2>2, <2>3, <2>4, ReadGoes DEF Goes
  <2>5. CASE View(m, db, Line).item = "none"
    BY <2>1, <2>2, <2>3, <2>5, WriteGoes DEF Goes
  <2> QED
    BY <2>4, <2>5
<1>5. CASE ExecuteRetire(s)
  <2>1. job[s].todo # <<>> /\ st.does = "retire" /\ job' = [job EXCEPT ![s] = Finished(job[s])]
    BY <1>5 DEF ExecuteRetire, Due, Continue, SessionsTyped
  <2> DEFINE rows == [v \in {w \in Versions \ {st.row} : View(m, db, w).status = "approved"} |->
                        [status |-> "retired"]]
  <2>2. Result(st, m, db) = Over(rows, m)
    BY <2>1 DEF Result
  <2>3. WriteAll(s, rows)
    BY <1>5, <1>seen DEF ExecuteRetire, Row
  <2> HIDE DEF rows
  <2>4. DOMAIN Over(rows, m) = DOMAIN rows \cup DOMAIN m
    BY DEF Over
  <2>5. /\ mine' = [mine EXCEPT ![s] = Over(rows, m)]
        /\ \A r \in DOMAIN rows : Free(s, r)
        /\ db' = db
    BY <2>3 DEF WriteAll, SessionsTyped
  <2> QED
    BY <2>1, <2>2, <2>4, <2>5 DEF Goes
<1>6. CASE ExecuteRing(s)
  <2>1. job[s].todo # <<>> /\ st.does = "ring" /\ job' = [job EXCEPT ![s] = Finished(job[s])]
    BY <1>6 DEF ExecuteRing, Due, Continue, SessionsTyped
  <2> DEFINE live == View(m, db, st.row).status = "approved" /\ PassedIn(m, db, st.row) = {}
             x == [status |-> "critical"]
  <2>2. Result(st, m, db) = IF live THEN Over(One(Bell(st.row), x), m) ELSE m
    BY <2>1 DEF Result
  <2>3. Passed(s, st.row) = PassedIn(m, db, st.row)
    BY <1>seen DEF Passed, PassedIn
  <2>4. IF live THEN Write(s, Bell(st.row), x) ELSE Read
    BY <1>6, <1>seen, <2>3 DEF ExecuteRing, Row
  <2> HIDE DEF live, x
  <2>5. CASE live
    BY <2>1, <2>2, <2>4, <2>5, WriteGoes DEF Goes
  <2>6. CASE ~live
    BY <2>1, <2>2, <2>4, <2>6, ReadGoes DEF Goes
  <2> QED
    BY <2>5, <2>6
<1>7. CASE ExecuteNumber(s)
  BY <1>7 DEF ExecuteNumber, Due, Read, Numbers
<1>8. CASE ExecuteCommit(s)
  BY <1>8 DEF ExecuteCommit, Due, Commit, Continue, Commits, SessionsTyped
<1>9. CASE LockTimeout(s)
  BY <1>9 DEF LockTimeout, Stop, Rollback, Quit, Drops
<1> QED
  BY <1>1, <1>2, <1>3, <1>4, <1>5, <1>6, <1>7, <1>8, <1>9 DEF Work

\* Lists of statements.
LEMMA List1 ==
  ASSUME NEW a
  PROVE  <<a>> # <<>> /\ Len(<<a>>) = 1 /\ Head(<<a>>) = a
OBVIOUS

\* Two statements: the first, and the one that is left.
LEMMA List2 ==
  ASSUME NEW a, NEW b
  PROVE  <<a, b>> # <<>> /\ Len(<<a, b>>) # 1 /\ Head(<<a, b>>) = a /\ Tail(<<a, b>>) = <<b>>
OBVIOUS

\* Three statements.
LEMMA List3 ==
  ASSUME NEW a, NEW b, NEW c
  PROVE  <<a, b, c>> # <<>> /\ Len(<<a, b, c>>) # 1 /\ Head(<<a, b, c>>) = a /\ Tail(<<a, b, c>>) = <<b, c>>
OBVIOUS

\* Four statements.
LEMMA List4 ==
  ASSUME NEW a, NEW b, NEW c, NEW e
  PROVE  /\ <<a, b, c, e>> # <<>> /\ Len(<<a, b, c, e>>) # 1
         /\ Head(<<a, b, c, e>>) = a /\ Tail(<<a, b, c, e>>) = <<b, c, e>>
OBVIOUS

\* Two lists of one length with the same statements are one list.
LEMMA SameList ==
  ASSUME NEW S, NEW p \in Seq(S), NEW q \in Seq(S), Len(p) = Len(q), \A i \in 1..Len(p) : p[i] = q[i]
  PROVE  p = q
OBVIOUS

\* A statement, then another.
LEMMA Joined11 ==
  ASSUME NEW a, NEW b
  PROVE  <<a>> \o <<b>> = <<a,b>>
<1> DEFINE S == {a,b}
<1>1. <<a>> \in Seq(S) /\ <<b>> \in Seq(S) /\ <<a,b>> \in Seq(S)
  OBVIOUS
<1>2. /\ <<a>> \o <<b>> \in Seq(S) /\ Len(<<a>> \o <<b>>) = 2
      /\ \A i \in 1..2 : (<<a>> \o <<b>>)[i] = IF i <= 1 THEN <<a>>[i] ELSE <<b>>[i - 1]
  BY <1>1, ConcatProperties
<1>3. \A i \in 1..2 : (<<a>> \o <<b>>)[i] = <<a,b>>[i]
  BY <1>2
<1> HIDE DEF S
<1> QED
  BY <1>1, <1>2, <1>3, SameList

\* Two statements, then a third.
LEMMA Joined21 ==
  ASSUME NEW a, NEW b, NEW c
  PROVE  <<a,b>> \o <<c>> = <<a,b,c>>
<1> DEFINE S == {a,b,c}
<1>1. <<a,b>> \in Seq(S) /\ <<c>> \in Seq(S) /\ <<a,b,c>> \in Seq(S)
  OBVIOUS
<1>2. /\ <<a,b>> \o <<c>> \in Seq(S) /\ Len(<<a,b>> \o <<c>>) = 3
      /\ \A i \in 1..3 : (<<a,b>> \o <<c>>)[i] = IF i <= 2 THEN <<a,b>>[i] ELSE <<c>>[i - 2]
  BY <1>1, ConcatProperties
<1>3. \A i \in 1..3 : (<<a,b>> \o <<c>>)[i] = <<a,b,c>>[i]
  BY <1>2
<1> HIDE DEF S
<1> QED
  BY <1>1, <1>2, <1>3, SameList

\* Two statements, then two more.
LEMMA Joined22 ==
  ASSUME NEW a, NEW b, NEW c, NEW e
  PROVE  <<a,b>> \o <<c,e>> = <<a,b,c,e>>
<1> DEFINE S == {a,b,c,e}
<1>1. <<a,b>> \in Seq(S) /\ <<c,e>> \in Seq(S) /\ <<a,b,c,e>> \in Seq(S)
  OBVIOUS
<1>2. /\ <<a,b>> \o <<c,e>> \in Seq(S) /\ Len(<<a,b>> \o <<c,e>>) = 4
      /\ \A i \in 1..4 : (<<a,b>> \o <<c,e>>)[i] = IF i <= 2 THEN <<a,b>>[i] ELSE <<c,e>>[i - 2]
  BY <1>1, ConcatProperties
<1>3. \A i \in 1..4 : (<<a,b>> \o <<c,e>>)[i] = <<a,b,c,e>>[i]
  BY <1>2
<1> HIDE DEF S
<1> QED
  BY <1>1, <1>2, <1>3, SameList

\* A statement, what may stand between, and the commit.
LEMMA Joined ==
  ASSUME NEW a, NEW b, NEW c, NEW e
  PROVE  /\ <<a>> \o <<b>> \o <<c>> = <<a,b,c>>
         /\ <<a>> \o <<>> \o <<b>> = <<a,b>>
<1>1. <<a>> \o <<>> = <<a>>
  OBVIOUS
<1>2. <<a>> \o <<b>> = <<a,b>>
  BY Joined11
<1>3. <<a,b>> \o <<c>> = <<a,b,c>>
  BY Joined21
<1> QED
  BY <1>1, <1>2, <1>3, Zenon

\* Rows over rows.
LEMMA OverIs ==
  ASSUME NEW m, NEW d
  PROVE  /\ DOMAIN Over(m, d) = DOMAIN m \cup DOMAIN d
         /\ \A r \in DOMAIN m : Over(m, d)[r] = m[r]
         /\ \A r \in DOMAIN d \ DOMAIN m : Over(m, d)[r] = d[r]
BY DEF Over

\* A single written row, and its key.
LEMMA OneIs ==
  ASSUME NEW r, NEW x
  PROVE  DOMAIN One(r, x) = {r} /\ One(r, x)[r] = x
BY DEF One

\* The same, of the key alone.
LEMMA OneDomain ==
  ASSUME NEW r, NEW x
  PROVE  DOMAIN One(r, x) = {r}
BY DEF One

\* A session that has written nothing has no row of its own.
LEMMA NoneIs == DOMAIN NoRows = {}
BY DEF NoRows

\* The first and the second row a session writes.
LEMMA FirstRow ==
  ASSUME NEW r, NEW x
  PROVE  Over(One(r, x), NoRows) = One(r, x)
BY NoneIs DEF Over, One

\* The keys of two written rows.
LEMMA TwoRows ==
  ASSUME NEW r, NEW x, NEW q, NEW y
  PROVE  DOMAIN Over(One(r, x), One(q, y)) = {r, q}
BY DEF Over, One

\* The row written last is read as it was written ...
LEMMA RowOver ==
  ASSUME NEW r, NEW x, NEW m
  PROVE  Over(One(r, x), m)[r] = x
BY DEF Over, One

\* ... and the one below it shows through.
LEMMA RowUnder ==
  ASSUME NEW r, NEW x, NEW q, NEW y, r # q
  PROVE  Over(One(r, x), One(q, y))[q] = y
BY DEF Over, One

\* UPDATE ... SET status = x, of the rows the desks have.
LEMMA Restated ==
  ASSUME NEW x
  PROVE  /\ \A y : Over([status |-> x], [status |-> y]) = [status |-> x]
         /\ \A y, l, t : Over([status |-> x], [status |-> y, level |-> l, total |-> t])
                           = [status |-> x, level |-> l, total |-> t]
         /\ \A y, c : Over([status |-> x], [status |-> y, code |-> c]) = [status |-> x, code |-> c]
         /\ \A y, b, e : Over([status |-> x], [status |-> y, by |-> b, decided |-> e])
                           = [status |-> x, by |-> b, decided |-> e]
         /\ \A y, n : Over([status |-> x], [status |-> y, reopens |-> n]) = [status |-> x, reopens |-> n]
         /\ \A y, p : Over([status |-> x], [status |-> y, sheet |-> p]) = [status |-> x, sheet |-> p]
         /\ \A y, v : Over([status |-> x], [status |-> y, of |-> v]) = [status |-> x, of |-> v]
<1>1. DOMAIN [status |-> x] = {"status"} /\ [status |-> x]["status"] = x
  OBVIOUS
<1>2. ASSUME NEW y PROVE Over([status |-> x], [status |-> y]) = [status |-> x]
  BY <1>1 DEF Over
<1>3. ASSUME NEW y, NEW l, NEW t
      PROVE  Over([status |-> x], [status |-> y, level |-> l, total |-> t]) = [status |-> x, level |-> l, total |-> t]
  BY <1>1 DEF Over
<1>4. ASSUME NEW y, NEW c
      PROVE  Over([status |-> x], [status |-> y, code |-> c]) = [status |-> x, code |-> c]
  BY <1>1 DEF Over
<1>5. ASSUME NEW y, NEW b, NEW e
      PROVE  Over([status |-> x], [status |-> y, by |-> b, decided |-> e]) = [status |-> x, by |-> b, decided |-> e]
  BY <1>1 DEF Over
<1>6. ASSUME NEW y, NEW n
      PROVE  Over([status |-> x], [status |-> y, reopens |-> n]) = [status |-> x, reopens |-> n]
  BY <1>1 DEF Over
<1>7. ASSUME NEW y, NEW p
      PROVE  Over([status |-> x], [status |-> y, sheet |-> p]) = [status |-> x, sheet |-> p]
  BY <1>1 DEF Over
<1>8. ASSUME NEW y, NEW v
      PROVE  Over([status |-> x], [status |-> y, of |-> v]) = [status |-> x, of |-> v]
  BY <1>1 DEF Over
<1> QED
  BY <1>2, <1>3, <1>4, <1>5, <1>6, <1>7, <1>8

\* An UPDATE by key of a row that is there.
LEMMA ResultUpdate ==
  ASSUME NEW r, NEW c, NEW m, NEW d, View(m, d, r).status # "none"
  PROVE  Result(Update(r, c), m, d) = Over(One(r, Over(c, View(m, d, r))), m)
<1>1. Update(r, c).does = "update" /\ Update(r, c).row = r /\ Update(r, c).cols = c
  BY DEF Update
<1> QED
  BY <1>1 DEF Result

\* An INSERT.
LEMMA ResultInsert ==
  ASSUME NEW r, NEW x, NEW m, NEW d
  PROVE  Result(Insert(r, x), m, d) = Over(One(r, x), m)
<1>1. Insert(r, x).does = "insert" /\ Insert(r, x).row = r /\ Insert(r, x).cols = x
  BY DEF Insert
<1> QED
  BY <1>1 DEF Result

\* SET column = column + 1, of the row as the session finds it.
LEMMA ResultAdd ==
  ASSUME NEW r, NEW c, NEW m, NEW d
  PROVE  Result(Add(r, c), m, d) = Over(One(r, [View(m, d, r) EXCEPT ![c] = @ + 1]), m)
<1>1. Add(r, c).does = "add" /\ Add(r, c).row = r /\ Add(r, c).cols = c
  BY DEF Add
<1> QED
  BY <1>1 DEF Result

\* What a statement does.
LEMMA Doing ==
  /\ CommitNow.does = "commit" /\ Number.does = "number"
  /\ \A r, c : Update(r, c).does = "update" /\ Update(r, c).row = r
  /\ \A r, x : Insert(r, x).does = "insert" /\ Insert(r, x).row = r
  /\ \A r, c : Add(r, c).does = "add" /\ Add(r, c).row = r
  /\ \A c : Link(c).does = "link"
  /\ \A v : Retire(v).does = "retire" /\ Retire(v).row = v /\ Ring(v).does = "ring" /\ Ring(v).row = v
BY DEF CommitNow, Number, Update, Insert, Add, Link, Retire, Ring

\* The statements on the rows a session has not written yet.
LEMMA ViewNone ==
  ASSUME NEW d, NEW r
  PROVE  View(NoRows, d, r) = d[r]
BY NoneIs DEF View

\* A session that wrote one row finds the others as committed ...
LEMMA ViewOther ==
  ASSUME NEW r, NEW x, NEW d, NEW q, q # r
  PROVE  View(One(r, x), d, q) = d[q]
BY DEF View, One

\* ... and the one it wrote as it wrote it.
LEMMA ViewOwn ==
  ASSUME NEW r, NEW x, NEW m, NEW d
  PROVE  View(Over(One(r, x), m), d, r) = x
<1>1. r \in DOMAIN Over(One(r, x), m)
  BY OneIs DEF Over
<1> QED
  BY <1>1, RowOver DEF View

\* An INSERT, an UPDATE by key as the first statement ...
LEMMA InsertFirst ==
  ASSUME NEW r, NEW x, NEW d
  PROVE  Result(Insert(r, x), NoRows, d) = One(r, x)
BY ResultInsert, FirstRow

\* ... of a row that is there.
LEMMA UpdateFirst ==
  ASSUME NEW r, NEW c, NEW d, d[r].status # "none"
  PROVE  Result(Update(r, c), NoRows, d) = One(r, Over(c, d[r]))
<1>1. View(NoRows, d, r) = d[r]
  BY ViewNone
<1> QED
  BY <1>1, ResultUpdate, FirstRow

\* An UPDATE of a second row.
LEMMA UpdateNext ==
  ASSUME NEW r, NEW x, NEW q, NEW c, NEW d, q # r, d[q].status # "none"
  PROVE  Result(Update(q, c), One(r, x), d) = Over(One(q, Over(c, d[q])), One(r, x))
<1>1. View(One(r, x), d, q) = d[q]
  BY ViewOther
<1> QED
  BY <1>1, ResultUpdate

\* One row over the committed ones.
LEMMA OneOver ==
  ASSUME NEW r, NEW x, NEW d, r \in DOMAIN d
  PROVE  DOMAIN Over(One(r, x), d) = DOMAIN d
BY DEF Over, One

\* The rows next to the one written.
LEMMA OneElse ==
  ASSUME NEW r, NEW x, NEW d, NEW q \in DOMAIN d, q # r
  PROVE  Over(One(r, x), d)[q] = d[q]
BY DEF Over, One

\* Two rows over the committed ones.
LEMMA TwoOver ==
  ASSUME NEW r, NEW x, NEW q, NEW y, NEW d, r \in DOMAIN d, q \in DOMAIN d
  PROVE  DOMAIN Over(Over(One(r, x), One(q, y)), d) = DOMAIN d
<1>1. DOMAIN Over(One(r, x), One(q, y)) = {r, q}
  BY DEF Over, One
<1> QED
  BY <1>1 DEF Over

\* The upper of two written rows ...
LEMMA TwoFirst ==
  ASSUME NEW r, NEW x, NEW q, NEW y, NEW d
  PROVE  Over(Over(One(r, x), One(q, y)), d)[r] = x
<1> DEFINE m == Over(One(r, x), One(q, y))
<1>1. DOMAIN m = {r, q} /\ m[r] = x
  BY DEF Over, One
<1>2. Over(m, d)[r] = x
  <2> HIDE DEF m
  <2> QED
    BY <1>1 DEF Over
<1> QED
  BY <1>2

\* ... the lower ...
LEMMA TwoSecond ==
  ASSUME NEW r, NEW x, NEW q, NEW y, NEW d, q # r
  PROVE  Over(Over(One(r, x), One(q, y)), d)[q] = y
<1> DEFINE m == Over(One(r, x), One(q, y))
<1>1. DOMAIN m = {r, q} /\ m[q] = y
  BY DEF Over, One
<1>2. Over(m, d)[q] = y
  <2> HIDE DEF m
  <2> QED
    BY <1>1 DEF Over
<1> QED
  BY <1>2

\* ... and a row next to both.
LEMMA TwoElse ==
  ASSUME NEW r, NEW x, NEW q, NEW y, NEW d, NEW p \in DOMAIN d, p # r, p # q
  PROVE  Over(Over(One(r, x), One(q, y)), d)[p] = d[p]
<1> DEFINE m == Over(One(r, x), One(q, y))
<1>1. DOMAIN m = {r, q}
  BY DEF Over, One
<1>2. Over(m, d)[p] = d[p]
  <2> HIDE DEF m
  <2> QED
    BY <1>1 DEF Over
<1> QED
  BY <1>2

\* Two functions on one document that may overlap.
MayMeet(f, g) == {f, g} \notin Harmful

-----------------------------------------------------------------------------
(* Factory approvals.                                                      *)

FactoryRows(d) ==
  LET a == d[Approval]
  IN  /\ DOMAIN d = {Approval} \cup {Step(l) : l \in Levels}
      /\ \A l \in Levels : d[Step(l)] = NoRow \/ d[Step(l)] \in [status : {"pending", "approved", "rejected"}]
      /\ a = NoRow \/
           /\ a \in [status : {"auto_approved", "pending", "approved", "rejected"}, level : Nat, total : Nat]
           /\ 1 .. a.total \subseteq Levels
           /\ \A l \in 1 .. a.total : d[Step(l)].status # "none"
           /\ a.level = 1 \/ a.level \in 1 .. a.total
           /\ a.status \in {"pending", "rejected"} => a.level \in 1 .. a.total
           /\ a.status = "pending" =>
                \A l \in 1 .. a.total : d[Step(l)].status = IF l < a.level THEN "approved" ELSE "pending"
           /\ a.status = "approved" => \A l \in 1 .. a.total : d[Step(l)].status = "approved"

Verdict(op) == IF op = "sign" THEN "approved" ELSE "rejected"
Climbs(op, d) == op = "sign" /\ MoreToSign(d[Approval])
Rung(d) == Step(d[Approval].level)

SignRung(op, d) == Update(Rung(d), [status |-> Verdict(op)])
Answer(op, d) == IF Climbs(op, d) THEN Add(Approval, "level") ELSE Update(Approval, [status |-> Verdict(op)])
Signed(op, d) == One(Rung(d), [status |-> Verdict(op)])
AnsweredRow(op, d) ==
  IF Climbs(op, d) THEN [d[Approval] EXCEPT !.level = @ + 1] ELSE [d[Approval] EXCEPT !.status = Verdict(op)]

\* Where a decision on a factory approval stands: a signature found it pending, and it still
\* is; a refusal may have been overtaken by another.
FactoryJob(op, doc, todo, m, d) ==
  /\ op \in {"sign", "refuse"} /\ doc = Approval
  /\ \/ d[Approval].status = "pending"
     \/ op = "refuse" /\ d[Approval].status = "rejected"
  /\ \/ todo = <<SignRung(op, d), Answer(op, d), CommitNow>> /\ m = NoRows
     \/ todo = <<Answer(op, d), CommitNow>> /\ m = Signed(op, d)
     \/ todo = <<CommitNow>> /\ m = Over(One(Approval, AnsweredRow(op, d)), Signed(op, d))

\* What a decision works on.
LEMMA FactoryWork ==
  ASSUME NEW op, NEW doc, NEW todo, NEW m, NEW d, FactoryRows(d), FactoryJob(op, doc, todo, m, d)
  PROVE  /\ d[Approval] = [status |-> d[Approval].status, level |-> d[Approval].level, total |-> d[Approval].total]
         /\ d[Approval].level \in 1 .. d[Approval].total /\ d[Approval].level \in Levels
         /\ d[Approval].total \in Nat
         /\ Rung(d) \in DOMAIN d /\ Rung(d) # Approval
         /\ d[Rung(d)] = [status |-> d[Rung(d)].status] /\ d[Rung(d)].status # "none"
<1> DEFINE a == d[Approval]
<1>1. a.status \in {"pending", "rejected"}
  BY DEF FactoryJob
<1>2. a # NoRow
  BY <1>1 DEF NoRow
<1>3. /\ a \in [status : {"auto_approved", "pending", "approved", "rejected"}, level : Nat, total : Nat]
      /\ 1 .. a.total \subseteq Levels /\ a.level \in 1 .. a.total
  BY <1>1, <1>2 DEF FactoryRows
<1>4. a.level \in Levels
  BY <1>3
<1>5. Rung(d) \in DOMAIN d /\ Rung(d) # Approval
  BY <1>4, DeskAssumption DEF FactoryRows, Rung, Step, Levels
<1>6. d[Rung(d)] = [status |-> d[Rung(d)].status]
  BY <1>4 DEF FactoryRows, Rung, NoRow
<1>7. d[Rung(d)].status # "none"
  BY <1>2, <1>3 DEF FactoryRows, Rung
<1> QED
  BY <1>3, <1>4, <1>5, <1>6, <1>7

\* The row of the approval when it is answered.
LEMMA FactoryAnswer ==
  ASSUME NEW op, NEW doc, NEW todo, NEW m, NEW d, FactoryRows(d), FactoryJob(op, doc, todo, m, d)
  PROVE  AnsweredRow(op, d) =
           [status |-> IF Climbs(op, d) THEN d[Approval].status ELSE Verdict(op),
            level |-> IF Climbs(op, d) THEN d[Approval].level + 1 ELSE d[Approval].level,
            total |-> d[Approval].total]
<1>1. d[Approval] = [status |-> d[Approval].status, level |-> d[Approval].level, total |-> d[Approval].total]
  BY FactoryWork
<1> QED
  BY <1>1 DEF AnsweredRow

\* A statement brings a decision to its next point.
LEMMA FactoryGoes ==
  ASSUME NEW op, NEW doc, NEW todo, NEW m, NEW d, FactoryRows(d), FactoryJob(op, doc, todo, m, d),
         Head(todo).does # "commit"
  PROVE  /\ Len(todo) # 1
         /\ FactoryJob(op, doc, Tail(todo), Result(Head(todo), m, d), d)
<1> DEFINE a == d[Approval]
           x == [status |-> Verdict(op)]
<1>0. /\ a = [status |-> a.status, level |-> a.level, total |-> a.total]
      /\ Rung(d) # Approval /\ d[Rung(d)] = [status |-> d[Rung(d)].status] /\ d[Rung(d)].status # "none"
      /\ a.level \in 1 .. a.total /\ 1 .. a.total \subseteq Levels
      /\ a.status \in {"pending", "rejected"}
  <2>1. a.status \in {"pending", "rejected"}
    BY DEF FactoryJob
  <2>2. 1 .. a.total \subseteq Levels
    BY <2>1 DEF FactoryRows, NoRow
  <2> HIDE DEF a
  <2>3. /\ a = [status |-> a.status, level |-> a.level, total |-> a.total]
        /\ Rung(d) # Approval /\ d[Rung(d)] = [status |-> d[Rung(d)].status] /\ d[Rung(d)].status # "none"
        /\ a.level \in 1 .. a.total
    BY FactoryWork DEF a
  <2> QED
    BY <2>1, <2>2, <2>3
<1>1. CASE todo = <<SignRung(op, d), Answer(op, d), CommitNow>> /\ m = NoRows
  <2>1. Len(todo) # 1 /\ Head(todo) = SignRung(op, d) /\ Tail(todo) = <<Answer(op, d), CommitNow>>
    BY <1>1, List3
  <2>2. View(m, d, Rung(d)) = d[Rung(d)]
    BY <1>1, NoneIs DEF View
  <2>4. Result(SignRung(op, d), m, d) = Over(One(Rung(d), Over(x, d[Rung(d)])), NoRows)
    BY <1>1, <1>0, <2>2, ResultUpdate DEF SignRung
  <2>5. Over(x, d[Rung(d)]) = x
    BY <1>0, Restated
  <2>6. Result(SignRung(op, d), m, d) = Signed(op, d)
    BY <2>4, <2>5, FirstRow DEF Signed
  <2> QED
    BY <2>1, <2>6 DEF FactoryJob
<1>2. CASE todo = <<Answer(op, d), CommitNow>> /\ m = Signed(op, d)
  <2>1. Len(todo) # 1 /\ Head(todo) = Answer(op, d) /\ Tail(todo) = <<CommitNow>>
    BY <1>2, List2
  <2>2. View(m, d, Approval) = a
    <3>1. DOMAIN m = {Rung(d)}
      BY <1>2, OneIs DEF Signed
    <3> QED
      BY <1>0, <3>1 DEF View
  <2>3. CASE Climbs(op, d)
    <3>1. Result(Head(todo), m, d) = Over(One(Approval, [a EXCEPT !["level"] = @ + 1]), m)
      BY <2>1, <2>2, <2>3, ResultAdd DEF Answer
    <3> QED
      BY <1>2, <2>1, <2>3, <3>1 DEF FactoryJob, AnsweredRow
  <2>4. CASE ~Climbs(op, d)
    <3>1. Result(Head(todo), m, d) = Over(One(Approval, Over(x, a)), m)
      BY <1>0, <2>1, <2>2, <2>4, ResultUpdate DEF Answer
    <3>2. Over(x, a) = [a EXCEPT !.status = Verdict(op)]
      <4>1. Over(x, a) = [status |-> Verdict(op), level |-> a.level, total |-> a.total]
        <5>1. PICK y, l, t : a = [status |-> y, level |-> l, total |-> t]
          BY <1>0
        <5> HIDE DEF a
        <5> QED
          BY <5>1 DEF Over
      <4> QED
        BY <4>1, <1>0
    <3> QED
      BY <1>2, <2>1, <2>4, <3>1, <3>2 DEF FactoryJob, AnsweredRow
  <2> QED
    BY <2>3, <2>4
<1>3. todo # <<CommitNow>>
  BY List1, Doing
<1> QED
  BY <1>1, <1>2, <1>3 DEF FactoryJob

\* What a decision commits.
FactoryEnd(op, m, d, e) ==
  /\ DOMAIN m = {Approval, Rung(d)} /\ DOMAIN e = DOMAIN d
  /\ e[Approval] = AnsweredRow(op, d) /\ e[Rung(d)] = [status |-> Verdict(op)]
  /\ \A r \in DOMAIN d \ {Approval, Rung(d)} : e[r] = d[r]

\* A decision that commits has written the signed level and the approval, and nothing else.
LEMMA FactoryCommits ==
  ASSUME NEW op, NEW doc, NEW todo, NEW m, NEW d, FactoryRows(d), FactoryJob(op, doc, todo, m, d),
         Head(todo).does = "commit"
  PROVE  Len(todo) = 1 /\ FactoryEnd(op, m, d, Over(m, d))
<1>1. todo = <<CommitNow>> /\ m = Over(One(Approval, AnsweredRow(op, d)), Signed(op, d))
  <2>1. Head(<<SignRung(op, d), Answer(op, d), CommitNow>>).does # "commit"
    BY List3, Doing DEF SignRung
  <2>2. Head(<<Answer(op, d), CommitNow>>).does # "commit"
    BY List2, Doing DEF Answer
  <2> QED
    BY <2>1, <2>2 DEF FactoryJob
<1>2. Rung(d) # Approval /\ Rung(d) \in DOMAIN d /\ Approval \in DOMAIN d
  BY FactoryWork DEF FactoryRows
<1>3. /\ DOMAIN m = {Approval, Rung(d)}
      /\ m[Approval] = AnsweredRow(op, d) /\ m[Rung(d)] = [status |-> Verdict(op)]
  <2> DEFINE x == AnsweredRow(op, d)
             y == [status |-> Verdict(op)]
  <2>1. m = Over(One(Approval, x), One(Rung(d), y))
    BY <1>1 DEF Signed
  <2>2. m[Rung(d)] = y
    <3> HIDE DEF x, y
    <3> QED
      BY <1>2, <2>1, RowUnder
  <2>3. DOMAIN m = {Approval, Rung(d)} /\ m[Approval] = x
    <3> HIDE DEF x, y
    <3> QED
      BY <2>1 DEF Over, One
  <2> QED
    BY <2>2, <2>3
<1>4. Len(todo) = 1
  BY <1>1, List1
<1> HIDE <1>1
<1> QED
  BY <1>2, <1>3, <1>4 DEF Over, FactoryEnd

\* The rows are good again.
LEMMA FactoryGood ==
  ASSUME NEW op, NEW doc, NEW todo, NEW m, NEW d, FactoryRows(d), FactoryJob(op, doc, todo, m, d),
         Head(todo).does = "commit"
  PROVE  /\ FactoryRows(Over(m, d))
         /\ d[Approval].status \in {"approved", "rejected", "auto_approved"} =>
              Over(m, d)[Approval] = d[Approval]
<1> DEFINE a == d[Approval]
           e == Over(m, d)
           b == e[Approval]
<1>1. /\ a = [status |-> a.status, level |-> a.level, total |-> a.total]
      /\ a.level \in 1 .. a.total /\ a.level \in Levels /\ a.total \in Nat
      /\ Rung(d) \in DOMAIN d /\ Rung(d) # Approval
  BY FactoryWork
<1>2. /\ b = [status |-> IF Climbs(op, d) THEN a.status ELSE Verdict(op),
              level |-> IF Climbs(op, d) THEN a.level + 1 ELSE a.level,
              total |-> a.total]
      /\ DOMAIN e = DOMAIN d
      /\ e[Rung(d)] = [status |-> Verdict(op)]
      /\ \A r \in DOMAIN d \ {Approval, Rung(d)} : e[r] = d[r]
  <2>1. FactoryEnd(op, m, d, e)
    BY FactoryCommits
  <2>2. AnsweredRow(op, d) = [status |-> IF Climbs(op, d) THEN a.status ELSE Verdict(op),
                           level |-> IF Climbs(op, d) THEN a.level + 1 ELSE a.level,
                           total |-> a.total]
    BY FactoryAnswer
  <2> QED
    BY <2>1, <2>2 DEF FactoryEnd
<1> HIDE DEF e
<1>3. a # NoRow /\ 1 .. a.total \subseteq Levels /\ a.level \in Nat
  BY <1>1 DEF FactoryJob, FactoryRows, NoRow
<1>4. \A l \in Levels : Step(l) \in DOMAIN d /\ Step(l) # Approval /\ (Step(l) = Rung(d) <=> l = a.level)
  BY DeskAssumption DEF FactoryRows, Levels, Step, Rung
<1>5. \A l \in Levels : e[Step(l)] = IF l = a.level THEN [status |-> Verdict(op)] ELSE d[Step(l)]
  BY <1>2, <1>4
<1>6. Verdict(op) \in {"approved", "rejected"}
  BY DEF Verdict
<1>7. b.status = (IF Climbs(op, d) THEN a.status ELSE Verdict(op)) /\ b.total = a.total
      /\ b.level = (IF Climbs(op, d) THEN a.level + 1 ELSE a.level)
  BY <1>2
<1>8. \A l \in Levels : e[Step(l)] = NoRow \/ e[Step(l)] \in [status : {"pending", "approved", "rejected"}]
  BY <1>5, <1>6 DEF FactoryRows
<1>9. \A l \in 1 .. a.total : e[Step(l)].status = IF l = a.level THEN Verdict(op) ELSE d[Step(l)].status
  BY <1>3, <1>5
<1>10. \A l \in 1 .. b.total : e[Step(l)].status # "none"
  BY <1>3, <1>6, <1>7, <1>9 DEF FactoryRows
<1>11. CASE Climbs(op, d)
  <2>1. op = "sign" /\ a.level < a.total /\ a.status = "pending" /\ Verdict(op) = "approved"
    BY <1>11 DEF Climbs, MoreToSign, FactoryJob, Verdict
  <2>2. b.level \in 1 .. b.total /\ b.status = "pending" /\ b.level = a.level + 1 /\ b.total = a.total
    BY <1>1, <1>7, <1>11, <2>1
  <2>3. \A l \in 1 .. a.total : d[Step(l)].status = IF l < a.level THEN "approved" ELSE "pending"
    BY <1>3, <2>1 DEF FactoryRows
  <2>4. \A l \in 1 .. b.total : e[Step(l)].status = IF l < b.level THEN "approved" ELSE "pending"
    BY <1>1, <1>9, <2>1, <2>2, <2>3
  <2>5. b \in [status : {"auto_approved", "pending", "approved", "rejected"}, level : Nat, total : Nat]
    BY <1>1, <1>2, <1>11, <2>1
  <2> QED
    BY <1>2, <1>3, <1>8, <1>10, <2>1, <2>2, <2>4, <2>5 DEF FactoryRows, e
<1>12. CASE ~Climbs(op, d)
  <2>1. b = [status |-> Verdict(op), level |-> a.level, total |-> a.total]
    BY <1>2, <1>12
  <2>2. b \in [status : {"auto_approved", "pending", "approved", "rejected"}, level : Nat, total : Nat]
    BY <1>1, <1>3, <1>6, <2>1
  <2>3. ASSUME b.status = "approved"
        PROVE  \A l \in 1 .. b.total : e[Step(l)].status = "approved"
    <3>1. op = "sign" /\ a.level = a.total /\ a.status = "pending" /\ Verdict(op) = "approved"
      BY <1>1, <1>12, <2>1, <2>3 DEF Climbs, MoreToSign, FactoryJob, Verdict
    <3>2. \A l \in 1 .. a.total : d[Step(l)].status = IF l < a.level THEN "approved" ELSE "pending"
      BY <1>3, <3>1 DEF FactoryRows
    <3> QED
      BY <1>1, <1>7, <1>9, <3>1, <3>2
  <2>4. b.status # "pending" /\ b.level \in 1 .. b.total /\ b.total = a.total
    BY <1>1, <1>6, <2>1
  <2>5. a.status \in {"approved", "rejected", "auto_approved"} => b = a
    BY <1>1, <2>1 DEF FactoryJob, Verdict
  <2> QED
    BY <1>2, <1>3, <1>8, <1>10, <2>2, <2>3, <2>4, <2>5 DEF FactoryRows, e
<1> QED
  BY <1>11, <1>12

\* Only refusals overlap, and one leaves the other as it is.
LEMMA FactoryStays ==
  ASSUME NEW op, NEW doc, NEW todo, NEW m, NEW d, FactoryRows(d), FactoryJob(op, doc, todo, m, d),
         Head(todo).does = "commit",
         NEW p, NEW doc2, NEW left, NEW n, FactoryJob(p, doc2, left, n, d),
         doc = doc2 => MayMeet(op, p), DOMAIN m \cap DOMAIN n = {}
  PROVE  FactoryJob(p, doc2, left, n, Over(m, d))
<1> DEFINE e == Over(m, d)
<1>1. op = "refuse" /\ p = "refuse" /\ doc2 = Approval
  <2>1. {"sign", "sign"} \in Harmful /\ {"sign", "refuse"} \in Harmful /\ {"refuse", "sign"} \in Harmful
    BY DEF Harmful
  <2> QED
    BY <2>1 DEF FactoryJob, MayMeet
<1>2. /\ e[Approval] = [status |-> "rejected", level |-> d[Approval].level, total |-> d[Approval].total]
      /\ DOMAIN m = {Approval, Rung(d)}
  <2>0. FactoryEnd(op, m, d, e)
    BY FactoryCommits
  <2>1. DOMAIN m = {Approval, Rung(d)} /\ e[Approval] = AnsweredRow(op, d)
    BY <2>0 DEF FactoryEnd
  <2>2. AnsweredRow(op, d) = [status |-> IF Climbs(op, d) THEN d[Approval].status ELSE Verdict(op),
                           level |-> IF Climbs(op, d) THEN d[Approval].level + 1 ELSE d[Approval].level,
                           total |-> d[Approval].total]
    BY FactoryAnswer
  <2>3. ~Climbs(op, d) /\ Verdict(op) = "rejected"
    BY <1>1 DEF Climbs, Verdict
  <2> QED
    BY <2>1, <2>2, <2>3
<1>3. left = <<SignRung(p, d), Answer(p, d), CommitNow>> /\ n = NoRows
  <2>1. DOMAIN Signed(p, d) = {Rung(d)}
    BY OneIs DEF Signed
  <2>2. DOMAIN Over(One(Approval, AnsweredRow(p, d)), Signed(p, d)) = {Approval, Rung(d)}
    <3>1. DOMAIN One(Approval, AnsweredRow(p, d)) = {Approval}
      BY OneIs
    <3> QED
      BY <2>1, <3>1 DEF Over
  <2>3. Rung(d) \notin DOMAIN n
    BY <1>2
  <2> QED
    BY <2>1, <2>2, <2>3 DEF FactoryJob
<1>4. SignRung(p, e) = SignRung(p, d) /\ Answer(p, e) = Answer(p, d)
  BY <1>1, <1>2 DEF SignRung, Answer, Rung, Climbs
<1> QED
  BY <1>1, <1>2, <1>3, <1>4 DEF FactoryJob

-----------------------------------------------------------------------------
(* Justification reports.                                                  *)

ReportRows(d) ==
  /\ DOMAIN d = {Report}
  /\ \/ d[Report] = NoRow
     \/ d[Report] \in [status : {"draft", "submitted", "approved", "rejected"},
                        by : Engineers, decided : Engineers \cup {"none"}]

Sent(d) == [status |-> "submitted", by |-> d[Report].by, decided |-> d[Report].decided]
Decided(d, x, e) == [status |-> x, by |-> d[Report].by, decided |-> e]

\* A report that is sent was a draft or rejected, one that is signed is submitted; a
\* refusal may have been overtaken by another.
ReportJob(op, doc, todo, m, d) ==
  /\ doc = Report
  /\ \/ /\ op = "send" /\ d[Report].status \in {"draft", "rejected"}
        /\ \/ todo = <<Update(Report, [status |-> "submitted"]), CommitNow>> /\ m = NoRows
           \/ todo = <<CommitNow>> /\ m = One(Report, Sent(d))
     \/ \E x \in {"approved", "rejected"}, e \in Engineers :
          /\ op = IF x = "approved" THEN "endorse" ELSE "decline"
          /\ d[Report].status = "submitted" \/ (x = "rejected" /\ d[Report].status = "rejected")
          /\ \/ todo = <<Update(Report, [status |-> x, decided |-> e]), CommitNow>> /\ m = NoRows
             \/ todo = <<CommitNow>> /\ m = One(Report, Decided(d, x, e))

\* A report somebody works on is there, with its three columns.
LEMMA ReportIs ==
  ASSUME NEW op, NEW doc, NEW todo, NEW m, NEW d, ReportRows(d), ReportJob(op, doc, todo, m, d)
  PROVE  d[Report] = [status |-> d[Report].status, by |-> d[Report].by, decided |-> d[Report].decided]
<1>1. d[Report].status # "none"
  BY DEF ReportJob
<1> QED
  BY <1>1 DEF ReportRows, NoRow

\* UPDATE of a report: the columns that are not set stay.
LEMMA ReportCols ==
  ASSUME NEW d, d[Report] = [status |-> d[Report].status, by |-> d[Report].by, decided |-> d[Report].decided]
  PROVE  /\ Over([status |-> "submitted"], d[Report]) = Sent(d)
         /\ \A x, e : Over([status |-> x, decided |-> e], d[Report]) = Decided(d, x, e)
<1>1. ASSUME NEW b, NEW f, NEW y
      PROVE  /\ Over([status |-> "submitted"], [status |-> y, by |-> b, decided |-> f])
                  = [status |-> "submitted", by |-> b, decided |-> f]
             /\ \A x, e : Over([status |-> x, decided |-> e], [status |-> y, by |-> b, decided |-> f])
                            = [status |-> x, by |-> b, decided |-> e]
  BY DEF Over
<1> QED
  BY <1>1 DEF Sent, Decided

\* A statement brings a function on a report to its next point.
LEMMA ReportGoes ==
  ASSUME NEW op, NEW doc, NEW todo, NEW m, NEW d, ReportRows(d), ReportJob(op, doc, todo, m, d),
         Head(todo).does # "commit"
  PROVE  /\ Len(todo) # 1
         /\ ReportJob(op, doc, Tail(todo), Result(Head(todo), m, d), d)
<1>0. d[Report] = [status |-> d[Report].status, by |-> d[Report].by, decided |-> d[Report].decided]
  BY ReportIs
<1>1. todo # <<CommitNow>>
  BY List1, Doing
<1>2. d[Report].status # "none"
  BY DEF ReportJob
<1>3. ASSUME NEW c, todo = <<Update(Report, c), CommitNow>>, m = NoRows
      PROVE  /\ Len(todo) # 1 /\ Tail(todo) = <<CommitNow>>
             /\ Result(Head(todo), m, d) = One(Report, Over(c, d[Report]))
  <2>1. Len(todo) # 1 /\ Head(todo) = Update(Report, c) /\ Tail(todo) = <<CommitNow>>
    BY <1>3, List2
  <2>2. Result(Update(Report, c), NoRows, d) = One(Report, Over(c, d[Report]))
    BY <1>2, UpdateFirst
  <2> QED
    BY <1>3, <2>1, <2>2
<1>4. CASE op = "send"
  <2>1. todo = <<Update(Report, [status |-> "submitted"]), CommitNow>> /\ m = NoRows
    BY <1>1, <1>4 DEF ReportJob
  <2>2. /\ Len(todo) # 1 /\ Tail(todo) = <<CommitNow>>
        /\ Result(Head(todo), m, d) = One(Report, Over([status |-> "submitted"], d[Report]))
    BY <1>3, <2>1
  <2>3. Over([status |-> "submitted"], d[Report]) = Sent(d)
    BY <1>0, ReportCols
  <2>4. doc = Report /\ d[Report].status \in {"draft", "rejected"}
    BY <1>4 DEF ReportJob
  <2> QED
    BY <1>4, <2>2, <2>3, <2>4 DEF ReportJob
<1>5. CASE op # "send"
  <2>1. PICK x \in {"approved", "rejected"}, e \in Engineers :
          /\ op = IF x = "approved" THEN "endorse" ELSE "decline"
          /\ d[Report].status = "submitted" \/ (x = "rejected" /\ d[Report].status = "rejected")
          /\ todo = <<Update(Report, [status |-> x, decided |-> e]), CommitNow>> /\ m = NoRows
    BY <1>1, <1>5 DEF ReportJob
  <2>2. /\ Len(todo) # 1 /\ Tail(todo) = <<CommitNow>>
        /\ Result(Head(todo), m, d) = One(Report, Over([status |-> x, decided |-> e], d[Report]))
    BY <1>3, <2>1
  <2>3. Over([status |-> x, decided |-> e], d[Report]) = Decided(d, x, e)
    BY <1>0, ReportCols
  <2>4. doc = Report
    BY DEF ReportJob
  <2> QED
    BY <2>1, <2>2, <2>3, <2>4 DEF ReportJob
<1> QED
  BY <1>4, <1>5

\* What a function makes of a report.
Becomes(op) == IF op = "send" THEN "submitted" ELSE IF op = "endorse" THEN "approved" ELSE "rejected"

\* What a step may do to a report.
ReportStep(d, e) == d[Report].status = "approved" => e[Report] = d[Report]

ReportEnd(op, m, d, e) ==
  /\ ReportRows(e) /\ ReportStep(d, e)
  /\ DOMAIN m = {Report} /\ e[Report].status = Becomes(op)

\* The rows are good again after the commit; a signed report was not touched.
LEMMA ReportEnds ==
  ASSUME NEW op, NEW doc, NEW todo, NEW m, NEW d, ReportRows(d), ReportJob(op, doc, todo, m, d),
         Head(todo).does = "commit"
  PROVE  Len(todo) = 1 /\ ReportEnd(op, m, d, Over(m, d))
<1>0. d[Report].status # "none" /\ d[Report].status # "approved"
  BY DEF ReportJob
<1>1. d[Report] \in [status : {"draft", "submitted", "approved", "rejected"}, by : Engineers,
                     decided : Engineers \cup {"none"}]
  BY <1>0 DEF ReportRows, NoRow
<1>2. ASSUME NEW c PROVE todo # <<Update(Report, c), CommitNow>>
  BY List2, Doing
<1>3. todo = <<CommitNow>>
  BY <1>2 DEF ReportJob
<1>4. PICK y \in [status : {"submitted", "approved", "rejected"}, by : Engineers, decided : Engineers \cup {"none"}] :
        /\ m = One(Report, y)
        /\ y.status = Becomes(op)
  <2>1. CASE op = "send"
    <3>1. m = One(Report, Sent(d))
      BY <1>2, <2>1 DEF ReportJob
    <3>2. Sent(d) \in [status : {"submitted", "approved", "rejected"}, by : Engineers, decided : Engineers \cup {"none"}]
          /\ Sent(d).status = "submitted"
      BY <1>1 DEF Sent
    <3> QED
      BY <2>1, <3>1, <3>2 DEF Becomes
  <2>2. CASE op # "send"
    <3>1. PICK x \in {"approved", "rejected"}, e \in Engineers :
            /\ op = IF x = "approved" THEN "endorse" ELSE "decline"
            /\ m = One(Report, Decided(d, x, e))
      BY <1>2, <2>2 DEF ReportJob
    <3>2. Decided(d, x, e) \in [status : {"submitted", "approved", "rejected"}, by : Engineers,
                                decided : Engineers \cup {"none"}]
          /\ Decided(d, x, e).status = x
      BY <1>1 DEF Decided
    <3> QED
      BY <3>1, <3>2 DEF Becomes
  <2> QED
    BY <2>1, <2>2
<1>5. Over(m, d)[Report] = y /\ DOMAIN m = {Report}
  <2>1. DOMAIN One(Report, y) = {Report} /\ One(Report, y)[Report] = y
    BY OneIs
  <2> QED
    BY <1>4, <2>1, RowOver
<1>6. DOMAIN Over(m, d) = {Report}
  BY <1>5 DEF Over, ReportRows
<1>7. Len(todo) = 1
  BY <1>3, List1
<1>8. ReportRows(Over(m, d))
  BY <1>5, <1>6 DEF ReportRows
<1> QED
  BY <1>0, <1>4, <1>5, <1>7, <1>8 DEF ReportEnd, ReportStep

\* Another job stands when one ends.
LEMMA ReportStays ==
  ASSUME NEW op, NEW doc, NEW todo, NEW m, NEW d, ReportRows(d), ReportJob(op, doc, todo, m, d),
         Head(todo).does = "commit",
         NEW p, NEW doc2, NEW left, NEW n, ReportJob(p, doc2, left, n, d),
         doc = doc2 => MayMeet(op, p), DOMAIN m \cap DOMAIN n = {}
  PROVE  ReportJob(p, doc2, left, n, Over(m, d))
<1> DEFINE e == Over(m, d)
<1>0. ReportEnd(op, m, d, e)
  BY ReportEnds
<1> HIDE DEF e
<1>1. DOMAIN m = {Report} /\ e[Report].status = Becomes(op)
  BY <1>0 DEF ReportEnd
<1>2. \A y : n # One(Report, y)
  BY <1>1, OneDomain
<1>3. MayMeet(op, p)
  BY DEF ReportJob
<1>4. ~MayMeet("send", "send") /\ ~MayMeet("endorse", "endorse") /\ ~MayMeet("endorse", "decline")
      /\ ~MayMeet("decline", "endorse")
  BY DEF MayMeet, Harmful
<1>5. op \in {"send", "endorse", "decline"}
  BY DEF ReportJob
<1>6. CASE p = "send"
  <2>1. op = "decline"
    BY <1>3, <1>4, <1>5, <1>6 DEF ReportJob
  <2> QED
    BY <1>1, <1>2, <1>6, <2>1 DEF ReportJob, Becomes, e
<1>7. CASE p # "send"
  <2>1. PICK x \in {"approved", "rejected"}, f \in Engineers :
          /\ p = IF x = "approved" THEN "endorse" ELSE "decline"
          /\ d[Report].status = "submitted" \/ (x = "rejected" /\ d[Report].status = "rejected")
          /\ left = <<Update(Report, [status |-> x, decided |-> f]), CommitNow>> /\ n = NoRows
    BY <1>2, <1>7 DEF ReportJob
  <2>2. x = "rejected" /\ op \in {"send", "decline"}
    BY <1>3, <1>4, <1>5, <2>1 DEF ReportJob
  <2>3. e[Report].status \in {"submitted", "rejected"}
    BY <1>1, <2>2 DEF Becomes
  <2>4. doc2 = Report
    BY DEF ReportJob
  <2> QED
    BY <2>1, <2>2, <2>3, <2>4 DEF ReportJob, e
<1> QED
  BY <1>6, <1>7

\* A function on a report starts from what the row says when it is read (submit_report, decide_report).
LEMMA ReportBegins ==
  ASSUME NEW s \in Sessions, mine[s] = NoRows, ReportRows(db), JustificationDesk(s)
  PROVE  \E op, doc, todo : Begin(s, op, doc, todo) /\ ReportJob(op, doc, todo, NoRows, db)
<1>0. Seen(s, Report) = db[Report]
  BY NoneIs DEF Seen
<1>1. CASE submit_report(s)
  <2> DEFINE todo == <<Update(Report, [status |-> "submitted"]), CommitNow>>
  <2>1. Begin(s, "send", Report, todo) /\ db[Report].status \in {"draft", "rejected"}
    BY <1>0, <1>1 DEF submit_report
  <2>2. ReportJob("send", Report, todo, NoRows, db)
    BY <2>1 DEF ReportJob
  <2> QED
    BY <2>1, <2>2
<1>2. ASSUME NEW e \in Engineers, NEW verdict \in {"approved", "rejected"}, decide_report(s, e, verdict)
      PROVE  \E op, doc, todo : Begin(s, op, doc, todo) /\ ReportJob(op, doc, todo, NoRows, db)
  <2> DEFINE todo == <<Update(Report, [status |-> verdict, decided |-> e]), CommitNow>>
             op == IF verdict = "approved" THEN "endorse" ELSE "decline"
  <2>1. Begin(s, op, Report, todo) /\ db[Report].status = "submitted"
    BY <1>0, <1>2 DEF decide_report, Submitted
  <2>2. ReportJob(op, Report, todo, NoRows, db)
    BY <2>1 DEF ReportJob
  <2> QED
    BY <2>1, <2>2
<1> QED
  BY <1>1, <1>2 DEF JustificationDesk

\* A new report: there was none, so nobody works on one (create_report).
LEMMA ReportRaised ==
  ASSUME NEW e \in Engineers, ReportRows(db), create_report(e)
  PROVE  /\ ReportRows(db') /\ ReportStep(db, db')
         /\ \A op, doc, todo, m : ~ReportJob(op, doc, todo, m, db)
<1> DEFINE x == [status |-> "draft", by |-> e, decided |-> "none"]
<1>1. db' = Over(One(Report, x), db) /\ db[Report].status = "none"
  BY DEF create_report, Create, Made
<1>2. Report \in DOMAIN db
  BY DEF ReportRows
<1>3. db'[Report] = x /\ DOMAIN db' = {Report}
  <2> HIDE DEF x
  <2>1. DOMAIN Over(One(Report, x), db) = DOMAIN db
    BY <1>2, OneOver
  <2> QED
    BY <1>1, <2>1, RowOver DEF ReportRows
<1>4. ReportRows(db')
  BY <1>3 DEF ReportRows
<1>5. \A op, doc, todo, m : ~ReportJob(op, doc, todo, m, db)
  BY <1>1 DEF ReportJob
<1> QED
  BY <1>1, <1>4, <1>5 DEF ReportStep

\* A decision starts on a pending approval (decide).
LEMMA FactoryBegins ==
  ASSUME NEW s \in Sessions, mine[s] = NoRows, FactoryRows(db), FactoryDesk(s)
  PROVE  \E op, doc, todo : Begin(s, op, doc, todo) /\ FactoryJob(op, doc, todo, NoRows, db)
<1>0. \A r : Seen(s, r) = db[r]
  BY NoneIs DEF Seen
<1> DEFINE a == db[Approval]
<1>1. PICK verdict \in {"approved", "rejected"} : decide(s, verdict)
  BY DEF FactoryDesk
<1> DEFINE op == IF verdict = "approved" THEN "sign" ELSE "refuse"
<1>2. a.status = "pending"
  BY <1>0, <1>1 DEF decide, Open, FactoryRows, NoRow
<1>3. a.level \in 1 .. a.total /\ a.level \in Levels /\ db[Step(a.level)].status = "pending"
  <2>1. /\ a.level \in 1 .. a.total /\ 1 .. a.total \subseteq Levels /\ a.total \in Nat
        /\ \A l \in 1 .. a.total : db[Step(l)].status = IF l < a.level THEN "approved" ELSE "pending"
    BY <1>2 DEF FactoryRows, NoRow
  <2> QED
    BY <2>1
<1>4. SignStep(s, a, verdict) = <<Update(Step(a.level), [status |-> verdict])>>
  <2>1. Step(a.level) \in DOMAIN db
    BY <1>3 DEF FactoryRows
  <2> QED
    BY <1>0, <1>3, <2>1 DEF SignStep
<1>5. verdict = Verdict(op)
  BY DEF Verdict
<1>6. SignStep(s, a, verdict) = <<SignRung(op, db)>>
  BY <1>4, <1>5 DEF SignRung, Rung
<1>7. (IF verdict = "approved" /\ MoreToSign(a) THEN <<Add(Approval, "level")>>
       ELSE <<Update(Approval, [status |-> verdict])>>) = <<Answer(op, db)>>
  BY <1>5 DEF Answer, Climbs
<1>8. <<SignRung(op, db)>> \o <<Answer(op, db)>> \o <<CommitNow>> = <<SignRung(op, db), Answer(op, db), CommitNow>>
  BY Joined
<1>9. Begin(s, op, Approval, <<SignRung(op, db), Answer(op, db), CommitNow>>)
  BY <1>0, <1>1, <1>6, <1>7, <1>8 DEF decide
<1>10. FactoryJob(op, Approval, <<SignRung(op, db), Answer(op, db), CommitNow>>, NoRows, db)
  BY <1>2 DEF FactoryJob
<1> QED
  BY <1>9, <1>10

FactoryStep(d, e) ==
  d[Approval].status \in {"approved", "rejected", "auto_approved"} => e[Approval] = d[Approval]

\* A new approval: there was none, so nobody decides on one (submit).
LEMMA FactoryRaised ==
  ASSUME NEW L \in Ladders, FactoryRows(db), submit(L)
  PROVE  /\ FactoryRows(db') /\ FactoryStep(db, db')
         /\ \A op, doc, todo, m : ~FactoryJob(op, doc, todo, m, db)
<1> DEFINE a == [status |-> IF L = {} THEN "auto_approved" ELSE "pending", level |-> 1, total |-> Cardinality(L)]
           rungs == [r \in {Step(l) : l \in L} |-> [status |-> "pending"]]
<1>1. db' = Over(Over(One(Approval, a), rungs), db) /\ db[Approval].status = "none"
  BY DEF submit, Create, Made
<1>2. IsFiniteSet(L) /\ L = 1 .. Cardinality(L) /\ L \subseteq Levels /\ Cardinality(L) \in Nat
  BY DeskAssumption, FS_CardinalityType DEF Levels
<1>3. /\ DOMAIN rungs = {Step(l) : l \in L} /\ \A l \in L : rungs[Step(l)] = [status |-> "pending"]
  OBVIOUS
<1>4. \A l \in Levels : Step(l) # Approval /\ \A k \in Levels : Step(l) = Step(k) => l = k
  BY DeskAssumption DEF Levels, Step
<1>5. /\ DOMAIN db' = DOMAIN db /\ db'[Approval] = a
      /\ \A l \in L : db'[Step(l)] = [status |-> "pending"]
      /\ \A l \in Levels \ L : db'[Step(l)] = db[Step(l)]
  <2> HIDE DEF a, rungs
  <2> DEFINE new == Over(One(Approval, a), rungs)
  <2>1. DOMAIN new = {Approval} \cup {Step(l) : l \in L}
    BY <1>3 DEF Over, One
  <2>2. new[Approval] = a
    BY RowOver
  <2>3. \A l \in L : new[Step(l)] = [status |-> "pending"]
    <3>1. ASSUME NEW l \in L PROVE new[Step(l)] = rungs[Step(l)]
      <4>1. Step(l) # Approval /\ Step(l) \in DOMAIN rungs
        BY <1>2, <1>3, <1>4
      <4> QED
        BY <4>1 DEF Over, One
    <3> QED
      BY <1>3, <3>1
  <2> HIDE DEF new
  <2>4. db' = Over(new, db)
    BY <1>1 DEF new
  <2>5. DOMAIN db = {Approval} \cup {Step(l) : l \in Levels}
    BY DEF FactoryRows
  <2>6. DOMAIN new \subseteq DOMAIN db
    BY <1>2, <2>1, <2>5
  <2>7. DOMAIN db' = DOMAIN db /\ db'[Approval] = a
    BY <2>1, <2>2, <2>4, <2>6 DEF Over
  <2>8. \A l \in L : db'[Step(l)] = [status |-> "pending"]
    BY <2>1, <2>3, <2>4 DEF Over
  <2>9. ASSUME NEW l \in Levels \ L PROVE db'[Step(l)] = db[Step(l)]
    <3>1. Step(l) \notin DOMAIN new /\ Step(l) \in DOMAIN db
      BY <1>2, <1>4, <2>1, <2>5
    <3> QED
      BY <2>4, <3>1 DEF Over
  <2> QED
    BY <2>7, <2>8, <2>9
<1>6. FactoryRows(db')
  <2>1. DOMAIN db' = {Approval} \cup {Step(l) : l \in Levels}
    BY <1>5 DEF FactoryRows
  <2>2. \A l \in Levels : db'[Step(l)] = NoRow \/ db'[Step(l)] \in [status : {"pending", "approved", "rejected"}]
    BY <1>5 DEF FactoryRows
  <2>3. a.total = Cardinality(L) /\ a.level = 1 /\ a.status = (IF L = {} THEN "auto_approved" ELSE "pending")
        /\ a \in [status : {"auto_approved", "pending", "approved", "rejected"}, level : Nat, total : Nat]
    BY <1>2
  <2> HIDE DEF a
  <2>4. 1 .. a.total = L
    BY <1>2, <2>3
  <2>5. a.status \in {"pending", "rejected"} => a.level \in 1 .. a.total
    BY <1>2, <2>3
  <2>6. /\ 1 .. a.total \subseteq Levels
        /\ \A l \in 1 .. a.total : db'[Step(l)].status = "pending"
        /\ \A l \in 1 .. a.total : ~(l < a.level)
    BY <1>2, <1>5, <2>3, <2>4
  <2> QED
    BY <1>5, <2>1, <2>2, <2>3, <2>5, <2>6 DEF FactoryRows
<1>7. \A op, doc, todo, m : ~FactoryJob(op, doc, todo, m, db)
  BY <1>1 DEF FactoryJob
<1> QED
  BY <1>1, <1>6, <1>7 DEF FactoryStep

-----------------------------------------------------------------------------
(* New items for the catalogue.                                            *)

NewItem(q) == [status |-> "active", of |-> q]
Granted(c) == [status |-> "approved", code |-> c]
Denied == [status |-> "rejected", code |-> "none"]
Linked(c) == [status |-> "typed", item |-> c]

CatalogueRows(d) ==
  /\ DOMAIN d = ItemRequests \cup Codes \cup {Line}
  /\ \A q \in ItemRequests :
       \/ d[q] = NoRow
       \/ d[q] \in [status : {"pending", "rejected"}, code : {"none"}]
       \/ \E c \in Codes : d[q] = Granted(c) /\ d[c] = NewItem(q)
  /\ \A c \in Codes : d[c] = NoRow \/ \E q \in ItemRequests : d[c] = NewItem(q) /\ d[q] = Granted(c)
  /\ \E i \in Codes \cup {"none"} : d[Line] = Linked(i) /\ (i # "none" => d[i].status # "none")

\* An item is made for a request that waits, under a code nobody has; a refusal may have
\* been overtaken by another.
ItemJob(q, c, todo, m, d) ==
  /\ d[q] = [status |-> "pending", code |-> "none"]
  /\ \/ /\ todo = <<Insert(c, NewItem(q)), Update(q, Granted(c)), Link(c), CommitNow>> /\ m = NoRows
     \/ /\ todo = <<Update(q, Granted(c)), Link(c), CommitNow>> /\ m = One(c, NewItem(q))
        /\ d[c] = NoRow
     \/ /\ todo = <<Link(c), CommitNow>> /\ m = Over(One(q, Granted(c)), One(c, NewItem(q)))
        /\ d[c] = NoRow
     \/ /\ todo = <<CommitNow>> /\ d[c] = NoRow
        /\ \/ m = Over(One(q, Granted(c)), One(c, NewItem(q)))
           \/ m = Over(One(Line, Linked(c)), Over(One(q, Granted(c)), One(c, NewItem(q))))

DenyJob(q, todo, m, d) ==
  /\ d[q] \in [status : {"pending", "rejected"}, code : {"none"}]
  /\ \/ todo = <<Update(q, [status |-> "rejected"]), CommitNow>> /\ m = NoRows
     \/ todo = <<CommitNow>> /\ m = One(q, Denied)

CatalogueJob(op, doc, todo, m, d) ==
  /\ doc \in ItemRequests
  /\ \/ op = "catalogue" /\ \E c \in Codes : ItemJob(doc, c, todo, m, d)
     \/ op = "deny" /\ DenyJob(doc, todo, m, d)

\* The columns of an answered request ...
LEMMA Regranted ==
  ASSUME NEW c
  PROVE  /\ Over(Granted(c), [status |-> "pending", code |-> "none"]) = Granted(c)
         /\ \A x : Over([status |-> "rejected"], [status |-> x, code |-> "none"]) = Denied
BY DEF Over, Granted, Denied

\* ... and of the line, with the item it is bound to.
LEMMA Relinked ==
  ASSUME NEW c, NEW i
  PROVE  [Linked(i) EXCEPT !.item = c] = Linked(c)
BY DEF Linked

\* Requests, codes and the line are rows of their own.
LEMMA CatalogueApart ==
  ASSUME NEW q \in ItemRequests, NEW c \in Codes
  PROVE  q # c /\ Line # q /\ Line # c
BY DeskAssumption

\* A statement brings it to its next point.
LEMMA ItemGoes ==
  ASSUME NEW q \in ItemRequests, NEW c \in Codes, NEW todo, NEW m, NEW d, CatalogueRows(d),
         ItemJob(q, c, todo, m, d), Head(todo).does # "commit",
         Head(todo).does = "insert" => d[Head(todo).row].status = "none"
  PROVE  Len(todo) # 1 /\ ItemJob(q, c, Tail(todo), Result(Head(todo), m, d), d)
<1>0. q # c /\ Line # q /\ Line # c
  BY CatalogueApart
<1>1. d[q] = [status |-> "pending", code |-> "none"]
  BY DEF ItemJob
<1>2. todo # <<CommitNow>>
  BY List1, Doing
<1>3. CASE todo = <<Insert(c, NewItem(q)), Update(q, Granted(c)), Link(c), CommitNow>> /\ m = NoRows
  <2>1. Len(todo) # 1 /\ Head(todo) = Insert(c, NewItem(q)) /\ Tail(todo) = <<Update(q, Granted(c)), Link(c), CommitNow>>
    BY <1>3, List4
  <2>2. Result(Head(todo), m, d) = One(c, NewItem(q))
    BY <1>3, <2>1, InsertFirst
  <2>3. d[c].status = "none"
    BY <2>1, Doing
  <2>4. d[c] = NoRow
    BY <2>3 DEF CatalogueRows, NewItem
  <2> QED
    BY <1>1, <2>1, <2>2, <2>4 DEF ItemJob
<1>4. CASE /\ todo = <<Update(q, Granted(c)), Link(c), CommitNow>> /\ m = One(c, NewItem(q))
           /\ d[c] = NoRow
  <2>1. Len(todo) # 1 /\ Head(todo) = Update(q, Granted(c)) /\ Tail(todo) = <<Link(c), CommitNow>>
    BY <1>4, List3
  <2>2. Result(Head(todo), m, d) = Over(One(q, Over(Granted(c), d[q])), One(c, NewItem(q)))
    BY <1>0, <1>1, <1>4, <2>1, UpdateNext
  <2>3. Over(Granted(c), d[q]) = Granted(c)
    BY <1>1, Regranted
  <2> QED
    BY <1>1, <1>4, <2>1, <2>2, <2>3 DEF ItemJob
<1>5. CASE /\ todo = <<Link(c), CommitNow>> /\ m = Over(One(q, Granted(c)), One(c, NewItem(q)))
           /\ d[c] = NoRow
  <2>1. Len(todo) # 1 /\ Head(todo) = Link(c) /\ Tail(todo) = <<CommitNow>>
    BY <1>5, List2
  <2>2. View(m, d, Line) = d[Line]
    <3>1. DOMAIN m = {q, c}
      <4>1. PICK x, y : m = Over(One(q, x), One(c, y))
        BY <1>5
      <4> QED
        BY <4>1 DEF Over, One
    <3> QED
      BY <1>0, <3>1 DEF View
  <2>3. PICK i : d[Line] = Linked(i)
    BY DEF CatalogueRows
  <2>4. \/ Result(Link(c), m, d) = m
        \/ Result(Link(c), m, d) = Over(One(Line, [d[Line] EXCEPT !["item"] = c]), m)
    <3>1. Link(c).does = "link" /\ Link(c).cols = c
      BY DEF Link
    <3> QED
      BY <2>2, <3>1 DEF Result
  <2>5. [d[Line] EXCEPT !["item"] = c] = Linked(c)
    BY <2>3, Relinked
  <2> QED
    BY <1>1, <1>5, <2>1, <2>4, <2>5 DEF ItemJob
<1> QED
  BY <1>2, <1>3, <1>4, <1>5 DEF ItemJob

\* A statement brings a refusal to its next point (reject_item_request).
LEMMA DenyGoes ==
  ASSUME NEW q \in ItemRequests, NEW todo, NEW m, NEW d, DenyJob(q, todo, m, d), Head(todo).does # "commit"
  PROVE  Len(todo) # 1 /\ DenyJob(q, Tail(todo), Result(Head(todo), m, d), d)
<1>1. todo # <<CommitNow>>
  BY List1, Doing
<1>2. todo = <<Update(q, [status |-> "rejected"]), CommitNow>> /\ m = NoRows
  BY <1>1 DEF DenyJob
<1>3. PICK x : d[q] = [status |-> x, code |-> "none"] /\ x # "none"
  <2>1. d[q] \in [status : {"pending", "rejected"}, code : {"none"}]
    BY DEF DenyJob
  <2>2. d[q] = [status |-> d[q].status, code |-> "none"] /\ d[q].status # "none"
    BY <2>1
  <2> QED
    BY <2>2
<1>4. Len(todo) # 1 /\ Head(todo) = Update(q, [status |-> "rejected"]) /\ Tail(todo) = <<CommitNow>>
  BY <1>2, List2
<1>5. Result(Head(todo), m, d) = One(q, Over([status |-> "rejected"], d[q]))
  BY <1>2, <1>3, <1>4, UpdateFirst
<1>6. Over([status |-> "rejected"], d[q]) = Denied
  BY <1>3, Regranted
<1> QED
  BY <1>4, <1>5, <1>6 DEF DenyJob

\* A statement brings a function of the catalogue to its next point.
LEMMA CatalogueGoes ==
  ASSUME NEW op, NEW doc, NEW todo, NEW m, NEW d, CatalogueRows(d), CatalogueJob(op, doc, todo, m, d),
         Head(todo).does # "commit", Head(todo).does = "insert" => d[Head(todo).row].status = "none"
  PROVE  Len(todo) # 1 /\ CatalogueJob(op, doc, Tail(todo), Result(Head(todo), m, d), d)
<1>1. CASE op = "catalogue"
  <2>1. PICK c \in Codes : ItemJob(doc, c, todo, m, d)
    BY <1>1 DEF CatalogueJob
  <2>2. doc \in ItemRequests
    BY DEF CatalogueJob
  <2>3. Len(todo) # 1 /\ ItemJob(doc, c, Tail(todo), Result(Head(todo), m, d), d)
    BY <2>1, <2>2, ItemGoes
  <2> QED
    BY <1>1, <2>2, <2>3 DEF CatalogueJob
<1>2. CASE op = "deny"
  <2>1. DenyJob(doc, todo, m, d) /\ doc \in ItemRequests
    BY <1>2 DEF CatalogueJob
  <2>2. Len(todo) # 1 /\ DenyJob(doc, Tail(todo), Result(Head(todo), m, d), d)
    BY <2>1, DenyGoes
  <2> QED
    BY <1>2, <2>1, <2>2 DEF CatalogueJob
<1> QED
  BY <1>1, <1>2 DEF CatalogueJob

\* What it commits.
CatalogueStep(d, e) ==
  \A q \in ItemRequests : d[q].status \in {"approved", "rejected", "auto_approved"} => e[q] = d[q]

ItemEnd(q, c, m, d, e) ==
  /\ {q, c} \subseteq DOMAIN m /\ DOMAIN m \subseteq {q, c, Line}
  /\ DOMAIN e = DOMAIN d /\ d[c] = NoRow
  /\ e[q] = Granted(c) /\ e[c] = NewItem(q) /\ e[Line] \in {d[Line], Linked(c)}
  /\ \A r \in DOMAIN d \ {q, c, Line} : e[r] = d[r]

\* The item, its request and perhaps the line are all an approval commits.
LEMMA ItemEnds ==
  ASSUME NEW q \in ItemRequests, NEW c \in Codes, NEW todo, NEW m, NEW d, CatalogueRows(d),
         ItemJob(q, c, todo, m, d), Head(todo).does = "commit"
  PROVE  Len(todo) = 1 /\ ItemEnd(q, c, m, d, Over(m, d))
<1>0. q # c /\ Line # q /\ Line # c
  BY CatalogueApart
<1>1. /\ Head(<<Insert(c, NewItem(q)), Update(q, Granted(c)), Link(c), CommitNow>>).does # "commit"
      /\ Head(<<Update(q, Granted(c)), Link(c), CommitNow>>).does # "commit"
      /\ Head(<<Link(c), CommitNow>>).does # "commit"
  BY List4, List3, List2, Doing
<1> DEFINE both == Over(One(q, Granted(c)), One(c, NewItem(q)))
<1>2. todo = <<CommitNow>> /\ d[c] = NoRow /\ (m = both \/ m = Over(One(Line, Linked(c)), both))
  BY <1>1 DEF ItemJob
<1>3. DOMAIN both = {q, c} /\ both[q] = Granted(c) /\ both[c] = NewItem(q)
  <2>1. both[c] = NewItem(q)
    BY <1>0, RowUnder
  <2> QED
    BY <1>0 DEF Over, One
<1> HIDE DEF both
<1>4. /\ {q, c} \subseteq DOMAIN m /\ DOMAIN m \subseteq {q, c, Line}
      /\ m[q] = Granted(c) /\ m[c] = NewItem(q) /\ (Line \in DOMAIN m => m[Line] = Linked(c))
  <2>1. CASE m = both
    BY <1>0, <1>3, <2>1
  <2>2. CASE m = Over(One(Line, Linked(c)), both)
    <3>1. DOMAIN m = {Line, q, c} /\ m[Line] = Linked(c) /\ m[q] = both[q] /\ m[c] = both[c]
      BY <1>0, <1>3, <2>2 DEF Over, One
    <3> QED
      BY <1>3, <3>1
  <2> QED
    BY <1>2, <2>1, <2>2
<1>5. q \in DOMAIN d /\ c \in DOMAIN d /\ Line \in DOMAIN d
  BY DEF CatalogueRows
<1>6. /\ DOMAIN Over(m, d) = DOMAIN d
      /\ \A r \in DOMAIN m : Over(m, d)[r] = m[r]
      /\ \A r \in DOMAIN d \ DOMAIN m : Over(m, d)[r] = d[r]
  <2>1. DOMAIN m \subseteq DOMAIN d
    BY <1>4, <1>5
  <2> QED
    BY <2>1 DEF Over
<1>7. Len(todo) = 1
  BY <1>2, List1
<1> QED
  BY <1>0, <1>2, <1>4, <1>5, <1>6, <1>7 DEF ItemEnd

\* After it request and item name each other; an answered request was not touched.
LEMMA ItemGood ==
  ASSUME NEW q \in ItemRequests, NEW c \in Codes, NEW m, NEW d, NEW e, CatalogueRows(d),
         ItemEnd(q, c, m, d, e), d[q] = [status |-> "pending", code |-> "none"]
  PROVE  CatalogueRows(e) /\ CatalogueStep(d, e)
<1>0. q # c /\ Line # q /\ Line # c /\ \A p \in ItemRequests, k \in Codes : p # k /\ Line # p /\ Line # k
  BY CatalogueApart
<1>1. \A p \in ItemRequests \ {q} : e[p] = d[p]
  BY <1>0 DEF ItemEnd, CatalogueRows
<1>2. \A k \in Codes \ {c} : e[k] = d[k]
  BY <1>0 DEF ItemEnd, CatalogueRows
<1>3. e[q] = Granted(c) /\ e[c] = NewItem(q) /\ d[c] = NoRow /\ DOMAIN e = DOMAIN d
  BY DEF ItemEnd
<1>4. NewItem(q).status = "active" /\ NoRow.status = "none" /\ Granted(c).status = "approved"
      /\ \A p : NewItem(p) # NoRow
  <2>1. \A p : NewItem(p).status = "active"
    BY DEF NewItem
  <2>2. NoRow.status = "none" /\ Granted(c).status = "approved"
    BY DEF NoRow, Granted
  <2> QED
    BY <2>1, <2>2
<1>5. ASSUME NEW p \in ItemRequests
      PROVE  \/ e[p] = NoRow
             \/ e[p] \in [status : {"pending", "rejected"}, code : {"none"}]
             \/ \E k \in Codes : e[p] = Granted(k) /\ e[k] = NewItem(p)
  <2>1. CASE p = q
    BY <1>3, <2>1
  <2>2. CASE p # q
    <3>1. ASSUME NEW k \in Codes, d[p] = Granted(k), d[k] = NewItem(p) PROVE e[p] = Granted(k) /\ e[k] = NewItem(p)
      <4>1. k # c
        BY <1>3, <1>4, <3>1
      <4> QED
        BY <1>1, <1>2, <2>2, <3>1, <4>1
    <3> QED
      BY <1>1, <2>2, <3>1 DEF CatalogueRows
  <2> QED
    BY <2>1, <2>2
<1>6. ASSUME NEW k \in Codes
      PROVE  e[k] = NoRow \/ \E p \in ItemRequests : e[k] = NewItem(p) /\ e[p] = Granted(k)
  <2>1. CASE k = c
    BY <1>3, <2>1
  <2>2. CASE k # c
    <3>1. ASSUME NEW p \in ItemRequests, d[k] = NewItem(p), d[p] = Granted(k) PROVE e[k] = NewItem(p) /\ e[p] = Granted(k)
      <4>1. p # q
        BY <3>1 DEF Granted
      <4> QED
        BY <1>1, <1>2, <2>2, <3>1, <4>1
    <3> QED
      BY <1>2, <2>2, <3>1 DEF CatalogueRows
  <2> QED
    BY <2>1, <2>2
<1>7. \E i \in Codes \cup {"none"} : e[Line] = Linked(i) /\ (i # "none" => e[i].status # "none")
  <2>1. CASE e[Line] = Linked(c)
    BY <1>3, <1>4, <2>1
  <2>2. CASE e[Line] = d[Line]
    <3>1. PICK i \in Codes \cup {"none"} : d[Line] = Linked(i) /\ (i # "none" => d[i].status # "none")
      BY DEF CatalogueRows
    <3>2. i # "none" => e[i].status # "none"
      BY <1>2, <1>3, <1>4, <3>1
    <3> QED
      BY <2>2, <3>1, <3>2
  <2> QED
    BY <2>1, <2>2 DEF ItemEnd
<1>8. CatalogueRows(e)
  BY <1>3, <1>5, <1>6, <1>7 DEF CatalogueRows
<1>9. CatalogueStep(d, e)
  <2>1. d[q].status = "pending"
    OBVIOUS
  <2> QED
    BY <1>1, <2>1 DEF CatalogueStep
<1> QED
  BY <1>8, <1>9

DenyEnd(q, m, d, e) ==
  /\ DOMAIN m = {q} /\ DOMAIN e = DOMAIN d /\ e[q] = Denied
  /\ \A r \in DOMAIN d \ {q} : e[r] = d[r]

\* The request is all a refusal commits.
LEMMA DenyEnds ==
  ASSUME NEW q \in ItemRequests, NEW todo, NEW m, NEW d, CatalogueRows(d), DenyJob(q, todo, m, d),
         Head(todo).does = "commit"
  PROVE  Len(todo) = 1 /\ DenyEnd(q, m, d, Over(m, d))
<1>1. Head(<<Update(q, [status |-> "rejected"]), CommitNow>>).does # "commit"
  BY List2, Doing
<1>2. todo = <<CommitNow>> /\ m = One(q, Denied)
  BY <1>1 DEF DenyJob
<1>3. q \in DOMAIN d
  BY DEF CatalogueRows
<1>4. DOMAIN m = {q} /\ m[q] = Denied
  <2>1. DOMAIN One(q, Denied) = {q} /\ One(q, Denied)[q] = Denied
    BY OneIs
  <2> QED
    BY <1>2, <2>1
<1>5. Len(todo) = 1
  BY <1>2, List1
<1> HIDE <1>2
<1> QED
  BY <1>3, <1>4, <1>5 DEF DenyEnd, Over

\* After it the rows are good; a granted request was not touched.
LEMMA DenyGood ==
  ASSUME NEW q \in ItemRequests, NEW m, NEW d, NEW e, CatalogueRows(d), DenyEnd(q, m, d, e),
         d[q] \in [status : {"pending", "rejected"}, code : {"none"}]
  PROVE  CatalogueRows(e) /\ CatalogueStep(d, e)
<1>0. (\A p \in ItemRequests, k \in Codes : p # k) /\ \A p \in ItemRequests : Line # p
  BY DeskAssumption
<1>1. \A p \in ItemRequests \ {q} : e[p] = d[p]
  BY <1>0 DEF DenyEnd, CatalogueRows
<1>2. (\A k \in Codes : e[k] = d[k]) /\ e[Line] = d[Line]
  BY <1>0 DEF DenyEnd, CatalogueRows
<1>3. e[q] = Denied /\ Denied \in [status : {"pending", "rejected"}, code : {"none"}] /\ DOMAIN e = DOMAIN d
  BY DEF DenyEnd, Denied
<1>4. \A k : d[q] # Granted(k)
  BY DEF Granted
<1>5. CatalogueRows(e)
  BY <1>1, <1>2, <1>3, <1>4 DEF CatalogueRows
<1>6. d[q].status \in {"approved", "rejected", "auto_approved"} => d[q] = Denied
  BY DEF Denied
<1> QED
  BY <1>1, <1>3, <1>5, <1>6 DEF CatalogueStep

\* The rows of the catalogue are good after a commit of either function.
LEMMA CatalogueEnds ==
  ASSUME NEW op, NEW doc, NEW todo, NEW m, NEW d, CatalogueRows(d), CatalogueJob(op, doc, todo, m, d),
         Head(todo).does = "commit"
  PROVE  Len(todo) = 1 /\ CatalogueRows(Over(m, d)) /\ CatalogueStep(d, Over(m, d))
<1>0. doc \in ItemRequests
  BY DEF CatalogueJob
<1>1. CASE op = "catalogue"
  <2>1. PICK c \in Codes : ItemJob(doc, c, todo, m, d)
    BY <1>1 DEF CatalogueJob
  <2>2. Len(todo) = 1 /\ ItemEnd(doc, c, m, d, Over(m, d))
    BY <1>0, <2>1, ItemEnds
  <2>3. d[doc] = [status |-> "pending", code |-> "none"]
    BY <2>1 DEF ItemJob
  <2> QED
    BY <1>0, <2>2, <2>3, ItemGood
<1>2. CASE op = "deny"
  <2>1. DenyJob(doc, todo, m, d)
    BY <1>2 DEF CatalogueJob
  <2>2. Len(todo) = 1 /\ DenyEnd(doc, m, d, Over(m, d))
    BY <1>0, <2>1, DenyEnds
  <2> QED
    BY <1>0, <2>1, <2>2, DenyGood DEF DenyJob
<1> QED
  BY <1>1, <1>2 DEF CatalogueJob

\* Another job stands when one ends.
LEMMA CatalogueStays ==
  ASSUME NEW op, NEW doc, NEW todo, NEW m, NEW d, CatalogueRows(d), CatalogueJob(op, doc, todo, m, d),
         Head(todo).does = "commit",
         NEW p, NEW doc2, NEW left, NEW n, CatalogueJob(p, doc2, left, n, d),
         doc = doc2 => MayMeet(op, p), DOMAIN m \cap DOMAIN n = {}
  PROVE  CatalogueJob(p, doc2, left, n, Over(m, d))
<1> DEFINE e == Over(m, d)
<1>0. /\ doc \in ItemRequests /\ doc2 \in ItemRequests /\ op \in {"catalogue", "deny"} /\ p \in {"catalogue", "deny"}
      /\ \A q \in ItemRequests, c \in Codes : q # c
      /\ \A q \in ItemRequests : q # Line
      /\ DOMAIN d = ItemRequests \cup Codes \cup {Line}
  BY DeskAssumption DEF CatalogueJob, CatalogueRows
<1>1. ~MayMeet("catalogue", "catalogue") /\ ~MayMeet("catalogue", "deny") /\ ~MayMeet("deny", "catalogue")
  BY DEF MayMeet, Harmful
<1>2. doc = doc2 => op = "deny" /\ p = "deny"
  BY <1>0, <1>1
<1>3. \/ op = "deny" /\ DenyEnd(doc, m, d, e)
      \/ op = "catalogue" /\ \E c \in Codes : ItemEnd(doc, c, m, d, e)
  <2>1. CASE op = "deny"
    <3>1. DenyJob(doc, todo, m, d)
      BY <2>1 DEF CatalogueJob
    <3> QED
      BY <1>0, <2>1, <3>1, DenyEnds
  <2>2. CASE op = "catalogue"
    <3>1. PICK c \in Codes : ItemJob(doc, c, todo, m, d)
      BY <2>2 DEF CatalogueJob
    <3> QED
      BY <1>0, <2>2, <3>1, ItemEnds
  <2> QED
    BY <1>0, <2>1, <2>2
<1> HIDE DEF e
<1>4. /\ doc # doc2 => e[doc2] = d[doc2]
      /\ doc = doc2 => e[doc2] = Denied
      /\ \A k \in Codes : k \notin DOMAIN m => e[k] = d[k]
  <2>1. CASE DenyEnd(doc, m, d, e)
    BY <1>0, <2>1 DEF DenyEnd
  <2>2. ASSUME NEW c \in Codes, ItemEnd(doc, c, m, d, e), op = "catalogue"
        PROVE  doc # doc2 /\ e[doc2] = d[doc2] /\ \A k \in Codes : k \notin DOMAIN m => e[k] = d[k]
    <3>1. doc # doc2
      BY <1>2, <2>2
    <3>2. \A k \in Codes : k # Line
      BY DeskAssumption
    <3> QED
      BY <1>0, <2>2, <3>1, <3>2 DEF ItemEnd
  <2> QED
    BY <1>3, <2>1, <2>2
<1>5. CASE p = "catalogue"
  <2>1. PICK c \in Codes : ItemJob(doc2, c, left, n, d)
    BY <1>5 DEF CatalogueJob
  <2>2. e[doc2] = d[doc2]
    BY <1>2, <1>4, <1>5
  <2>3. c \in DOMAIN n => e[c] = d[c]
    BY <1>4
  <2>4. /\ c \in DOMAIN One(c, NewItem(doc2))
        /\ c \in DOMAIN Over(One(doc2, Granted(c)), One(c, NewItem(doc2)))
        /\ c \in DOMAIN Over(One(Line, Linked(c)), Over(One(doc2, Granted(c)), One(c, NewItem(doc2))))
    BY DEF Over, One
  <2>5. ItemJob(doc2, c, left, n, e)
    BY <2>1, <2>2, <2>3, <2>4 DEF ItemJob
  <2> QED
    BY <1>0, <1>5, <2>5 DEF CatalogueJob, e
<1>6. CASE p = "deny"
  <2>1. DenyJob(doc2, left, n, d)
    BY <1>6 DEF CatalogueJob
  <2>2. Denied \in [status : {"pending", "rejected"}, code : {"none"}]
    BY DEF Denied
  <2>3. e[doc2] \in [status : {"pending", "rejected"}, code : {"none"}]
    BY <1>4, <2>1, <2>2 DEF DenyJob
  <2>4. DenyJob(doc2, left, n, e)
    BY <2>1, <2>3 DEF DenyJob
  <2> QED
    BY <1>0, <1>6, <2>4 DEF CatalogueJob, e
<1> QED
  BY <1>0, <1>5, <1>6

\* A function of the catalogue starts on a pending request (approve_item_request, reject_item_request).
LEMMA CatalogueBegins ==
  ASSUME NEW s \in Sessions, mine[s] = NoRows, CatalogueRows(db), CatalogueDesk(s)
  PROVE  \E op, doc, todo : Begin(s, op, doc, todo) /\ CatalogueJob(op, doc, todo, NoRows, db)
<1>0. \A r : Seen(s, r) = db[r]
  BY NoneIs DEF Seen
<1>1. ASSUME NEW q \in ItemRequests, NEW c \in Codes, approve_item_request(s, q, c)
      PROVE  \E op, doc, todo : Begin(s, op, doc, todo) /\ CatalogueJob(op, doc, todo, NoRows, db)
  <2> DEFINE todo == <<Insert(c, NewItem(q)), Update(q, Granted(c)), Link(c), CommitNow>>
  <2>1. Begin(s, "catalogue", q, todo) /\ db[q].status = "pending"
    BY <1>0, <1>1 DEF approve_item_request, Pending, NewItem, Granted
  <2>2. db[q] = [status |-> "pending", code |-> "none"]
    BY <2>1 DEF CatalogueRows, NoRow, Granted
  <2>3. CatalogueJob("catalogue", q, todo, NoRows, db)
    BY <2>2 DEF CatalogueJob, ItemJob
  <2> QED
    BY <2>1, <2>3
<1>2. ASSUME NEW q \in ItemRequests, reject_item_request(s, q)
      PROVE  \E op, doc, todo : Begin(s, op, doc, todo) /\ CatalogueJob(op, doc, todo, NoRows, db)
  <2> DEFINE todo == <<Update(q, [status |-> "rejected"]), CommitNow>>
  <2>1. Begin(s, "deny", q, todo) /\ db[q].status = "pending"
    BY <1>0, <1>2 DEF reject_item_request, Pending
  <2>2. db[q] \in [status : {"pending", "rejected"}, code : {"none"}]
    BY <2>1 DEF CatalogueRows, NoRow, Granted
  <2>3. CatalogueJob("deny", q, todo, NoRows, db)
    BY <2>2 DEF CatalogueJob, DenyJob
  <2> QED
    BY <2>1, <2>3
<1> QED
  BY <1>1, <1>2 DEF CatalogueDesk

\* A new request leaves what is under way on the others as it is (create_item_request).
LEMMA CatalogueRaised ==
  ASSUME NEW q \in ItemRequests, CatalogueRows(db), create_item_request(q)
  PROVE  /\ CatalogueRows(db') /\ CatalogueStep(db, db')
         /\ \A op, doc, todo, m : CatalogueJob(op, doc, todo, m, db) => CatalogueJob(op, doc, todo, m, db')
<1> DEFINE x == [status |-> "pending", code |-> "none"]
<1>0. (\A p \in ItemRequests, k \in Codes : p # k) /\ \A p \in ItemRequests : Line # p
  BY DeskAssumption
<1>1. db' = Over(One(q, x), db) /\ db[q].status = "none"
  BY DEF create_item_request, Create, Made
<1>2. DOMAIN db = ItemRequests \cup Codes \cup {Line}
  BY DEF CatalogueRows
<1>3. DOMAIN db' = DOMAIN db /\ db'[q] = x /\ \A r \in DOMAIN db \ {q} : db'[r] = db[r]
  <2> HIDE DEF x
  <2>1. q \in DOMAIN db
    BY <1>2
  <2> QED
    BY <1>1, <2>1 DEF Over, One
<1>4. (\A p \in ItemRequests \ {q} : db'[p] = db[p]) /\ (\A k \in Codes : db'[k] = db[k]) /\ db'[Line] = db[Line]
  BY <1>0, <1>2, <1>3
<1>5. \A k : db[q] # Granted(k)
  BY <1>1 DEF Granted
<1>6. CatalogueRows(db')
  BY <1>3, <1>4, <1>5 DEF CatalogueRows
<1>7. CatalogueStep(db, db')
  BY <1>1, <1>4 DEF CatalogueStep
<1>8. ASSUME NEW op, NEW doc, NEW todo, NEW m, CatalogueJob(op, doc, todo, m, db)
      PROVE  CatalogueJob(op, doc, todo, m, db')
  <2>1. db[doc].status # "none" /\ doc \in ItemRequests
    BY <1>8 DEF CatalogueJob, ItemJob, DenyJob
  <2>2. db'[doc] = db[doc]
    BY <1>1, <1>4, <2>1
  <2>3. CASE op = "catalogue"
    <3>1. PICK c \in Codes : ItemJob(doc, c, todo, m, db)
      BY <1>8, <2>3 DEF CatalogueJob
    <3>2. ItemJob(doc, c, todo, m, db')
      BY <1>4, <2>2, <3>1 DEF ItemJob
    <3> QED
      BY <2>1, <2>3, <3>2 DEF CatalogueJob
  <2>4. CASE op = "deny"
    <3>1. DenyJob(doc, todo, m, db')
      BY <1>8, <2>2, <2>4 DEF CatalogueJob, DenyJob
    <3> QED
      BY <2>1, <2>4, <3>1 DEF CatalogueJob
  <2> QED
    BY <1>8, <2>3, <2>4 DEF CatalogueJob
<1> QED
  BY <1>6, <1>7, <1>8

-----------------------------------------------------------------------------
(* Probation reviews.                                                      *)

CaseStates == ACTIVE \cup {"cancelled", "approved", "rejected"}
CaseRow(x, k) == [status |-> x, reopens |-> k]
SheetRow(x, p) == [status |-> x, sheet |-> p]

\* A case, and its evaluation where there is one, say the same.
File(d, n) ==
  \/ d[Case(n)] = NoRow /\ d[Evaluation(n)] = NoRow
  \/ \E x \in CaseStates, k \in Nat :
       /\ d[Case(n)] = CaseRow(x, k)
       /\ d[Evaluation(n)] = NoRow \/ \E p : d[Evaluation(n)] = SheetRow(x, p)

ReviewRows(d) ==
  /\ DOMAIN d = {Case(n) : n \in Cases} \cup {Evaluation(n) : n \in Cases}
  /\ \A n \in Cases : File(d, n)
  /\ \A k, n \in Cases : k # n /\ {d[Case(k)].status, d[Case(n)].status} \subseteq ACTIVE
                           => d[Case(k)].reopens + d[Case(n)].reopens > 0

\* Every active case was reopened by an administrator.
AllReopened(d) == \A n \in Cases : d[Case(n)].status \in ACTIVE => d[Case(n)].reopens > 0

OpenJob(todo, m, d) ==
  \/ todo = <<Number>> /\ m = NoRows /\ AllReopened(d)
  \/ \E n \in Cases :
       \/ todo = NewCase(n) /\ m = NoRows /\ AllReopened(d)
       \/ /\ todo = Tail(NewCase(n)) /\ m = One(Case(n), CaseRow("draft", 0)) /\ AllReopened(d)
          /\ d[Case(n)] = NoRow
       \/ /\ todo = Tail(Tail(NewCase(n))) /\ m = NoRows
          /\ d[Case(n)] = CaseRow("draft", 0) /\ d[Evaluation(n)] = NoRow
       \/ /\ todo = <<CommitNow>> /\ m = One(Evaluation(n), SheetRow("draft", "blank"))
          /\ d[Case(n)] = CaseRow("draft", 0) /\ d[Evaluation(n)] = NoRow

SaveJob(n, x, todo, m, d) ==
  /\ d[Evaluation(n)].status \in EDITABLE_BY_EVALUATOR
  /\ \/ todo = <<Update(Evaluation(n), [sheet |-> x]), CommitNow>> /\ m = NoRows
     \/ todo = <<CommitNow>> /\ m = One(Evaluation(n), SheetRow(d[Evaluation(n)].status, x))

Movers == {"submit", "forward", "returned", "rejected", "approved"}
From(op) ==
  IF op = "submit" THEN EDITABLE_BY_EVALUATOR
  ELSE IF op = "forward" THEN {"pending_manager"} ELSE {"pending_hr_review"}
To(op) ==
  IF op = "submit" THEN {"pending_manager", "pending_hr_review"}
  ELSE IF op = "forward" THEN {"pending_hr_review"} ELSE {op}

\* The rows of a case and its evaluation as a session leaves them.
SheetAt(n, to, d) == SheetRow(to, d[Evaluation(n)].sheet)
CaseAt(n, to, d) == CaseRow(to, d[Case(n)].reopens)
CaseAgain(n, d) == CaseRow("returned", d[Case(n)].reopens + 1)

MoveJob(n, to, todo, m, d) ==
  \/ todo = <<Update(Evaluation(n), [status |-> to]), Update(Case(n), [status |-> to]), CommitNow>> /\ m = NoRows
  \/ todo = <<Update(Case(n), [status |-> to]), CommitNow>> /\ m = One(Evaluation(n), SheetAt(n, to, d))
  \/ /\ todo = <<CommitNow>>
     /\ m = Over(One(Case(n), CaseAt(n, to, d)), One(Evaluation(n), SheetAt(n, to, d)))

ReopenJob(n, todo, m, d) ==
  /\ d[Evaluation(n)].status # "none"
  /\ \/ /\ todo = <<Update(Evaluation(n), [status |-> "returned"]), Update(Case(n), [status |-> "returned"]),
                    Add(Case(n), "reopens"), CommitNow>>
        /\ m = NoRows
     \/ /\ todo = <<Update(Case(n), [status |-> "returned"]), Add(Case(n), "reopens"), CommitNow>>
        /\ m = One(Evaluation(n), SheetAt(n, "returned", d))
     \/ /\ todo = <<Add(Case(n), "reopens"), CommitNow>>
        /\ m = Over(One(Case(n), CaseAt(n, "returned", d)), One(Evaluation(n), SheetAt(n, "returned", d)))
     \/ /\ todo = <<CommitNow>>
        /\ m = Over(One(Case(n), CaseAgain(n, d)), One(Evaluation(n), SheetAt(n, "returned", d)))

CancelJob(n, todo, m, d) ==
  /\ d[Case(n)].status # "none"
  /\ \/ /\ todo = <<Update(Case(n), [status |-> "cancelled"]), Update(Evaluation(n), [status |-> "cancelled"]),
                    CommitNow>>
        /\ m = NoRows
     \/ /\ todo = <<Update(Evaluation(n), [status |-> "cancelled"]), CommitNow>>
        /\ m = One(Case(n), CaseAt(n, "cancelled", d))
     \/ /\ todo = <<CommitNow>>
        /\ \/ d[Evaluation(n)] = NoRow /\ m = One(Case(n), CaseAt(n, "cancelled", d))
           \/ /\ d[Evaluation(n)] # NoRow
              /\ m = Over(One(Evaluation(n), SheetAt(n, "cancelled", d)), One(Case(n), CaseAt(n, "cancelled", d)))

ReviewJob(op, doc, todo, m, d) ==
  /\ doc = Employee
  /\ \/ op = "open" /\ OpenJob(todo, m, d)
     \/ \E n \in Cases :
          \/ op = "save" /\ \E x : SaveJob(n, x, todo, m, d)
          \/ /\ op \in Movers /\ d[Evaluation(n)].status \in From(op)
             /\ \E to \in To(op) : MoveJob(n, to, todo, m, d)
          \/ op = "reopen" /\ ReopenJob(n, todo, m, d)
          \/ op = "cancel" /\ CancelJob(n, todo, m, d)

\* The columns of a case and of an evaluation after an UPDATE.
LEMMA Refiled ==
  /\ \A x, y, k : Over([status |-> x], CaseRow(y, k)) = CaseRow(x, k)
  /\ \A x, y, p : Over([status |-> x], SheetRow(y, p)) = SheetRow(x, p)
  /\ \A y, p, q : Over([sheet |-> q], SheetRow(y, p)) = SheetRow(y, q)
  /\ \A k : [CaseRow("returned", k) EXCEPT !["reopens"] = @ + 1] = CaseRow("returned", k + 1)
BY DEF Over, CaseRow, SheetRow

\* Cases and evaluations are rows of their own.
LEMMA CasesApart ==
  /\ \A n, k : Case(n) # Evaluation(k) /\ (Case(n) = Case(k) <=> n = k) /\ (Evaluation(n) = Evaluation(k) <=> n = k)
BY DEF Case, Evaluation

\* The rows of a case with an evaluation.
Filed(d, n, x, k, p) ==
  x \in CaseStates /\ k \in Nat /\ d[Case(n)] = CaseRow(x, k) /\ d[Evaluation(n)] = SheetRow(x, p)

\* An evaluation that is there belongs to a case in the same state.
LEMMA FileIs ==
  ASSUME NEW d, ReviewRows(d), NEW n \in Cases, d[Evaluation(n)].status # "none"
  PROVE  \E x, k, p : Filed(d, n, x, k, p)
<1>1. d[Evaluation(n)] # NoRow /\ File(d, n)
  BY DEF NoRow, ReviewRows
<1> QED
  BY <1>1 DEF File, Filed

\* A case that is there, with or without its evaluation.
LEMMA CaseIs ==
  ASSUME NEW d, ReviewRows(d), NEW n \in Cases, d[Case(n)].status # "none"
  PROVE  \E x \in CaseStates, k \in Nat :
           /\ d[Case(n)] = CaseRow(x, k)
           /\ d[Evaluation(n)] = NoRow \/ \E p : d[Evaluation(n)] = SheetRow(x, p)
<1>1. d[Case(n)] # NoRow /\ File(d, n)
  BY DEF NoRow, ReviewRows
<1> QED
  BY <1>1 DEF File

\* A row written twice is as it was written last.
LEMMA OverTwice ==
  ASSUME NEW r, NEW x, NEW y, NEW m
  PROVE  Over(One(r, y), Over(One(r, x), m)) = Over(One(r, y), m)
BY DEF Over, One

\* SET column = column + 1, of a row the session wrote before.
LEMMA AddNext ==
  ASSUME NEW r, NEW x, NEW c, NEW m, NEW d
  PROVE  Result(Add(r, c), Over(One(r, x), m), d) = Over(One(r, [x EXCEPT ![c] = @ + 1]), m)
<1> DEFINE n == Over(One(r, x), m)
<1>1. View(n, d, r) = x
  BY ViewOwn
<1>2. Result(Add(r, c), n, d) = Over(One(r, [View(n, d, r) EXCEPT ![c] = @ + 1]), n)
  BY ResultAdd
<1>3. Result(Add(r, c), n, d) = Over(One(r, [x EXCEPT ![c] = @ + 1]), n)
  BY <1>1, <1>2
<1> QED
  BY <1>3, OverTwice

\* Evaluation and case move together.
LEMMA MoveGoes ==
  ASSUME NEW n \in Cases, NEW to, NEW todo, NEW m, NEW d, ReviewRows(d), d[Evaluation(n)].status # "none",
         MoveJob(n, to, todo, m, d), Head(todo).does # "commit"
  PROVE  Len(todo) # 1 /\ MoveJob(n, to, Tail(todo), Result(Head(todo), m, d), d)
<1>0. PICK x, k, p : Filed(d, n, x, k, p)
  BY FileIs
<1>1. todo # <<CommitNow>>
  BY List1, Doing
<1>2. /\ Over([status |-> to], d[Evaluation(n)]) = SheetAt(n, to, d)
      /\ Over([status |-> to], d[Case(n)]) = CaseAt(n, to, d)
      /\ d[Case(n)].status # "none"
  <2>1. d[Evaluation(n)].sheet = p /\ d[Case(n)].reopens = k /\ d[Case(n)].status # "none"
    BY <1>0 DEF Filed, CaseRow, SheetRow
  <2> QED
    BY <1>0, <2>1, Refiled DEF Filed, SheetAt, CaseAt
<1>3. CASE todo = <<Update(Evaluation(n), [status |-> to]), Update(Case(n), [status |-> to]), CommitNow>> /\ m = NoRows
  <2>1. /\ Len(todo) # 1 /\ Head(todo) = Update(Evaluation(n), [status |-> to])
        /\ Tail(todo) = <<Update(Case(n), [status |-> to]), CommitNow>>
    BY <1>3, List3
  <2>2. Result(Head(todo), m, d) = One(Evaluation(n), SheetAt(n, to, d))
    BY <1>2, <1>3, <2>1, UpdateFirst
  <2> QED
    BY <2>1, <2>2 DEF MoveJob
<1>4. CASE todo = <<Update(Case(n), [status |-> to]), CommitNow>> /\ m = One(Evaluation(n), SheetAt(n, to, d))
  <2>1. Len(todo) # 1 /\ Head(todo) = Update(Case(n), [status |-> to]) /\ Tail(todo) = <<CommitNow>>
    BY <1>4, List2
  <2>2. Case(n) # Evaluation(n)
    BY CasesApart
  <2>3. Result(Head(todo), m, d) = Over(One(Case(n), CaseAt(n, to, d)), One(Evaluation(n), SheetAt(n, to, d)))
    BY <1>2, <1>4, <2>1, <2>2, UpdateNext
  <2> QED
    BY <2>1, <2>3 DEF MoveJob
<1> QED
  BY <1>1, <1>3, <1>4 DEF MoveJob

\* A statement brings a saved sheet to its next point (save_evaluation).
LEMMA SaveGoes ==
  ASSUME NEW n \in Cases, NEW x, NEW todo, NEW m, NEW d, ReviewRows(d), SaveJob(n, x, todo, m, d),
         Head(todo).does # "commit"
  PROVE  Len(todo) # 1 /\ SaveJob(n, x, Tail(todo), Result(Head(todo), m, d), d)
<1>0. d[Evaluation(n)].status \in EDITABLE_BY_EVALUATOR /\ d[Evaluation(n)].status # "none"
  BY DEF SaveJob, EDITABLE_BY_EVALUATOR
<1>1. PICK y, k, p : Filed(d, n, y, k, p)
  BY <1>0, FileIs
<1>2. todo # <<CommitNow>>
  BY List1, Doing
<1>3. todo = <<Update(Evaluation(n), [sheet |-> x]), CommitNow>> /\ m = NoRows
  BY <1>2 DEF SaveJob
<1>4. Len(todo) # 1 /\ Head(todo) = Update(Evaluation(n), [sheet |-> x]) /\ Tail(todo) = <<CommitNow>>
  BY <1>3, List2
<1>5. Over([sheet |-> x], d[Evaluation(n)]) = SheetRow(d[Evaluation(n)].status, x)
  <2>1. d[Evaluation(n)].status = y
    BY <1>1 DEF Filed, SheetRow
  <2> QED
    BY <1>1, <2>1, Refiled DEF Filed
<1>6. Result(Head(todo), m, d) = One(Evaluation(n), SheetRow(d[Evaluation(n)].status, x))
  BY <1>0, <1>3, <1>4, <1>5, UpdateFirst
<1> QED
  BY <1>0, <1>4, <1>6 DEF SaveJob

\* A statement brings a reopening to its next point (admin_reopen).
LEMMA ReopenGoes ==
  ASSUME NEW n \in Cases, NEW todo, NEW m, NEW d, ReviewRows(d), ReopenJob(n, todo, m, d),
         Head(todo).does # "commit"
  PROVE  Len(todo) # 1 /\ ReopenJob(n, Tail(todo), Result(Head(todo), m, d), d)
<1>0. d[Evaluation(n)].status # "none"
  BY DEF ReopenJob
<1>1. PICK x, k, p : Filed(d, n, x, k, p)
  BY <1>0, FileIs
<1>2. /\ Over([status |-> "returned"], d[Evaluation(n)]) = SheetAt(n, "returned", d)
      /\ Over([status |-> "returned"], d[Case(n)]) = CaseAt(n, "returned", d)
      /\ [CaseAt(n, "returned", d) EXCEPT !["reopens"] = @ + 1] = CaseAgain(n, d)
      /\ d[Case(n)].status # "none"
  <2>1. d[Evaluation(n)].sheet = p /\ d[Case(n)].reopens = k /\ d[Case(n)].status # "none"
    BY <1>1 DEF Filed, CaseRow, SheetRow, CaseStates, ACTIVE
  <2> QED
    BY <1>1, <2>1, Refiled DEF Filed, SheetAt, CaseAt, CaseAgain
<1>3. todo # <<CommitNow>> /\ Case(n) # Evaluation(n)
  BY List1, Doing, CasesApart
<1> DEFINE E == Update(Evaluation(n), [status |-> "returned"])
           C == Update(Case(n), [status |-> "returned"])
           A == Add(Case(n), "reopens")
           e == SheetAt(n, "returned", d)
           c == CaseAt(n, "returned", d)
<1>4. CASE todo = <<E, C, A, CommitNow>> /\ m = NoRows
  <2>1. Len(todo) # 1 /\ Head(todo) = E /\ Tail(todo) = <<C, A, CommitNow>>
    BY <1>4, List4
  <2>2. Result(E, m, d) = One(Evaluation(n), e)
    BY <1>0, <1>2, <1>4, UpdateFirst
  <2> QED
    BY <1>0, <2>1, <2>2 DEF ReopenJob
<1>5. CASE todo = <<C, A, CommitNow>> /\ m = One(Evaluation(n), e)
  <2>1. Len(todo) # 1 /\ Head(todo) = C /\ Tail(todo) = <<A, CommitNow>>
    BY <1>5, List3
  <2>2. Result(C, m, d) = Over(One(Case(n), c), One(Evaluation(n), e))
    BY <1>2, <1>3, <1>5, UpdateNext
  <2> QED
    BY <1>0, <2>1, <2>2 DEF ReopenJob
<1>6. CASE todo = <<A, CommitNow>> /\ m = Over(One(Case(n), c), One(Evaluation(n), e))
  <2>1. Len(todo) # 1 /\ Head(todo) = A /\ Tail(todo) = <<CommitNow>>
    BY <1>6, List2
  <2>2. Result(A, m, d) = Over(One(Case(n), [c EXCEPT !["reopens"] = @ + 1]), One(Evaluation(n), e))
    BY <1>6, AddNext
  <2>3. Result(A, m, d) = Over(One(Case(n), CaseAgain(n, d)), One(Evaluation(n), e))
    BY <1>2, <2>2
  <2> QED
    BY <1>0, <2>1, <2>3 DEF ReopenJob
<1> QED
  BY <1>3, <1>4, <1>5, <1>6 DEF ReopenJob

\* An UPDATE of a row that is not there.
LEMMA UpdateNone ==
  ASSUME NEW r, NEW c, NEW m, NEW d, View(m, d, r).status = "none"
  PROVE  Result(Update(r, c), m, d) = m
<1>1. Update(r, c).does = "update" /\ Update(r, c).row = r
  BY DEF Update
<1> QED
  BY <1>1 DEF Result

\* A statement brings a cancellation to its next point (cancel_case).
LEMMA CancelGoes ==
  ASSUME NEW n \in Cases, NEW todo, NEW m, NEW d, ReviewRows(d), CancelJob(n, todo, m, d),
         Head(todo).does # "commit"
  PROVE  Len(todo) # 1 /\ CancelJob(n, Tail(todo), Result(Head(todo), m, d), d)
<1>0. d[Case(n)].status # "none"
  BY DEF CancelJob
<1>1. PICK x \in CaseStates, k \in Nat :
        /\ d[Case(n)] = CaseRow(x, k)
        /\ d[Evaluation(n)] = NoRow \/ \E p : d[Evaluation(n)] = SheetRow(x, p)
  BY <1>0, CaseIs
<1>2. todo # <<CommitNow>> /\ Case(n) # Evaluation(n)
  BY List1, Doing, CasesApart
<1> DEFINE C == Update(Case(n), [status |-> "cancelled"])
           E == Update(Evaluation(n), [status |-> "cancelled"])
           c == CaseAt(n, "cancelled", d)
           e == SheetAt(n, "cancelled", d)
<1>3. Over([status |-> "cancelled"], d[Case(n)]) = c
  <2>1. d[Case(n)].reopens = k
    BY <1>1 DEF CaseRow
  <2> QED
    BY <1>1, <2>1, Refiled DEF CaseAt
<1>4. CASE todo = <<C, E, CommitNow>> /\ m = NoRows
  <2>1. Len(todo) # 1 /\ Head(todo) = C /\ Tail(todo) = <<E, CommitNow>>
    BY <1>4, List3
  <2>2. Result(C, m, d) = One(Case(n), c)
    BY <1>0, <1>3, <1>4, UpdateFirst
  <2> QED
    BY <1>0, <2>1, <2>2 DEF CancelJob
<1>5. CASE todo = <<E, CommitNow>> /\ m = One(Case(n), c)
  <2>1. Len(todo) # 1 /\ Head(todo) = E /\ Tail(todo) = <<CommitNow>>
    BY <1>5, List2
  <2>2. CASE d[Evaluation(n)] = NoRow
    <3>1. View(m, d, Evaluation(n)).status = "none"
      BY <1>2, <1>5, <2>2, ViewOther DEF NoRow
    <3>2. Result(E, m, d) = m
      BY <3>1, UpdateNone
    <3> QED
      BY <1>0, <1>5, <2>1, <2>2, <3>2 DEF CancelJob
  <2>3. ASSUME NEW p, d[Evaluation(n)] = SheetRow(x, p)
        PROVE  CancelJob(n, Tail(todo), Result(Head(todo), m, d), d)
    <3>1. d[Evaluation(n)].status # "none" /\ d[Evaluation(n)].sheet = p
      BY <2>3 DEF SheetRow, CaseStates, ACTIVE
    <3>2. Over([status |-> "cancelled"], d[Evaluation(n)]) = e
      BY <2>3, <3>1, Refiled DEF SheetAt
    <3>3. Result(E, m, d) = Over(One(Evaluation(n), e), One(Case(n), c))
      BY <1>2, <1>5, <3>1, <3>2, UpdateNext
    <3>4. d[Evaluation(n)] # NoRow
      BY <3>1 DEF NoRow
    <3> QED
      BY <1>0, <2>1, <3>3, <3>4 DEF CancelJob
  <2> QED
    BY <1>1, <2>1, <2>2, <2>3
<1> QED
  BY <1>2, <1>4, <1>5 DEF CancelJob

\* A new case and, in a transaction of its own, its evaluation.
LEMMA NewCaseIs ==
  ASSUME NEW n
  PROVE  LET c == Insert(Case(n), CaseRow("draft", 0))
             e == Insert(Evaluation(n), SheetRow("draft", "blank"))
         IN  /\ NewCase(n) = <<c, CommitNow, e, CommitNow>>
             /\ Tail(NewCase(n)) = <<CommitNow, e, CommitNow>>
             /\ Tail(Tail(NewCase(n))) = <<e, CommitNow>>
             /\ Tail(Tail(Tail(NewCase(n)))) = <<CommitNow>>
<1> DEFINE c == Insert(Case(n), CaseRow("draft", 0))
           e == Insert(Evaluation(n), SheetRow("draft", "blank"))
<1>1. NewCase(n) = <<c, CommitNow, e, CommitNow>>
  BY DEF NewCase, CaseRow, SheetRow
<1> HIDE DEF c, e
<1>2. Tail(<<c, CommitNow, e, CommitNow>>) = <<CommitNow, e, CommitNow>>
  BY List4
<1>3. Tail(<<CommitNow, e, CommitNow>>) = <<e, CommitNow>>
  BY List3
<1>4. Tail(<<e, CommitNow>>) = <<CommitNow>>
  BY List2
<1> QED
  BY <1>1, <1>2, <1>3, <1>4 DEF c, e

\* A statement brings a new case to its next point (create_case).
LEMMA OpenGoes ==
  ASSUME NEW todo, NEW m, NEW d, ReviewRows(d), OpenJob(todo, m, d),
         Head(todo).does \notin {"commit", "number"},
         Head(todo).does = "insert" => d[Head(todo).row].status = "none"
  PROVE  Len(todo) # 1 /\ OpenJob(Tail(todo), Result(Head(todo), m, d), d)
<1>1. todo # <<Number>> /\ todo # <<CommitNow>>
  BY List1, Doing
<1>2. PICK n \in Cases :
       \/ todo = NewCase(n) /\ m = NoRows /\ AllReopened(d)
       \/ todo = Tail(NewCase(n))
       \/ /\ todo = Tail(Tail(NewCase(n))) /\ m = NoRows
          /\ d[Case(n)] = CaseRow("draft", 0) /\ d[Evaluation(n)] = NoRow
  BY <1>1 DEF OpenJob
<1> DEFINE c == Insert(Case(n), CaseRow("draft", 0))
           e == Insert(Evaluation(n), SheetRow("draft", "blank"))
<1>3. /\ NewCase(n) = <<c, CommitNow, e, CommitNow>>
      /\ Tail(NewCase(n)) = <<CommitNow, e, CommitNow>>
      /\ Tail(Tail(NewCase(n))) = <<e, CommitNow>>
  BY NewCaseIs
<1>4. todo # Tail(NewCase(n))
  BY <1>3, List3, Doing
<1>5. CASE todo = NewCase(n) /\ m = NoRows /\ AllReopened(d)
  <2>1. Len(todo) # 1 /\ Head(todo) = c
    BY <1>3, <1>5, List4
  <2>2. Result(c, m, d) = One(Case(n), CaseRow("draft", 0))
    BY <1>5, InsertFirst
  <2>3. d[Case(n)].status = "none"
    BY <2>1, Doing
  <2>4. d[Case(n)] = NoRow
    <3>1. File(d, n)
      BY DEF ReviewRows
    <3>2. \A x \in CaseStates : \A k : CaseRow(x, k).status # "none"
      BY DEF CaseRow, CaseStates, ACTIVE
    <3> QED
      BY <2>3, <3>1, <3>2 DEF File
  <2> QED
    BY <1>5, <2>1, <2>2, <2>4 DEF OpenJob
<1>6. CASE /\ todo = Tail(Tail(NewCase(n))) /\ m = NoRows
           /\ d[Case(n)] = CaseRow("draft", 0) /\ d[Evaluation(n)] = NoRow
  <2>1. Len(todo) # 1 /\ Head(todo) = e /\ Tail(todo) = <<CommitNow>>
    BY <1>3, <1>6, List2
  <2>2. Result(e, m, d) = One(Evaluation(n), SheetRow("draft", "blank"))
    BY <1>6, InsertFirst
  <2> QED
    BY <1>6, <2>1, <2>2 DEF OpenJob
<1> QED
  BY <1>2, <1>4, <1>5, <1>6

\* A statement brings a function on a review to its next point.
LEMMA ReviewGoes ==
  ASSUME NEW op, NEW doc, NEW todo, NEW m, NEW d, ReviewRows(d), ReviewJob(op, doc, todo, m, d),
         Head(todo).does \notin {"commit", "number"},
         Head(todo).does = "insert" => d[Head(todo).row].status = "none"
  PROVE  Len(todo) # 1 /\ ReviewJob(op, doc, Tail(todo), Result(Head(todo), m, d), d)
<1> DEFINE left == Tail(todo)
           n2 == Result(Head(todo), m, d)
           Goal == Len(todo) # 1 /\ ReviewJob(op, doc, left, n2, d)
<1>0. doc = Employee /\ Head(todo).does # "commit"
  BY DEF ReviewJob
<1>1. ASSUME op = "open" PROVE Goal
  <2>1. OpenJob(todo, m, d)
    BY <1>1 DEF ReviewJob, Movers
  <2>2. Len(todo) # 1 /\ OpenJob(left, n2, d)
    BY <2>1, OpenGoes
  <2> HIDE DEF left, n2
  <2> QED
    BY <1>0, <1>1, <2>2 DEF ReviewJob
<1>2. ASSUME NEW n \in Cases, NEW x, op = "save", SaveJob(n, x, todo, m, d) PROVE Goal
  <2>1. Len(todo) # 1 /\ SaveJob(n, x, left, n2, d)
    BY <1>0, <1>2, SaveGoes
  <2> HIDE DEF left, n2
  <2> QED
    BY <1>0, <1>2, <2>1 DEF ReviewJob
<1>3. ASSUME NEW n \in Cases, op \in Movers, d[Evaluation(n)].status \in From(op), NEW to \in To(op),
             MoveJob(n, to, todo, m, d)
      PROVE  Goal
  <2>1. d[Evaluation(n)].status # "none"
    BY <1>3 DEF From, EDITABLE_BY_EVALUATOR
  <2>2. Len(todo) # 1 /\ MoveJob(n, to, left, n2, d)
    BY <1>0, <1>3, <2>1, MoveGoes
  <2> HIDE DEF left, n2
  <2> QED
    BY <1>0, <1>3, <2>2 DEF ReviewJob
<1>4. ASSUME NEW n \in Cases, op = "reopen", ReopenJob(n, todo, m, d) PROVE Goal
  <2>1. Len(todo) # 1 /\ ReopenJob(n, left, n2, d)
    BY <1>0, <1>4, ReopenGoes
  <2> HIDE DEF left, n2
  <2> QED
    BY <1>0, <1>4, <2>1 DEF ReviewJob
<1>5. ASSUME NEW n \in Cases, op = "cancel", CancelJob(n, todo, m, d) PROVE Goal
  <2>1. Len(todo) # 1 /\ CancelJob(n, left, n2, d)
    BY <1>0, <1>5, CancelGoes
  <2> HIDE DEF left, n2
  <2> QED
    BY <1>0, <1>5, <2>1 DEF ReviewJob
<1> HIDE DEF Goal
<1>6. Goal
  BY <1>1, <1>2, <1>3, <1>4, <1>5 DEF ReviewJob, Goal
<1> QED
  BY <1>6 DEF Goal

\* ... and the number it is given is one of a case.
LEMMA ReviewNumbers ==
  ASSUME NEW op, NEW doc, NEW todo, NEW m, NEW d, ReviewJob(op, doc, todo, m, d),
         Head(todo).does = "number", NEW n \in Cases
  PROVE  ReviewJob(op, doc, NewCase(n), m, d)
<1>1. \A a, b, c, e : Head(<<a>>) = a /\ Head(<<a, b>>) = a /\ Head(<<a, b, c>>) = a /\ Head(<<a, b, c, e>>) = a
  BY List1, List2, List3, List4
<1>2. op = "open"
  <2>1. \A k, x : SaveJob(k, x, todo, m, d) => Head(todo).does # "number"
    BY <1>1, Doing DEF SaveJob
  <2>2. \A k, to : MoveJob(k, to, todo, m, d) => Head(todo).does # "number"
    BY <1>1, Doing DEF MoveJob
  <2>3. \A k : ReopenJob(k, todo, m, d) => Head(todo).does # "number"
    BY <1>1, Doing DEF ReopenJob
  <2>4. \A k : CancelJob(k, todo, m, d) => Head(todo).does # "number"
    BY <1>1, Doing DEF CancelJob
  <2> QED
    BY <2>1, <2>2, <2>3, <2>4 DEF ReviewJob
<1>3. OpenJob(todo, m, d)
  BY <1>2 DEF ReviewJob, Movers
<1>4. \A k \in Cases : /\ Head(NewCase(k)).does # "number" /\ Head(Tail(NewCase(k))).does # "number"
                       /\ Head(Tail(Tail(NewCase(k)))).does # "number"
  <2>1. ASSUME NEW k \in Cases
        PROVE  /\ Head(NewCase(k)).does # "number" /\ Head(Tail(NewCase(k))).does # "number"
               /\ Head(Tail(Tail(NewCase(k)))).does # "number"
    <3> DEFINE c == Insert(Case(k), CaseRow("draft", 0))
               e == Insert(Evaluation(k), SheetRow("draft", "blank"))
    <3>1. /\ NewCase(k) = <<c, CommitNow, e, CommitNow>>
          /\ Tail(NewCase(k)) = <<CommitNow, e, CommitNow>>
          /\ Tail(Tail(NewCase(k))) = <<e, CommitNow>>
      BY NewCaseIs
    <3> QED
      BY <1>1, <3>1, Doing
  <2> QED
    BY <2>1
<1>5. Head(<<CommitNow>>).does # "number"
  BY <1>1, Doing
<1>6. m = NoRows /\ AllReopened(d)
  BY <1>3, <1>4, <1>5 DEF OpenJob
<1>7. OpenJob(NewCase(n), m, d)
  BY <1>6 DEF OpenJob
<1> QED
  BY <1>2, <1>7 DEF ReviewJob

\* What a function of a review makes of case n, and of no other.
Beside(d, e, n) ==
  /\ DOMAIN e = DOMAIN d
  /\ \A k \in Cases \ {n} : e[Case(k)] = d[Case(k)] /\ e[Evaluation(k)] = d[Evaluation(k)]

CaseOpened(n, d, e) ==
  \/ /\ d[Case(n)] = NoRow /\ d[Evaluation(n)] = NoRow /\ AllReopened(d)
     /\ e[Case(n)] = CaseRow("draft", 0) /\ e[Evaluation(n)] = NoRow
  \/ /\ d[Case(n)] = CaseRow("draft", 0) /\ d[Evaluation(n)] = NoRow
     /\ e[Case(n)] = CaseRow("draft", 0) /\ e[Evaluation(n)] = SheetRow("draft", "blank")

Cancelled(n, d, e) ==
  \E x \in CaseStates, k \in Nat :
    /\ d[Case(n)] = CaseRow(x, k) /\ e[Case(n)] = CaseRow("cancelled", k)
    /\ \/ d[Evaluation(n)] = NoRow /\ e[Evaluation(n)] = NoRow
       \/ \E p : d[Evaluation(n)] = SheetRow(x, p) /\ e[Evaluation(n)] = SheetRow("cancelled", p)

Moved(op, n, x, k, p, e) ==
  \/ op = "save" /\ x \in EDITABLE_BY_EVALUATOR /\ e[Case(n)] = CaseRow(x, k) /\ \E q : e[Evaluation(n)] = SheetRow(x, q)
  \/ /\ op \in Movers /\ x \in From(op)
     /\ \E to \in To(op) : e[Case(n)] = CaseRow(to, k) /\ e[Evaluation(n)] = SheetRow(to, p)
  \/ op = "reopen" /\ e[Case(n)] = CaseRow("returned", k + 1) /\ e[Evaluation(n)] = SheetRow("returned", p)

ReviewEnd(op, n, d, e) ==
  /\ Beside(d, e, n)
  /\ \/ op = "open" /\ CaseOpened(n, d, e)
     \/ op = "cancel" /\ Cancelled(n, d, e)
     \/ \E x, k, p : Filed(d, n, x, k, p) /\ Moved(op, n, x, k, p, e)

\* One row of a case written leaves the other cases as they are ...
LEMMA BesideOne ==
  ASSUME NEW d, ReviewRows(d), NEW n \in Cases, NEW r \in {Case(n), Evaluation(n)}, NEW x
  PROVE  Beside(d, Over(One(r, x), d), n)
<1> DEFINE e == Over(One(r, x), d)
<1>1. r \in DOMAIN d /\ \A k \in Cases : Case(k) \in DOMAIN d /\ Evaluation(k) \in DOMAIN d
  BY DEF ReviewRows
<1>2. DOMAIN e = DOMAIN d
  BY <1>1, OneOver
<1>3. \A k \in Cases \ {n} : Case(k) # r /\ Evaluation(k) # r
  BY CasesApart
<1>4. \A q \in DOMAIN d : q # r => e[q] = d[q]
  BY OneElse
<1> HIDE DEF e
<1>5. Beside(d, e, n)
  BY <1>1, <1>2, <1>3, <1>4 DEF Beside
<1> QED
  BY <1>5 DEF e

\* ... and so do its two rows.
LEMMA BesideTwo ==
  ASSUME NEW d, ReviewRows(d), NEW n \in Cases, NEW r \in {Case(n), Evaluation(n)}, NEW x,
         NEW q \in {Case(n), Evaluation(n)}, NEW y
  PROVE  Beside(d, Over(Over(One(r, x), One(q, y)), d), n)
<1> DEFINE e == Over(Over(One(r, x), One(q, y)), d)
<1>1. r \in DOMAIN d /\ q \in DOMAIN d /\ \A k \in Cases : Case(k) \in DOMAIN d /\ Evaluation(k) \in DOMAIN d
  BY DEF ReviewRows
<1>2. DOMAIN e = DOMAIN d
  BY <1>1, TwoOver
<1>3. \A k \in Cases \ {n} : Case(k) # r /\ Evaluation(k) # r /\ Case(k) # q /\ Evaluation(k) # q
  BY CasesApart
<1>4. \A o \in DOMAIN d : o # r /\ o # q => e[o] = d[o]
  BY TwoElse
<1> HIDE DEF e
<1>5. Beside(d, e, n)
  BY <1>1, <1>2, <1>3, <1>4 DEF Beside
<1> QED
  BY <1>5 DEF e

\* What is left to do before the commit is the commit.
LEMMA LastIs ==
  ASSUME NEW todo, Head(todo).does = "commit"
  PROVE  /\ \A a, b : a.does # "commit" => todo # <<a, b>>
         /\ \A a, b, c : a.does # "commit" => todo # <<a, b, c>>
         /\ \A a, b, c, e : a.does # "commit" => todo # <<a, b, c, e>>
BY List2, List3, List4

\* What a saved sheet commits.
LEMMA SaveEnds ==
  ASSUME NEW n \in Cases, NEW x, NEW todo, NEW m, NEW d, ReviewRows(d), SaveJob(n, x, todo, m, d),
         Head(todo).does = "commit"
  PROVE  Len(todo) = 1 /\ ReviewEnd("save", n, d, Over(m, d))
<1>0. d[Evaluation(n)].status \in EDITABLE_BY_EVALUATOR /\ d[Evaluation(n)].status # "none"
  BY DEF SaveJob, EDITABLE_BY_EVALUATOR
<1>1. PICK y, k, p : Filed(d, n, y, k, p)
  BY <1>0, FileIs
<1>2. d[Evaluation(n)].status = y
  BY <1>1 DEF Filed, SheetRow
<1>3. todo = <<CommitNow>> /\ m = One(Evaluation(n), SheetRow(y, x))
  BY <1>2, LastIs, Doing DEF SaveJob
<1>4. Len(todo) = 1
  BY <1>3, List1
<1> DEFINE e == Over(m, d)
<1>5. Beside(d, e, n)
  BY <1>3, BesideOne
<1>6. e[Evaluation(n)] = SheetRow(y, x)
  BY <1>3, RowOver
<1>7. e[Case(n)] = d[Case(n)]
  <2>1. Case(n) \in DOMAIN d /\ Case(n) # Evaluation(n)
    BY CasesApart DEF ReviewRows
  <2> QED
    BY <1>3, <2>1, OneElse
<1> HIDE DEF e
<1>8. Moved("save", n, y, k, p, e)
  BY <1>0, <1>1, <1>2, <1>6, <1>7 DEF Moved, Filed
<1>9. ReviewEnd("save", n, d, e)
  BY <1>1, <1>5, <1>8 DEF ReviewEnd
<1> QED
  BY <1>4, <1>9 DEF e

\* What a move of a case commits: evaluation and case in the same new state.
LEMMA MoveEnds ==
  ASSUME NEW op \in Movers, NEW n \in Cases, NEW to \in To(op), NEW todo, NEW m, NEW d, ReviewRows(d),
         MoveJob(n, to, todo, m, d), d[Evaluation(n)].status \in From(op), Head(todo).does = "commit"
  PROVE  Len(todo) = 1 /\ ReviewEnd(op, n, d, Over(m, d))
<1>0. d[Evaluation(n)].status # "none"
  BY DEF From, EDITABLE_BY_EVALUATOR
<1>1. PICK x, k, p : Filed(d, n, x, k, p)
  BY <1>0, FileIs
<1>2. x \in From(op) /\ SheetAt(n, to, d) = SheetRow(to, p) /\ CaseAt(n, to, d) = CaseRow(to, k)
  <2>1. d[Evaluation(n)].status = x /\ d[Evaluation(n)].sheet = p /\ d[Case(n)].reopens = k
    BY <1>1 DEF Filed, SheetRow, CaseRow
  <2> QED
    BY <2>1 DEF SheetAt, CaseAt
<1>3. todo = <<CommitNow>> /\ m = Over(One(Case(n), CaseRow(to, k)), One(Evaluation(n), SheetRow(to, p)))
  BY <1>2, LastIs, Doing DEF MoveJob
<1>4. Len(todo) = 1
  BY <1>3, List1
<1> DEFINE e == Over(m, d)
<1>5. Beside(d, e, n)
  BY <1>3, BesideTwo
<1>6. e[Case(n)] = CaseRow(to, k)
  BY <1>3, TwoFirst
<1>7. e[Evaluation(n)] = SheetRow(to, p)
  <2>1. Case(n) # Evaluation(n)
    BY CasesApart
  <2> QED
    BY <1>3, <2>1, TwoSecond
<1> HIDE DEF e
<1>8. Moved(op, n, x, k, p, e)
  BY <1>2, <1>6, <1>7 DEF Moved
<1>9. ReviewEnd(op, n, d, e)
  BY <1>1, <1>5, <1>8 DEF ReviewEnd
<1> QED
  BY <1>4, <1>9 DEF e

\* What a reopening commits: both returned, and the case reopened once more.
LEMMA ReopenEnds ==
  ASSUME NEW n \in Cases, NEW todo, NEW m, NEW d, ReviewRows(d), ReopenJob(n, todo, m, d), Head(todo).does = "commit"
  PROVE  Len(todo) = 1 /\ ReviewEnd("reopen", n, d, Over(m, d))
<1>0. d[Evaluation(n)].status # "none"
  BY DEF ReopenJob
<1>1. PICK x, k, p : Filed(d, n, x, k, p)
  BY <1>0, FileIs
<1>2. SheetAt(n, "returned", d) = SheetRow("returned", p) /\ CaseAgain(n, d) = CaseRow("returned", k + 1)
  <2>1. d[Evaluation(n)].sheet = p /\ d[Case(n)].reopens = k
    BY <1>1 DEF Filed, SheetRow, CaseRow
  <2> QED
    BY <2>1 DEF SheetAt, CaseAgain
<1>3. todo = <<CommitNow>> /\ m = Over(One(Case(n), CaseRow("returned", k + 1)), One(Evaluation(n), SheetRow("returned", p)))
  BY <1>2, LastIs, Doing DEF ReopenJob
<1>4. Len(todo) = 1
  BY <1>3, List1
<1> DEFINE e == Over(m, d)
<1>5. Beside(d, e, n)
  BY <1>3, BesideTwo
<1>6. e[Case(n)] = CaseRow("returned", k + 1)
  BY <1>3, TwoFirst
<1>7. e[Evaluation(n)] = SheetRow("returned", p)
  <2>1. Case(n) # Evaluation(n)
    BY CasesApart
  <2> QED
    BY <1>3, <2>1, TwoSecond
<1> HIDE DEF e
<1>8. Moved("reopen", n, x, k, p, e)
  BY <1>6, <1>7 DEF Moved
<1>9. ReviewEnd("reopen", n, d, e)
  BY <1>1, <1>5, <1>8 DEF ReviewEnd
<1> QED
  BY <1>4, <1>9 DEF e

\* What a cancellation commits: the case, and its evaluation where there is one.
LEMMA CancelEnds ==
  ASSUME NEW n \in Cases, NEW todo, NEW m, NEW d, ReviewRows(d), CancelJob(n, todo, m, d), Head(todo).does = "commit"
  PROVE  Len(todo) = 1 /\ ReviewEnd("cancel", n, d, Over(m, d))
<1>0. d[Case(n)].status # "none"
  BY DEF CancelJob
<1>1. PICK x \in CaseStates, k \in Nat :
        /\ d[Case(n)] = CaseRow(x, k)
        /\ d[Evaluation(n)] = NoRow \/ \E p : d[Evaluation(n)] = SheetRow(x, p)
  BY <1>0, CaseIs
<1>2. CaseAt(n, "cancelled", d) = CaseRow("cancelled", k)
  BY <1>1 DEF CaseAt, CaseRow
<1>3. /\ todo = <<CommitNow>>
      /\ \/ d[Evaluation(n)] = NoRow /\ m = One(Case(n), CaseRow("cancelled", k))
         \/ /\ d[Evaluation(n)] # NoRow
            /\ m = Over(One(Evaluation(n), SheetAt(n, "cancelled", d)), One(Case(n), CaseRow("cancelled", k)))
  BY <1>2, LastIs, Doing DEF CancelJob
<1>4. Len(todo) = 1
  BY <1>3, List1
<1>5. Case(n) # Evaluation(n) /\ Case(n) \in DOMAIN d /\ Evaluation(n) \in DOMAIN d
  BY CasesApart DEF ReviewRows
<1> DEFINE e == Over(m, d)
<1>6. CASE d[Evaluation(n)] = NoRow
  <2>1. m = One(Case(n), CaseRow("cancelled", k))
    BY <1>3, <1>6
  <2>2. Beside(d, e, n)
    BY <2>1, BesideOne
  <2>3. e[Case(n)] = CaseRow("cancelled", k)
    BY <2>1, RowOver
  <2>4. e[Evaluation(n)] = d[Evaluation(n)]
    BY <1>5, <2>1, OneElse
  <2> HIDE DEF e
  <2>5. Cancelled(n, d, e)
    BY <1>1, <1>6, <2>3, <2>4 DEF Cancelled
  <2>6. ReviewEnd("cancel", n, d, e)
    BY <2>2, <2>5 DEF ReviewEnd
  <2> QED
    BY <1>4, <2>6 DEF e
<1>7. CASE d[Evaluation(n)] # NoRow
  <2>1. PICK p : d[Evaluation(n)] = SheetRow(x, p)
    BY <1>1, <1>7
  <2>2. SheetAt(n, "cancelled", d) = SheetRow("cancelled", p)
    BY <2>1 DEF SheetAt, SheetRow
  <2>3. m = Over(One(Evaluation(n), SheetRow("cancelled", p)), One(Case(n), CaseRow("cancelled", k)))
    BY <1>3, <1>7, <2>2
  <2>4. Beside(d, e, n)
    BY <2>3, BesideTwo
  <2>5. e[Evaluation(n)] = SheetRow("cancelled", p)
    BY <2>3, TwoFirst
  <2>6. e[Case(n)] = CaseRow("cancelled", k)
    BY <1>5, <2>3, TwoSecond
  <2> HIDE DEF e
  <2>7. Cancelled(n, d, e)
    BY <1>1, <2>1, <2>5, <2>6 DEF Cancelled
  <2>8. ReviewEnd("cancel", n, d, e)
    BY <2>4, <2>7 DEF ReviewEnd
  <2> QED
    BY <1>4, <2>8 DEF e
<1> QED
  BY <1>6, <1>7

\* What either transaction of a new case commits: the case first, then its evaluation.
LEMMA OpenEnds ==
  ASSUME NEW todo, NEW m, NEW d, ReviewRows(d), OpenJob(todo, m, d), Head(todo).does = "commit"
  PROVE  \E n \in Cases :
           /\ ReviewEnd("open", n, d, Over(m, d))
           /\ Len(todo) = 1 \/ (Len(todo) # 1 /\ OpenJob(Tail(todo), NoRows, Over(m, d)))
<1>1. todo # <<Number>> /\ \A n : todo # NewCase(n) /\ todo # Tail(Tail(NewCase(n)))
  <2>1. todo # <<Number>>
    BY List1, Doing
  <2>2. ASSUME NEW n PROVE todo # NewCase(n) /\ todo # Tail(Tail(NewCase(n)))
    <3> DEFINE c == Insert(Case(n), CaseRow("draft", 0))
               e == Insert(Evaluation(n), SheetRow("draft", "blank"))
    <3>1. NewCase(n) = <<c, CommitNow, e, CommitNow>> /\ Tail(Tail(NewCase(n))) = <<e, CommitNow>>
      BY NewCaseIs
    <3> QED
      BY <3>1, LastIs, Doing
  <2> QED
    BY <2>1, <2>2
<1>2. PICK n \in Cases :
       \/ /\ todo = Tail(NewCase(n)) /\ m = One(Case(n), CaseRow("draft", 0)) /\ AllReopened(d)
          /\ d[Case(n)] = NoRow
       \/ /\ todo = <<CommitNow>> /\ m = One(Evaluation(n), SheetRow("draft", "blank"))
          /\ d[Case(n)] = CaseRow("draft", 0) /\ d[Evaluation(n)] = NoRow
  BY <1>1 DEF OpenJob
<1> DEFINE e == Over(m, d)
<1>3. Case(n) # Evaluation(n) /\ Case(n) \in DOMAIN d /\ Evaluation(n) \in DOMAIN d
  BY CasesApart DEF ReviewRows
<1>4. CASE /\ todo = Tail(NewCase(n)) /\ m = One(Case(n), CaseRow("draft", 0)) /\ AllReopened(d)
           /\ d[Case(n)] = NoRow
  <2>1. Beside(d, e, n)
    BY <1>4, BesideOne
  <2>2. e[Case(n)] = CaseRow("draft", 0)
    BY <1>4, RowOver
  <2>3. e[Evaluation(n)] = d[Evaluation(n)]
    BY <1>3, <1>4, OneElse
  <2>4. d[Evaluation(n)] = NoRow
    <3>1. File(d, n)
      BY DEF ReviewRows
    <3>2. \A x \in CaseStates : \A k : CaseRow(x, k).status # "none"
      BY DEF CaseRow, CaseStates, ACTIVE
    <3>3. \A x \in CaseStates : \A k : CaseRow(x, k) # NoRow
      BY <3>2 DEF NoRow
    <3> QED
      BY <1>4, <3>1, <3>3 DEF File
  <2>5. Len(todo) # 1
    <3> DEFINE i == Insert(Evaluation(n), SheetRow("draft", "blank"))
    <3>1. Tail(NewCase(n)) = <<CommitNow, i, CommitNow>>
      BY NewCaseIs
    <3> QED
      BY <1>4, <3>1, List3
  <2> HIDE DEF e
  <2>6. CaseOpened(n, d, e)
    BY <1>4, <2>2, <2>3, <2>4 DEF CaseOpened
  <2>7. ReviewEnd("open", n, d, e)
    BY <2>1, <2>6 DEF ReviewEnd
  <2>8. OpenJob(Tail(todo), NoRows, e)
    BY <1>4, <2>2, <2>3, <2>4 DEF OpenJob
  <2> QED
    BY <2>5, <2>7, <2>8 DEF e
<1>5. CASE /\ todo = <<CommitNow>> /\ m = One(Evaluation(n), SheetRow("draft", "blank"))
           /\ d[Case(n)] = CaseRow("draft", 0) /\ d[Evaluation(n)] = NoRow
  <2>1. Beside(d, e, n)
    BY <1>5, BesideOne
  <2>2. e[Evaluation(n)] = SheetRow("draft", "blank")
    BY <1>5, RowOver
  <2>3. e[Case(n)] = d[Case(n)]
    BY <1>3, <1>5, OneElse
  <2>4. Len(todo) = 1
    BY <1>5, List1
  <2> HIDE DEF e
  <2>5. CaseOpened(n, d, e)
    BY <1>5, <2>2, <2>3 DEF CaseOpened
  <2>6. ReviewEnd("open", n, d, e)
    BY <2>1, <2>5 DEF ReviewEnd
  <2> QED
    BY <2>4, <2>6 DEF e
<1> QED
  BY <1>2, <1>4, <1>5

\* What a step may do to the cases.
ReviewStep(d, e) ==
  \A n \in Cases :
    LET was == d[Case(n)].status
        now == e[Case(n)].status
    IN  /\ was # now =>
             \/ now \in {"draft", "returned", "cancelled"}
             \/ was \in EDITABLE_BY_EVALUATOR /\ now \in {"pending_manager", "pending_hr_review"}
             \/ was = "pending_manager" /\ now = "pending_hr_review"
             \/ was = "pending_hr_review" /\ now \in {"approved", "rejected"}
        /\ d[Evaluation(n)].status # "none" /\ d[Evaluation(n)].status \notin EDITABLE_BY_EVALUATOR
             => e[Evaluation(n)].sheet = d[Evaluation(n)].sheet

\* What the rows of a case hold.
LEMMA CaseCols ==
  /\ \A x, k : CaseRow(x, k).status = x /\ CaseRow(x, k).reopens = k
  /\ \A x, p : SheetRow(x, p).status = x /\ SheetRow(x, p).sheet = p
  /\ NoRow.status = "none"
BY DEF CaseRow, SheetRow, NoRow

\* A case after a function, seen from the others.
LEMMA StillActive ==
  ASSUME NEW op, NEW n \in Cases, NEW d, NEW e, ReviewRows(d), ReviewEnd(op, n, d, e),
         e[Case(n)].status \in ACTIVE
  PROVE  /\ e[Case(n)].reopens \in Nat
         /\ \/ e[Case(n)].reopens > 0
            \/ d[Case(n)].status \in ACTIVE /\ d[Case(n)].reopens = e[Case(n)].reopens
            \/ AllReopened(d)
<1>1. CASE CaseOpened(n, d, e)
  BY <1>1, CaseCols DEF CaseOpened, ACTIVE
<1>2. ~Cancelled(n, d, e)
  BY CaseCols DEF Cancelled, ACTIVE
<1>3. ASSUME NEW x, NEW k, NEW p, Filed(d, n, x, k, p), Moved(op, n, x, k, p, e)
      PROVE  /\ e[Case(n)].reopens \in Nat
             /\ \/ e[Case(n)].reopens > 0
                \/ d[Case(n)].status \in ACTIVE /\ d[Case(n)].reopens = e[Case(n)].reopens
  <2>1. k \in Nat /\ d[Case(n)].status = x /\ d[Case(n)].reopens = k
    BY <1>3, CaseCols DEF Filed
  <2>2. From(op) \subseteq ACTIVE /\ EDITABLE_BY_EVALUATOR \subseteq ACTIVE
    BY DEF From, EDITABLE_BY_EVALUATOR, ACTIVE
  <2>3. \/ e[Case(n)].reopens = k /\ x \in ACTIVE
        \/ e[Case(n)].reopens = k + 1
    BY <1>3, <2>2, CaseCols DEF Moved
  <2> QED
    BY <2>1, <2>3
<1> QED
  BY <1>1, <1>2, <1>3 DEF ReviewEnd

\* The rows are good again: a case says what its evaluation says, and an employee has two
\* active cases only if one was reopened.
LEMMA ReviewGood ==
  ASSUME NEW op, NEW n \in Cases, NEW d, NEW e, ReviewRows(d), ReviewEnd(op, n, d, e)
  PROVE  ReviewRows(e) /\ ReviewStep(d, e)
<1>1. Beside(d, e, n)
  BY DEF ReviewEnd
<1>2. File(e, n)
  <2>1. CASE CaseOpened(n, d, e)
    <3>1. "draft" \in CaseStates /\ 0 \in Nat
      BY DEF CaseStates, ACTIVE
    <3> QED
      BY <2>1, <3>1 DEF CaseOpened, File
  <2>2. CASE Cancelled(n, d, e)
    <3>1. "cancelled" \in CaseStates
      BY DEF CaseStates
    <3> QED
      BY <2>2, <3>1 DEF Cancelled, File
  <2>3. ASSUME NEW x, NEW k, NEW p, Filed(d, n, x, k, p), Moved(op, n, x, k, p, e)
        PROVE  File(e, n)
    <3>1. x \in CaseStates /\ k \in Nat /\ k + 1 \in Nat
      BY <2>3 DEF Filed
    <3>2. "returned" \in CaseStates /\ (op \in Movers => To(op) \subseteq CaseStates)
      BY DEF To, Movers, CaseStates, ACTIVE
    <3> QED
      BY <2>3, <3>1, <3>2 DEF Moved, File
  <2> QED
    BY <2>1, <2>2, <2>3 DEF ReviewEnd
<1>3. \A k \in Cases : File(e, k)
  BY <1>1, <1>2 DEF Beside, ReviewRows, File
<1>4. ASSUME NEW k \in Cases, NEW l \in Cases, k # l, {e[Case(k)].status, e[Case(l)].status} \subseteq ACTIVE
      PROVE  e[Case(k)].reopens + e[Case(l)].reopens > 0
  <2>1. ASSUME NEW o \in Cases, e[Case(o)].status \in ACTIVE PROVE e[Case(o)].reopens \in Nat
    <3>1. "none" \notin ACTIVE
      BY DEF ACTIVE
    <3> QED
      BY <1>3, <2>1, <3>1, CaseCols DEF File
  <2>2. ASSUME NEW o \in Cases \ {n}, e[Case(o)].status \in ACTIVE, e[Case(n)].status \in ACTIVE
        PROVE  e[Case(n)].reopens + e[Case(o)].reopens > 0
    <3>1. e[Case(o)] = d[Case(o)]
      BY <1>1 DEF Beside
    <3>2. e[Case(o)].reopens \in Nat /\ e[Case(n)].reopens \in Nat
      BY <2>1, <2>2
    <3>3. CASE e[Case(n)].reopens > 0
      BY <3>2, <3>3
    <3>4. CASE d[Case(n)].status \in ACTIVE /\ d[Case(n)].reopens = e[Case(n)].reopens
      <4>1. d[Case(n)].reopens + d[Case(o)].reopens > 0
        BY <2>2, <3>1, <3>4 DEF ReviewRows
      <4> QED
        BY <3>1, <3>4, <4>1
    <3>5. CASE AllReopened(d)
      <4>1. d[Case(o)].reopens > 0
        BY <2>2, <3>1, <3>5 DEF AllReopened
      <4> QED
        BY <3>1, <3>2, <4>1
    <3> QED
      BY <2>2, <3>3, <3>4, <3>5, StillActive
  <2>3. CASE k = n
    BY <1>4, <2>2, <2>3
  <2>4. CASE l = n
    <3>1. e[Case(n)].reopens + e[Case(k)].reopens > 0
      BY <1>4, <2>2, <2>4
    <3>2. e[Case(n)].reopens \in Nat /\ e[Case(k)].reopens \in Nat
      BY <1>4, <2>1, <2>4
    <3> QED
      BY <2>4, <3>1, <3>2
  <2>5. CASE k # n /\ l # n
    <3>1. e[Case(k)] = d[Case(k)] /\ e[Case(l)] = d[Case(l)]
      BY <1>1, <2>5 DEF Beside
    <3> QED
      BY <1>4, <3>1 DEF ReviewRows
  <2> QED
    BY <2>3, <2>4, <2>5
<1>5. ReviewRows(e)
  BY <1>1, <1>3, <1>4 DEF ReviewRows, Beside
<1>6. ReviewStep(d, e)
  <2> DEFINE LinesKept(k) ==
               LET was == d[Case(k)].status
                   now == e[Case(k)].status
               IN  /\ was # now =>
                        \/ now \in {"draft", "returned", "cancelled"}
                        \/ was \in EDITABLE_BY_EVALUATOR /\ now \in {"pending_manager", "pending_hr_review"}
                        \/ was = "pending_manager" /\ now = "pending_hr_review"
                        \/ was = "pending_hr_review" /\ now \in {"approved", "rejected"}
                   /\ d[Evaluation(k)].status # "none" /\ d[Evaluation(k)].status \notin EDITABLE_BY_EVALUATOR
                        => e[Evaluation(k)].sheet = d[Evaluation(k)].sheet
  <2>1. \A k \in Cases \ {n} : LinesKept(k)
    BY <1>1 DEF Beside
  <2>2. CASE CaseOpened(n, d, e)
    <3>1. LinesKept(n)
      BY <2>2, CaseCols DEF CaseOpened
    <3> QED
      BY <2>1, <3>1 DEF ReviewStep
  <2>3. CASE Cancelled(n, d, e)
    <3>1. LinesKept(n)
      BY <2>3, CaseCols DEF Cancelled
    <3> QED
      BY <2>1, <3>1 DEF ReviewStep
  <2>4. ASSUME NEW x, NEW k, NEW p, Filed(d, n, x, k, p), Moved(op, n, x, k, p, e)
        PROVE  LinesKept(n)
    <3>1. d[Case(n)].status = x /\ d[Evaluation(n)].status = x /\ d[Evaluation(n)].sheet = p
      BY <2>4, CaseCols DEF Filed
    <3>2. CASE op = "save" /\ x \in EDITABLE_BY_EVALUATOR /\ e[Case(n)] = CaseRow(x, k)
      BY <3>1, <3>2, CaseCols
    <3>3. ASSUME op \in Movers, x \in From(op), NEW to \in To(op), e[Case(n)] = CaseRow(to, k),
                 e[Evaluation(n)] = SheetRow(to, p)
          PROVE  LinesKept(n)
      <4>1. e[Case(n)].status = to /\ e[Evaluation(n)].sheet = p
        BY <3>3, CaseCols
      <4> QED
        BY <3>1, <3>3, <4>1 DEF Movers, From, To
    <3>4. CASE e[Case(n)] = CaseRow("returned", k + 1) /\ e[Evaluation(n)] = SheetRow("returned", p)
      BY <3>1, <3>4, CaseCols
    <3> QED
      BY <2>4, <3>2, <3>3, <3>4 DEF Moved
  <2>5. LinesKept(n)
    BY <2>1, <2>2, <2>3, <2>4 DEF ReviewEnd, ReviewStep
  <2> QED
    BY <2>1, <2>5 DEF ReviewStep
<1> QED
  BY <1>5, <1>6

\* Which case a function works on, and what is left to do.
LEMMA ReviewEnded ==
  ASSUME NEW op, NEW doc, NEW todo, NEW m, NEW d, ReviewRows(d), ReviewJob(op, doc, todo, m, d),
         Head(todo).does = "commit"
  PROVE  /\ \E n \in Cases : ReviewEnd(op, n, d, Over(m, d))
         /\ Len(todo) = 1 \/ (Len(todo) # 1 /\ ReviewJob(op, doc, Tail(todo), NoRows, Over(m, d)))
<1> DEFINE e == Over(m, d)
           Goal == /\ \E n \in Cases : ReviewEnd(op, n, d, e)
                   /\ Len(todo) = 1 \/ (Len(todo) # 1 /\ ReviewJob(op, doc, Tail(todo), NoRows, e))
<1>1. ASSUME op = "open" PROVE Goal
  <2>1. OpenJob(todo, m, d)
    BY <1>1 DEF ReviewJob, Movers
  <2>2. PICK n \in Cases :
          /\ ReviewEnd("open", n, d, e)
          /\ Len(todo) = 1 \/ (Len(todo) # 1 /\ OpenJob(Tail(todo), NoRows, e))
    BY <2>1, OpenEnds
  <2>3. doc = Employee
    BY DEF ReviewJob
  <2> HIDE DEF e
  <2> QED
    BY <1>1, <2>2, <2>3 DEF ReviewJob
<1>2. ASSUME NEW n \in Cases, NEW x, op = "save", SaveJob(n, x, todo, m, d) PROVE Goal
  BY <1>2, SaveEnds
<1>3. ASSUME NEW n \in Cases, op \in Movers, d[Evaluation(n)].status \in From(op), NEW to \in To(op),
             MoveJob(n, to, todo, m, d)
      PROVE  Goal
  BY <1>3, MoveEnds
<1>4. ASSUME NEW n \in Cases, op = "reopen", ReopenJob(n, todo, m, d) PROVE Goal
  BY <1>4, ReopenEnds
<1>5. ASSUME NEW n \in Cases, op = "cancel", CancelJob(n, todo, m, d) PROVE Goal
  BY <1>5, CancelEnds
<1> HIDE DEF Goal
<1>6. Goal
  BY <1>1, <1>2, <1>3, <1>4, <1>5 DEF ReviewJob
<1> QED
  BY <1>6 DEF Goal

\* The same, of whatever function a session is in when it commits.
LEMMA ReviewEnds ==
  ASSUME NEW op, NEW doc, NEW todo, NEW m, NEW d, ReviewRows(d), ReviewJob(op, doc, todo, m, d),
         Head(todo).does = "commit"
  PROVE  /\ ReviewRows(Over(m, d)) /\ ReviewStep(d, Over(m, d))
         /\ Len(todo) = 1 \/ (Len(todo) # 1 /\ ReviewJob(op, doc, Tail(todo), NoRows, Over(m, d)))
<1>1. PICK n \in Cases : ReviewEnd(op, n, d, Over(m, d))
  BY ReviewEnded
<1>2. ReviewRows(Over(m, d)) /\ ReviewStep(d, Over(m, d))
  BY <1>1, ReviewGood
<1> QED
  BY <1>2, ReviewEnded

\* The rows a session has written stay as they are when another commits.
LEMMA Untouched ==
  ASSUME NEW m, NEW d, NEW n, DOMAIN m \cap DOMAIN n = {}, NEW r \in DOMAIN n, r \in DOMAIN d
  PROVE  Over(m, d)[r] = d[r]
BY DEF Over

\* Which functions of a review may overlap.
LEMMA ReviewMeets ==
  ASSUME NEW f, NEW g, MayMeet(f, g)
  PROVE  /\ g = "open" => f \notin {"open", "cancel"}
         /\ g = "save" => f \notin {"submit", "cancel"}
         /\ g \in Movers => f \notin Movers \cup {"reopen", "cancel"}
         /\ g = "submit" => f # "save"
         /\ g = "reopen" => f \notin Movers
         /\ g = "cancel" => f \notin Movers \cup {"open", "save"}
<1>1. {f, g} \notin Harmful
  BY DEF MayMeet
<1>2. \A a, b \in CaseMovers : {a, b} \in {{"reopen"}, {"cancel"}, {"reopen", "cancel"}} \/ {a, b} \in Harmful
  BY DEF Harmful
<1>3. \A a, b : {a, b} \in {{"reopen"}, {"cancel"}, {"reopen", "cancel"}} => a \in {"reopen", "cancel"} /\ b \in {"reopen", "cancel"}
  OBVIOUS
<1>4. f \in CaseMovers /\ g \in CaseMovers => f \in {"reopen", "cancel"} /\ g \in {"reopen", "cancel"}
  BY <1>1, <1>2, <1>3
<1>5. Movers \subseteq CaseMovers /\ {"reopen", "cancel"} \subseteq CaseMovers /\ "submit" \in Movers
      /\ "reopen" \notin Movers /\ "cancel" \notin Movers
  BY DEF Movers, CaseMovers
<1>6. /\ {"open", "open"} \in Harmful /\ {"cancel", "open"} \in Harmful /\ {"open", "cancel"} \in Harmful
      /\ {"submit", "save"} \in Harmful /\ {"save", "submit"} \in Harmful
      /\ {"cancel", "save"} \in Harmful /\ {"save", "cancel"} \in Harmful
  <2>1. {"cancel", "open"} = {"open", "cancel"} /\ {"submit", "save"} = {"save", "submit"} /\ {"cancel", "save"} = {"save", "cancel"}
        /\ {"open", "open"} = {"open"}
    OBVIOUS
  <2> QED
    BY <2>1 DEF Harmful
<1> QED
  BY <1>1, <1>4, <1>5, <1>6

\* What another session relies on is left as it is.
LEMMA OpenStays ==
  ASSUME NEW op, NEW n \in Cases, NEW d, NEW e, ReviewRows(d), ReviewEnd(op, n, d, e),
         op \notin {"open", "cancel"}, NEW left, NEW own, OpenJob(left, own, d)
  PROVE  OpenJob(left, own, e)
<1>1. PICK x, k, p : Filed(d, n, x, k, p) /\ Moved(op, n, x, k, p, e)
  BY DEF ReviewEnd
<1>2. d[Case(n)].status = x /\ d[Case(n)].reopens = k /\ d[Evaluation(n)].status = x /\ k \in Nat /\ x # "none"
  BY <1>1, CaseCols DEF Filed, CaseStates, ACTIVE
<1>3. d[Case(n)] # NoRow /\ d[Evaluation(n)] # NoRow
  BY <1>2 DEF NoRow
<1>4. \A o \in Cases : d[Evaluation(o)] = NoRow \/ d[Case(o)] = NoRow =>
         e[Case(o)] = d[Case(o)] /\ e[Evaluation(o)] = d[Evaluation(o)]
  BY <1>3 DEF ReviewEnd, Beside
<1>5. AllReopened(d) => AllReopened(e)
  <2>1. ASSUME AllReopened(d), e[Case(n)].status \in ACTIVE PROVE e[Case(n)].reopens > 0
    <3>1. From(op) \subseteq ACTIVE /\ EDITABLE_BY_EVALUATOR \subseteq ACTIVE
      BY DEF From, EDITABLE_BY_EVALUATOR, ACTIVE
    <3>2. \/ e[Case(n)].reopens = k /\ x \in ACTIVE
          \/ e[Case(n)].reopens = k + 1
      BY <1>1, <3>1, CaseCols DEF Moved
    <3> QED
      BY <1>2, <2>1, <3>2 DEF AllReopened
  <2> QED
    BY <2>1 DEF AllReopened, ReviewEnd, Beside
<1> QED
  BY <1>4, <1>5 DEF OpenJob

\* A sheet that is being saved stays open to edits unless the case is submitted or cancelled.
LEMMA SaveStays ==
  ASSUME NEW op, NEW n \in Cases, NEW d, NEW e, ReviewRows(d), ReviewEnd(op, n, d, e),
         op \notin {"submit", "cancel"}, NEW l \in Cases, NEW y, NEW left, NEW own, SaveJob(l, y, left, own, d),
         Evaluation(l) \in DOMAIN own => e[Evaluation(l)] = d[Evaluation(l)]
  PROVE  SaveJob(l, y, left, own, e)
<1>1. e[Evaluation(l)].status \in EDITABLE_BY_EVALUATOR
  <2>1. CASE l # n
    BY <2>1 DEF ReviewEnd, Beside, SaveJob
  <2>2. CASE l = n
    <3>1. d[Evaluation(n)].status \in EDITABLE_BY_EVALUATOR
      BY <2>2 DEF SaveJob
    <3>2. ~CaseOpened(n, d, e)
      BY <3>1, CaseCols DEF CaseOpened, EDITABLE_BY_EVALUATOR
    <3>3. PICK x, k, p : Filed(d, n, x, k, p) /\ Moved(op, n, x, k, p, e)
      BY <3>2 DEF ReviewEnd
    <3>4. x \in EDITABLE_BY_EVALUATOR
      BY <3>1, <3>3, CaseCols DEF Filed
    <3>5. x \notin From(op) \/ op \notin Movers
      BY <3>4 DEF From, EDITABLE_BY_EVALUATOR
    <3>6. "returned" \in EDITABLE_BY_EVALUATOR
      BY DEF EDITABLE_BY_EVALUATOR
    <3>7. e[Evaluation(n)].status \in EDITABLE_BY_EVALUATOR
      BY <3>3, <3>4, <3>5, <3>6, CaseCols DEF Moved
    <3> QED
      BY <2>2, <3>7
  <2> QED
    BY <2>1, <2>2
<1>2. own # NoRows => e[Evaluation(l)] = d[Evaluation(l)]
  <2>1. \A x : Evaluation(l) \in DOMAIN One(Evaluation(l), x)
    BY OneDomain
  <2> QED
    BY <2>1 DEF SaveJob
<1>3. CASE own = NoRows
  <2>1. \A a, b : One(a, b) # NoRows
    BY OneDomain, NoneIs
  <2> QED
    BY <1>1, <1>3, <2>1 DEF SaveJob
<1>4. CASE own # NoRows
  BY <1>1, <1>2, <1>4 DEF SaveJob
<1> QED
  BY <1>3, <1>4

\* A function that moves a case meets none but one that opens another or writes a sheet.
LEMMA MoveStays ==
  ASSUME NEW op \in {"open", "save"}, NEW n \in Cases, NEW d, NEW e, ReviewRows(d), ReviewEnd(op, n, d, e),
         NEW g \in Movers, g = "submit" => op # "save",
         NEW l \in Cases, d[Evaluation(l)].status \in From(g)
  PROVE  e[Evaluation(l)] = d[Evaluation(l)] /\ e[Case(l)] = d[Case(l)]
<1>1. CASE l # n
  BY <1>1 DEF ReviewEnd, Beside
<1>2. CASE l = n
  <2>1. ~CaseOpened(n, d, e)
    BY <1>2, CaseCols DEF CaseOpened, From, EDITABLE_BY_EVALUATOR
  <2>2. PICK x, k, p : Filed(d, n, x, k, p) /\ Moved(op, n, x, k, p, e)
    BY <2>1 DEF ReviewEnd
  <2>3. op = "save" /\ x \in EDITABLE_BY_EVALUATOR /\ g # "submit"
    BY <2>1, <2>2 DEF ReviewEnd, Moved, Movers
  <2>4. x \in From(g)
    BY <1>2, <2>2, CaseCols DEF Filed
  <2> QED
    BY <2>3, <2>4 DEF From, EDITABLE_BY_EVALUATOR
<1> QED
  BY <1>1, <1>2

\* A reopening needs nothing but an evaluation that is there.
LEMMA ReopenStays ==
  ASSUME NEW op, NEW n \in Cases, NEW d, NEW e, ReviewRows(d), ReviewEnd(op, n, d, e),
         NEW l \in Cases, NEW left, NEW own, ReopenJob(l, left, own, d),
         Evaluation(l) \in DOMAIN own => e[Evaluation(l)] = d[Evaluation(l)],
         Case(l) \in DOMAIN own => e[Case(l)] = d[Case(l)]
  PROVE  ReopenJob(l, left, own, e)
<1>0. d[Evaluation(l)].status # "none"
  BY DEF ReopenJob
<1>1. e[Evaluation(l)].status # "none"
  <2>1. CASE l # n
    BY <1>0, <2>1 DEF ReviewEnd, Beside
  <2>2. CASE l = n
    <3>1. ~CaseOpened(n, d, e)
      BY <1>0, <2>2, CaseCols DEF CaseOpened
    <3>2. CASE Cancelled(n, d, e)
      BY <1>0, <2>2, <3>2, CaseCols DEF Cancelled
    <3>3. ASSUME NEW x, NEW k, NEW p, Filed(d, n, x, k, p), Moved(op, n, x, k, p, e)
          PROVE  e[Evaluation(l)].status # "none"
      <4>1. x # "none" /\ \A to \in To(op) : op \in Movers => to # "none"
        BY <3>3 DEF Filed, CaseStates, ACTIVE, To, Movers
      <4> QED
        BY <2>2, <3>3, <4>1, CaseCols DEF Moved
    <3> QED
      BY <3>1, <3>2, <3>3 DEF ReviewEnd
  <2> QED
    BY <2>1, <2>2
<1>2. \A x : Evaluation(l) \in DOMAIN One(Evaluation(l), x)
  BY OneDomain
<1>3. \A x, y : Evaluation(l) \in DOMAIN Over(One(Case(l), y), One(Evaluation(l), x))
               /\ Case(l) \in DOMAIN Over(One(Case(l), y), One(Evaluation(l), x))
  BY DEF Over, One
<1>4. e[Evaluation(l)] = d[Evaluation(l)] => SheetAt(l, "returned", e) = SheetAt(l, "returned", d)
  BY DEF SheetAt
<1>5. e[Case(l)] = d[Case(l)] => CaseAt(l, "returned", e) = CaseAt(l, "returned", d) /\ CaseAgain(l, e) = CaseAgain(l, d)
  BY DEF CaseAt, CaseAgain
<1> QED
  BY <1>1, <1>2, <1>3, <1>4, <1>5 DEF ReopenJob

\* A cancellation writes a case that is there, next to another or to a reopening.
LEMMA CancelStays ==
  ASSUME NEW op \in {"reopen", "cancel"}, NEW n \in Cases, NEW d, NEW e, ReviewRows(d), ReviewEnd(op, n, d, e),
         NEW l \in Cases, NEW left, NEW own, CancelJob(l, left, own, d),
         Evaluation(l) \in DOMAIN own => e[Evaluation(l)] = d[Evaluation(l)],
         Case(l) \in DOMAIN own => e[Case(l)] = d[Case(l)]
  PROVE  CancelJob(l, left, own, e)
<1>0. d[Case(l)].status # "none"
  BY DEF CancelJob
<1>1. e[Case(l)].status # "none" /\ (d[Evaluation(l)] = NoRow => e[Evaluation(l)] = NoRow)
  <2>1. CASE l # n
    BY <1>0, <2>1 DEF ReviewEnd, Beside
  <2>2. CASE l = n
    <3>1. CASE Cancelled(n, d, e)
      <4>1. \A x \in CaseStates : \A p : SheetRow(x, p).status # "none"
        BY CaseCols DEF CaseStates, ACTIVE
      <4> QED
        BY <2>2, <3>1, <4>1, CaseCols DEF Cancelled
    <3>2. ASSUME NEW x, NEW k, NEW p, Filed(d, n, x, k, p), Moved(op, n, x, k, p, e)
          PROVE  e[Case(l)].status # "none" /\ d[Evaluation(l)] # NoRow
      <4>1. x # "none"
        BY <3>2 DEF Filed, CaseStates, ACTIVE
      <4>2. d[Evaluation(l)].status # "none"
        BY <2>2, <3>2, <4>1, CaseCols DEF Filed
      <4>3. e[Case(n)] = CaseRow("returned", k + 1)
        BY <3>2 DEF Moved, Movers
      <4> QED
        BY <2>2, <4>2, <4>3, CaseCols
    <3> QED
      BY <3>1, <3>2 DEF ReviewEnd
  <2> QED
    BY <2>1, <2>2
<1>2. \A x : Case(l) \in DOMAIN One(Case(l), x)
  BY OneDomain
<1>3. \A x, y : Evaluation(l) \in DOMAIN Over(One(Evaluation(l), x), One(Case(l), y))
               /\ Case(l) \in DOMAIN Over(One(Evaluation(l), x), One(Case(l), y))
  BY DEF Over, One
<1>4. e[Evaluation(l)] = d[Evaluation(l)] => SheetAt(l, "cancelled", e) = SheetAt(l, "cancelled", d)
  BY DEF SheetAt
<1>5. e[Case(l)] = d[Case(l)] => CaseAt(l, "cancelled", e) = CaseAt(l, "cancelled", d)
  BY DEF CaseAt
<1> QED
  BY <1>1, <1>2, <1>3, <1>4, <1>5 DEF CancelJob

\* Another function under way stands when one commits.
LEMMA ReviewStays ==
  ASSUME NEW op, NEW doc, NEW todo, NEW m, NEW d, ReviewRows(d), ReviewJob(op, doc, todo, m, d),
         Head(todo).does = "commit",
         NEW g, NEW doc2, NEW left, NEW own, ReviewJob(g, doc2, left, own, d),
         doc = doc2 => MayMeet(op, g), DOMAIN m \cap DOMAIN own = {}
  PROVE  ReviewJob(g, doc2, left, own, Over(m, d))
<1> DEFINE e == Over(m, d)
<1>1. PICK n \in Cases : ReviewEnd(op, n, d, e)
  BY ReviewEnded
<1>2. \A r \in DOMAIN own : r \in DOMAIN d => e[r] = d[r]
  BY Untouched
<1>3. \A l \in Cases : Case(l) \in DOMAIN d /\ Evaluation(l) \in DOMAIN d
  BY DEF ReviewRows
<1>4. doc = Employee /\ doc2 = Employee /\ MayMeet(op, g)
  BY DEF ReviewJob
<1>5. op \in Movers \cup {"open", "save", "reopen", "cancel"}
  BY DEF ReviewJob
<1>6. /\ "open" \notin Movers /\ "save" \notin Movers /\ "reopen" \notin Movers /\ "cancel" \notin Movers
  BY DEF Movers
<1> HIDE DEF e
<1> DEFINE Goal == ReviewJob(g, doc2, left, own, e)
<1>7. ASSUME g = "open" PROVE Goal
  <2>1. OpenJob(left, own, d)
    BY <1>6, <1>7 DEF ReviewJob
  <2>2. op \notin {"open", "cancel"}
    BY <1>4, <1>7, ReviewMeets
  <2>3. OpenJob(left, own, e)
    BY <1>1, <2>1, <2>2, OpenStays
  <2> QED
    BY <1>4, <1>7, <2>3 DEF ReviewJob
<1>8. ASSUME NEW l \in Cases, NEW x, g = "save", SaveJob(l, x, left, own, d) PROVE Goal
  <2>1. op \notin {"submit", "cancel"}
    BY <1>4, <1>8, ReviewMeets
  <2>2. Evaluation(l) \in DOMAIN own => e[Evaluation(l)] = d[Evaluation(l)]
    BY <1>2, <1>3
  <2>3. SaveJob(l, x, left, own, e)
    BY <1>1, <1>8, <2>1, <2>2, SaveStays
  <2> QED
    BY <1>4, <1>8, <2>3 DEF ReviewJob
<1>9. ASSUME NEW l \in Cases, g \in Movers, d[Evaluation(l)].status \in From(g), NEW to \in To(g),
             MoveJob(l, to, left, own, d)
      PROVE  Goal
  <2>1. op \in {"open", "save"} /\ (g = "submit" => op # "save")
    BY <1>4, <1>5, <1>9, ReviewMeets
  <2>2. e[Evaluation(l)] = d[Evaluation(l)] /\ e[Case(l)] = d[Case(l)]
    BY <1>1, <1>9, <2>1, MoveStays
  <2>3. SheetAt(l, to, e) = SheetAt(l, to, d) /\ CaseAt(l, to, e) = CaseAt(l, to, d)
    BY <2>2 DEF SheetAt, CaseAt
  <2>4. MoveJob(l, to, left, own, e)
    BY <1>9, <2>3 DEF MoveJob
  <2> QED
    BY <1>4, <1>9, <2>2, <2>4 DEF ReviewJob
<1>10. ASSUME NEW l \in Cases, g = "reopen", ReopenJob(l, left, own, d) PROVE Goal
  <2>1. /\ Evaluation(l) \in DOMAIN own => e[Evaluation(l)] = d[Evaluation(l)]
        /\ Case(l) \in DOMAIN own => e[Case(l)] = d[Case(l)]
    BY <1>2, <1>3
  <2>2. ReopenJob(l, left, own, e)
    BY <1>1, <1>10, <2>1, ReopenStays
  <2> QED
    BY <1>4, <1>10, <2>2 DEF ReviewJob
<1>11. ASSUME NEW l \in Cases, g = "cancel", CancelJob(l, left, own, d) PROVE Goal
  <2>1. /\ Evaluation(l) \in DOMAIN own => e[Evaluation(l)] = d[Evaluation(l)]
        /\ Case(l) \in DOMAIN own => e[Case(l)] = d[Case(l)]
    BY <1>2, <1>3
  <2>2. op \in {"reopen", "cancel"}
    BY <1>4, <1>5, <1>11, ReviewMeets
  <2>3. CancelJob(l, left, own, e)
    BY <1>1, <1>11, <2>1, <2>2, CancelStays
  <2> QED
    BY <1>4, <1>11, <2>3 DEF ReviewJob
<1> HIDE DEF Goal
<1>12. Goal
  BY <1>7, <1>8, <1>9, <1>10, <1>11 DEF ReviewJob
<1> QED
  BY <1>12 DEF Goal, e

\* A function on a review starts from what its rows say when they are read.
LEMMA ReviewBegins ==
  ASSUME NEW s \in Sessions, mine[s] = NoRows, ReviewRows(db), ProbationDesk(s)
  PROVE  \E op, doc, todo : Begin(s, op, doc, todo) /\ ReviewJob(op, doc, todo, NoRows, db)
<1> DEFINE Goal == \E op, doc, todo : Begin(s, op, doc, todo) /\ ReviewJob(op, doc, todo, NoRows, db)
<1>0. \A r : Seen(s, r) = db[r]
  BY NoneIs DEF Seen
<1>1. ASSUME create_case(s) PROVE Goal
  <2>1. Begin(s, "open", Employee, <<Number>>) /\ NoActiveCase(s)
    BY <1>1 DEF create_case
  <2>2. AllReopened(db)
    BY <1>0, <2>1 DEF NoActiveCase, AllReopened
  <2>3. ReviewJob("open", Employee, <<Number>>, NoRows, db)
    BY <2>2 DEF ReviewJob, OpenJob
  <2> QED
    BY <2>1, <2>3
<1>2. ASSUME NEW n \in Cases, NEW x, save_evaluation(s, n, x) PROVE Goal
  <2> DEFINE todo == <<Update(Evaluation(n), [sheet |-> x]), CommitNow>>
  <2>1. Begin(s, "save", Employee, todo) /\ db[Evaluation(n)].status \in EDITABLE_BY_EVALUATOR
    BY <1>0, <1>2 DEF save_evaluation, Editable
  <2>2. SaveJob(n, x, todo, NoRows, db)
    BY <2>1 DEF SaveJob
  <2> HIDE DEF todo
  <2>3. ReviewJob("save", Employee, todo, NoRows, db)
    BY <2>2 DEF ReviewJob
  <2> QED
    BY <2>1, <2>3
<1>3. ASSUME NEW n \in Cases, NEW op \in Movers, NEW to \in To(op), db[Evaluation(n)].status \in From(op),
             Begin(s, op, Employee, MoveTo(n, to))
      PROVE  Goal
  <2>1. MoveTo(n, to) = <<Update(Evaluation(n), [status |-> to]), Update(Case(n), [status |-> to]), CommitNow>>
    BY Joined21 DEF MoveTo, Both
  <2>2. MoveJob(n, to, MoveTo(n, to), NoRows, db)
    BY <2>1 DEF MoveJob
  <2>3. ReviewJob(op, Employee, MoveTo(n, to), NoRows, db)
    BY <1>3, <2>2 DEF ReviewJob
  <2> QED
    BY <1>3, <2>3
<1>4. ASSUME NEW n \in Cases, NEW to \in {"pending_manager", "pending_hr_review"}, submit_evaluation(s, n, to) PROVE Goal
  <2>1. Begin(s, "submit", Employee, MoveTo(n, to)) /\ db[Evaluation(n)].status \in EDITABLE_BY_EVALUATOR
    BY <1>0, <1>4 DEF submit_evaluation, Editable
  <2>2. "submit" \in Movers /\ to \in To("submit") /\ From("submit") = EDITABLE_BY_EVALUATOR
    BY DEF Movers, To, From
  <2> QED
    BY <1>3, <2>1, <2>2
<1>5. ASSUME NEW n \in Cases, manager_forward(s, n) PROVE Goal
  <2>1. Begin(s, "forward", Employee, MoveTo(n, "pending_hr_review")) /\ db[Evaluation(n)].status = "pending_manager"
    BY <1>0, <1>5 DEF manager_forward
  <2>2. "forward" \in Movers /\ "pending_hr_review" \in To("forward") /\ From("forward") = {"pending_manager"}
    BY DEF Movers, To, From
  <2> QED
    BY <1>3, <2>1, <2>2
<1>6. ASSUME NEW n \in Cases, NEW verdict \in {"returned", "rejected", "approved"}, hr_decide(s, n, verdict) PROVE Goal
  <2>1. Begin(s, verdict, Employee, MoveTo(n, verdict)) /\ db[Evaluation(n)].status = "pending_hr_review"
    BY <1>0, <1>6 DEF hr_decide, ForHR
  <2>2. verdict \in Movers /\ verdict \in To(verdict) /\ From(verdict) = {"pending_hr_review"}
    BY DEF Movers, To, From
  <2> QED
    BY <1>3, <2>1, <2>2
<1>7. ASSUME NEW n \in Cases, admin_reopen(s, n) PROVE Goal
  <2> DEFINE todo == <<Update(Evaluation(n), [status |-> "returned"]), Update(Case(n), [status |-> "returned"]),
                       Add(Case(n), "reopens"), CommitNow>>
  <2>1. Both(n, "returned") \o <<Add(Case(n), "reopens"), CommitNow>> = todo
    BY Joined22 DEF Both
  <2>2. Begin(s, "reopen", Employee, todo) /\ db[Evaluation(n)].status # "none"
    <3>1. Begin(s, "reopen", Employee, Both(n, "returned") \o <<Add(Case(n), "reopens"), CommitNow>>)
      BY <1>7 DEF admin_reopen
    <3>2. db[Evaluation(n)].status # "none"
      BY <1>0, <1>7 DEF admin_reopen
    <3> QED
      BY <2>1, <3>1, <3>2
  <2>3. ReopenJob(n, todo, NoRows, db)
    BY <2>2 DEF ReopenJob
  <2> HIDE DEF todo
  <2>4. ReviewJob("reopen", Employee, todo, NoRows, db)
    BY <2>3 DEF ReviewJob
  <2> QED
    BY <2>2, <2>4
<1>8. ASSUME NEW n \in Cases, cancel_case(s, n) PROVE Goal
  <2> DEFINE todo == <<Update(Case(n), [status |-> "cancelled"]), Update(Evaluation(n), [status |-> "cancelled"]),
                       CommitNow>>
  <2>1. Begin(s, "cancel", Employee, todo) /\ db[Case(n)].status # "none"
    BY <1>0, <1>8 DEF cancel_case
  <2>2. CancelJob(n, todo, NoRows, db)
    BY <2>1 DEF CancelJob
  <2> HIDE DEF todo
  <2>3. ReviewJob("cancel", Employee, todo, NoRows, db)
    BY <2>2 DEF ReviewJob
  <2> QED
    BY <2>1, <2>3
<1> HIDE DEF Goal
<1>9. Goal
  BY <1>1, <1>2, <1>4, <1>5, <1>6, <1>7, <1>8 DEF ProbationDesk
<1> QED
  BY <1>9 DEF Goal

-----------------------------------------------------------------------------
(* Wash recipes.                                                           *)

\* No lab dip is put back to pending.
Settled == "pending" \notin Verdicts

VersionRow(x) == [status |-> x]
LineRow(v) == [status |-> "line", on |-> v]
DipRow(x, v) == [status |-> x, of |-> v]
Critical == [status |-> "critical"]

PassedDip(d, v) == \E p \in Dips : d[p].status = "approved" /\ d[p].of = v

WashRows(d) ==
  /\ DOMAIN d = Versions \cup Baths \cup Dips \cup {Bell(v) : v \in Versions}
  /\ \A v \in Versions : \E x \in {"none", "draft", "approved", "retired"} : d[v] = VersionRow(x)
  /\ \A v \in Versions : d[Bell(v)] = NoRow \/ d[Bell(v)] = Critical
  /\ \A k \in Baths : d[k] = NoRow \/ \E v \in Versions : d[k] = LineRow(v)
  /\ \A p \in Dips : d[p] = NoRow \/ \E x \in {"pending", "approved", "rejected", "resubmit"}, v \in Versions :
                                       d[p] = DipRow(x, v)
  /\ \A v, w \in Versions : d[v].status = "approved" /\ d[w].status = "approved" => v = w
  /\ Settled => \A v \in Versions : d[v].status = "approved" => d[Bell(v)].status # "none" \/ PassedDip(d, v)

\* The other versions that are the standard.
Others(v, d) == {w \in Versions \ {v} : d[w].status = "approved"}

LineJob(v, k, todo, m, d) ==
  /\ d[v].status = "draft"
  /\ \/ todo = <<Insert(k, LineRow(v)), CommitNow>> /\ m = NoRows
     \/ todo = <<CommitNow>> /\ m = One(k, LineRow(v)) /\ d[k] = NoRow

StandardJob(v, todo, m, d) ==
  /\ d[v].status # "none" /\ (Settled => PassedDip(d, v))
  /\ \/ todo = <<Retire(v), Update(v, [status |-> "approved"]), CommitNow>> /\ m = NoRows
     \/ /\ todo = <<Update(v, [status |-> "approved"]), CommitNow>> /\ DOMAIN m = Others(v, d)
        /\ \A w \in Others(v, d) : m[w] = VersionRow("retired")
     \/ /\ todo = <<CommitNow>> /\ DOMAIN m = Others(v, d) \cup {v}
        /\ \A w \in Others(v, d) : m[w] = VersionRow("retired")
        /\ m[v] = VersionRow("approved")

WithdrawJob(v, todo, m, d) ==
  /\ d[v].status # "none"
  /\ \/ todo = <<Update(v, [status |-> "retired"]), CommitNow>> /\ m = NoRows
     \/ todo = <<CommitNow>> /\ m = One(v, VersionRow("retired"))

\* What a dip is given that rings no bell.
Passing(x) == x = "approved" \/ (x = "pending" /\ ~Settled)

PassJob(p, x, todo, m, d) ==
  /\ d[p].status # "none" /\ Passing(x)
  /\ \/ todo = <<Update(p, [status |-> x]), CommitNow>> /\ m = NoRows
     \/ todo = <<CommitNow>> /\ m = One(p, DipRow(x, d[p].of))

\* Without dip p its version is backed, or is not the standard.
Quiet(p, d) ==
  \/ ~Settled
  \/ d[d[p].of].status # "approved"
  \/ \E q \in Dips \ {p} : d[q].status = "approved" /\ d[q].of = d[p].of

RevokeJob(p, x, todo, m, d) ==
  /\ d[p].status # "none"
  /\ \/ todo = <<Update(p, [status |-> x]), Ring(d[p].of), CommitNow>> /\ m = NoRows
     \/ todo = <<Ring(d[p].of), CommitNow>> /\ m = One(p, DipRow(x, d[p].of))
     \/ /\ todo = <<CommitNow>>
        /\ \/ m = One(p, DipRow(x, d[p].of)) /\ Quiet(p, d)
           \/ m = Over(One(Bell(d[p].of), Critical), One(p, DipRow(x, d[p].of)))

WashJob(op, doc, todo, m, d) ==
  /\ doc = Recipe
  /\ \/ op = "line" /\ \E v \in Versions, k \in Baths : LineJob(v, k, todo, m, d)
     \/ op = "standard" /\ \E v \in Versions : StandardJob(v, todo, m, d)
     \/ op = "withdraw" /\ \E v \in Versions : WithdrawJob(v, todo, m, d)
     \/ op = "pass" /\ \E p \in Dips, x \in {"approved", "pending"} : PassJob(p, x, todo, m, d)
     \/ op = "revoke" /\ \E p \in Dips, x \in {"rejected", "resubmit"} : RevokeJob(p, x, todo, m, d)

\* The columns of the rows of this desk.
LEMMA WashCols ==
  /\ \A x : VersionRow(x).status = x
  /\ \A v : LineRow(v).status = "line" /\ LineRow(v).on = v
  /\ \A x, v : DipRow(x, v).status = x /\ DipRow(x, v).of = v
  /\ NoRow.status = "none" /\ Critical.status = "critical"
  /\ \A x, y : Over([status |-> x], VersionRow(y)) = VersionRow(x)
  /\ \A x, y, v : Over([status |-> x], DipRow(y, v)) = DipRow(x, v)
BY DEF VersionRow, LineRow, DipRow, Critical, NoRow, Over

\* Versions, lines, dips and bells are rows of their own.
LEMMA WashApart ==
  /\ \A v \in Versions : v \notin Baths /\ v \notin Dips
  /\ \A p \in Dips : p \notin Baths
  /\ \A v \in Versions : Bell(v) \notin Versions /\ Bell(v) \notin Baths /\ Bell(v) \notin Dips
  /\ \A v, w \in Versions : Bell(v) = Bell(w) => v = w
BY DeskAssumption DEF Bell

\* A dip that is there is of some version.
LEMMA DipIs ==
  ASSUME NEW d, WashRows(d), NEW p \in Dips, d[p].status # "none"
  PROVE  \E y \in {"pending", "approved", "rejected", "resubmit"}, v \in Versions : d[p] = DipRow(y, v)
BY WashCols DEF WashRows

\* A statement brings a new line to its next point (add_line).
LEMMA LineGoes ==
  ASSUME NEW v \in Versions, NEW k \in Baths, NEW todo, NEW m, NEW d, WashRows(d), LineJob(v, k, todo, m, d),
         Head(todo).does # "commit", Head(todo).does = "insert" => d[Head(todo).row].status = "none"
  PROVE  Len(todo) # 1 /\ LineJob(v, k, Tail(todo), Result(Head(todo), m, d), d)
<1>1. todo # <<CommitNow>> /\ d[v].status = "draft"
  BY List1, Doing DEF LineJob
<1>2. todo = <<Insert(k, LineRow(v)), CommitNow>> /\ m = NoRows
  BY <1>1 DEF LineJob
<1>3. Len(todo) # 1 /\ Head(todo) = Insert(k, LineRow(v)) /\ Tail(todo) = <<CommitNow>>
  BY <1>2, List2
<1>4. Result(Head(todo), m, d) = One(k, LineRow(v))
  BY <1>2, <1>3, InsertFirst
<1>5. d[k].status = "none"
  BY <1>3, Doing
<1>6. d[k] = NoRow
  BY <1>5, WashCols DEF WashRows
<1> QED
  BY <1>1, <1>3, <1>4, <1>6 DEF LineJob

\* A statement brings a release to its next point: the others are retired first
\* (set_version_status).
LEMMA StandardGoes ==
  ASSUME NEW v \in Versions, NEW todo, NEW m, NEW d, WashRows(d), StandardJob(v, todo, m, d),
         Head(todo).does # "commit"
  PROVE  Len(todo) # 1 /\ StandardJob(v, Tail(todo), Result(Head(todo), m, d), d)
<1>0. todo # <<CommitNow>> /\ d[v].status # "none" /\ (Settled => PassedDip(d, v))
  BY List1, Doing DEF StandardJob
<1> DEFINE U == Update(v, [status |-> "approved"])
           n == Result(Head(todo), m, d)
<1>1. CASE todo = <<Retire(v), U, CommitNow>> /\ m = NoRows
  <2>1. Len(todo) # 1 /\ Head(todo) = Retire(v) /\ Tail(todo) = <<U, CommitNow>>
    BY <1>1, List3
  <2> DEFINE rows == [w \in {u \in Versions \ {v} : View(m, d, u).status = "approved"} |-> [status |-> "retired"]]
  <2>2. n = Over(rows, m)
    <3>1. Retire(v).does = "retire" /\ Retire(v).row = v
      BY DEF Retire
    <3> QED
      BY <2>1, <3>1 DEF Result
  <2>3. \A u : View(m, d, u) = d[u]
    BY <1>1, ViewNone
  <2>4. DOMAIN rows = Others(v, d) /\ \A w \in Others(v, d) : rows[w] = VersionRow("retired")
    BY <2>3 DEF Others, VersionRow
  <2> HIDE DEF rows
  <2>5. DOMAIN n = Others(v, d) /\ \A w \in Others(v, d) : n[w] = VersionRow("retired")
    <3>1. DOMAIN m = {}
      BY <1>1, NoneIs
    <3> HIDE DEF n
    <3> QED
      BY <2>2, <2>4, <3>1 DEF Over
  <2> HIDE DEF n, U
  <2>6. StandardJob(v, Tail(todo), n, d)
    BY <1>0, <2>1, <2>5 DEF StandardJob, U
  <2> QED
    BY <2>1, <2>6 DEF n
<1>2. CASE /\ todo = <<U, CommitNow>> /\ DOMAIN m = Others(v, d)
           /\ \A w \in Others(v, d) : m[w] = VersionRow("retired")
  <2>1. Len(todo) # 1 /\ Head(todo) = U /\ Tail(todo) = <<CommitNow>>
    BY <1>2, List2
  <2>2. View(m, d, v) = d[v] /\ v \notin DOMAIN m
    BY <1>2 DEF View, Others
  <2>3. Over([status |-> "approved"], d[v]) = VersionRow("approved")
    BY WashCols DEF WashRows
  <2>4. n = Over(One(v, VersionRow("approved")), m)
    BY <1>0, <2>1, <2>2, <2>3, ResultUpdate
  <2>5. DOMAIN n = Others(v, d) \cup {v} /\ n[v] = VersionRow("approved")
    <3>1. DOMAIN Over(One(v, VersionRow("approved")), m) = {v} \cup DOMAIN m
      <4>1. DOMAIN One(v, VersionRow("approved")) = {v}
        BY OneDomain
      <4> QED
        BY <4>1 DEF Over
    <3> QED
      BY <1>2, <2>4, <3>1, RowOver
  <2>6. \A w \in Others(v, d) : n[w] = VersionRow("retired")
    <3>1. \A w \in DOMAIN m : w # v
      BY <2>2
    <3>2. \A w \in DOMAIN m : Over(One(v, VersionRow("approved")), m)[w] = m[w]
      BY <3>1 DEF Over, One
    <3> QED
      BY <1>2, <2>4, <3>2
  <2> HIDE DEF n, U
  <2>7. StandardJob(v, Tail(todo), n, d)
    BY <1>0, <2>1, <2>5, <2>6 DEF StandardJob
  <2> QED
    BY <2>1, <2>7 DEF n
<1> QED
  BY <1>0, <1>1, <1>2 DEF StandardJob

\* A statement brings a retirement to its next point (set_version_status).
LEMMA WithdrawGoes ==
  ASSUME NEW v \in Versions, NEW todo, NEW m, NEW d, WashRows(d), WithdrawJob(v, todo, m, d),
         Head(todo).does # "commit"
  PROVE  Len(todo) # 1 /\ WithdrawJob(v, Tail(todo), Result(Head(todo), m, d), d)
<1>1. todo # <<CommitNow>> /\ d[v].status # "none"
  BY List1, Doing DEF WithdrawJob
<1>2. todo = <<Update(v, [status |-> "retired"]), CommitNow>> /\ m = NoRows
  BY <1>1 DEF WithdrawJob
<1>3. Len(todo) # 1 /\ Head(todo) = Update(v, [status |-> "retired"]) /\ Tail(todo) = <<CommitNow>>
  BY <1>2, List2
<1>4. Over([status |-> "retired"], d[v]) = VersionRow("retired")
  BY WashCols DEF WashRows
<1>5. Result(Head(todo), m, d) = One(v, VersionRow("retired"))
  BY <1>1, <1>2, <1>3, <1>4, UpdateFirst
<1> QED
  BY <1>1, <1>3, <1>5 DEF WithdrawJob

\* A statement brings a verdict that rings no bell to its next point (set_labdip_verdict).
LEMMA PassGoes ==
  ASSUME NEW p \in Dips, NEW x \in {"approved", "pending"}, NEW todo, NEW m, NEW d, WashRows(d),
         PassJob(p, x, todo, m, d), Head(todo).does # "commit"
  PROVE  Len(todo) # 1 /\ PassJob(p, x, Tail(todo), Result(Head(todo), m, d), d)
<1>1. todo # <<CommitNow>> /\ d[p].status # "none" /\ Passing(x)
  BY List1, Doing DEF PassJob
<1>2. todo = <<Update(p, [status |-> x]), CommitNow>> /\ m = NoRows
  BY <1>1 DEF PassJob
<1>3. Len(todo) # 1 /\ Head(todo) = Update(p, [status |-> x]) /\ Tail(todo) = <<CommitNow>>
  BY <1>2, List2
<1>4. Over([status |-> x], d[p]) = DipRow(x, d[p].of)
  <2>1. PICK y, v : d[p] = DipRow(y, v)
    BY <1>1, DipIs
  <2>2. d[p].of = v
    BY <2>1, WashCols
  <2> QED
    BY <2>1, <2>2, WashCols
<1>5. Result(Head(todo), m, d) = One(p, DipRow(x, d[p].of))
  BY <1>1, <1>2, <1>3, <1>4, UpdateFirst
<1> QED
  BY <1>1, <1>3, <1>5 DEF PassJob

\* A statement brings a verdict that may ring the bell to its next point
\* (set_labdip_verdict).
LEMMA RevokeGoes ==
  ASSUME NEW p \in Dips, NEW x \in {"rejected", "resubmit"}, NEW todo, NEW m, NEW d, WashRows(d),
         RevokeJob(p, x, todo, m, d), Head(todo).does # "commit"
  PROVE  Len(todo) # 1 /\ RevokeJob(p, x, Tail(todo), Result(Head(todo), m, d), d)
<1>0. todo # <<CommitNow>> /\ d[p].status # "none"
  BY List1, Doing DEF RevokeJob
<1>1. PICK y \in {"pending", "approved", "rejected", "resubmit"}, v \in Versions : d[p] = DipRow(y, v)
  BY <1>0, DipIs
<1>2. d[p].of = v
  BY <1>1, WashCols
<1> DEFINE U == Update(p, [status |-> x])
           n == Result(Head(todo), m, d)
<1>3. CASE todo = <<U, Ring(v), CommitNow>> /\ m = NoRows
  <2>1. Len(todo) # 1 /\ Head(todo) = U /\ Tail(todo) = <<Ring(v), CommitNow>>
    BY <1>3, List3
  <2>2. Over([status |-> x], d[p]) = DipRow(x, v)
    BY <1>1, WashCols
  <2>3. n = One(p, DipRow(x, v))
    BY <1>0, <1>3, <2>1, <2>2, UpdateFirst
  <2> HIDE DEF n, U
  <2>4. RevokeJob(p, x, Tail(todo), n, d)
    BY <1>0, <1>2, <2>1, <2>3 DEF RevokeJob
  <2> QED
    BY <2>1, <2>4 DEF n
<1>4. CASE todo = <<Ring(v), CommitNow>> /\ m = One(p, DipRow(x, v))
  <2>1. Len(todo) # 1 /\ Head(todo) = Ring(v) /\ Tail(todo) = <<CommitNow>>
    BY <1>4, List2
  <2>2. v # p
    BY WashApart
  <2>3. View(m, d, v) = d[v] /\ View(m, d, p) = DipRow(x, v) /\ \A q : q # p => View(m, d, q) = d[q]
    <3>1. DOMAIN One(p, DipRow(x, v)) = {p} /\ One(p, DipRow(x, v))[p] = DipRow(x, v)
      BY OneIs
    <3> QED
      BY <1>4, <2>2, <3>1 DEF View
  <2>4. n = IF View(m, d, v).status = "approved" /\ PassedIn(m, d, v) = {}
            THEN Over(One(Bell(v), Critical), m) ELSE m
    <3>1. Ring(v).does = "ring" /\ Ring(v).row = v
      BY DEF Ring
    <3> QED
      BY <2>1, <3>1 DEF Result, Critical
  <2>5. CASE d[v].status = "approved" /\ PassedIn(m, d, v) = {}
    <3>1. n = Over(One(Bell(v), Critical), One(p, DipRow(x, v)))
      BY <1>4, <2>3, <2>4, <2>5
    <3> HIDE DEF n
    <3>2. RevokeJob(p, x, Tail(todo), n, d)
      BY <1>0, <1>2, <2>1, <3>1 DEF RevokeJob
    <3> QED
      BY <2>1, <3>2 DEF n
  <2>6. CASE ~(d[v].status = "approved" /\ PassedIn(m, d, v) = {})
    <3>1. n = m
      BY <2>3, <2>4, <2>6
    <3>2. Quiet(p, d)
      <4>1. CASE d[v].status # "approved"
        BY <1>2, <4>1 DEF Quiet
      <4>2. CASE PassedIn(m, d, v) # {}
        <5>1. PICK q \in Dips : View(m, d, q).status = "approved" /\ View(m, d, q).of = v
          BY <4>2 DEF PassedIn
        <5>2. q # p
          BY <2>3, <5>1, WashCols
        <5> QED
          BY <1>2, <2>3, <5>1, <5>2 DEF Quiet
      <4> QED
        BY <2>6, <4>1, <4>2
    <3> HIDE DEF n
    <3>3. RevokeJob(p, x, Tail(todo), n, d)
      BY <1>0, <1>2, <1>4, <2>1, <3>1, <3>2 DEF RevokeJob
    <3> QED
      BY <2>1, <3>3 DEF n
  <2> QED
    BY <2>5, <2>6
<1> QED
  BY <1>0, <1>2, <1>3, <1>4 DEF RevokeJob

\* A statement brings a function of the wash desk to its next point.
LEMMA WashGoes ==
  ASSUME NEW op, NEW doc, NEW todo, NEW m, NEW d, WashRows(d), WashJob(op, doc, todo, m, d),
         Head(todo).does # "commit", Head(todo).does = "insert" => d[Head(todo).row].status = "none"
  PROVE  Len(todo) # 1 /\ WashJob(op, doc, Tail(todo), Result(Head(todo), m, d), d)
<1> DEFINE left == Tail(todo)
           n == Result(Head(todo), m, d)
           Goal == Len(todo) # 1 /\ WashJob(op, doc, left, n, d)
<1>0. doc = Recipe
  BY DEF WashJob
<1>1. ASSUME NEW v \in Versions, NEW k \in Baths, op = "line", LineJob(v, k, todo, m, d) PROVE Goal
  <2>1. Len(todo) # 1 /\ LineJob(v, k, left, n, d)
    BY <1>1, LineGoes
  <2> HIDE DEF left, n
  <2> QED
    BY <1>0, <1>1, <2>1 DEF WashJob
<1>2. ASSUME NEW v \in Versions, op = "standard", StandardJob(v, todo, m, d) PROVE Goal
  <2>1. Len(todo) # 1 /\ StandardJob(v, left, n, d)
    BY <1>2, StandardGoes
  <2> HIDE DEF left, n
  <2> QED
    BY <1>0, <1>2, <2>1 DEF WashJob
<1>3. ASSUME NEW v \in Versions, op = "withdraw", WithdrawJob(v, todo, m, d) PROVE Goal
  <2>1. Len(todo) # 1 /\ WithdrawJob(v, left, n, d)
    BY <1>3, WithdrawGoes
  <2> HIDE DEF left, n
  <2> QED
    BY <1>0, <1>3, <2>1 DEF WashJob
<1>4. ASSUME NEW p \in Dips, NEW x \in {"approved", "pending"}, op = "pass", PassJob(p, x, todo, m, d) PROVE Goal
  <2>1. Len(todo) # 1 /\ PassJob(p, x, left, n, d)
    BY <1>4, PassGoes
  <2> HIDE DEF left, n
  <2> QED
    BY <1>0, <1>4, <2>1 DEF WashJob
<1>5. ASSUME NEW p \in Dips, NEW x \in {"rejected", "resubmit"}, op = "revoke", RevokeJob(p, x, todo, m, d) PROVE Goal
  <2>1. Len(todo) # 1 /\ RevokeJob(p, x, left, n, d)
    BY <1>5, RevokeGoes
  <2> HIDE DEF left, n
  <2> QED
    BY <1>0, <1>5, <2>1 DEF WashJob
<1> HIDE DEF Goal
<1>6. Goal
  BY <1>1, <1>2, <1>3, <1>4, <1>5 DEF WashJob
<1> QED
  BY <1>6 DEF Goal

SameBut(d, e, S) == DOMAIN e = DOMAIN d /\ \A r \in DOMAIN d \ S : e[r] = d[r]

LineEnd(v, k, d, e) ==
  /\ d[v].status = "draft" /\ d[k] = NoRow
  /\ e[k] = LineRow(v) /\ SameBut(d, e, {k})

StandardEnd(v, d, e) ==
  /\ d[v].status # "none" /\ (Settled => PassedDip(d, v))
  /\ e[v] = VersionRow("approved")
  /\ \A w \in Others(v, d) : e[w] = VersionRow("retired")
  /\ SameBut(d, e, Others(v, d) \cup {v})

WithdrawEnd(v, d, e) ==
  d[v].status # "none" /\ e[v] = VersionRow("retired") /\ SameBut(d, e, {v})

PassEnd(p, x, d, e) ==
  d[p].status # "none" /\ Passing(x) /\ e[p] = DipRow(x, d[p].of) /\ SameBut(d, e, {p})

RevokeEnd(p, x, d, e) ==
  /\ d[p].status # "none" /\ e[p] = DipRow(x, d[p].of)
  /\ \/ Quiet(p, d) /\ SameBut(d, e, {p})
     \/ e[Bell(d[p].of)] = Critical /\ SameBut(d, e, {p, Bell(d[p].of)})

WashEnd(op, d, e) ==
  \/ op = "line" /\ \E v \in Versions, k \in Baths : LineEnd(v, k, d, e)
  \/ op = "standard" /\ \E v \in Versions : StandardEnd(v, d, e)
  \/ op = "withdraw" /\ \E v \in Versions : WithdrawEnd(v, d, e)
  \/ op = "pass" /\ \E p \in Dips, x \in {"approved", "pending"} : PassEnd(p, x, d, e)
  \/ op = "revoke" /\ \E p \in Dips, x \in {"rejected", "resubmit"} : RevokeEnd(p, x, d, e)

\* One row, written.
LEMMA OneEnd ==
  ASSUME NEW r, NEW x, NEW d, r \in DOMAIN d
  PROVE  SameBut(d, Over(One(r, x), d), {r})
BY OneOver, OneElse DEF SameBut

\* The rows of the desk are there.
LEMMA WashThere ==
  ASSUME NEW d, WashRows(d)
  PROVE  /\ \A v \in Versions : v \in DOMAIN d /\ Bell(v) \in DOMAIN d
         /\ \A k \in Baths : k \in DOMAIN d
         /\ \A p \in Dips : p \in DOMAIN d
BY DEF WashRows

\* What a new line commits: the line, on a draft.
LEMMA LineEnds ==
  ASSUME NEW v \in Versions, NEW k \in Baths, NEW todo, NEW m, NEW d, WashRows(d),
         LineJob(v, k, todo, m, d), Head(todo).does = "commit"
  PROVE  Len(todo) = 1 /\ LineEnd(v, k, d, Over(m, d))
<1>1. todo = <<CommitNow>> /\ m = One(k, LineRow(v)) /\ d[k] = NoRow /\ d[v].status = "draft"
  BY Doing, LastIs DEF LineJob
<1>2. SameBut(d, Over(One(k, LineRow(v)), d), {k})
  BY OneEnd, WashThere
<1>3. Over(One(k, LineRow(v)), d)[k] = LineRow(v)
  BY RowOver
<1>4. Len(todo) = 1
  BY <1>1, List1
<1> QED
  BY <1>1, <1>2, <1>3, <1>4 DEF LineEnd

\* What a release commits: the version as the standard, the others retired.
LEMMA StandardEnds ==
  ASSUME NEW v \in Versions, NEW todo, NEW m, NEW d, WashRows(d),
         StandardJob(v, todo, m, d), Head(todo).does = "commit"
  PROVE  Len(todo) = 1 /\ StandardEnd(v, d, Over(m, d))
<1>1. /\ todo = <<CommitNow>> /\ DOMAIN m = Others(v, d) \cup {v}
      /\ \A w \in Others(v, d) : m[w] = VersionRow("retired")
      /\ m[v] = VersionRow("approved")
      /\ d[v].status # "none" /\ (Settled => PassedDip(d, v))
  BY Doing, LastIs DEF StandardJob
<1> DEFINE e == Over(m, d)
<1>2. /\ DOMAIN e = DOMAIN m \cup DOMAIN d
      /\ \A r \in DOMAIN m : e[r] = m[r]
      /\ \A r \in DOMAIN d \ DOMAIN m : e[r] = d[r]
  BY DEF Over
<1>3. DOMAIN m \subseteq DOMAIN d
  BY <1>1, WashThere DEF Others
<1> HIDE DEF e
<1>4. StandardEnd(v, d, e)
  BY <1>1, <1>2, <1>3 DEF StandardEnd, SameBut
<1>5. Len(todo) = 1
  BY <1>1, List1
<1> QED
  BY <1>4, <1>5 DEF e

\* What a retirement commits: the version.
LEMMA WithdrawEnds ==
  ASSUME NEW v \in Versions, NEW todo, NEW m, NEW d, WashRows(d),
         WithdrawJob(v, todo, m, d), Head(todo).does = "commit"
  PROVE  Len(todo) = 1 /\ WithdrawEnd(v, d, Over(m, d))
<1>1. todo = <<CommitNow>> /\ m = One(v, VersionRow("retired")) /\ d[v].status # "none"
  BY Doing, LastIs DEF WithdrawJob
<1>2. SameBut(d, Over(One(v, VersionRow("retired")), d), {v})
  BY OneEnd, WashThere
<1>3. Over(One(v, VersionRow("retired")), d)[v] = VersionRow("retired")
  BY RowOver
<1>4. Len(todo) = 1
  BY <1>1, List1
<1> QED
  BY <1>1, <1>2, <1>3, <1>4 DEF WithdrawEnd

\* What a passing verdict commits: the dip.
LEMMA PassEnds ==
  ASSUME NEW p \in Dips, NEW x \in {"approved", "pending"}, NEW todo, NEW m, NEW d, WashRows(d),
         PassJob(p, x, todo, m, d), Head(todo).does = "commit"
  PROVE  Len(todo) = 1 /\ PassEnd(p, x, d, Over(m, d))
<1> DEFINE y == DipRow(x, d[p].of)
<1>1. todo = <<CommitNow>> /\ m = One(p, y) /\ d[p].status # "none" /\ Passing(x)
  BY Doing, LastIs DEF PassJob
<1>2. SameBut(d, Over(One(p, y), d), {p})
  BY OneEnd, WashThere
<1>3. Over(One(p, y), d)[p] = y
  BY RowOver
<1>4. Len(todo) = 1
  BY <1>1, List1
<1> QED
  BY <1>1, <1>2, <1>3, <1>4 DEF PassEnd

\* What a failing verdict commits: the dip, and the bell unless nothing hung on the dip.
LEMMA RevokeEnds ==
  ASSUME NEW p \in Dips, NEW x \in {"rejected", "resubmit"}, NEW todo, NEW m, NEW d, WashRows(d),
         RevokeJob(p, x, todo, m, d), Head(todo).does = "commit"
  PROVE  Len(todo) = 1 /\ RevokeEnd(p, x, d, Over(m, d))
<1> DEFINE y == DipRow(x, d[p].of)
           b == Bell(d[p].of)
<1>1. /\ todo = <<CommitNow>> /\ d[p].status # "none"
      /\ \/ m = One(p, y) /\ Quiet(p, d)
         \/ m = Over(One(b, Critical), One(p, y))
  BY Doing, LastIs DEF RevokeJob
<1>2. d[p].of \in Versions
  BY <1>1, DipIs, WashCols
<1>3. p \in DOMAIN d /\ b \in DOMAIN d /\ p # b
  BY <1>2, WashThere, WashApart
<1>4. Len(todo) = 1
  BY <1>1, List1
<1>5. CASE m = One(p, y) /\ Quiet(p, d)
  <2>1. SameBut(d, Over(One(p, y), d), {p})
    BY <1>3, OneEnd
  <2>2. Over(One(p, y), d)[p] = y
    BY RowOver
  <2> QED
    BY <1>1, <1>4, <1>5, <2>1, <2>2 DEF RevokeEnd
<1>6. CASE m = Over(One(b, Critical), One(p, y))
  <2> DEFINE e == Over(Over(One(b, Critical), One(p, y)), d)
  <2>1. DOMAIN e = DOMAIN d
    BY <1>3, TwoOver
  <2>2. e[b] = Critical
    BY TwoFirst
  <2>3. e[p] = y
    BY <1>3, TwoSecond
  <2>4. \A r \in DOMAIN d \ {p, b} : e[r] = d[r]
    BY TwoElse
  <2>5. Over(m, d) = e
    BY <1>6
  <2> HIDE DEF e
  <2> QED
    BY <1>1, <1>4, <2>1, <2>2, <2>3, <2>4, <2>5 DEF RevokeEnd, SameBut
<1> QED
  BY <1>1, <1>5, <1>6

\* Whatever function commits, it commits one of these.
LEMMA WashEnded ==
  ASSUME NEW op, NEW doc, NEW todo, NEW m, NEW d, WashRows(d), WashJob(op, doc, todo, m, d),
         Head(todo).does = "commit"
  PROVE  Len(todo) = 1 /\ WashEnd(op, d, Over(m, d))
<1> DEFINE e == Over(m, d)
           Goal == Len(todo) = 1 /\ WashEnd(op, d, e)
<1>1. ASSUME NEW v \in Versions, NEW k \in Baths, op = "line", LineJob(v, k, todo, m, d) PROVE Goal
  <2>1. Len(todo) = 1 /\ LineEnd(v, k, d, e)
    BY <1>1, LineEnds
  <2> HIDE DEF e
  <2> QED
    BY <1>1, <2>1 DEF WashEnd
<1>2. ASSUME NEW v \in Versions, op = "standard", StandardJob(v, todo, m, d) PROVE Goal
  <2>1. Len(todo) = 1 /\ StandardEnd(v, d, e)
    BY <1>2, StandardEnds
  <2> HIDE DEF e
  <2> QED
    BY <1>2, <2>1 DEF WashEnd
<1>3. ASSUME NEW v \in Versions, op = "withdraw", WithdrawJob(v, todo, m, d) PROVE Goal
  <2>1. Len(todo) = 1 /\ WithdrawEnd(v, d, e)
    BY <1>3, WithdrawEnds
  <2> HIDE DEF e
  <2> QED
    BY <1>3, <2>1 DEF WashEnd
<1>4. ASSUME NEW p \in Dips, NEW x \in {"approved", "pending"}, op = "pass", PassJob(p, x, todo, m, d) PROVE Goal
  <2>1. Len(todo) = 1 /\ PassEnd(p, x, d, e)
    BY <1>4, PassEnds
  <2> HIDE DEF e
  <2> QED
    BY <1>4, <2>1 DEF WashEnd
<1>5. ASSUME NEW p \in Dips, NEW x \in {"rejected", "resubmit"}, op = "revoke", RevokeJob(p, x, todo, m, d) PROVE Goal
  <2>1. Len(todo) = 1 /\ RevokeEnd(p, x, d, e)
    BY <1>5, RevokeEnds
  <2> HIDE DEF e
  <2> QED
    BY <1>5, <2>1 DEF WashEnd
<1> HIDE DEF Goal
<1>6. Goal
  BY <1>1, <1>2, <1>3, <1>4, <1>5 DEF WashJob
<1> QED
  BY <1>6 DEF Goal, e

\* The lines of version v.
Lines(d, v) == {k \in Baths : d[k].status # "none" /\ d[k].on = v}

WashStep(d, e) ==
  \A v \in Versions : d[v].status \in {"approved", "retired"} => Lines(e, v) = Lines(d, v)

WashKept(d, e) ==
  /\ \A v \in Versions : d[v].status # "none" => e[v].status # "none"
  /\ \A p \in Dips : d[p].status # "none" => e[p].status # "none" /\ e[p].of = d[p].of

WashMild(d, e) ==
  /\ \A v \in Versions : e[v].status = "approved" => d[v].status = "approved"
  /\ Settled => \A p \in Dips : d[p].status = "approved" => e[p].status = "approved"

DraftsStay(d, e) == \A v \in Versions : d[v].status = "draft" => e[v].status = "draft"

WashFits(d, e) == WashRows(e) /\ WashStep(d, e) /\ WashKept(d, e)

\* A line keeps the rows good, takes nothing from a standard and leaves the drafts drafts.
LEMMA LineGood ==
  ASSUME NEW v \in Versions, NEW k \in Baths, NEW d, NEW e, WashRows(d), LineEnd(v, k, d, e)
  PROVE  WashFits(d, e) /\ WashMild(d, e) /\ DraftsStay(d, e)
<1>1. \A r \in DOMAIN d : r # k => e[r] = d[r]
  BY DEF LineEnd, SameBut
<1>2. /\ \A w \in Versions : e[w] = d[w] /\ e[Bell(w)] = d[Bell(w)]
      /\ \A l \in Baths : l # k => e[l] = d[l]
      /\ \A p \in Dips : e[p] = d[p]
  BY <1>1, WashThere, WashApart
<1>3. e[k] = LineRow(v) /\ DOMAIN e = DOMAIN d /\ d[v].status = "draft" /\ d[k] = NoRow
  BY DEF LineEnd, SameBut
<1>4. \A w : PassedDip(e, w) <=> PassedDip(d, w)
  BY <1>2 DEF PassedDip
<1>5. WashRows(e)
  BY <1>2, <1>3, <1>4 DEF WashRows
<1>6. WashStep(d, e)
  <2> SUFFICES ASSUME NEW w \in Versions, d[w].status \in {"approved", "retired"}
               PROVE  Lines(e, w) = Lines(d, w)
    BY DEF WashStep
  <2>1. w # v
    BY <1>3
  <2>2. e[k].on = v /\ d[k].status = "none"
    BY <1>3, WashCols
  <2> QED
    BY <1>2, <2>1, <2>2 DEF Lines
<1>7. WashKept(d, e) /\ WashMild(d, e) /\ DraftsStay(d, e)
  BY <1>2 DEF WashKept, WashMild, DraftsStay
<1> QED
  BY <1>5, <1>6, <1>7 DEF WashFits

\* A release keeps the rows good: there is one standard, and a dip behind it.
LEMMA StandardGood ==
  ASSUME NEW v \in Versions, NEW d, NEW e, WashRows(d), StandardEnd(v, d, e)
  PROVE  WashFits(d, e)
<1>1. \A r \in DOMAIN d : r \notin Versions => e[r] = d[r]
  BY DEF StandardEnd, SameBut, Others
<1>2. /\ \A w \in Versions : e[Bell(w)] = d[Bell(w)]
      /\ \A l \in Baths : e[l] = d[l]
      /\ \A p \in Dips : e[p] = d[p]
  BY <1>1, WashThere, WashApart
<1>3. \A w \in Versions : w = v \/ e[w] = VersionRow("retired") \/ (e[w] = d[w] /\ d[w].status # "approved")
  BY WashThere DEF StandardEnd, SameBut, Others
<1>4. e[v] = VersionRow("approved") /\ DOMAIN e = DOMAIN d /\ (Settled => PassedDip(d, v)) /\ d[v].status # "none"
  BY DEF StandardEnd, SameBut
<1>5. \A w \in Versions : e[w].status = "approved" => w = v
  BY <1>3, WashCols
<1>6. Settled => PassedDip(e, v)
  BY <1>2, <1>4 DEF PassedDip
<1>7. WashRows(e)
  BY <1>2, <1>3, <1>4, <1>5, <1>6 DEF WashRows
<1>8. WashStep(d, e)
  BY <1>2 DEF WashStep, Lines
<1>9. WashKept(d, e)
  BY <1>2, <1>3, <1>4, WashCols DEF WashKept
<1> QED
  BY <1>7, <1>8, <1>9 DEF WashFits

\* A retirement keeps the rows good and makes no standard.
LEMMA WithdrawGood ==
  ASSUME NEW v \in Versions, NEW d, NEW e, WashRows(d), WithdrawEnd(v, d, e)
  PROVE  WashFits(d, e) /\ WashMild(d, e)
<1>1. \A r \in DOMAIN d : r # v => e[r] = d[r]
  BY DEF WithdrawEnd, SameBut
<1>2. /\ \A w \in Versions : e[Bell(w)] = d[Bell(w)]
      /\ \A w \in Versions : w # v => e[w] = d[w]
      /\ \A l \in Baths : e[l] = d[l]
      /\ \A p \in Dips : e[p] = d[p]
  BY <1>1, WashThere, WashApart
<1>3. e[v] = VersionRow("retired") /\ e[v].status = "retired" /\ DOMAIN e = DOMAIN d /\ d[v].status # "none"
  BY WashCols DEF WithdrawEnd, SameBut
<1>4. \A w : PassedDip(e, w) <=> PassedDip(d, w)
  BY <1>2 DEF PassedDip
<1>5. \A w \in Versions : e[w].status = "approved" => w # v /\ d[w].status = "approved"
  BY <1>2, <1>3
<1>6. WashRows(e)
  BY <1>2, <1>3, <1>4, <1>5 DEF WashRows
<1>7. WashStep(d, e)
  BY <1>2 DEF WashStep, Lines
<1>8. WashKept(d, e) /\ WashMild(d, e)
  BY <1>2, <1>3, <1>5 DEF WashKept, WashMild
<1> QED
  BY <1>6, <1>7, <1>8 DEF WashFits

\* A passing verdict keeps the rows good and takes no dip from a standard.
LEMMA PassGood ==
  ASSUME NEW p \in Dips, NEW x \in {"approved", "pending"}, NEW d, NEW e, WashRows(d), PassEnd(p, x, d, e)
  PROVE  WashFits(d, e) /\ WashMild(d, e) /\ DraftsStay(d, e)
<1>1. \A r \in DOMAIN d : r # p => e[r] = d[r]
  BY DEF PassEnd, SameBut
<1>2. /\ \A w \in Versions : e[w] = d[w] /\ e[Bell(w)] = d[Bell(w)]
      /\ \A l \in Baths : e[l] = d[l]
      /\ \A q \in Dips : q # p => e[q] = d[q]
  BY <1>1, WashThere, WashApart
<1>3. PICK y \in {"pending", "approved", "rejected", "resubmit"}, w \in Versions : d[p] = DipRow(y, w)
  BY DipIs DEF PassEnd
<1>4. /\ e[p] = DipRow(x, w) /\ e[p].status = x /\ (Settled => x = "approved") /\ e[p].of = w /\ d[p].of = w
      /\ DOMAIN e = DOMAIN d /\ d[p].status # "none"
  BY <1>3, WashCols DEF PassEnd, Passing, SameBut
<1>5. Settled => \A u : PassedDip(d, u) => PassedDip(e, u)
  BY <1>2, <1>4 DEF PassedDip
<1>6. WashRows(e)
  BY <1>2, <1>4, <1>5 DEF WashRows
<1>7. WashStep(d, e)
  BY <1>2 DEF WashStep, Lines
<1>8. WashKept(d, e) /\ WashMild(d, e) /\ DraftsStay(d, e)
  BY <1>2, <1>4 DEF WashKept, WashMild, DraftsStay
<1> QED
  BY <1>6, <1>7, <1>8 DEF WashFits

\* A failing verdict keeps the rows good: the standard it leaves bare has its bell rung.
LEMMA RevokeGood ==
  ASSUME NEW p \in Dips, NEW x \in {"rejected", "resubmit"}, NEW d, NEW e, WashRows(d), RevokeEnd(p, x, d, e)
  PROVE  WashFits(d, e) /\ DraftsStay(d, e)
<1>3. PICK y \in {"pending", "approved", "rejected", "resubmit"}, w \in Versions : d[p] = DipRow(y, w)
  BY DipIs DEF RevokeEnd
<1>4. /\ e[p] = DipRow(x, w) /\ e[p].status = x /\ e[p].of = w /\ d[p].of = w
      /\ DOMAIN e = DOMAIN d /\ d[p].status # "none"
  BY <1>3, WashCols DEF RevokeEnd, SameBut
<1>1. \A r \in DOMAIN d : r \notin {p, Bell(w)} => e[r] = d[r]
  BY <1>4 DEF RevokeEnd, SameBut
<1>2. /\ \A u \in Versions : e[u] = d[u] /\ (u # w => e[Bell(u)] = d[Bell(u)])
      /\ \A l \in Baths : e[l] = d[l]
      /\ \A q \in Dips : q # p => e[q] = d[q]
  BY <1>1, WashThere, WashApart
<1>5. e[Bell(w)] = Critical \/ (e[Bell(w)] = d[Bell(w)] /\ Quiet(p, d))
  BY <1>4, WashThere, WashApart DEF RevokeEnd, SameBut
<1>6. \A u \in Versions : u # w /\ PassedDip(d, u) => PassedDip(e, u)
  BY <1>2, <1>4 DEF PassedDip
<1>7. Settled /\ Quiet(p, d) => d[w].status # "approved" \/ PassedDip(e, w)
  BY <1>2, <1>4 DEF Quiet, PassedDip
<1>8. Settled => \A u \in Versions : e[u].status = "approved" => e[Bell(u)].status # "none" \/ PassedDip(e, u)
  <2> SUFFICES ASSUME Settled, NEW u \in Versions, e[u].status = "approved"
               PROVE  e[Bell(u)].status # "none" \/ PassedDip(e, u)
    OBVIOUS
  <2>1. d[u].status = "approved"
    BY <1>2
  <2>2. CASE u # w
    BY <1>2, <1>6, <2>1, <2>2 DEF WashRows
  <2>3. CASE u = w
    BY <1>5, <1>7, <2>1, <2>3, WashCols
  <2> QED
    BY <2>2, <2>3
<1>9. \A u \in Versions : e[Bell(u)] = NoRow \/ e[Bell(u)] = Critical
  BY <1>2, <1>5 DEF WashRows
<1>10. \A q \in Dips : e[q] = NoRow \/ \E z \in {"pending", "approved", "rejected", "resubmit"}, u \in Versions :
                                       e[q] = DipRow(z, u)
  BY <1>2, <1>4 DEF WashRows
<1>11. WashRows(e)
  BY <1>2, <1>4, <1>8, <1>9, <1>10 DEF WashRows
<1>12. WashStep(d, e)
  BY <1>2 DEF WashStep, Lines
<1>13. WashKept(d, e) /\ DraftsStay(d, e)
  BY <1>2, <1>4 DEF WashKept, DraftsStay
<1> QED
  BY <1>11, <1>12, <1>13 DEF WashFits

\* What every function of the desk keeps, and what all but two of them leave alone.
LEMMA WashGood ==
  ASSUME NEW op, NEW d, NEW e, WashRows(d), WashEnd(op, d, e)
  PROVE  /\ WashFits(d, e)
         /\ op \notin {"standard", "revoke"} => WashMild(d, e)
         /\ op \notin {"standard", "withdraw"} => DraftsStay(d, e)
BY LineGood, StandardGood, WithdrawGood, PassGood, RevokeGood DEF WashEnd

\* A release under way stays fit while dips pass and nothing else is released.
LEMMA StandardStays ==
  ASSUME NEW d, NEW e, WashKept(d, e), WashMild(d, e),
         NEW v \in Versions, NEW left, NEW own, StandardJob(v, left, own, d),
         \A r \in Versions : r \in DOMAIN own => e[r] = d[r]
  PROVE  StandardJob(v, left, own, e)
<1>1. e[v].status # "none"
  BY DEF StandardJob, WashKept
<1>2. Settled => PassedDip(e, v)
  <2> SUFFICES ASSUME Settled PROVE PassedDip(e, v)
    OBVIOUS
  <2>1. PICK p \in Dips : d[p].status = "approved" /\ d[p].of = v
    BY DEF StandardJob, PassedDip
  <2> QED
    BY <2>1 DEF PassedDip, WashMild, WashKept
<1>3. CASE left = <<Retire(v), Update(v, [status |-> "approved"]), CommitNow>> /\ own = NoRows
  BY <1>1, <1>2, <1>3 DEF StandardJob
<1>4. CASE Others(v, d) \subseteq DOMAIN own
  <2>1. \A w \in Others(v, d) : e[w] = d[w]
    BY <1>4 DEF Others
  <2>2. Others(v, e) = Others(v, d)
    BY <2>1 DEF Others, WashMild
  <2> QED
    BY <1>1, <1>2, <2>2 DEF StandardJob
<1> QED
  BY <1>3, <1>4 DEF StandardJob

\* A dip on which nothing hung stays so under the same conditions.
LEMMA QuietStays ==
  ASSUME NEW d, NEW e, WashRows(d), WashKept(d, e), WashMild(d, e),
         NEW p \in Dips, d[p].status # "none", Quiet(p, d)
  PROVE  Quiet(p, e)
<1>1. e[p].of = d[p].of
  BY DEF WashKept
<1>2. d[p].of \in Versions
  BY DipIs, WashCols
<1>3. CASE d[d[p].of].status # "approved"
  BY <1>1, <1>2, <1>3 DEF WashMild, Quiet
<1>4. CASE Settled /\ \E q \in Dips \ {p} : d[q].status = "approved" /\ d[q].of = d[p].of
  <2>1. PICK q \in Dips \ {p} : d[q].status = "approved" /\ d[q].of = d[p].of
    BY <1>4
  <2>2. e[q].status = "approved" /\ e[q].of = d[q].of
    BY <1>4, <2>1 DEF WashMild, WashKept
  <2> QED
    BY <1>1, <2>1, <2>2 DEF Quiet
<1> QED
  BY <1>3, <1>4 DEF Quiet

\* What a session has under way at this desk survives what leaves its own rows alone and
\* keeps what the function has asked for.
LEMMA WashHolds ==
  ASSUME NEW d, NEW e, WashRows(d), WashKept(d, e),
         NEW g, NEW doc, NEW left, NEW own, WashJob(g, doc, left, own, d),
         g = "line" => DraftsStay(d, e),
         g \in {"standard", "revoke"} => WashMild(d, e),
         \A r \in DOMAIN own : r \in DOMAIN d => e[r] = d[r]
  PROVE  WashJob(g, doc, left, own, e)
<1> DEFINE Goal == WashJob(g, doc, left, own, e)
<1>0. doc = Recipe
  BY DEF WashJob
<1>1. ASSUME NEW v \in Versions, NEW k \in Baths, g = "line", LineJob(v, k, left, own, d) PROVE Goal
  <2>1. e[v].status = "draft"
    BY <1>1 DEF LineJob, DraftsStay
  <2>2. own = One(k, LineRow(v)) => e[k] = d[k]
    <3>1. k \in DOMAIN One(k, LineRow(v))
      BY DEF One
    <3> QED
      BY <3>1, WashThere
  <2>3. LineJob(v, k, left, own, e)
    BY <1>1, <2>1, <2>2 DEF LineJob
  <2> QED
    BY <1>0, <1>1, <2>3 DEF WashJob
<1>2. ASSUME NEW v \in Versions, g = "standard", StandardJob(v, left, own, d) PROVE Goal
  <2>1. \A r \in Versions : r \in DOMAIN own => e[r] = d[r]
    BY WashThere
  <2>2. StandardJob(v, left, own, e)
    BY <1>2, <2>1, StandardStays
  <2> QED
    BY <1>0, <1>2, <2>2 DEF WashJob
<1>3. ASSUME NEW v \in Versions, g = "withdraw", WithdrawJob(v, left, own, d) PROVE Goal
  <2>1. WithdrawJob(v, left, own, e)
    BY <1>3 DEF WithdrawJob, WashKept
  <2> QED
    BY <1>0, <1>3, <2>1 DEF WashJob
<1>4. ASSUME NEW p \in Dips, NEW x \in {"approved", "pending"}, g = "pass", PassJob(p, x, left, own, d) PROVE Goal
  <2>1. e[p].status # "none" /\ e[p].of = d[p].of
    BY <1>4 DEF PassJob, WashKept
  <2>2. PassJob(p, x, left, own, e)
    BY <1>4, <2>1 DEF PassJob
  <2> QED
    BY <1>0, <1>4, <2>2 DEF WashJob
<1>5. ASSUME NEW p \in Dips, NEW x \in {"rejected", "resubmit"}, g = "revoke", RevokeJob(p, x, left, own, d) PROVE Goal
  <2>1. d[p].status # "none" /\ e[p].status # "none" /\ e[p].of = d[p].of
    BY <1>5 DEF RevokeJob, WashKept
  <2>2. Quiet(p, d) => Quiet(p, e)
    BY <1>5, <2>1, QuietStays
  <2>3. RevokeJob(p, x, left, own, e)
    BY <1>5, <2>1, <2>2 DEF RevokeJob
  <2> QED
    BY <1>0, <1>5, <2>3 DEF WashJob
<1> HIDE DEF Goal
<1>6. Goal
  BY <1>1, <1>2, <1>3, <1>4, <1>5 DEF WashJob
<1> QED
  BY <1>6 DEF Goal

\* Which functions of the wash desk may overlap.
LEMMA WashMeets ==
  ASSUME NEW f, NEW g, MayMeet(f, g)
  PROVE  /\ g = "line" => f \notin {"standard", "withdraw"}
         /\ g \in {"standard", "revoke"} => f \notin {"standard", "revoke"}
<1>1. {f, g} \notin Harmful
  BY DEF MayMeet
<1>2. /\ {"line", "standard"} \in Harmful /\ {"line", "withdraw"} \in Harmful /\ {"standard"} \in Harmful
      /\ {"standard", "revoke"} \in Harmful /\ {"revoke"} \in Harmful
  BY DEF Harmful
<1>3. ASSUME g = "line" PROVE f \notin {"standard", "withdraw"}
  <2>1. {f, g} = {"line", f}
    BY <1>3
  <2> QED
    BY <1>1, <1>2, <2>1
<1>4. ASSUME g = "standard" PROVE f \notin {"standard", "revoke"}
  <2>1. {f, g} = {"standard", f}
    BY <1>4
  <2>2. f = "standard" => {f, g} = {"standard"}
    BY <2>1
  <2> QED
    BY <1>1, <1>2, <2>1, <2>2
<1>5. ASSUME g = "revoke" PROVE f \notin {"standard", "revoke"}
  <2>1. {f, g} = {f, "revoke"}
    BY <1>5
  <2>2. f = "revoke" => {f, g} = {"revoke"}
    BY <2>1
  <2> QED
    BY <1>1, <1>2, <2>1, <2>2
<1> QED
  BY <1>3, <1>4, <1>5

\* The rows are good after a commit; a released recipe kept its lines.
LEMMA WashEnds ==
  ASSUME NEW op, NEW doc, NEW todo, NEW m, NEW d, WashRows(d), WashJob(op, doc, todo, m, d),
         Head(todo).does = "commit"
  PROVE  Len(todo) = 1 /\ WashRows(Over(m, d)) /\ WashStep(d, Over(m, d))
<1> DEFINE e == Over(m, d)
<1>1. Len(todo) = 1 /\ WashEnd(op, d, e)
  BY WashEnded
<1> HIDE DEF e
<1>2. WashFits(d, e)
  BY <1>1, WashGood
<1>3. Len(todo) = 1 /\ WashRows(e) /\ WashStep(d, e)
  BY <1>1, <1>2 DEF WashFits
<1> QED
  BY <1>3 DEF e

\* Another function under way stands when one commits.
LEMMA WashStays ==
  ASSUME NEW op, NEW doc, NEW todo, NEW m, NEW d, WashRows(d), WashJob(op, doc, todo, m, d),
         Head(todo).does = "commit",
         NEW g, NEW doc2, NEW left, NEW own, WashJob(g, doc2, left, own, d),
         doc = doc2 => MayMeet(op, g), DOMAIN m \cap DOMAIN own = {}
  PROVE  WashJob(g, doc2, left, own, Over(m, d))
<1> DEFINE e == Over(m, d)
<1>1. WashEnd(op, d, e)
  BY WashEnded
<1>2. \A r \in DOMAIN own : r \in DOMAIN d => e[r] = d[r]
  BY Untouched
<1>3. doc = Recipe /\ doc2 = Recipe
  BY DEF WashJob
<1>4. /\ g = "line" => op \notin {"standard", "withdraw"}
      /\ g \in {"standard", "revoke"} => op \notin {"standard", "revoke"}
  BY <1>3, WashMeets
<1> HIDE DEF e
<1>5. /\ WashFits(d, e)
      /\ op \notin {"standard", "revoke"} => WashMild(d, e)
      /\ op \notin {"standard", "withdraw"} => DraftsStay(d, e)
  BY <1>1, WashGood
<1>6. WashKept(d, e)
  BY <1>5 DEF WashFits
<1>7. WashJob(g, doc2, left, own, e)
  BY <1>2, <1>4, <1>5, <1>6, WashHolds
<1> QED
  BY <1>7 DEF e

\* A new version, with its lines in places nobody uses.
VersionNew(v, C, d, e) ==
  /\ C \subseteq Baths /\ d[v].status = "none" /\ (\A k \in C : d[k] = NoRow)
  /\ e[v] = VersionRow("draft") /\ (\A k \in C : e[k] = LineRow(v))
  /\ SameBut(d, e, C \cup {v})

DipNew(p, v, d, e) ==
  d[p].status = "none" /\ e[p] = DipRow("pending", v) /\ SameBut(d, e, {p})

\* A new version is a draft, so nothing hangs on it (create_recipe, new_version).
LEMMA VersionGood ==
  ASSUME NEW v \in Versions, NEW C, NEW d, NEW e, WashRows(d), VersionNew(v, C, d, e)
  PROVE  WashFits(d, e) /\ WashMild(d, e) /\ DraftsStay(d, e)
<1>1. \A r \in DOMAIN d : r \notin C /\ r # v => e[r] = d[r]
  BY DEF VersionNew, SameBut
<1>2. /\ \A w \in Versions : e[Bell(w)] = d[Bell(w)]
      /\ \A w \in Versions : w # v => e[w] = d[w]
      /\ \A l \in Baths : l \notin C => e[l] = d[l]
      /\ \A p \in Dips : e[p] = d[p]
  <2>1. C \subseteq Baths
    BY DEF VersionNew
  <2> QED
    BY <1>1, <2>1, WashThere, WashApart
<1>3. /\ e[v] = VersionRow("draft") /\ e[v].status = "draft" /\ DOMAIN e = DOMAIN d /\ d[v].status = "none"
      /\ \A k \in C : k \in Baths /\ e[k] = LineRow(v) /\ d[k] = NoRow
  BY WashCols DEF VersionNew, SameBut
<1>4. \A w : PassedDip(e, w) <=> PassedDip(d, w)
  BY <1>2 DEF PassedDip
<1>5. \A w \in Versions : e[w].status = "approved" => w # v /\ d[w].status = "approved"
  BY <1>2, <1>3
<1>6. WashRows(e)
  BY <1>2, <1>3, <1>4, <1>5 DEF WashRows
<1>7. WashStep(d, e)
  <2> SUFFICES ASSUME NEW w \in Versions, d[w].status \in {"approved", "retired"}
               PROVE  Lines(e, w) = Lines(d, w)
    BY DEF WashStep
  <2>1. w # v
    BY <1>3
  <2>2. \A k \in C : e[k].on = v /\ d[k].status = "none"
    BY <1>3, WashCols
  <2> QED
    BY <1>2, <2>1, <2>2 DEF Lines
<1>8. WashKept(d, e) /\ WashMild(d, e) /\ DraftsStay(d, e)
  BY <1>2, <1>3, <1>5 DEF WashKept, WashMild, DraftsStay
<1> QED
  BY <1>6, <1>7, <1>8 DEF WashFits

\* A new dip is pending, so nothing hangs on it (create_labdip).
LEMMA DipGood ==
  ASSUME NEW p \in Dips, NEW v \in Versions, NEW d, NEW e, WashRows(d), DipNew(p, v, d, e)
  PROVE  WashFits(d, e) /\ WashMild(d, e) /\ DraftsStay(d, e)
<1>1. \A r \in DOMAIN d : r # p => e[r] = d[r]
  BY DEF DipNew, SameBut
<1>2. /\ \A w \in Versions : e[w] = d[w] /\ e[Bell(w)] = d[Bell(w)]
      /\ \A l \in Baths : e[l] = d[l]
      /\ \A q \in Dips : q # p => e[q] = d[q]
  BY <1>1, WashThere, WashApart
<1>4. e[p] = DipRow("pending", v) /\ e[p].status = "pending" /\ DOMAIN e = DOMAIN d /\ d[p].status = "none"
  BY WashCols DEF DipNew, SameBut
<1>5. \A u : PassedDip(d, u) => PassedDip(e, u)
  BY <1>2, <1>4 DEF PassedDip
<1>9. \A q \in Dips : e[q] = NoRow \/ \E z \in {"pending", "approved", "rejected", "resubmit"}, u \in Versions :
                                      e[q] = DipRow(z, u)
  <2> SUFFICES ASSUME NEW q \in Dips
               PROVE  e[q] = NoRow \/ \E z \in {"pending", "approved", "rejected", "resubmit"}, u \in Versions :
                                        e[q] = DipRow(z, u)
    OBVIOUS
  <2>1. CASE q = p
    BY <1>4, <2>1
  <2>2. CASE q # p
    BY <1>2, <2>2 DEF WashRows
  <2> QED
    BY <2>1, <2>2
<1>6. WashRows(e)
  BY <1>2, <1>4, <1>5, <1>9 DEF WashRows
<1>7. WashStep(d, e)
  BY <1>2 DEF WashStep, Lines
<1>8. WashKept(d, e) /\ WashMild(d, e) /\ DraftsStay(d, e)
  BY <1>2, <1>4 DEF WashKept, WashMild, DraftsStay
<1> QED
  BY <1>6, <1>7, <1>8 DEF WashFits

\* The row of a session that has written one row at most.
LEMMA OnlyRow ==
  ASSUME NEW q, NEW x, NEW m, m = NoRows \/ m = One(q, x), NEW r \in DOMAIN m
  PROVE  r = q
BY DEF One, NoRows

\* What a session writes at this desk: a line, a bell, or a row that is there.
LEMMA WashOwn ==
  ASSUME NEW op, NEW doc, NEW todo, NEW m, NEW d, WashRows(d), WashJob(op, doc, todo, m, d), NEW r \in DOMAIN m
  PROVE  r \in Baths \/ (\E w \in Versions : r = Bell(w)) \/ d[r].status # "none"
<1> DEFINE Goal == r \in Baths \/ (\E w \in Versions : r = Bell(w)) \/ d[r].status # "none"
<1>1. ASSUME NEW w \in Versions, NEW k \in Baths, LineJob(w, k, todo, m, d) PROVE Goal
  <2>1. m = NoRows \/ m = One(k, LineRow(w))
    BY <1>1 DEF LineJob
  <2> QED
    BY <2>1, OnlyRow
<1>2. ASSUME NEW w \in Versions, StandardJob(w, todo, m, d) PROVE Goal
  <2>1. m # NoRows
    BY NoneIs
  <2> QED
    BY <1>2, <2>1 DEF StandardJob, Others
<1>3. ASSUME NEW w \in Versions, WithdrawJob(w, todo, m, d) PROVE Goal
  <2>1. (m = NoRows \/ m = One(w, VersionRow("retired"))) /\ d[w].status # "none"
    BY <1>3 DEF WithdrawJob
  <2> QED
    BY <2>1, OnlyRow
<1>4. ASSUME NEW p \in Dips, NEW x \in {"approved", "pending"}, PassJob(p, x, todo, m, d) PROVE Goal
  <2>1. (m = NoRows \/ m = One(p, DipRow(x, d[p].of))) /\ d[p].status # "none"
    BY <1>4 DEF PassJob
  <2>2. r = p
    BY <2>1, OnlyRow
  <2> QED
    BY <2>1, <2>2
<1>5. ASSUME NEW p \in Dips, NEW y \in {"rejected", "resubmit"}, RevokeJob(p, y, todo, m, d) PROVE Goal
  <2> DEFINE b == Bell(d[p].of)
             x == DipRow(y, d[p].of)
  <2>1. d[p].status # "none"
    BY <1>5 DEF RevokeJob
  <2>2. d[p].of \in Versions
    BY <2>1, DipIs, WashCols
  <2>3. m = NoRows \/ m = One(p, x) \/ m = Over(One(b, Critical), One(p, x))
    BY <1>5 DEF RevokeJob
  <2>6. \E w \in Versions : b = Bell(w)
    BY <2>2
  <2> HIDE DEF x, b
  <2>4. CASE m = NoRows \/ m = One(p, x)
    <3>1. r = p
      BY <2>4, OnlyRow
    <3> QED
      BY <2>1, <3>1
  <2>5. CASE m = Over(One(b, Critical), One(p, x))
    <3>1. DOMAIN Over(One(b, Critical), One(p, x)) = {b, p}
      BY DEF Over, One
    <3> QED
      BY <2>1, <2>5, <2>6, <3>1
  <2> QED
    BY <2>3, <2>4, <2>5
<1> HIDE DEF Goal
<1>6. Goal
  BY <1>1, <1>2, <1>3, <1>4, <1>5 DEF WashJob
<1> QED
  BY <1>6 DEF Goal

\* What is under way stays under way.
WashHeld(s) ==
  \A op, doc, todo : WashJob(op, doc, todo, mine[s], db) => WashJob(op, doc, todo, mine[s], db')

\* A new version takes nothing from the functions under way.
LEMMA VersionRaised ==
  ASSUME WashRows(db), NEW v \in Versions, NEW C \in SUBSET {k \in Baths : Fresh(k)},
         Create(v, Over(One(v, [status |-> "draft"]), [k \in C |-> [status |-> "line", on |-> v]]))
  PROVE  /\ WashRows(db') /\ WashStep(db, db')
         /\ \A s \in Sessions : WashHeld(s)
<1> DEFINE x == VersionRow("draft")
           copies == [k \in C |-> LineRow(v)]
           rows == Over(One(v, x), copies)
<1>1. db' = Over(rows, db) /\ db[v].status = "none"
  BY DEF Create, Made, VersionRow, LineRow
<1>2. \A k \in C : k \in Baths /\ db[k] = NoRow /\ k \in DOMAIN db /\ k # v
  <2>1. \A k \in C : k \in Baths /\ db[k].status = "none"
    BY DEF Fresh, Made
  <2> QED
    BY <2>1, WashCols, WashThere, WashApart DEF WashRows
<1>3. v \in DOMAIN db
  BY WashThere
<1>4. DOMAIN copies = C /\ \A k \in C : copies[k] = LineRow(v)
  OBVIOUS
<1> HIDE DEF copies, x
<1>5. /\ DOMAIN rows = {v} \cup C /\ rows[v] = x
      /\ \A k \in C : rows[k] = LineRow(v)
  BY <1>2, <1>4 DEF Over, One
<1> HIDE DEF rows
<1>6. /\ DOMAIN db' = DOMAIN db /\ db'[v] = x /\ (\A k \in C : db'[k] = LineRow(v))
      /\ \A r \in DOMAIN db \ (C \cup {v}) : db'[r] = db[r]
  BY <1>1, <1>2, <1>3, <1>5 DEF Over
<1>7. VersionNew(v, C, db, db')
  BY <1>1, <1>2, <1>6 DEF VersionNew, SameBut, x
<1>8. WashFits(db, db') /\ WashMild(db, db') /\ DraftsStay(db, db')
  BY <1>7, VersionGood
<1>9. ASSUME NEW s \in Sessions, NEW op, NEW doc, NEW todo, WashJob(op, doc, todo, mine[s], db)
      PROVE  WashJob(op, doc, todo, mine[s], db')
  <2>1. \A r \in DOMAIN mine[s] : r \in DOMAIN db => r \notin C
    BY DEF Fresh
  <2>2. v \notin DOMAIN mine[s]
    BY <1>1, <1>9, WashOwn, WashApart
  <2>3. \A r \in DOMAIN mine[s] : r \in DOMAIN db => db'[r] = db[r]
    BY <1>6, <2>1, <2>2
  <2> QED
    BY <1>8, <1>9, <2>3, WashHolds DEF WashFits
<1> QED
  BY <1>8, <1>9 DEF WashFits, WashHeld

\* A new dip takes nothing from the functions under way.
LEMMA DipRaised ==
  ASSUME WashRows(db), NEW p \in Dips, NEW v \in Versions,
         Create(p, One(p, [status |-> "pending", of |-> v]))
  PROVE  /\ WashRows(db') /\ WashStep(db, db')
         /\ \A s \in Sessions : WashHeld(s)
<1> DEFINE x == DipRow("pending", v)
<1>1. db' = Over(One(p, x), db) /\ db[p].status = "none"
  BY DEF Create, Made, DipRow
<1>2. p \in DOMAIN db
  BY WashThere
<1> HIDE DEF x
<1>3. SameBut(db, db', {p})
  BY <1>1, <1>2, OneEnd
<1>4. db'[p] = x
  BY <1>1, RowOver
<1>5. DipNew(p, v, db, db')
  BY <1>1, <1>3, <1>4 DEF DipNew, x
<1>6. WashFits(db, db') /\ WashMild(db, db') /\ DraftsStay(db, db')
  BY <1>5, DipGood
<1>7. ASSUME NEW s \in Sessions, NEW op, NEW doc, NEW todo, WashJob(op, doc, todo, mine[s], db)
      PROVE  WashJob(op, doc, todo, mine[s], db')
  <2>1. p \notin DOMAIN mine[s]
    BY <1>1, <1>7, WashOwn, WashApart
  <2>2. \A r \in DOMAIN mine[s] : r \in DOMAIN db => db'[r] = db[r]
    BY <1>3, <2>1 DEF SameBut
  <2> QED
    BY <1>6, <1>7, <2>2, WashHolds DEF WashFits
<1> QED
  BY <1>6, <1>7 DEF WashFits, WashHeld

\* So does whatever the desk makes anew.
LEMMA WashRaised ==
  ASSUME WashRows(db), create_recipe \/ \E v \in Versions : new_version(v) \/ create_labdip(v)
  PROVE  /\ WashRows(db') /\ WashStep(db, db')
         /\ \A s \in Sessions : WashHeld(s)
<1> DEFINE Goal == /\ WashRows(db') /\ WashStep(db, db')
                   /\ \A s \in Sessions : WashHeld(s)
<1>1. ASSUME create_recipe PROVE Goal
  <2> DEFINE v == NewKey(Versions)
  <2>1. v \in Versions
    BY <1>1, DeskAssumption DEF create_recipe, NewKey, Unused
  <2>2. Create(v, One(v, [status |-> "draft"]))
    BY <1>1 DEF create_recipe
  <2> HIDE DEF v
  <2>3. Over(One(v, [status |-> "draft"]), [k \in {} |-> [status |-> "line", on |-> v]]) = One(v, [status |-> "draft"])
    BY DEF Over, One
  <2>4. Create(v, Over(One(v, [status |-> "draft"]), [k \in {} |-> [status |-> "line", on |-> v]]))
    BY <2>2, <2>3
  <2>5. {} \in SUBSET {k \in Baths : Fresh(k)}
    OBVIOUS
  <2> QED
    BY <2>1, <2>4, <2>5, VersionRaised
<1>2. ASSUME NEW u \in Versions, new_version(u) PROVE Goal
  <2> DEFINE v == NewKey(Versions)
             lines == {k \in Baths : Made(k) /\ db[k].on = u}
             places == {c \in SUBSET {k \in Baths : Fresh(k)} : Cardinality(c) = Cardinality(lines)}
             copies == CHOOSE c \in places : TRUE
  <2>1. /\ Unused(Versions) # {} /\ places # {}
        /\ Create(v, Over(One(v, [status |-> "draft"]), [k \in copies |-> [status |-> "line", on |-> v]]))
    BY <1>2 DEF new_version
  <2>2. v \in Versions
    BY <2>1 DEF NewKey, Unused
  <2>3. copies \in places
    BY <2>1
  <2>4. copies \in SUBSET {k \in Baths : Fresh(k)}
    BY <2>3
  <2> HIDE DEF v, lines, places, copies
  <2> QED
    BY <2>1, <2>2, <2>4, VersionRaised
<1>3. ASSUME NEW v \in Versions, create_labdip(v) PROVE Goal
  <2> DEFINE p == NewKey(Dips)
  <2>1. Unused(Dips) # {} /\ Create(p, One(p, [status |-> "pending", of |-> v]))
    BY <1>3 DEF create_labdip
  <2>2. p \in Dips
    BY <2>1 DEF NewKey, Unused
  <2> HIDE DEF p
  <2> QED
    BY <2>1, <2>2, DipRaised
<1> QED
  BY <1>1, <1>2, <1>3

\* A function of the wash desk starts from what its rows say when they are read.
LEMMA WashBegins ==
  ASSUME NEW s \in Sessions, mine[s] = NoRows, WashRows(db), WashDesk(s)
  PROVE  \E op, doc, todo : Begin(s, op, doc, todo) /\ WashJob(op, doc, todo, NoRows, db)
<1> DEFINE Goal == \E op, doc, todo : Begin(s, op, doc, todo) /\ WashJob(op, doc, todo, NoRows, db)
<1>0. \A r : Seen(s, r) = db[r]
  BY NoneIs DEF Seen
<1>1. ASSUME NEW v \in Versions, add_line(s, v) PROVE Goal
  <2> DEFINE k == CHOOSE f \in Baths : Fresh(f)
             todo == <<Insert(k, [status |-> "line", on |-> v]), CommitNow>>
  <2>1. k \in Baths /\ db[v].status = "draft" /\ Begin(s, "line", Recipe, todo)
    BY <1>0, <1>1 DEF add_line, Draft
  <2> HIDE DEF k
  <2>2. LineJob(v, k, todo, NoRows, db)
    BY <2>1 DEF LineJob, LineRow
  <2> HIDE DEF todo
  <2>3. WashJob("line", Recipe, todo, NoRows, db)
    BY <2>1, <2>2 DEF WashJob
  <2> QED
    BY <2>1, <2>3
<1>2. ASSUME NEW v \in Versions, set_version_status(s, v, "approved") PROVE Goal
  <2>1. /\ db[v].status # "none" /\ Passed(s, v) # {}
        /\ Begin(s, "standard", Recipe, ApproveVersion(v))
    BY <1>0, <1>2 DEF set_version_status
  <2>2. Settled => PassedDip(db, v)
    BY <1>0, <2>1 DEF Passed, PassedDip
  <2>3. StandardJob(v, ApproveVersion(v), NoRows, db)
    BY <2>1, <2>2 DEF StandardJob, ApproveVersion
  <2>4. WashJob("standard", Recipe, ApproveVersion(v), NoRows, db)
    BY <2>3 DEF WashJob
  <2> QED
    BY <2>1, <2>4
<1>3. ASSUME NEW v \in Versions, set_version_status(s, v, "retired") PROVE Goal
  <2> DEFINE todo == <<Update(v, [status |-> "retired"]), CommitNow>>
  <2>1. db[v].status # "none" /\ Begin(s, "withdraw", Recipe, todo)
    BY <1>0, <1>3 DEF set_version_status
  <2>2. WithdrawJob(v, todo, NoRows, db)
    BY <2>1 DEF WithdrawJob
  <2> HIDE DEF todo
  <2>3. WashJob("withdraw", Recipe, todo, NoRows, db)
    BY <2>2 DEF WashJob
  <2> QED
    BY <2>1, <2>3
<1>4. ASSUME NEW p \in Dips, NEW x \in {"approved", "pending"}, Passing(x), set_labdip_verdict(s, p, x) PROVE Goal
  <2> DEFINE todo == <<Update(p, [status |-> x]), CommitNow>>
  <2>1. <<Update(p, [status |-> x])>> \o <<>> \o <<CommitNow>> = todo
    BY Joined
  <2>2. ~Alarming(x)
    BY DEF Alarming
  <2>3. db[p].status # "none" /\ Begin(s, "pass", Recipe, todo)
    BY <1>0, <1>4, <2>1, <2>2 DEF set_labdip_verdict
  <2>4. PassJob(p, x, todo, NoRows, db)
    BY <1>4, <2>3 DEF PassJob
  <2> HIDE DEF todo
  <2>5. WashJob("pass", Recipe, todo, NoRows, db)
    BY <2>4 DEF WashJob
  <2> QED
    BY <2>3, <2>5
<1>5. ASSUME NEW p \in Dips, NEW x \in {"rejected", "resubmit"}, set_labdip_verdict(s, p, x) PROVE Goal
  <2> DEFINE todo == <<Update(p, [status |-> x]), Ring(db[p].of), CommitNow>>
  <2>1. <<Update(p, [status |-> x])>> \o <<Ring(db[p].of)>> \o <<CommitNow>> = todo
    BY Joined
  <2>2. Alarming(x)
    BY DEF Alarming
  <2>3. db[p].status # "none" /\ Begin(s, "revoke", Recipe, todo)
    BY <1>0, <1>5, <2>1, <2>2 DEF set_labdip_verdict
  <2>4. RevokeJob(p, x, todo, NoRows, db)
    BY <2>3 DEF RevokeJob
  <2> HIDE DEF todo
  <2>5. WashJob("revoke", Recipe, todo, NoRows, db)
    BY <2>4 DEF WashJob
  <2> QED
    BY <2>3, <2>5
<1>6. \A x \in Verdicts : (x \in {"approved", "pending"} /\ Passing(x)) \/ x \in {"rejected", "resubmit"}
  BY DeskAssumption DEF Passing, Settled
<1> HIDE DEF Goal
<1>7. Goal
  BY <1>1, <1>2, <1>3, <1>4, <1>5, <1>6 DEF WashDesk
<1> QED
  BY <1>7 DEF Goal

-----------------------------------------------------------------------------
(* The desk a behaviour is about.                                          *)

DeskRows(k, d) ==
  /\ k = "factory" => FactoryRows(d)
  /\ k = "catalogue" => CatalogueRows(d)
  /\ k = "probation" => ReviewRows(d)
  /\ k = "justification" => ReportRows(d)
  /\ k = "wash" => WashRows(d)

DeskJob(k, op, doc, todo, m, d) ==
  \/ k = "factory" /\ FactoryJob(op, doc, todo, m, d)
  \/ k = "catalogue" /\ CatalogueJob(op, doc, todo, m, d)
  \/ k = "probation" /\ ReviewJob(op, doc, todo, m, d)
  \/ k = "justification" /\ ReportJob(op, doc, todo, m, d)
  \/ k = "wash" /\ WashJob(op, doc, todo, m, d)

DeskStep(k, d, e) ==
  /\ k = "factory" => FactoryStep(d, e)
  /\ k = "catalogue" => CatalogueStep(d, e)
  /\ k = "probation" => ReviewStep(d, e)
  /\ k = "justification" => ReportStep(d, e)
  /\ k = "wash" => WashStep(d, e)

\* There are five desks.
LEMMA DeskNames == \A k : k \in Desks <=> k \in {"factory", "catalogue", "probation", "justification", "wash"}
BY DEF Desks, Rows

\* A session works at one desk only.
LEMMA DeskApart ==
  ASSUME NEW k, NEW op, NEW doc, NEW todo, NEW m, NEW d, DeskJob(k, op, doc, todo, m, d)
  PROVE  /\ k = "factory" => FactoryJob(op, doc, todo, m, d)
         /\ k = "catalogue" => CatalogueJob(op, doc, todo, m, d)
         /\ k = "probation" => ReviewJob(op, doc, todo, m, d)
         /\ k = "justification" => ReportJob(op, doc, todo, m, d)
         /\ k = "wash" => WashJob(op, doc, todo, m, d)
         /\ k \in {"factory", "catalogue", "probation", "justification", "wash"}
BY DEF DeskJob

\* A session in a function is not idle.
LEMMA JobIsNotIdle ==
  ASSUME NEW k, NEW op, NEW doc, NEW todo, NEW m, NEW d, DeskJob(k, op, doc, todo, m, d)
  PROVE  op # "idle"
<1>1. FactoryJob(op, doc, todo, m, d) => op # "idle"
  BY DEF FactoryJob
<1>2. CatalogueJob(op, doc, todo, m, d) => op # "idle"
  BY DEF CatalogueJob
<1>3. ReviewJob(op, doc, todo, m, d) => op # "idle"
  BY DEF ReviewJob, Movers
<1>4. ReportJob(op, doc, todo, m, d) => op # "idle"
  BY DEF ReportJob
<1>5. WashJob(op, doc, todo, m, d) => op # "idle"
  BY DEF WashJob
<1> QED
  BY <1>1, <1>2, <1>3, <1>4, <1>5 DEF DeskJob

\* Only the desk of the probation counts its rows.
LEMMA OthersDoNotCount ==
  ASSUME NEW k, NEW op, NEW doc, NEW todo, NEW m, NEW d, DeskJob(k, op, doc, todo, m, d),
         Head(todo).does = "number"
  PROVE  k = "probation" /\ ReviewJob(op, doc, todo, m, d)
<1>1. /\ todo # <<CommitNow>>
      /\ \A a, b : a.does # "number" => todo # <<a, b>>
      /\ \A a, b, c : a.does # "number" => todo # <<a, b, c>>
      /\ \A a, b, c, e : a.does # "number" => todo # <<a, b, c, e>>
  BY Doing, List1, List2, List3, List4
<1>2. \A op2, d2 : Answer(op2, d2).does # "number" /\ SignRung(op2, d2).does # "number"
  BY Doing DEF Answer, SignRung
<1>3. ~FactoryJob(op, doc, todo, m, d)
  BY <1>1, <1>2 DEF FactoryJob
<1>4. ~CatalogueJob(op, doc, todo, m, d)
  BY <1>1, Doing DEF CatalogueJob, ItemJob, DenyJob
<1>5. ~ReportJob(op, doc, todo, m, d)
  <2>1. /\ todo # <<Update(Report, [status |-> "submitted"]), CommitNow>>
        /\ \A x, e : todo # <<Update(Report, [status |-> x, decided |-> e]), CommitNow>>
    BY <1>1, Doing
  <2> QED
    BY <1>1, <2>1 DEF ReportJob
<1>6. ~WashJob(op, doc, todo, m, d)
  <2>1. \A v \in Versions, l \in Baths : ~LineJob(v, l, todo, m, d)
    BY <1>1, Doing DEF LineJob
  <2>2. \A v \in Versions : ~StandardJob(v, todo, m, d)
    BY <1>1, Doing DEF StandardJob
  <2>3. \A v \in Versions : ~WithdrawJob(v, todo, m, d)
    BY <1>1, Doing DEF WithdrawJob
  <2>4. \A p \in Dips, x \in {"approved", "pending"} : ~PassJob(p, x, todo, m, d)
    BY <1>1, Doing DEF PassJob
  <2>5. \A p \in Dips, x \in {"rejected", "resubmit"} : ~RevokeJob(p, x, todo, m, d)
    BY <1>1, Doing DEF RevokeJob
  <2> QED
    BY <2>1, <2>2, <2>3, <2>4, <2>5 DEF WashJob
<1> QED
  BY <1>3, <1>4, <1>5, <1>6 DEF DeskJob

\* A statement brings a function of any desk to its next point.
LEMMA DeskGoes ==
  ASSUME NEW k, NEW op, NEW doc, NEW todo, NEW m, NEW d, DeskRows(k, d), DeskJob(k, op, doc, todo, m, d),
         Head(todo).does \notin {"commit", "number"},
         Head(todo).does = "insert" => d[Head(todo).row].status = "none"
  PROVE  Len(todo) # 1 /\ DeskJob(k, op, doc, Tail(todo), Result(Head(todo), m, d), d)
<1> DEFINE n == Result(Head(todo), m, d)
           Goal == Len(todo) # 1 /\ DeskJob(k, op, doc, Tail(todo), n, d)
<1>1. ASSUME k = "factory" PROVE Goal
  <2>1. FactoryRows(d) /\ FactoryJob(op, doc, todo, m, d)
    BY <1>1, DeskApart DEF DeskRows
  <2>2. Len(todo) # 1 /\ FactoryJob(op, doc, Tail(todo), n, d)
    BY <2>1, FactoryGoes
  <2> HIDE DEF n
  <2> QED
    BY <1>1, <2>2 DEF DeskJob
<1>2. ASSUME k = "catalogue" PROVE Goal
  <2>1. CatalogueRows(d) /\ CatalogueJob(op, doc, todo, m, d)
    BY <1>2, DeskApart DEF DeskRows
  <2>2. Len(todo) # 1 /\ CatalogueJob(op, doc, Tail(todo), n, d)
    BY <2>1, CatalogueGoes
  <2> HIDE DEF n
  <2> QED
    BY <1>2, <2>2 DEF DeskJob
<1>3. ASSUME k = "probation" PROVE Goal
  <2>1. ReviewRows(d) /\ ReviewJob(op, doc, todo, m, d)
    BY <1>3, DeskApart DEF DeskRows
  <2>2. Len(todo) # 1 /\ ReviewJob(op, doc, Tail(todo), n, d)
    BY <2>1, ReviewGoes
  <2> HIDE DEF n
  <2> QED
    BY <1>3, <2>2 DEF DeskJob
<1>4. ASSUME k = "justification" PROVE Goal
  <2>1. ReportRows(d) /\ ReportJob(op, doc, todo, m, d)
    BY <1>4, DeskApart DEF DeskRows
  <2>2. Len(todo) # 1 /\ ReportJob(op, doc, Tail(todo), n, d)
    BY <2>1, ReportGoes
  <2> HIDE DEF n
  <2> QED
    BY <1>4, <2>2 DEF DeskJob
<1>5. ASSUME k = "wash" PROVE Goal
  <2>1. WashRows(d) /\ WashJob(op, doc, todo, m, d)
    BY <1>5, DeskApart DEF DeskRows
  <2>2. Len(todo) # 1 /\ WashJob(op, doc, Tail(todo), n, d)
    BY <2>1, WashGoes
  <2> HIDE DEF n
  <2> QED
    BY <1>5, <2>2 DEF DeskJob
<1> HIDE DEF Goal
<1>6. Goal
  BY <1>1, <1>2, <1>3, <1>4, <1>5, DeskApart
<1> QED
  BY <1>6 DEF Goal

\* A count of the cases gives a function the number of one.
LEMMA DeskNumbers ==
  ASSUME NEW k, NEW op, NEW doc, NEW todo, NEW m, NEW d, DeskJob(k, op, doc, todo, m, d),
         Head(todo).does = "number", NEW n \in Cases
  PROVE  DeskJob(k, op, doc, NewCase(n), m, d)
<1>1. k = "probation" /\ ReviewJob(op, doc, todo, m, d)
  BY OthersDoNotCount
<1>2. ReviewJob(op, doc, NewCase(n), m, d)
  BY <1>1, ReviewNumbers
<1> QED
  BY <1>1, <1>2 DEF DeskJob

\* After a commit the function is done, or goes on with nothing of its own.
DeskEnd(k, op, doc, todo, d, e) ==
  /\ DeskRows(k, e) /\ DeskStep(k, d, e)
  /\ Len(todo) = 1 \/ (Len(todo) # 1 /\ DeskJob(k, op, doc, Tail(todo), NoRows, e))

\* The rows of the desk are good after a commit, and its decisions stood.
LEMMA DeskEnds ==
  ASSUME NEW k, NEW op, NEW doc, NEW todo, NEW m, NEW d, DeskRows(k, d), DeskJob(k, op, doc, todo, m, d),
         Head(todo).does = "commit"
  PROVE  DeskEnd(k, op, doc, todo, d, Over(m, d))
<1> DEFINE e == Over(m, d)
           Goal == DeskEnd(k, op, doc, todo, d, e)
<1>1. ASSUME k = "factory" PROVE Goal
  <2>1. FactoryRows(d) /\ FactoryJob(op, doc, todo, m, d)
    BY <1>1, DeskApart DEF DeskRows
  <2>2. Len(todo) = 1
    BY <2>1, FactoryCommits
  <2>3. /\ FactoryRows(e)
        /\ d[Approval].status \in {"approved", "rejected", "auto_approved"} => e[Approval] = d[Approval]
    BY <2>1, FactoryGood
  <2> HIDE DEF e
  <2>4. DeskRows(k, e) /\ DeskStep(k, d, e)
    BY <1>1, <2>3 DEF DeskRows, DeskStep, FactoryStep
  <2> QED
    BY <2>2, <2>4 DEF DeskEnd
<1>2. ASSUME k = "catalogue" PROVE Goal
  <2>1. CatalogueRows(d) /\ CatalogueJob(op, doc, todo, m, d)
    BY <1>2, DeskApart DEF DeskRows
  <2>2. Len(todo) = 1 /\ CatalogueRows(e) /\ CatalogueStep(d, e)
    BY <2>1, CatalogueEnds
  <2> HIDE DEF e
  <2> QED
    BY <1>2, <2>2 DEF DeskRows, DeskStep, DeskEnd
<1>3. ASSUME k = "probation" PROVE Goal
  <2>1. ReviewRows(d) /\ ReviewJob(op, doc, todo, m, d)
    BY <1>3, DeskApart DEF DeskRows
  <2>2. /\ ReviewRows(e) /\ ReviewStep(d, e)
        /\ Len(todo) = 1 \/ (Len(todo) # 1 /\ ReviewJob(op, doc, Tail(todo), NoRows, e))
    BY <2>1, ReviewEnds
  <2> HIDE DEF e
  <2>3. DeskRows(k, e) /\ DeskStep(k, d, e)
    BY <1>3, <2>2 DEF DeskRows, DeskStep
  <2> QED
    BY <1>3, <2>2, <2>3 DEF DeskJob, DeskEnd
<1>4. ASSUME k = "justification" PROVE Goal
  <2>1. ReportRows(d) /\ ReportJob(op, doc, todo, m, d)
    BY <1>4, DeskApart DEF DeskRows
  <2>2. Len(todo) = 1 /\ ReportEnd(op, m, d, e)
    BY <2>1, ReportEnds
  <2> HIDE DEF e
  <2>3. DeskRows(k, e) /\ DeskStep(k, d, e)
    BY <1>4, <2>2 DEF DeskRows, DeskStep, ReportEnd
  <2> QED
    BY <2>2, <2>3 DEF DeskEnd
<1>5. ASSUME k = "wash" PROVE Goal
  <2>1. WashRows(d) /\ WashJob(op, doc, todo, m, d)
    BY <1>5, DeskApart DEF DeskRows
  <2>2. Len(todo) = 1 /\ WashRows(e) /\ WashStep(d, e)
    BY <2>1, WashEnds
  <2> HIDE DEF e
  <2> QED
    BY <1>5, <2>2 DEF DeskRows, DeskStep, DeskEnd
<1> HIDE DEF Goal
<1>6. Goal
  BY <1>1, <1>2, <1>3, <1>4, <1>5, DeskApart
<1> QED
  BY <1>6 DEF Goal, e

\* Another function under way stands when one commits.
LEMMA DeskStays ==
  ASSUME NEW k, NEW op, NEW doc, NEW todo, NEW m, NEW d, DeskRows(k, d), DeskJob(k, op, doc, todo, m, d),
         Head(todo).does = "commit",
         NEW g, NEW doc2, NEW left, NEW own, DeskJob(k, g, doc2, left, own, d),
         doc = doc2 => MayMeet(op, g), DOMAIN m \cap DOMAIN own = {}
  PROVE  DeskJob(k, g, doc2, left, own, Over(m, d))
<1> DEFINE e == Over(m, d)
           Goal == DeskJob(k, g, doc2, left, own, e)
<1>1. ASSUME k = "factory" PROVE Goal
  <2>1. FactoryRows(d) /\ FactoryJob(op, doc, todo, m, d) /\ FactoryJob(g, doc2, left, own, d)
    BY <1>1, DeskApart DEF DeskRows
  <2>2. FactoryJob(g, doc2, left, own, e)
    BY <2>1, FactoryStays
  <2> HIDE DEF e
  <2> QED
    BY <1>1, <2>2 DEF DeskJob
<1>2. ASSUME k = "catalogue" PROVE Goal
  <2>1. CatalogueRows(d) /\ CatalogueJob(op, doc, todo, m, d) /\ CatalogueJob(g, doc2, left, own, d)
    BY <1>2, DeskApart DEF DeskRows
  <2>2. CatalogueJob(g, doc2, left, own, e)
    BY <2>1, CatalogueStays
  <2> HIDE DEF e
  <2> QED
    BY <1>2, <2>2 DEF DeskJob
<1>3. ASSUME k = "probation" PROVE Goal
  <2>1. ReviewRows(d) /\ ReviewJob(op, doc, todo, m, d) /\ ReviewJob(g, doc2, left, own, d)
    BY <1>3, DeskApart DEF DeskRows
  <2>2. ReviewJob(g, doc2, left, own, e)
    BY <2>1, ReviewStays
  <2> HIDE DEF e
  <2> QED
    BY <1>3, <2>2 DEF DeskJob
<1>4. ASSUME k = "justification" PROVE Goal
  <2>1. ReportRows(d) /\ ReportJob(op, doc, todo, m, d) /\ ReportJob(g, doc2, left, own, d)
    BY <1>4, DeskApart DEF DeskRows
  <2>2. ReportJob(g, doc2, left, own, e)
    BY <2>1, ReportStays
  <2> HIDE DEF e
  <2> QED
    BY <1>4, <2>2 DEF DeskJob
<1>5. ASSUME k = "wash" PROVE Goal
  <2>1. WashRows(d) /\ WashJob(op, doc, todo, m, d) /\ WashJob(g, doc2, left, own, d)
    BY <1>5, DeskApart DEF DeskRows
  <2>2. WashJob(g, doc2, left, own, e)
    BY <2>1, WashStays
  <2> HIDE DEF e
  <2> QED
    BY <1>5, <2>2 DEF DeskJob
<1> HIDE DEF Goal
<1>6. Goal
  BY <1>1, <1>2, <1>3, <1>4, <1>5, DeskApart
<1> QED
  BY <1>6 DEF Goal, e

\* A step that leaves the rows alone leaves the decisions alone.
LEMMA DeskSame ==
  ASSUME NEW k, NEW d
  PROVE  DeskStep(k, d, d)
BY DEF DeskStep, FactoryStep, CatalogueStep, ReviewStep, ReportStep, WashStep

\* A function starts somewhere in its list of statements, with nothing written.
LEMMA DeskBegins ==
  ASSUME NEW s \in Sessions, mine[s] = NoRows, DeskRows(desk, db), Start(s)
  PROVE  \E op, doc, todo : Begin(s, op, doc, todo) /\ DeskJob(desk, op, doc, todo, NoRows, db)
<1> DEFINE Goal == \E op, doc, todo : Begin(s, op, doc, todo) /\ DeskJob(desk, op, doc, todo, NoRows, db)
<1>1. ASSUME desk = "factory", FactoryDesk(s) PROVE Goal
  <2>1. PICK op, doc, todo : Begin(s, op, doc, todo) /\ FactoryJob(op, doc, todo, NoRows, db)
    BY <1>1, FactoryBegins DEF DeskRows
  <2> QED
    BY <1>1, <2>1 DEF DeskJob
<1>2. ASSUME desk = "catalogue", CatalogueDesk(s) PROVE Goal
  <2>1. PICK op, doc, todo : Begin(s, op, doc, todo) /\ CatalogueJob(op, doc, todo, NoRows, db)
    BY <1>2, CatalogueBegins DEF DeskRows
  <2> QED
    BY <1>2, <2>1 DEF DeskJob
<1>3. ASSUME desk = "probation", ProbationDesk(s) PROVE Goal
  <2>1. PICK op, doc, todo : Begin(s, op, doc, todo) /\ ReviewJob(op, doc, todo, NoRows, db)
    BY <1>3, ReviewBegins DEF DeskRows
  <2> QED
    BY <1>3, <2>1 DEF DeskJob
<1>4. ASSUME desk = "justification", JustificationDesk(s) PROVE Goal
  <2>1. PICK op, doc, todo : Begin(s, op, doc, todo) /\ ReportJob(op, doc, todo, NoRows, db)
    BY <1>4, ReportBegins DEF DeskRows
  <2> QED
    BY <1>4, <2>1 DEF DeskJob
<1>5. ASSUME desk = "wash", WashDesk(s) PROVE Goal
  <2>1. PICK op, doc, todo : Begin(s, op, doc, todo) /\ WashJob(op, doc, todo, NoRows, db)
    BY <1>5, WashBegins DEF DeskRows
  <2> QED
    BY <1>5, <2>1 DEF DeskJob
<1> HIDE DEF Goal
<1>6. Goal
  BY <1>1, <1>2, <1>3, <1>4, <1>5 DEF Start
<1> QED
  BY <1>6 DEF Goal

\* A new document leaves what is under way as it is.
LEMMA DeskRaised ==
  ASSUME DeskRows(desk, db), Raise
  PROVE  /\ DeskRows(desk, db') /\ DeskStep(desk, db, db')
         /\ UNCHANGED <<mine, job>>
         /\ \A s \in Sessions : \A op, doc, todo :
              DeskJob(desk, op, doc, todo, mine[s], db) => DeskJob(desk, op, doc, todo, mine[s], db')
<1> DEFINE Goal == /\ DeskRows(desk, db') /\ DeskStep(desk, db, db')
                   /\ \A s \in Sessions : \A op, doc, todo :
                        DeskJob(desk, op, doc, todo, mine[s], db) => DeskJob(desk, op, doc, todo, mine[s], db')
<1>0. UNCHANGED <<mine, job>>
  BY DEF Raise, submit, create_item_request, create_report, create_recipe, new_version, create_labdip, Create
<1>1. ASSUME desk = "factory", NEW L \in Ladders, submit(L) PROVE Goal
  <2>1. /\ FactoryRows(db') /\ FactoryStep(db, db')
        /\ \A op, doc, todo, m : ~FactoryJob(op, doc, todo, m, db)
    BY <1>1, FactoryRaised DEF DeskRows
  <2> QED
    BY <1>1, <2>1 DEF DeskRows, DeskStep, DeskJob
<1>2. ASSUME desk = "catalogue", NEW q \in ItemRequests, create_item_request(q) PROVE Goal
  <2>1. /\ CatalogueRows(db') /\ CatalogueStep(db, db')
        /\ \A op, doc, todo, m : CatalogueJob(op, doc, todo, m, db) => CatalogueJob(op, doc, todo, m, db')
    BY <1>2, CatalogueRaised DEF DeskRows
  <2> QED
    BY <1>2, <2>1 DEF DeskRows, DeskStep, DeskJob
<1>3. ASSUME desk = "justification", NEW e \in Engineers, create_report(e) PROVE Goal
  <2>1. /\ ReportRows(db') /\ ReportStep(db, db')
        /\ \A op, doc, todo, m : ~ReportJob(op, doc, todo, m, db)
    BY <1>3, ReportRaised DEF DeskRows
  <2> QED
    BY <1>3, <2>1 DEF DeskRows, DeskStep, DeskJob
<1>4. ASSUME desk = "wash", create_recipe \/ \E v \in Versions : new_version(v) \/ create_labdip(v) PROVE Goal
  <2>1. /\ WashRows(db') /\ WashStep(db, db')
        /\ \A s \in Sessions : WashHeld(s)
    BY <1>4, WashRaised DEF DeskRows
  <2> QED
    BY <1>4, <2>1 DEF DeskRows, DeskStep, DeskJob, WashHeld
<1> HIDE DEF Goal
<1>5. Goal
  BY <1>1, <1>2, <1>3, <1>4 DEF Raise
<1> QED
  BY <1>0, <1>5 DEF Goal

-----------------------------------------------------------------------------
(* The sessions of a desk.                                                 *)

Job(op, doc, todo) == [op |-> op, doc |-> doc, todo |-> todo]

\* A session does nothing, or is somewhere in a function of the desk.
AtWork(k, j, m, d) ==
  \/ j = Idle /\ m = NoRows
  \/ \E op, doc, todo : j = Job(op, doc, todo) /\ DeskJob(k, op, doc, todo, m, d)

\* Two functions under way on one document may overlap.
Together2(i, j) == i # Idle /\ j # Idle /\ i.doc = j.doc => MayMeet(i.op, j.op)

DeskInv ==
  /\ desk \in Desks
  /\ DeskRows(desk, db)
  /\ SessionsTyped
  /\ \A s \in Sessions : AtWork(desk, job[s], mine[s], db)
  /\ \A s, t \in Sessions : s # t => DOMAIN mine[s] \cap DOMAIN mine[t] = {}
  /\ \A s, t \in Sessions : s # t => Together2(job[s], job[t])

\* What a session in a function remembers.
LEMMA JobIs ==
  ASSUME NEW op, NEW doc, NEW todo
  PROVE  /\ Job(op, doc, todo).op = op /\ Job(op, doc, todo).doc = doc /\ Job(op, doc, todo).todo = todo
         /\ \A left : [Job(op, doc, todo) EXCEPT !.todo = left] = Job(op, doc, left)
         /\ op # "idle" => Job(op, doc, todo) # Idle
BY DEF Job, Idle

\* A function goes on with the statements that are left, or is over.
LEMMA FinishedIs ==
  ASSUME NEW op, NEW doc, NEW todo
  PROVE  Finished(Job(op, doc, todo)) = IF Len(todo) = 1 THEN Idle ELSE Job(op, doc, Tail(todo))
<1> DEFINE j == Job(op, doc, todo)
<1>2. j.todo = todo /\ "todo" \in DOMAIN j
  BY DEF Job
<1>3. \A left : [j EXCEPT !.todo = left] = Job(op, doc, left)
  BY JobIs
<1> HIDE DEF j
<1>1. [j EXCEPT !.todo = Tail(@)] = Job(op, doc, Tail(todo))
  <2> DEFINE left == Tail(j.todo)
  <2>1. [j EXCEPT !.todo = left] = Job(op, doc, left)
    BY <1>3
  <2>2. [j EXCEPT !.todo = Tail(@)] = [j EXCEPT !.todo = left]
    OBVIOUS
  <2> QED
    BY <1>2, <2>1, <2>2
<1>4. Finished(j) = IF Len(todo) = 1 THEN Idle ELSE Job(op, doc, Tail(todo))
  BY <1>1, <1>2 DEF Finished
<1> QED
  BY <1>4 DEF j

\* Once session s has a job and rows that fit, and nobody else's have changed.
LEMMA OneMoved ==
  ASSUME DeskInv, NEW s \in Sessions, NEW j, NEW m,
         job' = [job EXCEPT ![s] = j], mine' = [mine EXCEPT ![s] = m], desk' = desk,
         DeskRows(desk, db'), AtWork(desk, j, m, db'),
         \A t \in Sessions \ {s} : AtWork(desk, job[t], mine[t], db'),
         \A t \in Sessions \ {s} : DOMAIN m \cap DOMAIN mine[t] = {},
         \A t \in Sessions \ {s} : Together2(j, job[t])
  PROVE  DeskInv'
<1>1. DOMAIN job = Sessions /\ DOMAIN mine = Sessions
  BY DEF DeskInv, SessionsTyped
<1>2. /\ job'[s] = j /\ mine'[s] = m
      /\ \A t \in Sessions \ {s} : job'[t] = job[t] /\ mine'[t] = mine[t]
      /\ DOMAIN job' = Sessions /\ DOMAIN mine' = Sessions
  BY <1>1
<1>3. SessionsTyped'
  <2>1. job' = [t \in Sessions |-> job'[t]]
    BY <1>1
  <2>2. mine' = [t \in Sessions |-> mine'[t]]
    BY <1>1
  <2> QED
    BY <2>1, <2>2 DEF SessionsTyped
<1>4. \A t \in Sessions : AtWork(desk, job'[t], mine'[t], db')
  <2> SUFFICES ASSUME NEW t \in Sessions PROVE AtWork(desk, job'[t], mine'[t], db')
    OBVIOUS
  <2> QED
    BY <1>2
<1>5. \A t, u \in Sessions : t # u => DOMAIN mine'[t] \cap DOMAIN mine'[u] = {}
  <2> SUFFICES ASSUME NEW t \in Sessions, NEW u \in Sessions, t # u
               PROVE  DOMAIN mine'[t] \cap DOMAIN mine'[u] = {}
    OBVIOUS
  <2>1. CASE t = s
    BY <1>2, <2>1
  <2>2. CASE u = s
    BY <1>2, <2>2
  <2>3. CASE t # s /\ u # s
    BY <1>2, <2>3 DEF DeskInv
  <2> QED
    BY <2>1, <2>2, <2>3
<1>6. \A t, u \in Sessions : t # u => Together2(job'[t], job'[u])
  <2> SUFFICES ASSUME NEW t \in Sessions, NEW u \in Sessions, t # u
               PROVE  Together2(job'[t], job'[u])
    OBVIOUS
  <2>1. CASE t = s
    BY <1>2, <2>1
  <2>2. CASE u = s
    <3>1. Together2(j, job[t])
      BY <2>2
    <3>2. Together2(job[t], j)
      <4>1. {j.op, job[t].op} = {job[t].op, j.op}
        OBVIOUS
      <4> QED
        BY <3>1, <4>1 DEF Together2, MayMeet
    <3> QED
      BY <1>2, <2>2, <3>2
  <2>3. CASE t # s /\ u # s
    BY <1>2, <2>3 DEF DeskInv
  <2> QED
    BY <2>1, <2>2, <2>3
<1>7. desk' \in Desks /\ DeskRows(desk', db')
  BY DEF DeskInv
<1> QED
  BY <1>3, <1>4, <1>5, <1>6, <1>7 DEF DeskInv

\* A session at a statement is in a function.
LEMMA InFunction ==
  ASSUME DeskInv, NEW s \in Sessions, job[s].todo # <<>>
  PROVE  \E op, doc, todo : job[s] = Job(op, doc, todo) /\ DeskJob(desk, op, doc, todo, mine[s], db)
BY DEF DeskInv, AtWork, Idle

\* A statement on the session's own rows keeps the invariant.
LEMMA GoesKeeps ==
  ASSUME DeskInv, NEW s \in Sessions, Goes(s), desk' = desk
  PROVE  DeskInv' /\ db' = db
<1>1. PICK op, doc, todo : job[s] = Job(op, doc, todo) /\ DeskJob(desk, op, doc, todo, mine[s], db)
  BY InFunction DEF Goes
<1>2. job[s].todo = todo
  BY <1>1, JobIs
<1> DEFINE rows == Result(Head(todo), mine[s], db)
<1>3. /\ Head(todo).does \notin {"commit", "number"}
      /\ Head(todo).does = "insert" => db[Head(todo).row].status = "none"
      /\ \A r \in DOMAIN rows \ DOMAIN mine[s] : Free(s, r)
      /\ mine' = [mine EXCEPT ![s] = rows]
      /\ job' = [job EXCEPT ![s] = Finished(job[s])]
      /\ db' = db
  BY <1>2 DEF Goes, Made
<1>4. Len(todo) # 1 /\ DeskJob(desk, op, doc, Tail(todo), rows, db)
  BY <1>1, <1>3, DeskGoes DEF DeskInv
<1>5. Finished(job[s]) = Job(op, doc, Tail(todo))
  BY <1>1, <1>4, FinishedIs
<1> HIDE DEF rows
<1>6. AtWork(desk, Job(op, doc, Tail(todo)), rows, db)
  BY <1>4 DEF AtWork
<1>7. \A t \in Sessions \ {s} : DOMAIN rows \cap DOMAIN mine[t] = {}
  BY <1>3 DEF DeskInv, Free
<1>8. \A t \in Sessions \ {s} : Together2(Job(op, doc, Tail(todo)), job[t])
  <2>1. op # "idle"
    BY <1>1, JobIsNotIdle
  <2>2. \A t \in Sessions \ {s} : Together2(Job(op, doc, todo), job[t])
    BY <1>1 DEF DeskInv
  <2> QED
    BY <2>1, <2>2, JobIs DEF Together2
<1>9. DeskRows(desk, db') /\ \A t \in Sessions \ {s} : AtWork(desk, job[t], mine[t], db')
  BY <1>3 DEF DeskInv
<1> QED
  BY <1>3, <1>5, <1>6, <1>7, <1>8, <1>9, OneMoved

\* A count of the cases keeps the invariant.
LEMMA NumbersKeeps ==
  ASSUME DeskInv, NEW s \in Sessions, Numbers(s), desk' = desk
  PROVE  DeskInv' /\ db' = db
<1>1. PICK op, doc, todo : job[s] = Job(op, doc, todo) /\ DeskJob(desk, op, doc, todo, mine[s], db)
  BY InFunction DEF Numbers
<1>2. job[s].todo = todo
  BY <1>1, JobIs
<1>3. PICK n \in Cases : job' = [job EXCEPT ![s].todo = NewCase(n)]
  BY DEF Numbers
<1>4. Head(todo).does = "number" /\ db' = db /\ mine' = mine
  BY <1>2 DEF Numbers
<1> DEFINE left == NewCase(n)
<1>5. DeskJob(desk, op, doc, left, mine[s], db)
  BY <1>1, <1>4, DeskNumbers
<1> HIDE DEF left
<1>6. job' = [job EXCEPT ![s] = Job(op, doc, left)]
  <2>1. [job[s] EXCEPT !.todo = left] = Job(op, doc, left)
    BY <1>1, JobIs
  <2>2. job' = [job EXCEPT ![s] = [job[s] EXCEPT !.todo = left]]
    BY <1>3 DEF left
  <2> QED
    BY <2>1, <2>2
<1>7. mine' = [mine EXCEPT ![s] = mine[s]]
  BY <1>4 DEF DeskInv, SessionsTyped
<1>8. AtWork(desk, Job(op, doc, left), mine[s], db)
  BY <1>5 DEF AtWork
<1>9. \A t \in Sessions \ {s} : Together2(Job(op, doc, left), job[t])
  <2>1. op # "idle"
    BY <1>1, JobIsNotIdle
  <2>2. \A t \in Sessions \ {s} : Together2(Job(op, doc, todo), job[t])
    BY <1>1 DEF DeskInv
  <2> QED
    BY <2>1, <2>2, JobIs DEF Together2
<1>10. /\ DeskRows(desk, db') /\ \A t \in Sessions \ {s} : AtWork(desk, job[t], mine[t], db')
       /\ \A t \in Sessions \ {s} : DOMAIN mine[s] \cap DOMAIN mine[t] = {}
  BY <1>4 DEF DeskInv
<1> QED
  BY <1>4, <1>6, <1>7, <1>8, <1>9, <1>10, OneMoved

\* A commit keeps the invariant: the session's own rows are good and every other session's
\* point is still a point of its function.
LEMMA CommitsKeeps ==
  ASSUME DeskInv, NEW s \in Sessions, Commits(s), desk' = desk
  PROVE  DeskInv' /\ DeskStep(desk, db, db')
<1>1. PICK op, doc, todo : job[s] = Job(op, doc, todo) /\ DeskJob(desk, op, doc, todo, mine[s], db)
  BY InFunction DEF Commits
<1>2. job[s].todo = todo
  BY <1>1, JobIs
<1>3. /\ Head(todo).does = "commit" /\ db' = Over(mine[s], db)
      /\ mine' = [mine EXCEPT ![s] = NoRows]
      /\ job' = [job EXCEPT ![s] = Finished(job[s])]
  BY <1>2 DEF Commits
<1>4. DeskEnd(desk, op, doc, todo, db, db')
  BY <1>1, <1>3, DeskEnds DEF DeskInv
<1>5. DeskRows(desk, db') /\ DeskStep(desk, db, db')
  BY <1>4 DEF DeskEnd
<1>6. op # "idle"
  BY <1>1, JobIsNotIdle
<1>7. Finished(job[s]) = IF Len(todo) = 1 THEN Idle ELSE Job(op, doc, Tail(todo))
  BY <1>1, FinishedIs
<1>8. AtWork(desk, Finished(job[s]), NoRows, db')
  BY <1>4, <1>7 DEF DeskEnd, AtWork
<1>9. \A t \in Sessions \ {s} : DOMAIN NoRows \cap DOMAIN mine[t] = {}
  BY NoneIs
<1>10. \A t \in Sessions \ {s} : Together2(Finished(job[s]), job[t])
  <2>1. \A t \in Sessions \ {s} : Together2(Job(op, doc, todo), job[t])
    BY <1>1 DEF DeskInv
  <2> QED
    BY <1>6, <1>7, <2>1, JobIs DEF Together2
<1>11. \A t \in Sessions \ {s} : AtWork(desk, job[t], mine[t], db')
  <2> SUFFICES ASSUME NEW t \in Sessions \ {s}, job[t] # Idle
               PROVE  AtWork(desk, job[t], mine[t], db')
    BY JobIs, JobIsNotIdle DEF DeskInv, AtWork
  <2>1. PICK op2, doc2, left : job[t] = Job(op2, doc2, left) /\ DeskJob(desk, op2, doc2, left, mine[t], db)
    BY DEF DeskInv, AtWork
  <2>2. DOMAIN mine[s] \cap DOMAIN mine[t] = {} /\ Together2(job[s], job[t])
    BY DEF DeskInv
  <2>3. job[s] # Idle
    BY <1>1, <1>6, JobIs
  <2>4. doc = doc2 => MayMeet(op, op2)
    BY <1>1, <2>1, <2>2, <2>3, JobIs DEF Together2
  <2>5. DeskJob(desk, op2, doc2, left, mine[t], db')
    BY <1>1, <1>3, <2>1, <2>2, <2>4, DeskStays DEF DeskInv
  <2> QED
    BY <2>1, <2>5 DEF AtWork
<1> QED
  BY <1>3, <1>5, <1>8, <1>9, <1>10, <1>11, OneMoved

\* A refusal, a deadlock or a stop of the process keeps the invariant: nothing was committed.
LEMMA DropsKeeps ==
  ASSUME DeskInv, NEW s \in Sessions, Drops(s), desk' = desk
  PROVE  DeskInv' /\ db' = db
<1>1. job' = [job EXCEPT ![s] = Idle] /\ mine' = [mine EXCEPT ![s] = NoRows] /\ db' = db
  BY DEF Drops
<1>2. AtWork(desk, Idle, NoRows, db)
  BY DEF AtWork
<1>3. /\ \A t \in Sessions \ {s} : DOMAIN NoRows \cap DOMAIN mine[t] = {}
      /\ \A t \in Sessions \ {s} : Together2(Idle, job[t])
  BY NoneIs DEF Together2
<1>4. DeskRows(desk, db') /\ \A t \in Sessions \ {s} : AtWork(desk, job[t], mine[t], db')
  BY <1>1 DEF DeskInv
<1> QED
  BY <1>1, <1>2, <1>3, <1>4, OneMoved

\* A function starts only next to functions it may overlap with.
LEMMA StartKeepsDesk ==
  ASSUME DesksSafe, DeskInv, NEW s \in Sessions, Start(s)
  PROVE  DeskInv' /\ db' = db
<1>0. job[s] = Idle
  BY DEF Start, FactoryDesk, decide, CatalogueDesk, approve_item_request, reject_item_request,
         ProbationDesk, create_case, save_evaluation, submit_evaluation, manager_forward, hr_decide, admin_reopen,
         cancel_case, JustificationDesk, submit_report, decide_report, WashDesk, add_line, set_version_status,
         set_labdip_verdict, Begin
<1>1. mine[s] = NoRows
  BY <1>0, JobIs, JobIsNotIdle DEF DeskInv, AtWork
<1>2. PICK op, doc, todo : Begin(s, op, doc, todo) /\ DeskJob(desk, op, doc, todo, NoRows, db)
  BY <1>1, DeskBegins DEF DeskInv
<1>3. /\ job' = [job EXCEPT ![s] = Job(op, doc, todo)] /\ db' = db /\ mine' = mine
      /\ \A t \in Sessions \ {s} : job[t].doc = doc => {op, job[t].op} \in Together
  BY <1>2 DEF Begin, Job, Read
<1>4. mine' = [mine EXCEPT ![s] = NoRows]
  BY <1>1, <1>3 DEF DeskInv, SessionsTyped
<1>5. AtWork(desk, Job(op, doc, todo), NoRows, db)
  BY <1>2 DEF AtWork
<1>6. \A t \in Sessions \ {s} : DOMAIN NoRows \cap DOMAIN mine[t] = {}
  BY NoneIs
<1>7. \A t \in Sessions \ {s} : Together2(Job(op, doc, todo), job[t])
  BY <1>3, JobIs DEF Together2, MayMeet, DesksSafe
<1>8. DeskRows(desk, db') /\ (\A t \in Sessions \ {s} : AtWork(desk, job[t], mine[t], db')) /\ desk' = desk
  BY <1>3 DEF DeskInv, Start
<1> QED
  BY <1>3, <1>4, <1>5, <1>6, <1>7, <1>8, OneMoved

\* A new document keeps the invariant.
LEMMA RaiseKeeps ==
  ASSUME DeskInv, Raise
  PROVE  DeskInv' /\ DeskStep(desk, db, db')
<1>1. DeskRows(desk, db')
  BY DeskRaised DEF DeskInv
<1>2. DeskStep(desk, db, db')
  BY DeskRaised DEF DeskInv
<1>3. mine' = mine /\ job' = job /\ desk' = desk
  BY DeskRaised DEF DeskInv, Raise
<1>4. \A s \in Sessions : \A op, doc, todo :
        DeskJob(desk, op, doc, todo, mine[s], db) => DeskJob(desk, op, doc, todo, mine[s], db')
  BY DeskRaised DEF DeskInv
<1>5. \A s \in Sessions : AtWork(desk, job[s], mine[s], db')
  BY <1>4 DEF DeskInv, AtWork
<1> QED
  BY <1>1, <1>2, <1>3, <1>5 DEF DeskInv, SessionsTyped

\* Every step of a desk keeps the invariant and leaves what is decided as it is.
LEMMA DeskKeeps ==
  ASSUME DesksSafe, DeskInv, Next
  PROVE  DeskInv' /\ DeskStep(desk, db, db')
<1>1. CASE Raise
  BY <1>1, RaiseKeeps
<1>2. ASSUME NEW s \in Sessions, Start(s) PROVE DeskInv' /\ DeskStep(desk, db, db')
  BY <1>2, StartKeepsDesk, DeskSame
<1>3. ASSUME NEW s \in Sessions, Work(s) PROVE DeskInv' /\ DeskStep(desk, db, db')
  <2>1. desk' = desk
    BY <1>3 DEF Work
  <2>2. Goes(s) \/ Numbers(s) \/ Commits(s) \/ Drops(s)
    BY <1>3, WorkKinds DEF DeskInv
  <2> QED
    BY <2>1, <2>2, GoesKeeps, NumbersKeeps, CommitsKeeps, DropsKeeps, DeskSame
<1>4. ASSUME NEW s \in Sessions, Stop(s), desk' = desk PROVE DeskInv' /\ DeskStep(desk, db, db')
  <2>1. Drops(s)
    BY <1>4 DEF Stop, Rollback, Quit, Drops
  <2> QED
    BY <1>4, <2>1, DropsKeeps, DeskSame
<1> QED
  BY <1>1, <1>2, <1>3, <1>4 DEF Next

\* No desk has a row when it opens, except for the line a request is typed on.
LEMMA DeskOpens ==
  ASSUME Init
  PROVE  DeskInv
<1>1. /\ desk \in Desks
      /\ db = [r \in Rows[desk] |-> IF desk = "catalogue" /\ r = Line THEN [status |-> "typed", item |-> "none"] ELSE NoRow]
      /\ mine = [s \in Sessions |-> NoRows]
      /\ job = [s \in Sessions |-> Idle]
  BY DEF Init
<1>2. ASSUME desk = "factory" PROVE FactoryRows(db)
  <2>1. Rows[desk] = {Approval} \cup {Step(l) : l \in Levels}
    BY <1>2 DEF Rows
  <2>2. db = [r \in {Approval} \cup {Step(l) : l \in Levels} |-> NoRow]
    BY <1>1, <1>2, <2>1
  <2> QED
    BY <2>2 DEF FactoryRows
<1>3. ASSUME desk = "catalogue" PROVE CatalogueRows(db)
  <2>1. Rows[desk] = ItemRequests \cup Codes \cup {Line}
    BY <1>3 DEF Rows
  <2>2. db = [r \in ItemRequests \cup Codes \cup {Line} |-> IF r = Line THEN Linked("none") ELSE NoRow]
    BY <1>1, <1>3, <2>1 DEF Linked
  <2>3. /\ DOMAIN db = ItemRequests \cup Codes \cup {Line} /\ db[Line] = Linked("none")
        /\ \A q \in ItemRequests \cup Codes : db[q] = NoRow
    BY <2>2, DeskAssumption
  <2> QED
    BY <2>3 DEF CatalogueRows
<1>4. ASSUME desk = "probation" PROVE ReviewRows(db)
  <2>1. Rows[desk] = {Case(n) : n \in Cases} \cup {Evaluation(n) : n \in Cases}
    BY <1>4 DEF Rows
  <2>2. db = [r \in {Case(n) : n \in Cases} \cup {Evaluation(n) : n \in Cases} |-> NoRow]
    BY <1>1, <1>4, <2>1
  <2>3. \A n \in Cases : db[Case(n)] = NoRow /\ db[Evaluation(n)] = NoRow
    BY <2>2
  <2>4. NoRow.status \notin ACTIVE
    BY DEF NoRow, ACTIVE
  <2> QED
    BY <2>2, <2>3, <2>4 DEF ReviewRows, File
<1>5. ASSUME desk = "justification" PROVE ReportRows(db)
  <2>1. Rows[desk] = {Report}
    BY <1>5 DEF Rows
  <2>2. db = [r \in {Report} |-> NoRow]
    BY <1>1, <1>5, <2>1
  <2> QED
    BY <2>2 DEF ReportRows
<1>6. ASSUME desk = "wash" PROVE WashRows(db)
  <2>1. Rows[desk] = Versions \cup Baths \cup Dips \cup {Bell(v) : v \in Versions}
    BY <1>6 DEF Rows
  <2>2. db = [r \in Versions \cup Baths \cup Dips \cup {Bell(v) : v \in Versions} |-> NoRow]
    BY <1>1, <1>6, <2>1
  <2>3. NoRow = VersionRow("none") /\ NoRow.status # "approved"
    BY DEF NoRow, VersionRow
  <2> QED
    BY <2>2, <2>3 DEF WashRows
<1>7. DeskRows(desk, db)
  BY <1>2, <1>3, <1>4, <1>5, <1>6 DEF DeskRows
<1>8. \A s \in Sessions : mine[s] = NoRows /\ job[s] = Idle
  BY <1>1
<1>9. SessionsTyped
  BY <1>1, <1>8 DEF SessionsTyped
<1> QED
  BY <1>1, <1>7, <1>8, <1>9, NoneIs DEF DeskInv, AtWork, Together2

-----------------------------------------------------------------------------
(* What the invariant promises.                                            *)

\* An approval is signed at every level.
LEMMA FactoryPromise ==
  ASSUME FactoryRows(db)
  PROVE  /\ \A r \in DOMAIN db : db[r].status \in Statuses
         /\ Made(Approval) => db[Approval].level = 1 \/ db[Approval].level \in 1 .. db[Approval].total
         /\ db[Approval].status = "approved" => \A l \in 1 .. db[Approval].total : db[Step(l)].status = "approved"
<1>1. NoRow.status = "none"
  BY DEF NoRow
<1>2. \A l \in Levels : db[Step(l)].status \in Statuses
  BY <1>1 DEF FactoryRows, Statuses
<1>3. db[Approval].status \in Statuses
  BY <1>1 DEF FactoryRows, Statuses
<1>4. \A r \in DOMAIN db : db[r].status \in Statuses
  BY <1>2, <1>3 DEF FactoryRows
<1>5. Made(Approval) => db[Approval].level = 1 \/ db[Approval].level \in 1 .. db[Approval].total
  BY <1>1 DEF FactoryRows, Made
<1>6. db[Approval].status = "approved" => \A l \in 1 .. db[Approval].total : db[Step(l)].status = "approved"
  BY <1>1 DEF FactoryRows
<1> QED
  BY <1>4, <1>5, <1>6

\* An item and its request name each other.
LEMMA CataloguePromise ==
  ASSUME CatalogueRows(db)
  PROVE  /\ \A r \in DOMAIN db : db[r].status \in Statuses
         /\ \A c \in Codes : Made(c) => db[db[c].of].status = "approved" /\ db[db[c].of].code = c
         /\ \A q \in ItemRequests : db[q].status = "approved" => Made(db[q].code) /\ db[db[q].code].of = q
         /\ db[Line].item # "none" => Made(db[Line].item)
<1>1. /\ NoRow.status = "none"
      /\ \A q : NewItem(q).status = "active" /\ NewItem(q).of = q
      /\ \A c : Granted(c).status = "approved" /\ Granted(c).code = c
      /\ \A c : Linked(c).status = "typed" /\ Linked(c).item = c
  BY DEF NoRow, NewItem, Granted, Linked
<1>2. {"none", "active", "approved", "typed", "pending", "rejected"} \subseteq Statuses
  BY DEF Statuses
<1>3. \A q \in ItemRequests : db[q].status \in Statuses
  BY <1>1, <1>2 DEF CatalogueRows
<1>4. \A c \in Codes : db[c].status \in Statuses
  BY <1>1, <1>2 DEF CatalogueRows
<1>5. db[Line].status \in Statuses
  BY <1>1, <1>2 DEF CatalogueRows
<1>6. \A r \in DOMAIN db : db[r].status \in Statuses
  BY <1>3, <1>4, <1>5 DEF CatalogueRows
<1>7. \A c \in Codes : Made(c) => db[db[c].of].status = "approved" /\ db[db[c].of].code = c
  <2> SUFFICES ASSUME NEW c \in Codes, Made(c)
               PROVE  db[db[c].of].status = "approved" /\ db[db[c].of].code = c
    OBVIOUS
  <2>1. PICK q \in ItemRequests : db[c] = NewItem(q) /\ db[q] = Granted(c)
    BY <1>1 DEF CatalogueRows, Made
  <2> QED
    BY <1>1, <2>1
<1>8. \A q \in ItemRequests : db[q].status = "approved" => Made(db[q].code) /\ db[db[q].code].of = q
  <2> SUFFICES ASSUME NEW q \in ItemRequests, db[q].status = "approved"
               PROVE  Made(db[q].code) /\ db[db[q].code].of = q
    OBVIOUS
  <2>1. PICK c \in Codes : db[q] = Granted(c) /\ db[c] = NewItem(q)
    BY <1>1 DEF CatalogueRows
  <2> QED
    BY <1>1, <2>1 DEF Made
<1>9. db[Line].item # "none" => Made(db[Line].item)
  BY <1>1 DEF CatalogueRows, Made
<1> QED
  BY <1>6, <1>7, <1>8, <1>9

\* A case says what its evaluation says; one active case unless one was reopened.
LEMMA ReviewPromise ==
  ASSUME ReviewRows(db)
  PROVE  /\ \A r \in DOMAIN db : db[r].status \in Statuses
         /\ \A m, n \in Cases : m # n /\ {db[Case(m)].status, db[Case(n)].status} \subseteq ACTIVE
              => db[Case(m)].reopens + db[Case(n)].reopens > 0
         /\ \A n \in Cases : Made(Evaluation(n)) => db[Evaluation(n)].status = db[Case(n)].status
<1>1. CaseStates \cup {"none"} \subseteq Statuses
  BY DEF CaseStates, ACTIVE, Statuses
<1>2. \A n \in Cases : db[Case(n)].status \in Statuses /\ db[Evaluation(n)].status \in Statuses
  BY <1>1, CaseCols DEF ReviewRows, File
<1>3. \A n \in Cases : Made(Evaluation(n)) => db[Evaluation(n)].status = db[Case(n)].status
  BY CaseCols DEF ReviewRows, File, Made
<1>4. \A r \in DOMAIN db : db[r].status \in Statuses
  BY <1>2 DEF ReviewRows
<1>5. \A m, n \in Cases : m # n /\ {db[Case(m)].status, db[Case(n)].status} \subseteq ACTIVE
        => db[Case(m)].reopens + db[Case(n)].reopens > 0
  BY DEF ReviewRows
<1> QED
  BY <1>3, <1>4, <1>5

\* A report is in one of its states.
LEMMA ReportPromise ==
  ASSUME ReportRows(db)
  PROVE  \A r \in DOMAIN db : db[r].status \in Statuses
BY DEF ReportRows, NoRow, Statuses

\* One standard, and a dip behind it or the bell rung.
LEMMA WashPromise ==
  ASSUME WashRows(db)
  PROVE  /\ \A r \in DOMAIN db : db[r].status \in Statuses
         /\ \A v, w \in Versions : db[v].status = "approved" /\ db[w].status = "approved" => v = w
         /\ Settled => \A v \in Versions : db[v].status = "approved" =>
              Made(Bell(v)) \/ \E d \in Dips : db[d].status = "approved" /\ db[d].of = v
<1>1. {"none", "draft", "approved", "retired", "critical", "line", "pending", "rejected", "resubmit"} \subseteq Statuses
  BY DEF Statuses
<1>2. \A v \in Versions : db[v].status \in Statuses /\ db[Bell(v)].status \in Statuses
  BY <1>1, WashCols DEF WashRows
<1>3. \A k \in Baths : db[k].status \in Statuses
  BY <1>1, WashCols DEF WashRows
<1>4. \A p \in Dips : db[p].status \in Statuses
  BY <1>1, WashCols DEF WashRows
<1>5. \A r \in DOMAIN db : db[r].status \in Statuses
  BY <1>2, <1>3, <1>4 DEF WashRows
<1>6. \A v, w \in Versions : db[v].status = "approved" /\ db[w].status = "approved" => v = w
  BY DEF WashRows
<1>7. Settled => \A v \in Versions : db[v].status = "approved" =>
        Made(Bell(v)) \/ \E d \in Dips : db[d].status = "approved" /\ db[d].of = v
  BY DEF WashRows, PassedDip, Made
<1> QED
  BY <1>5, <1>6, <1>7

\* The rows of whatever desk is open are as its properties want them.
LEMMA DeskPromise ==
  ASSUME DeskInv
  PROVE  (Settled => GrantsBacked) /\ ReviewsTrue
<1>1. desk = "factory" => FactoryRows(db)
  BY DEF DeskInv, DeskRows
<1>2. desk = "catalogue" => CatalogueRows(db)
  BY DEF DeskInv, DeskRows
<1>3. desk = "probation" => ReviewRows(db)
  BY DEF DeskInv, DeskRows
<1>4. desk = "justification" => ReportRows(db)
  BY DEF DeskInv, DeskRows
<1>5. desk = "wash" => WashRows(db)
  BY DEF DeskInv, DeskRows
<1>6. \A r \in DOMAIN db : db[r].status \in Statuses
  BY <1>1, <1>2, <1>3, <1>4, <1>5, FactoryPromise, CataloguePromise, ReviewPromise, ReportPromise, WashPromise, DeskNames
     DEF DeskInv
<1>7. \A s \in Sessions : mine[s] # NoRows => job[s] # Idle
  BY JobIs, JobIsNotIdle DEF DeskInv, AtWork
<1>8. TypeOK
  BY <1>1, <1>6, <1>7, FactoryPromise DEF TypeOK
<1>9. SignedAtEveryLevel
  BY <1>1, FactoryPromise DEF SignedAtEveryLevel
<1>10. CatalogueTrue
  BY <1>2, CataloguePromise DEF CatalogueTrue
<1>11. OneStandard /\ (Settled => ShadeBacked)
  BY <1>5, WashPromise DEF OneStandard, ShadeBacked
<1>12. OneActive /\ CaseFollows
  BY <1>3, ReviewPromise DEF OneActive, CaseFollows
<1> QED
  BY <1>8, <1>9, <1>10, <1>11, <1>12 DEF GrantsBacked, ReviewsTrue

-----------------------------------------------------------------------------
(* The desks next to the spare parts.                                      *)

FiveDesks == ~AtSpares => DeskInv

\* It holds where the company starts.
LEMMA DesksOpen == DesksInit => FiveDesks
BY DeskOpens DEF DesksInit, FiveDesks

\* A step of the company: of a desk, or one that leaves the five desks alone.
LEMMA DesksKeep ==
  ASSUME DesksSafe, FiveDesks, [DesksNext]_all
  PROVE  /\ FiveDesks'
         /\ \/ AtSpares
            \/ UNCHANGED vars
            \/ ~AtSpares /\ DeskInv /\ DeskStep(desk, db, db') /\ desk' = desk
<1>1. CASE ~AtSpares /\ Next
  <2>1. DeskInv
    BY <1>1 DEF FiveDesks
  <2>2. DeskInv' /\ DeskStep(desk, db, db')
    BY <1>1, <2>1, DeskKeeps
  <2>3. desk' = desk
    BY <1>1 DEF Next, Raise, Start, Work
  <2> QED
    BY <1>1, <2>1, <2>2, <2>3 DEF FiveDesks
<1>2. CASE AtSpares /\ UNCHANGED desk
  BY <1>2 DEF AtSpares, FiveDesks
<1>3. CASE UNCHANGED all
  <2>1. db' = db /\ mine' = mine /\ desk' = desk /\ job' = job
    BY <1>3 DEF all, vars
  <2>2. DeskInv => DeskInv'
    BY <2>1 DEF DeskInv, SessionsTyped
  <2> QED
    BY <2>1, <2>2 DEF FiveDesks, AtSpares, vars
<1> QED
  BY <1>1, <1>2, <1>3 DEF DesksNext

\* It gives the two invariants of the desks.
LEMMA DesksPromise == FiveDesks => (Settled => DesksBacked) /\ ReviewsTrue
<1>1. ~AtSpares /\ DeskInv => (Settled => GrantsBacked) /\ ReviewsTrue
  BY DeskPromise
<1>2. AtSpares => ReviewsTrue
  BY DEF AtSpares, ReviewsTrue, OneActive, CaseFollows
<1> QED
  BY <1>1, <1>2 DEF FiveDesks, DesksBacked

\* However decisions, edits and stops of the process interleave, as long as no two functions
\* of a harmful pair overlap on a document and no dip is put back to pending: a factory
\* approval was signed at every level, an item answers one request, a recipe has one
\* standard with a dip behind it or the critical bell rung (decide, approve_item_request,
\* set_version_status, set_labdip_verdict).
THEOREM DesksAreBacked ==
  ASSUME DesksSafe, "pending" \notin Verdicts
  PROVE  DesksSpec => []DesksBacked
<1>1. FiveDesks /\ [DesksNext]_all => FiveDesks'
  BY DesksKeep
<1>2. FiveDesks => DesksBacked
  BY DesksPromise DEF Settled
<1> QED
  BY <1>1, <1>2, DesksOpen, PTL DEF DesksSpec

\* A probation case says what its evaluation says, and an employee has one active case
\* unless one was reopened, as long as no two functions of a harmful pair overlap
\* (create_case, submit_evaluation, hr_decide, admin_reopen, cancel_case).
THEOREM ReviewsAgree ==
  ASSUME DesksSafe
  PROVE  DesksSpec => []ReviewsTrue
<1>1. FiveDesks /\ [DesksNext]_all => FiveDesks'
  BY DesksKeep
<1>2. FiveDesks => ReviewsTrue
  BY DesksPromise
<1> QED
  BY <1>1, <1>2, DesksOpen, PTL DEF DesksSpec

\* What a step of the company does to what a desk has decided.
LEMMA DecidedStands ==
  ASSUME DesksSafe, FiveDesks, [DesksNext]_all
  PROVE  /\ \A r \in DOMAIN db :
              /\ (desk = "factory" /\ r = Approval) \/ (desk = "catalogue" /\ r \in ItemRequests)
              /\ db[r].status \in {"approved", "rejected", "auto_approved"}
              => UNCHANGED db[r]
         /\ desk = "probation" => ReviewStep(db, db')
         /\ desk = "justification" /\ db[Report].status = "approved" => UNCHANGED db[Report]
         /\ desk = "wash" => WashStep(db, db')
<1>1. \/ AtSpares
      \/ UNCHANGED vars
      \/ DeskStep(desk, db, db')
  BY DesksKeep
<1>2. CASE AtSpares
  BY <1>2 DEF AtSpares
<1>3. CASE UNCHANGED vars
  <2>1. db' = db
    BY <1>3 DEF vars
  <2> QED
    BY <2>1 DEF ReviewStep, WashStep
<1>4. CASE DeskStep(desk, db, db')
  BY <1>4 DEF DeskStep, FactoryStep, CatalogueStep, ReportStep
<1> QED
  BY <1>1, <1>2, <1>3, <1>4

\* An answer, a decision, a submitted sheet, a signed report and the lines of a released
\* recipe stand, as long as no two functions of a harmful pair overlap (decide,
\* reject_item_request, hr_decide, save_evaluation, decide_report, add_line).
THEOREM DesksDecide ==
  ASSUME DesksSafe
  PROVE  DesksSpec => DecisionsStand
<1>1. FiveDesks /\ [DesksNext]_all => FiveDesks'
  BY DesksKeep
<1> DEFINE AnswerKept == \A r \in DOMAIN db :
              /\ (desk = "factory" /\ r = Approval) \/ (desk = "catalogue" /\ r \in ItemRequests)
              /\ db[r].status \in {"approved", "rejected", "auto_approved"}
              => UNCHANGED db[r]
<1>2. FiveDesks /\ [DesksNext]_all => [AnswerKept]_vars
  BY DecidedStands
<1>3. DesksSpec => AnswerStands
  BY <1>1, <1>2, DesksOpen, PTL DEF DesksSpec, AnswerStands
<1> DEFINE Moves == desk = "probation" => \A n \in Cases :
         LET was == db[Case(n)].status
             now == db'[Case(n)].status
         IN  was # now =>
               \/ now \in {"draft", "returned", "cancelled"}
               \/ was \in EDITABLE_BY_EVALUATOR /\ now \in {"pending_manager", "pending_hr_review"}
               \/ was = "pending_manager" /\ now = "pending_hr_review"
               \/ was = "pending_hr_review" /\ now \in {"approved", "rejected"}
<1>4. FiveDesks /\ [DesksNext]_all => [Moves]_vars
  BY DecidedStands DEF ReviewStep
<1>5. DesksSpec => ReviewSteps
  BY <1>1, <1>4, DesksOpen, PTL DEF DesksSpec, ReviewSteps
<1> DEFINE Frozen == desk = "probation" => \A n \in Cases :
         Made(Evaluation(n)) /\ db[Evaluation(n)].status \notin EDITABLE_BY_EVALUATOR
             => db'[Evaluation(n)].sheet = db[Evaluation(n)].sheet
<1>6. FiveDesks /\ [DesksNext]_all => [Frozen]_vars
  BY DecidedStands DEF ReviewStep, Made
<1>7. DesksSpec => SheetFrozen
  BY <1>1, <1>6, DesksOpen, PTL DEF DesksSpec, SheetFrozen
<1>8. FiveDesks /\ [DesksNext]_all
        => [desk = "justification" /\ db[Report].status = "approved" => UNCHANGED db[Report]]_vars
  BY DecidedStands
<1>9. DesksSpec => ReportStands
  BY <1>1, <1>8, DesksOpen, PTL DEF DesksSpec, ReportStands
<1> DEFINE LinesKept == desk = "wash" => \A v \in Versions : db[v].status \in {"approved", "retired"} =>
         {k \in Baths : db'[k].status # "none" /\ db'[k].on = v}
           = {k \in Baths : Made(k) /\ db[k].on = v}
<1>10. FiveDesks /\ [DesksNext]_all => [LinesKept]_vars
  BY DecidedStands DEF WashStep, Lines, Made
<1>11. DesksSpec => SnapshotKept
  BY <1>1, <1>10, DesksOpen, PTL DEF DesksSpec, SnapshotKept
<1> QED
  BY <1>3, <1>5, <1>7, <1>9, <1>11 DEF DecisionsStand

=============================================================================
