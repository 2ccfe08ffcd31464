# TC Platform: a TLA+ verification project

TC Platform is a Flask application (Python, `src/app/`) that runs a garment
factory's back office. It keeps its state in SQLite on a laptop and in
PostgreSQL in production (READ COMMITTED, one process with eight threads). The
part of it that carries the most rules is procurement: a purchase request
climbs a ladder of signatures whose rungs depend on its value, on controls, and
on who is in the building, while its price, its quantities and its paperwork
keep moving; then goods, invoices and money move against the order it became.
Around it stand a dozen desks (spare parts, raw-material store, floor, shipping,
reviews, recipes) that all work the same way: several people at once on rows
that no function locks.

The project asks three kinds of question of this code:

1. *Rules.* One function at a time, in any order: does every sequence of calls
   keep what the component promises? (`ProcRequest`, `ProcOrder`, `MaintDesk`)
2. *Races.* The same functions statement by statement, two people at once: which
   pairs may overlap without harm? (`ProcSessions`, `WarehouseSessions`,
   `SpareSessions`, `FloorSessions`, `DeskSessions`)
3. *Faults.* A process that stops between two commits, a server that refuses, a
   call that fails: does everything end, and does nothing get lost? (`DbPool`,
   `SpareBridge`, `FloorSessions`, `DeskSessions`)

## Inventory

| Component | Source | State | Operations | What makes it correct |
|---|---|---|---|---|
| Signing ladder tables | `approvals/constants.py` | none (pure tables and functions) | `build_ladder`, `apply_l2_domain`, `single_source_stage`, `unbudgeted_stage`, `deviation_grade`, `quotes_required` | every value asks for the stages of the authority matrix, every control for one more |
| Authority and escalation | `approvals/services.py` 229-564 | `users`, `proc_delegations`, `proc_stage_meta`, `proc_escalations` | `role_holders`, `can_act`, `resolve_escalation` | a rung is signed by somebody who holds its level; nobody signs for himself |
| Purchase request | `approvals/services.py` | `pr_requests`, `pr_steps`, `pr_quotes`, documents | create, update, submit, price, exchange rate, waiver, quotations, warehouse correction, shelf issue and reversal, sign, reject, send back, hold, cancel | the request is never stuck, and an approval carries every signature and paper its final state asks for |
| Orders, receiving, invoices, payments | `approvals/services.py` 2873-4970 | `pr_items`, `pr_purchase_orders`, `pr_invoices`, `pr_payments` | issue PO, receive, quarantine, return, invoice, three-way match, advance, pay, close, cancel | never pay more than was received and invoiced; quantities add up |
| Database session and pool | `app/db.py` | pool, one shared connection per request | draw, probe, execute, commit, roll back, return | a connection is used by one request at a time; every request ends |
| Warehouse | `warehouse/services.py` | `wh_rolls`, `wh_materials`, `wh_allocations`, movements | reserve, pick, issue, release, receive, return, stock-take, hold | reserved metres are the open allocations, and lie on the shelf |
| Maintenance and spare stock | `maintenance/services.py`, `routes/maintenance.py` | `mnt_tickets`, `mnt_requests`, `mnt_approvals`, `mnt_spare_parts` | ticket from report to close, the board, spare requests, signatures, issue, receive, stock-take | a part is promised once, handed over once, and never stays promised to a closed ticket |
| Maintenance to procurement bridge | `maintenance/procure_bridge.py` | links between the two, an in-memory throttle | `auto_reorder_check`, `post_receipt_to_stock`, shelf issue and reversal | one open order per part, every low part gets one |
| Factory approvals | `smartfactory/approvals.py` | `sf_approvals`, `sf_approval_steps` | submit, decide | every level its cost asks for has signed; an answer stands |
| Item requests | `approvals/item_requests.py` | `proc_item_requests`, `proc_items` | request, approve with a code, reject, link | one code per accepted request |
| Probation reviews | `probation/services.py` | `prob_cases`, `prob_evaluations` | open, save, submit, forward, decide, reopen, cancel | one active case per employee; case and evaluation agree; decisions stand |
| Engineering justification | `maintenance/eng_justification.py` | `mnt_eng_justifications` | create, submit, decide | a signed report stays as signed |
| Wash recipes | `wash/services.py` | `wsh_versions`, `wsh_steps`, `wsh_labdips` | add a step, approve, retire, lab-dip verdict | one bulk standard, frozen, backed by an approved dip or by an alarm |
| Production floor | `mes/services.py` | `mes_bundles`, `mes_bundle_moves` | create, scan, scrap, restore | no piece is invented; a scrapped bundle stays scrapped |
| Shipping and finished goods | `shipping/services.py`, `shipping/constants.py`, `warehouse/services.py` | `shp_shipments`, `shp_cartons`, `wh_fg` | create, pack list, status, depart, post | what left stays as it left; the store hears of it once |
| Accounts, planning, trace, costing, people, intelligence, SSO, routes, ... | `app/*` | rows written whole, read-only figures, external services | see `PROJECT.json` | not the subject of a state model, or left out for a stated reason |

**How they meet.** A route checks a permission and calls one service function; a
service function opens the request's connection, reads, decides in Python,
writes, commits, and then notifies. Components share tables, not calls: the
ladder reads the staff tables, the budget table, the stock and item masters at
the moment it is built, and each of these moves on its own. Three places do call
across: the bridge (procurement raises, receives and issues spare parts), a
departure (shipping takes goods out of the finished-goods store), and an
engineering report (named by a purchase request).

**What is hard.** (1) The ladder is edited in place while it is being signed,
by six functions that each know a part of it. (2) What a gate read at one
signature may have moved before the next. (3) Roles are lent, escalated and
reassigned while a request circulates. (4) Functions read a row and later write
it by id, without a lock and without a condition, so two requests may
interleave; some counters are written as totals computed from an earlier read.
(5) `db.execute` rolls the whole transaction back on an error that callers
swallow. (6) Work is cut into several commits (a case and its evaluation, a
departure and its posting, an order and its link), and a process may stop
between them. (7) The pool is thrown away while others hold its connections.
`PROJECT.json` lists these hazards at their lines, with the properties that
cover them and a note on what stays open.

## Modules

| Module | Models |
|---|---|
| `ProcLadder` | `constants.py`: the stages, their levels, the OPEX and CAPEX matrices, `build_ladder`, the L2 domain rule, the stage each control adds, the deviation grades, the sourcing bands |
| `ProcAuthority` | who may sign a rung (roles, levels, delegations) and `resolve_escalation`, the climb that finds another signer when the only one raised the request, already signed, or is the only signer of another rung |
| `ProcRequest` | one purchase request from draft to a decision: one action per service function |
| `ProcOrder` | the approved request until it is closed: purchase orders, receipts, quarantine, returns, invoices, the three-way match, advances, payments |
| `ReadCommitted` | the database as several requests see it: committed rows, each session's uncommitted writes, row locks |
| `ProcSessions` | ten functions of the request and its order, statement by statement, on `ReadCommitted` |
| `DbPool` | how a request draws, probes, replaces and returns its connection, with a server that refuses, connections that die and addresses that are reused |
| `WarehouseStock` | what the raw-material store promises: quantities, claims on them, holds; every operation at once |
| `WarehouseSessions` | the same operations statement by statement; implements `WarehouseStock` |
| `SpareShelf` | the spare-part rows `MaintDesk` and `SpareBridge` both work on |
| `SpareStock` | what the spare store promises: a part is promised to one request and handed over once |
| `MaintDesk` | tickets, requests, signatures, counters and the board, one call at a time; implements `SpareStock` |
| `SpareSessions` | the functions around one part and one ticket, statement by statement |
| `SpareBridge` | the reorder loop between the spare store and procurement, with stops and failed calls |
| `FloorSessions` | bundles, shipments and the finished goods a departure takes, statement by statement, with a process that may stop |
| `DeskSessions` | five desks that decide on a document: factory approvals, item requests, probation, justification reports, wash recipes |
| `CompanyDesks` | `DeskSessions` and `SpareSessions` next to each other on one database |
| `MCProcRequest`, `MCProcOrder`, `MCProcSessions`, `MCWarehouse`, `MCMaintDesk`, `MCSpareBridge`, `MCFloorSessions`, `MCCompanyDesks` | instances: rosters, amounts, rows, and which functions may overlap |
| `ProcRequestProofs` | `ProcRequest`: the ladder and its signers; value, budget, competition and deviations |
| `SumProofs` | sums over finite sets: what changing one term, adding one and splitting a set does |
| `ProcOrderProofs` | `ProcOrder`: quantities, payments and verdicts |
| `MaintDeskProofs` | `MaintDesk`, and that it implements `SpareStock`; `SpareBridge` |
| `CompanyDesksProofs` | the six desks of `CompanyDesks`, for any number of sessions; `DbPool` |
| `FloorProofs` | `FloorSessions`, for any number of sessions |
| `ProcSessionsProofs` | `ProcSessions`, for any number of sessions |
| `WarehouseProofs` | `WarehouseSessions`, for any number of sessions, and that it implements `WarehouseStock` |

### `ProcRequest`

`pr` is the `pr_requests` row, `steps` the `pr_steps` rows, at most one per
stage (every insertion in the code is guarded by the stage not being on the
ladder). `env` is what the functions read and do not own: the committed value of
related requests, the budget headroom, the masters' verdict on the lines
(how far the price is above target, how the quantity sits against plan and
ceiling), and the staff tables. The action `World` lets all of it change at any
moment; `PricePr` chooses the price grade, because prices are what it writes.

A rung's `seq` is its rank in the code's stage order instead of 1, 2, 3..., and
a rung appended later gets one above every other, as `MAX(seq) + 1` does. Only
the order of seqs is ever read.

| Action | Function |
|---|---|
| `Init` / `NewPr` | `create_pr` |
| `UpdatePr`, `SubmitPr` | `update_pr`, `submit_pr` (with the escalated rungs and the absorption of a rung whose escalation landed on the one below) |
| `PricePr`, `SetFx`, `SetSingleSource` | `price_pr`, `set_fx`, `set_single_source`, each with the reconciliations it runs at its end |
| `AddQuote`, `ChooseQuote`, `DeleteQuote`, `SetDoamDocument`, `AttachEjr` | the functions of these names |
| `WarehouseRevise`, `IssueFromStock`, `ReverseStockIssue` | the functions of these names |
| `Approve`, `RefusedForDocument`, `Reject` | `act_on_step`; the second is the refusal that comes after `apply_deviation_stages` already committed new rungs |
| `SendBack`, `HoldRequest`, `ResumeRequest`, `CancelPr` | `send_back`, `hold_request`, `resume_request`, `cancel_pr` |

Each service call is one atomic action. Refusals that change nothing are not
actions. No instance has an administrator account, for whom several checks are
skipped; `IndependentSigners` is proved for every roster, administrators
included.

### `ProcOrder`

`ProcOrder` begins where `ProcRequest` ends, with an approved request: `order`
is the rest of the `pr_requests` row, `recv` the received quantity of each line,
`held` the quarantine rows, `notes` the returns with their debit notes, `bills`
the invoices, `paidOn` the payments by purchase order. `came` is a history
variable, what each supplier brought. A purchase order is named by its supplier,
because `po_groups` writes one per supplier; `Split` says that a payment has to
name one. Budgets read by `issue_po` are an input of the action. The approved
vendor list is a constant: it is looked up afresh in each call.

| Action | Function |
|---|---|
| `IssuePo`, `MarkInTransit`, `ClosePr`, `CancelPr` | the functions of these names |
| `Receive` | `receive_items` with `_record_grn` and `_record_return` |
| `ResolveQuarantine`, `AddAccepted` | the two transactions of `resolve_quarantine` |
| `SettleReturn`, `AddInvoice`, `AuthorizeAdvance`, `AddPayment` | the functions of these names; `AddInvoice` and `AddPayment` judge the match, as the code does |
| `RefreshMatch` | `three_way_match` called by the detail page, or by a payment that is then refused |

The caps of `add_payment` are operators of their own (`Caps`, `ReceivedCap`,
`OrderCaps`, `AdvanceAuthorised`), because the properties are about how they add
up. Money is integer, in EGP, without tax; comparisons with percentages are
scaled instead of rounded. Sums over lines, quarantine rows and returns are
`SumFunctionOnSet` of the community modules, which the lemmas of `SumProofs` are
about.

### The modules of interleaved sessions

`ReadCommitted` holds what PostgreSQL does for a session under READ COMMITTED: a
SELECT sees the last committed row or the session's own write (`Seen`), an
UPDATE locks its row until the transaction ends and works on the row's latest
value (`Write`), a session that waits for a lock too long gets an error and its
request ends with a rollback (`LockTimeout`, from `lock_timeout` in
`_pg_session_guards`). `db` are the committed rows, `mine[s]` what session s has
written and not committed.

A module that extends it adds `job[s]`: the function a session performs, the
statement it is at, and what the function has read so far. SELECTs that follow
each other are one step, and so are statements that only touch rows the session
already locked: no other session can tell them apart. History variables
(`posted`, `ledger`, `moves`, `books`) sum the append-only rows the functions
insert (payments, movements, vouchers, scans), so that a property can compare a
column with the documents behind it.

The code has no guard that keeps two functions from overlapping, and for some
pairs the result is wrong. `Together` is the set of pairs an instance lets
overlap on one document; pairs outside it wait for each other. The instances
allow every pair that was found harmless, one by one, and the pairs left out are
listed under *Overlaps that do harm*. What a run shows is therefore: any two
people may do these things at the same time.

| Module | `job` performs | Rows |
|---|---|---|
| `ProcSessions` | submit, price, sign, reject, back, issue, receive, pay, close, cancel and their parts (`submit_pr`, `price_pr` with `_reconcile_value_ladder`, `act_on_step`, `send_back`, `issue_po`, `receive_items`, `add_payment`, `close_pr`, `cancel_pr`) | one request, one line, its steps |
| `WarehouseSessions` | `reserve_for_order`, `issue_to_order`, `issue_reserved`, `release_allocation`, `receive_roll`, `receive_qty`, `return_to_store`, `adjust_stock`, `set_roll_hold`; `_try_reserve`, `_claim`, `_release`, `_move_stock` are sequences of statements | two rolls of two shade lots, their header, a trim |
| `SpareSessions` | approve, refuse, issue, test, close, adjust, receive, counter issue | one part, one ticket, one machine, two requests |
| `FloorSessions` | scan, scrap, restore; depart, mark, void, follow, edit, reprice, add and drop a carton; the posting of a departure | one bundle, one shipment, two cartons, the store |
| `DeskSessions` | a function leaves a list of statements (`todo`) which the session executes one by one | one document at each of five desks |

A behaviour of `DeskSessions` is about one desk, chosen at the start (`desk`):
the desks share no table, so nothing is lost, and the number of states is the
sum of the five and not their product. `CompanyDesks` adds the spare-parts desk
in the same way.

### `MaintDesk` and `SpareStock`

`MaintDesk` has the functions of the maintenance desk as one action each. They
force the status of a ticket without looking at it, `close_ticket` excepted; a
card dragged on the board (`MoveCard`) goes through the transition table.
`SpareStock` knows only parts on the shelf and promises of them. `KeepsThePromise`
maps an approved request to an open promise and an issued one to a promise
handed over. `Pieces` sums what a set of requests asks for, so that
`ReservedTrue` can say what the column `reserved_qty` has to be.

### `SpareBridge`

`auto_reorder_check` is cut where it commits: the sweep reads which parts are
low, `CheckPart` decides on one, `CreatePr`, `SubmitPr` and `TagPr` are the three
commits that raise its order. `Restart` stops the process anywhere and empties
its throttle, `RaiseFails` is a failed call. Signatures and deliveries are
external here: `PlaceOrder`, `DropOrder` and `ReceiveItems` move an order at any
time.

### `DbPool`

`get_db` and the teardown, cut where another thread may run: making the pool,
drawing a connection, finding it dead, probing it, connecting outside the pool,
trying the candidate hosts, returning it. `Addresses` are values of `id(raw)`;
the health stamp `_PG_LAST_OK` is kept by address, so a new connection at a freed
address inherits it. `MaxResets` bounds how often the pool is thrown away.

### `WarehouseSessions` and `WarehouseStock`

`WarehouseStock` has one action per operation: claim, issue, release, receive,
return, adjust, hold. The refinement mapping is the committed rows themselves:
`onHand` the stock columns, `claims` the allocation rows, `held` the rolls in
quarantine. A commit is the abstract step, every other statement stutters.

## Runs

All bounds are constants of the cfg. Amounts are chosen on both sides of the
thresholds of the matrix and of the sourcing bands; a value between two
thresholds behaves like its neighbours, because every definition only compares
it with the tables. Two sessions are enough for every race between two people; a
third would matter only for a row three people write, and the one such case met
is listed below (restoring a scrapped bundle).

| Run | Bounds | Shows |
|---|---|---|
| `ProcRequestMoney` | three amounts (0; 20,000: two directors; 600,000: and the cfo), with and without budget, waiver, one quotation, send-back | `LadderSplit` (never stuck between rungs), `ApprovedCovered` (an approval carries the whole ladder of its final value), `UnbudgetedSigned` (and an L1 signature when unbudgeted), `WithdrawnFromTheTop` |
| `ProcRequestPapers` | two amounts, up to three quotations, price 15 percent above target or not, quantity over the ceiling or not, memo and business case, send-back | `TypeOK`, `QuotesOnFile`, `DeviationAnswered` (the signature that completes the request answers the deviation as it stands then) |
| `ProcRequestStore` | OPEX and CAPEX, three amounts; the factory manager absent or the director's role lent, at any time; every operation except quotations and papers | `FourEyes`, `ApprovedCovered` |
| `ProcOrderReceipts` | one line of 20 worth 600,000, so that a guarantee is needed; deliveries of 20 and 21, rejections of 5, so exact, short, over by 5 percent and by more; two quarantine rows, two returns; an advance of 20 or 50 percent, instalments of 150,000; overrides | `GoodsAccounted` (nothing lost or counted twice), `CancelledEmpty`, `AdvanceBounded` (an action property: each payment ahead of the invoices is within the authority of its moment) |
| `ProcOrderSplit` | a cheap and a dear line from two suppliers, half and full deliveries and rejections, two invoices, two payment amounts, the order issued or not | `PaidForReceived`, `SplitPaid` (no supplier is paid with another's goods), `MatchStays` |
| `ProcRace` | two people; unit prices 1 and 2 (price 2 asks for one more stage), a line of 2, six step rows | `LadderSound`, `BooksTrue`, `StatusSteps`, `Finishes`, for 36 of the 55 pairs of functions |
| `DbPool` | two threads, three addresses, two slots, the pool thrown away once; the server refuses and accepts again, kills connections, and freed addresses are reused | `OneHolder`, `Answered` |
| `WarehouseRace` | two people; two rolls of 2 and 1 metres of two shade lots, a trim, two allocation rows; quantities 1 and 3, so that a pick needs one roll or both | `RowsTrue`, `Backed`, `KeepsThePromise` (refinement), `Finishes` |
| `MaintDesk` | one ticket, one machine, two requests of 1 or 2 pieces on a part with 2; from 2 pieces the second level signs | `ReservedTrue`, `TicketsTrue`, `KeepsThePromise` (refinement) |
| `SpareBridge` | one process, two parts, two orders, one line at the warehouse rung; one stop or failure at any point | `BridgeTrue`, `PromiseSteps`, `LowIsOrdered` |
| `FloorRace` | two people; one bundle of two pieces in three sections and at most three scans, one shipment with up to two cartons, two prices; the process may stop | `BundlesTrue`, `StoreTrue`, `NothingUndone`, `Settles` |
| `DeskRace` | two people at one of six desks: two levels, two requests and two codes, two cases and one reopening, three engineers, two versions with two lines and two dips, one part with two requests; any of them may stop | `DesksBacked`, `ReviewsTrue`, `SparesTrue`, `DecisionsStand`, `Answers` |

A property with several parts is a conjunction of definitions that are named and
explained in the module; TLC checks all of them. The mutants in `PROJECT.json`
break each property with a change a programmer could have made.

Bounds that only keep the state space finite: `MaxHeld`, `MaxNotes`, `MaxBills`,
`MaxPaid` (rows and money of one order), `MaxStock`, `MaxPacked` (pieces),
`MaxScans`, `MaxRows` (scans; bundles and shipments), `MaxCases`, `MaxReopens`,
`MaxDips` (cases of an employee, reopenings, dips of a version), `MaxFaults`,
`MaxResets` (stops and failures; pools thrown away). `Verdicts` leaves out
"pending", see *Other disagreements*. `Acts` lists the side operations of an
instance of `ProcRequest`; each action names the one it belongs to.

The prices of `ProcOrderSplit` are chosen so that the dear line exceeds the match
tolerance and the cheap one lies below it: that is where the caps disagree.
`PaidForReceived` and `SplitPaid` are checked without accepted over-deliveries,
for a reason given below.

Deadlock is checked in `ProcRequest*`, `ProcOrder*` and `DbPool`. It is not
checked where the system may really stop: when nobody wants anything any more,
or when a bound is reached. There `Finishes` and `Answers` say what matters: no
request waits for ever.

### Fairness

Weak fairness is assumed of the steps a thread takes by itself: the statements
of a function it has begun (`Work`), drawing and returning a connection (`Open`,
`Close`), the reorder loop (`CheckNext`, `Tick`). A thread of the server runs
until its handler returns, and no handler loops. `Sweep` is strongly fair: it is
triggered by page loads, which go on, and the throttle that disables it expires.
No fairness is assumed of people: nothing makes anybody sign, deliver or ask, nor
of faults, which need not happen.

### Refinement

`WarehouseSessions` implements `WarehouseStock` and `MaintDesk` implements
`SpareStock` (`KeepsThePromise`, a `PROPERTY` of their runs). The abstract
modules have no sessions, locks or counters: a claim or a promise is backed by
material nobody else has, and ends once. That the code's statements and counters
amount to that is what the runs check.

## Overlaps that do harm

Found by letting the pair overlap; in brackets a property (or its part) that
then fails. `f, f` is a function beside itself, for two people on one document.

* **Request and order** (19 of 55): submit, submit (`OneSignatureEach`); submit,
  price; sign, price; sign, reject; sign, send back (`FullySigned`); submit,
  cancel; sign, sign; sign, cancel; reject, cancel; issue, cancel; receive,
  close; receive, cancel; close, cancel (`StatusSteps`); issue, issue; receive,
  receive; pay, pay (`TotalsTrue`, and `PaidForReceived` for payments); issue,
  receive (`StatusTrue`); send back, send back (`FullySigned`); submit, send back
  (`NeverStuck`). The last two need a ladder of three rungs, so the two prices of
  `ProcRace` do not show them; they were found with three prices. The one to come
  second writes a `current_seq` chosen on a ladder that has since moved: two
  people send back to rungs 1 and 2, the request stands at 2 and rung 1 is never
  asked again; or it is sent back to a rung that a rejection, a lower price and a
  new submission have meanwhile taken off. With the pairs above excluded, the
  eight functions up to `issue_po` keep `LadderSound` with three prices and ten
  step rows, too (8,847,461 states, five minutes: too long to keep as a run).
* **Warehouse**: a pick beside a pick (`Backed`: `_try_reserve` compares the
  counter before and after its own UPDATE, which tells nothing when another
  transaction commits in between); a return beside an issue (`HeaderIsSum`,
  `LedgerTrue`: `_move_stock` writes totals computed from an earlier SELECT). The
  run lets overlap what the guards cover: reservations with issues, releases and
  holds, issues and releases with each other.
* **Spare parts** (15 of 36): approve, approve (`NotForgotten`); approve, refuse
  (`ReservedTrue`); approve, close (`ClosedHoldsNothing`); issue, close
  (`HandedOnce`); close, close (`CountedOnce`); any two of issue, adjust,
  receive, counter issue (`LedgerTrue`).
* **Floor and shipping**: scan with scan, scrap or restore; departure with
  departure, another status, void, edit, re-pricing, adding or dropping a carton,
  and with a posting still under way; void with a follow-up status or an edit
  (`NoPhantoms`, `ScrapStands`, `ListFrozen`, `PriceFrozen`, `DepartureKept`,
  `VoidStays`, `PostedOnce`, `StoreCovers`). An edit is harmful because the form
  repeats the status it was loaded with. Two shipments departing at once oversell
  the store.
* **Factory approvals**: sign, sign (a level is skipped); sign, refuse.
* **Item requests**: approve, approve (two codes for one request); approve, reject.
* **Probation**: open, open (`OneActive`); open, cancel (`CaseFollows`); save
  beside submit or cancel (`SheetFrozen`); any two of submit, forward, return,
  reject, approve, reopen, cancel (`ReviewSteps`, `CaseFollows`), except reopen
  and cancel with themselves and each other.
* **Justification reports**: send, send; endorse, endorse; endorse, decline
  (`ReportStands`).
* **Wash recipes**: a step added beside an approval or a withdrawal
  (`SnapshotKept`); approve, approve (`OneStandard`); approve beside a verdict
  that revokes a dip, and two such verdicts (`ShadeBacked`).

## Other disagreements between the code and its comments

Met while modelling; the models behave as the code does, and the properties are
stated so that they hold of it. Lines are of `approvals/services.py` where no
file is named.

* `warehouse_revise` (7108) on a priced, unbudgeted request takes the unbudgeted
  and waiver rungs off and does not put them back; 2059 says every caller does.
* A request that passes 10,000,000 after the Board signed needs no business case
  (2760; 2753-2758).
* On a site without a storekeeper the warehouse manager signs the store rung and
  nobody is left for his own (`constants.py` 394, 390).
* A receipt after an over-delivery was accepted lowers the received quantity
  (3601; 3477-3480).
* On a split requisition one supplier is paid on another's invoice (4734; 4650),
  and an override lets an advance go to an unlisted supplier (4623; 4682-4684).
* A short dear line is hidden from the cap on received value by one unit too many
  of a cheap one, accepted within tolerance (3799).
* Two payments at once both pass the caps (4752; 4643-4646).
* An authorised advance on a split requisition is refused by the cap on the
  supplier's own order (4737; 4706-4708); the guarantee of a large advance is
  erased by authorising a smaller one (4591); one supplier's invoice number
  blocks the same number of another (3731); goods received on an approved
  request leave an order that can be paid but never issued (3572).
* A waiver is signed at the level of the value tier when a director's rung was
  appended after the cfo's (`constants.py` 692), and twice when a re-price finds
  its rung already reached (5844).
* `create_pr` (1440-1462) goes on after a swallowed error, which rolled the
  request's row back (`db.py` 279). A stop between `create_pr` and `submit_pr` leaves a draft
  that counts as an open order of the part.
* A connection at a reused address inherits a health stamp and is used without
  its session guards (`db.py` 423; 363-368). One refused session closes every
  connection of the pool, those in use included (`db.py` 514-521).
* Warehouse: a pick is not confirmed by what its comment says (`warehouse/services.py` 214; 200-204).
* Maintenance: when level 1 refuses and level 2 then approves, the request is
  approved (`maintenance/services.py` 457-494; comment 495). A card dragged to
  rejected, cancelled or closed keeps its reservations (`routes/maintenance.py`
  615-650; `maintenance/services.py` 705-707). Costs of parts issued after the
  first close never reach the machine; a later approval opens a closed ticket
  again; a request that was short never resumes.
* Bridge: two processes that sweep at once raise two orders (`procure_bridge.py`
  7, 101, 146). An order counts as received before its goods are on the shelf, so
  a sweep in between may order again, and a stop in between loses the posting.
  After two issues from different codes a reversal returns everything to the last.
* Floor: a bundle cut at "dispatch" says "created" although its pieces stand at
  the end; a scrap undone while a third person scans revives pieces.
* Factory approvals: two decisions at once skip a level (`smartfactory/approvals.py` 121).
* Probation: a stop between the two commits of `create_case` leaves a case
  without an evaluation, which the next call returns and never completes
  (`probation/services.py` 302, 305); `admin_reopen` makes a second active case
  (comment 281).
* Wash: a verdict set back to "pending" on a live standard leaves it without an
  approved dip and rings no bell (`wash/services.py` 583; 587-594).

## Proofs

Every theorem holds for every value of the constants that satisfies the
assumptions of its module. These are typing assumptions and the finiteness of
the sets of rows; none limits what people, suppliers or the server do. The
argument is always an inductive invariant, checked by TLC on the module's run
before it was proved.

**`ProcRequestProofs`** (`AuthorityAssumption`, `RequestAssumption`; any roster,
roles, escalation chains, amounts and budgets): `TypeCorrect`, `NeverStuck`
(`LadderSplit`), `IndependentSigners` (`FourEyes`).
`LadderSplit` is not inductive: two rungs with one seq would leave a rung behind
when the other is signed, and a request closed by a shelf issue may be reopened
by its reversal. The inductive invariant `IInv` adds that seqs are distinct
(`DistinctSeqs`), that a closed request is signed below and skipped above
(`ClosedSplit`), and that independence holds in every state, not only in the
ones `FourEyes` speaks of. The rebuilding actions go through one notion:
`Rebuilt(S, T, n)` says that ladder T is ladder S with rungs ahead of n taken off
or put on. Each reconciliation function is shown to rebuild, rebuilding is
transitive, and it preserves the invariant (`RebuiltKeeps`).
The module goes on from `IInv` with the controls: `ValueSigned` (`ApprovedCovered`),
`CompetitionOnFile` (`QuotesOnFile`), `UnbudgetedAtL1` (`UnbudgetedSigned`),
`DeviationsAnswered` and `WithdrawnInOrder` (action properties). The invariant
`CInv` says of a circulating request what its approval will need: a stage its
value, kind and domain ask for is on the ladder, or was absorbed into a rung
escalated to the same role at most as high; a signature of Purchasing means a
price. For a request in which a signed rung was escalated (`Absorbing`) the
properties say nothing. `UnbudgetedAtL1` has the hypothesis `[][NoRevision]_vars`: after
`warehouse_revise` has taken the unbudgeted rung off, which it does without
reading the budget again, the property would depend on the masters. The run
`ProcRequestMoney` has no warehouse either; see *Other disagreements*.

**`SumProofs`**: adding, dropping or changing one term of `SumFunctionOnSet`, sums
over disjoint unions, sums compared term by term. The library's induction theorems
take the induction hypothesis as an operator, which the provers cannot instantiate;
`SubsetInduction` takes it as a set of subsets instead, and is proved from the
induction on natural numbers in the same form.

**`ProcOrderProofs`** (`OrderAssumption`; any lines, suppliers, prices and
quantities): `TypeCorrect`; `EveryUnitOnce` (`GoodsAccounted`), line by line with
the sums over quarantine rows and returns; `NeverErased` (`CancelledEmpty`),
because every way a delivery can be booked leaves the statuses from which a
request may be cancelled; `AdvancesWithinAuthority` (`AdvanceBounded`);
`NeverAheadOfGoods` (`PaidForReceived`), `NoOnePaidForAnother` (`SplitPaid`) and
`MatchedStaysMatched` (`MatchStays`). The last three assume `[]NoneAccepted`, that
no over-delivery is accepted into the order: a receipt after it lowers the received
quantity (3601), and then each is false. Their invariants add that no line stands
above its order (`WithinOrder`), so that received value only grows and a debit
note only lowers what may be paid until it is settled.

**`MaintDeskProofs`** (`DeskAssumption`): `RowsInOrder`, `CounterTrue`
(`ReservedTrue`), `TicketsAgree` (`TicketsTrue`) and `PromisesHold`
(`KeepsThePromise`: every action of the desk is one step of `SpareStock` under the
mapping, or a stutter). The strengthenings say that a request stands on a ticket
that was raised (`Linked`), that what was approved has no signature outstanding
(`Settled`), and that a machine was charged for each closed ticket once, with
what it cost by then (`ChargedOnce`). `Sound(t)` is what the property says of one
ticket, so that a step on another leaves it alone.

The same module has the bridge: `OrdersOnce` (`BridgeTrue`) and `PromisesSpared`
(the action property `PromiseSteps`) for any parts, orders, lines, levels, stops and
failed calls. Their hypothesis `Alone` says that one process sweeps and that a line is
met from one code; without either the property is false, see the two disagreements about
the bridge above. `BInv` says where the sweeping process stands between its three
commits and which order row is its own (`OneEach`), and what the lines of the orders
say was moved (`LinesTyped`). The pieces handed over are a sum over lines, so a
posting or a reversal changes one term of it.

**`CompanyDesksProofs`** (`SparesAssumption`; any number of sessions and signatures,
any quantities): `SparesAgree` (`SparesTrue`), under the hypothesis `SparesSafe` that no
pair of `Harmful` of `SpareSessions` overlaps. `SpareInv` says that a session's own rows
are what its job makes of the rows as committed now (`SpareWritten`, on the rows it has
come to, `SpareTouched`), and what each function has read and nobody may have changed
since (`SpareFacts`): a signature that found no other outstanding is still the last one,
an issue that found the pieces on the shelf still finds them, a closing ticket holds
the requests that are approved. `FactsStand` shows this for every pair that may
overlap; so a commit is the function executed at once (`CommitIs`, `CommitGood`).
`SpareGood` adds to the property that nobody is asked to sign a request that was
granted. It is assumed that the approval matrix asks somebody (`Rungs # {}`):
every rule of the matrix begins with the maintenance manager (`maintenance/schema.py`
467, 473), and no function writes one.

The same module has the five desks of `DeskSessions` (`DeskAssumption`; any number of
sessions, levels, requests, cases, reports, versions and dips): `DesksAreBacked`
(`DesksBacked`), `ReviewsAgree` (`ReviewsTrue`) and `DesksDecide` (the action properties
of `DecisionsStand`), under the hypothesis `DesksSafe` that no pair of `Harmful` of
`DeskSessions` overlaps. `DesksAreBacked` supposes besides that no dip is put back to
pending, as the run does: the code rings no bell for that verdict (*Other
disagreements*). The other two theorems hold for every verdict. A function of these desks leaves
a list of statements, which the session executes one by one, a stop of the process or a
lock timeout possible before each. `DeskInv` says that the rows of the desk are good
(`DeskRows`), that every session is at a point of one of its functions
(`DeskJob`: which statements are left, what it has written, and what the function read
that is still so), that no two sessions have written one row, and that functions
under way on one document may overlap. The points are described desk by desk
(`FactoryJob`, `CatalogueJob`, `ReviewJob`, `ReportJob`, `WashJob`). For each desk a statement
leads to the next point, a commit leaves good rows, and it takes no other session
from its point (`FactoryStays` and its likes: here the pairs of `Harmful` are needed).
`DeskRows` says more than the properties: the levels of a pending approval are signed
below the one it stands at and open above it, an item and its request name each other, in
both directions. And a job says what its function read: a new case, that every active
one had been reopened; a release, that a dip had passed (`Settled`).
`DeskAssumption`
states that the rows of a desk are different rows and that the levels of a ladder are
numbered from 1 (`_ladder`, `smartfactory/approvals.py` 33).

The same module has the pool (`PoolAssumption`): `NoConnectionLost` (`OneHolder`) for any
number of threads, addresses, slots and pools thrown away. `PInv` says what a
thread holds at each program point (`Handed`), that idle and used connections
together stay within `MaxConn` (`Limit`), and that every slot belongs to a
request that knows it holds a connection of the pool (`Slots`), so that one
opened outside it is in no slot. Every action is one of six kinds of step (the hands stay
as they are, a thread takes a connection, lets one go, makes one, makes a pool,
throws the pool away), and the invariant is shown once for each kind.

**`FloorProofs`** (`FloorAssumption`; any number of sessions, bundles, shipments,
packing-list lines, sections and prices): `FloorStands` (`BundlesTrue`),
`StoreAgrees` (`StoreTrue`) and `NothingIsUndone` (the action properties of
`NothingUndone`). Their hypothesis `Safe` says that no pair of `Harmful` overlaps,
which is what the run's `Together` grants; the runs found each pair of `Harmful` to
break a property, so it cannot be weakened. The argument: what a function has read
about its own row stays true until it commits. `Facts` says what that is, function by
function (a scan: the pieces stand where it takes them; a re-pricing: the shipment has
not left; a posting: what is reported and what is to come make up what is owed), and
it holds of what begins (`BeginKeeps`), of what goes on (`GoesOn`, `PostStep`,
`PutKeeps`), and of the others when one commits (`ShipmentFactsStand`,
`BundleFactsStand`, `PostFactsStand`). A session's uncommitted row is what its job
makes of the row as committed now, not as it was when the job began (`OwnRows`).
The ledger of a bundle adds up to the pieces cut in every state (`Standing`), and two
functions that take goods out of the store never overlap (`Apart`), so that a line
found on hand is still on hand when it is shipped.

**`ProcSessionsProofs`** (`RequestAssumption`; any number of sessions, stages,
prices, quantities): `LadderStands` (`LadderSound`), `BooksAgree` (`BooksTrue`) and
`StatusKept` (`StatusSteps`), under the same hypothesis `Safe` about the 19 pairs of
`Harmful`. The argument is another than on the floor, because these functions write
several rows. Each ends with its UPDATE of `pr_requests` and holds that row until
it commits; a signature that leaves its rung open writes only its own step, which
nothing that may overlap with it writes. From there on (`Past`) the request as that
session will leave it is sound (`Late`: `Good` of the committed rows with its own on
top). Before, `Early` says function by function what a session has read and what its
statements so far amount to, and that it stays true whatever the functions beside it
commit: a submission holds a ladder that covers the price it read; what a sender-back
reopened is still every rung from the one he chose; a receipt writes the quantity that
comes next. `Good` adds to the properties what a circulating request keeps: the
stages of its price are on the ladder, somebody at the current rung is asked, and who
stands below has signed (`Circulates`). Ids are an injection into the rows nobody has
touched (`Unused`), so that no two rungs are written into one row. Since prices are
any set, the theorems cover the ladders of three and more rungs, which the run, with
two prices, does not reach.

**`WarehouseProofs`** (`StoreAssumption`; any number of sessions, rolls, trims, orders,
allocation rows and quantities): `StoreRowsTrue` (`RowsTrue`), `StoreBacked` (`Backed`)
and `StoreKeepsThePromise` (`KeepsThePromise`), under the hypothesis `Safe` that only
the pairs of `Guarded` overlap. The counters are correct only between statements of the
same function, so the invariant looks at the store through the eyes of each session: in
its `View` (the committed rows with its own on top) a counter is the open allocations
plus what the session has counted and not yet written down, or the other way round
(`OnRow`, `OnHeader`, `OffHeader`), and the same view with nobody's rows is the
committed store. Two sessions never hold the same row, so when one commits the sums in
the view of another change by exactly what was committed (`Mixed`). What a session
has read is said function by function (`PlaceFacts`, `CloseFacts`, `MoveFacts`,
`HoldFacts`): the counter `_try_reserve` compares with has only gone down since, an
allocation about to be closed still says what it said. The refinement follows step by
step: a commit of a reservation is one `Claim`, of an issue one `Issue`, and so on for
each operation, every other statement a stutter.

**Only model-checked.** Liveness (`Finishes`, `Answers`, `Answered`,
`LowIsOrdered`, `Settles`), because the prover does not treat fairness and
ENABLED. Every invariant and action property the runs check is a theorem.

## What is not modelled

* In the modelled part: departmental responsibility matrices and administrator
  overrides of thresholds (left at their defaults), dates of delegations and
  holds, the text of documents, attachments, notifications, the audit log. The
  refusal of `cost_object_check` changes nothing.
* In `ProcOrder`: PO revisions and mailing (they only keep history), tax, foreign
  currency, credit notes entered as negative invoices, and the same invoice
  booked on another request.
* In the session modules: functions of a component that write one row of their
  own (comments, attachments, extensions, batches), deadlock detection by the
  server as distinct from `lock_timeout` (both end in a rollback), SQLite.
* Two requests side by side: the 30-day aggregate and the budget are inputs that
  change at any moment.
* Accounts and their tokens: authentication rests on hashing, clocks and rate
  limits. Planning, traceability, cut room, quality, costing, orders, people:
  rows written whole by one owner, append-only records and figures computed on
  reading, often in floating point. Intelligence, reports, routes and templates:
  read-only computation, layout and form parsing. Single sign-on, mail, backup:
  external services. They make up most of the lines of the repository, and have
  little state whose steps could be in a wrong order. `PROJECT.json` gives the
  reason for each.

## Plan

The models are complete as far as the code has state worth modelling. The functions
taken one at a time are proved, and statement by statement those of the request and its
order, of the floor and shipping, of the raw-material store, of the spare-parts desk and
of the five desks next to it. What is left is to widen them: two related requests priced
at the same time, and the requests of one person who signs two rungs (the hazards without
a property).
