---------------------------- MODULE ProcRequest ----------------------------
(***************************************************************************)
(* One purchase request from draft to a decision, as the service functions *)
(* of app/approvals/services.py move it: submit_pr builds the ladder,      *)
(* price_pr / set_fx / warehouse_revise / set_single_source change it while *)
(* it is being signed, act_on_step signs or rejects a rung, send_back       *)
(* withdraws signatures, and so on.  Each function is one transaction and   *)
(* one action here.                                                        *)
(*                                                                         *)
(*   pr     the pr_requests row                                            *)
(*   steps  the pr_steps rows, at most one per stage; st "none" = no row    *)
(*   env    what the functions read and do not own: the committed value of *)
(*          related requests (DOAM 3.4), the budget left to the department, *)
(*          the item and stock masters' verdict on the lines, the staff     *)
(*                                                                         *)
(* seq.  The code numbers a submitted ladder 1, 2, 3...; here a rung's seq  *)
(* is its Rank, and a rung appended later gets one above every other, which *)
(* keeps the order, the only thing any function reads off a seq.           *)
(***************************************************************************)
EXTENDS ProcAuthority

CONSTANTS Requester, NoUser, PurchasingRoles,
          Totals,          \* egp_commitment values a price may produce
          Related,         \* what other requests for the same items may sum to
          Headrooms,       \* budget left before this request; NoBudget = no row
          PriceSet, QtySet,\* deviation grades the masters may yield
          OrgSet,          \* organisations the staff tables may hold
          KindSet, DomainSet,
          MaxQuotes,       \* bound on competing suppliers on file
          SodAdminExempt,  \* the sod_admin_exempt setting
          Acts             \* bound: the side operations an instance exercises

NoBudget == -1

AllActs == {"edit", "fx", "revise", "waive", "quote", "choose", "papers", "stock",
            "back", "reject", "hold", "cancel"}

ASSUME RequestAssumption ==
  /\ Requester \in Users /\ NoUser \notin Users
  /\ 0 \in Totals /\ Totals \subseteq Nat /\ Related \subseteq Nat
  /\ Headrooms \subseteq Int
  /\ PriceSet \subseteq PriceGrades /\ QtySet \subseteq QtyGrades
  /\ OrgSet \subseteq Orgs
  /\ KindSet \subseteq Kinds /\ DomainSet \subseteq Domains
  /\ MaxQuotes \in Nat /\ SodAdminExempt \in BOOLEAN /\ Acts \subseteq AllActs

VARIABLES pr, steps, env
vars == <<pr, steps, env>>

Statuses == {"draft", "pending", "rejected", "approved", "closed", "cancelled"}
Locked   == {"approved", "closed", "cancelled"}
Origins  == {"ladder", "single_source", "unbudgeted", "deviation"}
StepStates   == {"none", "pending", "approved", "rejected", "skipped"}
BudgetStates == {"unset", "budgeted", "no_budget", "over_budget"}

PRs == [status : Statuses, current_seq : Nat, priced : BOOLEAN, total : Totals,
        kind : KindSet, domain : DomainSet, budget : BudgetStates,
        waiver : BOOLEAN, held : BOOLEAN, memo : BOOLEAN, bcase : BOOLEAN,
        ejr : BOOLEAN, quotes : 0..MaxQuotes, chosen : BOOLEAN, issued : BOOLEAN]
Rungs == [st : StepStates, seq : Nat, by : Users \cup {NoUser},
          origin : Origins, esc : SUBSET Roles]
Envs == [related : Related, headroom : Headrooms,
         price : PriceSet, qty : QtySet, org : OrgSet]

NoRung == [st |-> "none", seq |-> 0, by |-> NoUser, origin |-> "ladder", esc |-> {}]

-----------------------------------------------------------------------------
(* Reading and editing a ladder S.                                         *)

Present(S) == {s \in Stages : S[s].st # "none"}
At(S, n)   == {s \in Stages : S[s].st = "pending" /\ S[s].seq = n}

\* Mutant: the rung in hand counts as not yet reached.
AheadOrAt(S, n, origin) == {s \in Stages : /\ S[s].st = "pending" /\ S[s].seq >= n
                                           /\ S[s].origin = origin}

\* Rungs the chain has not reached.
Ahead(S, n, origin) == {s \in Stages : /\ S[s].st = "pending" /\ S[s].seq > n
                                       /\ S[s].origin = origin}
Signed(S)  == {s \in Stages : S[s].st = "approved"}

\* MAX(seq) and the stage that carries it.
MaxSeq(S) == LET seqs == {S[s].seq : s \in Stages}
             IN  CHOOSE n \in seqs : \A m \in seqs : m <= n
TopStage(S) == LET top == MaxSeq(S) IN CHOOSE s \in Stages : S[s].seq = top

Drop(S, gone) == [s \in Stages |-> IF s \in gone THEN NoRung ELSE S[s]]

\* INSERT the stages above seq `base`, in ladder order.
AddRungs(S, new, base, origin, esc) ==
  [s \in Stages |-> IF s \in new
                    THEN [st |-> "pending", seq |-> base + Rank[s], by |-> NoUser,
                          origin |-> origin, esc |-> esc[s]]
                    ELSE S[s]]

\* Rungs a control adds are escalated without looking at the rest of the ladder.
ControlEsc(org) == [s \in Stages |-> EscRole(org, s, Requester, <<>>, {})]

-----------------------------------------------------------------------------
(* Building and rebuilding the ladder.                                     *)

Unbudgeted(total, headroom) == headroom = NoBudget \/ total > headroom
BudgetState(total, headroom) ==
  IF headroom = NoBudget THEN "no_budget"
  ELSE IF total > headroom THEN "over_budget" ELSE "budgeted"

\* submit_pr: the value ladder on the 30-day aggregate, then the rungs of the
\* waiver and of the budget verdict on top, then the escalations, then the
\* absorption of a rung into the one below when both climbed to the same role.
SubmitLadder(p, e) ==
  LET base   == DeptLadder(p.total + e.related, p.kind, p.domain)
      waive  == IF p.waiver THEN {SingleSourceStage(base, Highest(base), p.kind)} \ {NoStage}
                ELSE {}
      unbud  == IF p.priced /\ Unbudgeted(p.total, e.headroom)
                THEN {UnbudgetedStage(base \cup waive, p.kind)} \ {NoStage} ELSE {}
      all    == base \cup waive \cup unbud
      pos    == [s \in all |-> IF s \in base THEN Rank[s] ELSE IF s \in waive THEN 9 ELSE 10]
      hold   == [s \in all |-> StageSigners(e.org, s, StageRoles[s])]
      esc    == [s \in all |-> EscRole(e.org, s, Requester, hold, {})]
      Before(s) == {t \in all : pos[t] < pos[s]}
      absorbed == {s \in all : /\ esc[s] # {}
                               /\ \E t \in Before(s) : /\ esc[t] = esc[s]
                                                       /\ \A u \in Before(s) : pos[u] <= pos[t]}
  IN  [s \in Stages |->
         IF s \notin all \ absorbed THEN NoRung
         ELSE [st |-> "pending", seq |-> pos[s], by |-> NoUser, esc |-> esc[s],
               origin |-> IF s \in waive THEN "single_source"
                          ELSE IF s \in unbud THEN "unbudgeted" ELSE "ladder"]]

FirstSeq(S) == LET low == CHOOSE s \in Present(S) :
                            \A t \in Present(S) : S[s].seq <= S[t].seq
               IN  S[low].seq

\* _reconcile_value_ladder: take back the unreached control rungs, prune the
\* unreached value rungs the new total no longer requires, append the missing.
Reconcile(S, p, e) ==
  LET cur    == p.current_seq
      target == DeptLadder(p.total + e.related, p.kind, p.domain) \cap VALUE_STAGES
      kept   == Drop(S, Ahead(S, cur, "unbudgeted") \cup Ahead(S, cur, "single_source"))
      pruned == (Ahead(kept, cur, "ladder") \cap VALUE_STAGES) \ target
      live   == Present(kept) \ {s \in VALUE_STAGES \ target :
                                   kept[s].st = "pending" /\ kept[s].seq > cur}
      hold   == [s \in live \cup target |->
                   StageSigners(e.org, s, RungRoles(s, kept[s].esc))]
      busy   == {kept[s].by : s \in {t \in Stages : kept[t].st \in {"approved", "rejected"}}}
      esc    == [s \in Stages |-> EscRole(e.org, s, Requester, hold, busy)]
  IN  AddRungs(Drop(kept, pruned), target \ Present(kept), MaxSeq(kept), "ladder", esc)

\* apply_deviation_stages: only ever adds.
ApplyDeviation(S, e) ==
  AddRungs(S, DeviationStages(e.price, e.qty) \ Present(S), MaxSeq(S),
         "deviation", ControlEsc(e.org))

\* apply_budget_state on a pending request.
ApplyBudget(S, p, e) ==
  IF Unbudgeted(p.total, e.headroom)
  THEN AddRungs(S, {UnbudgetedStage(Present(S), p.kind)} \ {NoStage}, MaxSeq(S),
              "unbudgeted", ControlEsc(e.org))
  ELSE Drop(S, Ahead(S, p.current_seq, "unbudgeted"))

\* apply_single_source_state / _append_single_source_rung.
ApplySingleSource(S, p, e) ==
  IF p.waiver
  THEN AddRungs(S, {SingleSourceStage(Present(S), TopStage(S), p.kind)} \ {NoStage}, MaxSeq(S),
              "single_source", ControlEsc(e.org))
  ELSE S

-----------------------------------------------------------------------------
(* Who may do what.                                                        *)

CanSign(u, s) == u \in env.org.staff /\ CanActStep(env.org, u, s, steps[s].esc)
MaySignNow(u) == \E s \in At(steps, pr.current_seq) : CanSign(u, s)

\* The route's proc_purchasing check and _refuse_self_commercial.
MayTrade(u) == /\ u \in env.org.staff
               /\ env.org.role[u] \in PurchasingRoles \cup AdminRoles
               /\ u # Requester \/ Admin(env.org, u)

\* act_on_step's two independence rules.
SelfApproval(u) == u = Requester

\* Mutant: only the rung signed just before is compared.
DualRoleBelow(u, s) ==
  \E t \in Stages : steps[t].st = "approved" /\ steps[t].seq = steps[s].seq - 1 /\ steps[t].by = u

DualRole(u, s) == /\ ~(Admin(env.org, u) /\ SodAdminExempt)
                  /\ \E t \in Stages \ {s} : /\ steps[t].st \in {"approved", "rejected"}
                                             /\ steps[t].by = u

\* act_on_step's document gates for stage s on ladder `S`.
\* Mutant: competition is looked at by Purchasing alone, never again.
AtGate(s) == s = PRICING_GATE_STAGE

PastGate(s) == s = PRICING_GATE_STAGE \/ steps[PRICING_GATE_STAGE].st = "approved"

RfqGate == \/ ~pr.priced
           \/ pr.waiver
           \/ /\ pr.quotes >= QuotesRequired(pr.total)
              /\ DeviationQuotes(env.price) => pr.quotes >= 3
MemoGate == ~pr.priced \/ pr.memo \/ ~DeviationMemo(env.price, env.qty)
BusinessCaseGate == pr.total <= BUSINESS_CASE_OVER \/ pr.bcase

-----------------------------------------------------------------------------
\* A request as create_pr leaves it: priced when Purchasing raised it with a value.
NewPr(t, k, d, cited) ==
  [status |-> "draft", current_seq |-> 0, priced |-> t > 0, total |-> t, kind |-> k,
   domain |-> d, budget |-> "unset", waiver |-> FALSE, held |-> FALSE, memo |-> FALSE,
   bcase |-> FALSE, ejr |-> cited, quotes |-> 0, chosen |-> FALSE, issued |-> FALSE]

Init ==
  /\ env \in Envs
  /\ steps = [s \in Stages |-> NoRung]
  /\ \E t \in Totals, k \in KindSet, d \in DomainSet, cited \in BOOLEAN :
       /\ pr = NewPr(t, k, d, cited)
       /\ cited \/ "papers" \in Acts

(* Before circulation.                                                     *)

\* Purchasing's edit keeps the pricing status and carries prices of its own; the
\* requester's replaces the lines unpriced.  The new lines carry no issued_qty.
UpdatePr(t, k, d, canPrice) ==
  /\ "edit" \in Acts
  /\ pr.status \in {"draft", "rejected"}
  /\ ~canPrice => t = 0
  /\ pr' = [pr EXCEPT !.total = t, !.kind = k, !.domain = d, !.issued = FALSE,
                      !.priced = canPrice /\ @]
  /\ UNCHANGED <<steps, env>>

\* The refusal of cost_object_check changes nothing and is left out.
SubmitPr ==
  /\ pr.status \in {"draft", "rejected"}
  /\ LET ladder == SubmitLadder(pr, env)
     IN  /\ steps' = ladder
         /\ pr' = [pr EXCEPT !.status = "pending", !.current_seq = FirstSeq(ladder),
                             !.budget = IF pr.priced THEN BudgetState(pr.total, env.headroom)
                                                     ELSE "unset"]
  /\ UNCHANGED env

-----------------------------------------------------------------------------
(* Commercial acts.                                                        *)

Repriced(p, e) ==
  ApplySingleSource(ApplyBudget(ApplyDeviation(Reconcile(steps, p, e), e), p, e), p, e)

PricePr(u, t, g) ==
  /\ MayTrade(u) /\ pr.status \notin Locked
  /\ LET p == [pr EXCEPT !.priced = TRUE, !.total = t]
         e == [env EXCEPT !.price = g]
     IN  /\ env' = e
         /\ IF pr.status = "pending"
            THEN /\ steps' = Repriced(p, e)
                 /\ pr' = [p EXCEPT !.budget = BudgetState(t, e.headroom)]
            ELSE pr' = p /\ UNCHANGED steps

\* A new exchange rate moves the EGP total of a request that has one; it grades
\* no deviation.
SetFx(u, t) ==
  /\ "fx" \in Acts
  /\ MayTrade(u) /\ pr.status \notin Locked
  /\ (t = 0) <=> (pr.total = 0)
  /\ LET p == [pr EXCEPT !.total = t]
     IN  IF pr.status = "pending"
         THEN /\ steps' = ApplySingleSource(ApplyBudget(Reconcile(steps, p, env), p, env), p, env)
              /\ pr' = [p EXCEPT !.budget = BudgetState(t, env.headroom)]
         ELSE pr' = p /\ UNCHANGED steps
  /\ UNCHANGED env

\* Editing the wording of a recorded waiver changes nothing else.
SetSingleSource(u) ==
  /\ "waive" \in Acts
  /\ MayTrade(u) /\ pr.status \notin Locked /\ ~pr.waiver
  /\ pr' = [pr EXCEPT !.waiver = TRUE]
  /\ steps' = IF pr.status = "pending" THEN ApplySingleSource(steps, pr', env) ELSE steps
  /\ UNCHANGED env

AddQuote(u) ==
  /\ "quote" \in Acts
  /\ MayTrade(u) /\ pr.quotes < MaxQuotes
  /\ pr' = [pr EXCEPT !.quotes = @ + 1]
  /\ UNCHANGED <<steps, env>>

ChooseQuote(u) ==
  /\ "choose" \in Acts
  /\ MayTrade(u) /\ pr.status \notin Locked /\ pr.quotes > 0
  /\ pr' = [pr EXCEPT !.chosen = TRUE]
  /\ UNCHANGED <<steps, env>>

\* Mutant: deletes without looking the quotation up.
DeleteQuoteUnchecked ==
  /\ pr.status \notin Locked
  /\ pr' = [pr EXCEPT !.quotes = @ - 1]
  /\ UNCHANGED <<steps, env>>

\* The chosen quotation cannot be removed.
DeleteQuote ==
  /\ pr.status \notin Locked
  /\ pr.quotes > (IF pr.chosen THEN 1 ELSE 0)
  /\ pr' = [pr EXCEPT !.quotes = @ - 1]
  /\ UNCHANGED <<steps, env>>

SetDoamDocument ==
  /\ "papers" \in Acts
  /\ pr.status \notin {"closed", "cancelled"}
  /\ \/ pr' = [pr EXCEPT !.memo = TRUE]
     \/ pr' = [pr EXCEPT !.bcase = TRUE]
  /\ UNCHANGED <<steps, env>>

AttachEjr ==
  /\ "papers" \in Acts
  /\ pr' = [pr EXCEPT !.ejr = TRUE]
  /\ UNCHANGED <<steps, env>>

-----------------------------------------------------------------------------
(* The warehouse rungs.                                                    *)

AtWarehouse(u) ==
  /\ pr.status = "pending" /\ u \in env.org.staff
  /\ \E s \in At(steps, pr.current_seq) \cap {"warehouse", "warehouse_manager"} :
       CanActAs(env.org, u, s, StageRoles[s])

\* Mutant: the corrected quantity leaves the ladder as it was.
WarehouseReviseOnly(u, t) ==
  /\ "revise" \in Acts /\ pr.priced /\ AtWarehouse(u)
  /\ pr' = [pr EXCEPT !.total = t]
  /\ UNCHANGED <<steps, env>>

\* A corrected quantity on a priced request: the total moves to t, signatures
\* above are withdrawn, the value ladder is rebuilt.  (On an unpriced request it
\* only moves what the masters say of the lines, see World.)
WarehouseRevise(u, t) ==
  /\ "revise" \in Acts /\ pr.priced /\ AtWarehouse(u)
  /\ LET p == [pr EXCEPT !.total = t]
         withdrawn == [s \in Stages |->
           IF steps[s].st # "none" /\ steps[s].seq > pr.current_seq /\ steps[s].st # "pending"
           THEN [steps[s] EXCEPT !.st = "pending", !.by = NoUser] ELSE steps[s]]
     IN  pr' = p /\ steps' = Reconcile(withdrawn, p, env)
  /\ UNCHANGED env

\* Everything met from the shelf closes the request; a part of it only shortens
\* the lines.
IssueFromStock(u, all) ==
  /\ "stock" \in Acts /\ ~pr.priced /\ AtWarehouse(u)
  /\ IF all
     THEN /\ pr' = [pr EXCEPT !.issued = TRUE, !.status = "closed", !.current_seq = 0]
          /\ steps' = [s \in Stages |-> IF steps[s].st = "pending"
                                        THEN [steps[s] EXCEPT !.st = "skipped"] ELSE steps[s]]
     ELSE pr' = [pr EXCEPT !.issued = TRUE] /\ UNCHANGED steps
  /\ UNCHANGED env

\* One line's issue is put back; `left` says whether another line still holds one.
ReverseStockIssue(u, left) ==
  /\ pr.issued /\ ~pr.priced /\ pr.status \in {"pending", "closed"}
  /\ u \in env.org.staff
  /\ Admin(env.org, u) \/ CanActAs(env.org, u, "warehouse", StageRoles["warehouse"])
  /\ IF pr.status = "closed"
     THEN LET back == [s \in Stages |-> IF steps[s].st = "skipped"
                                        THEN [steps[s] EXCEPT !.st = "pending"] ELSE steps[s]]
              open == {back[s].seq : s \in {t \in Stages : back[t].st = "pending"}}
          IN  /\ steps' = back
              /\ pr' = [pr EXCEPT !.issued = left, !.status = "pending",
                          !.current_seq = IF open = {} THEN 1
                                          ELSE CHOOSE n \in open : \A m \in open : n <= m]
     ELSE pr' = [pr EXCEPT !.issued = left] /\ UNCHANGED steps
  /\ UNCHANGED env

-----------------------------------------------------------------------------
(* Signing.                                                                *)

\* What every decision on rung s asks first.
MayDecide(u, s) ==
  /\ pr.status = "pending" /\ ~pr.held
  /\ s \in At(steps, pr.current_seq) /\ CanSign(u, s)
  /\ ~DualRole(u, s)

Acceptable(u, s) ==
  /\ MayDecide(u, s) /\ ~SelfApproval(u)
  /\ s = PRICING_GATE_STAGE => pr.priced /\ pr.ejr
  /\ PastGate(s) => RfqGate

\* Mutant: the deviations are read when the price is entered and never again.
NotRegraded(s) == steps

\* Reading stock again may add a rung, and that is committed even when the
\* signature is then refused for a missing document.
Regraded(s) == IF PastGate(s) /\ pr.priced THEN ApplyDeviation(steps, env) ELSE steps

DocumentsOk(s) == /\ PastGate(s) => MemoGate
                  /\ s \in {PRICING_GATE_STAGE, "bod"} => BusinessCaseGate

Approve(u, s) ==
  /\ Acceptable(u, s) /\ DocumentsOk(s)
  /\ LET S     == [Regraded(s) EXCEPT ![s].st = "approved", ![s].by = u]
         ahead == {S[x].seq : x \in {t \in Stages : /\ S[t].st = "pending"
                                                    /\ S[t].seq > pr.current_seq}}
     IN  /\ steps' = S
         /\ pr' = IF At(S, pr.current_seq) # {} THEN pr
                  ELSE IF ahead # {}
                  THEN [pr EXCEPT !.current_seq = CHOOSE n \in ahead : \A m \in ahead : n <= m]
                  ELSE [pr EXCEPT !.status = "approved", !.current_seq = 0]
  /\ UNCHANGED env

RefusedForDocument(u, s) ==
  /\ Acceptable(u, s) /\ ~DocumentsOk(s)
  /\ steps' = Regraded(s)
  /\ UNCHANGED <<pr, env>>

Reject(u, s) ==
  /\ "reject" \in Acts
  /\ MayDecide(u, s)
  /\ steps' = [steps EXCEPT ![s].st = "rejected", ![s].by = u]
  /\ pr' = [pr EXCEPT !.status = "rejected"]
  /\ UNCHANGED env

\* Mutant: only the rung sent back to loses its signature.
SendBackOne(u, s) ==
  /\ "back" \in Acts
  /\ pr.status = "pending"
  /\ steps[s].seq >= 1 /\ steps[s].seq < pr.current_seq
  /\ MaySignNow(u)
  /\ steps' = [steps EXCEPT ![s].st = "pending", ![s].by = NoUser]
  /\ pr' = [pr EXCEPT !.current_seq = steps[s].seq]
  /\ UNCHANGED env

\* Every rung from `s` up loses its signature; allowed on a held request too.
SendBack(u, s) ==
  /\ "back" \in Acts
  /\ pr.status = "pending"
  /\ steps[s].seq >= 1 /\ steps[s].seq < pr.current_seq
  /\ MaySignNow(u)
  /\ steps' = [t \in Stages |-> IF steps[t].st # "none" /\ steps[t].seq >= steps[s].seq
                                THEN [steps[t] EXCEPT !.st = "pending", !.by = NoUser]
                                ELSE steps[t]]
  /\ pr' = [pr EXCEPT !.current_seq = steps[s].seq]
  /\ UNCHANGED env

HoldRequest(u) ==
  /\ "hold" \in Acts
  /\ pr.status = "pending" /\ ~pr.held /\ MaySignNow(u)
  /\ pr' = [pr EXCEPT !.held = TRUE]
  /\ UNCHANGED <<steps, env>>

ResumeRequest(u) ==
  /\ pr.held /\ MaySignNow(u)
  /\ pr' = [pr EXCEPT !.held = FALSE]
  /\ UNCHANGED <<steps, env>>

CancelPr(u) ==
  /\ "cancel" \in Acts
  /\ pr.status \notin {"closed", "cancelled"} /\ u \in env.org.staff
  /\ IF pr.status = "approved" THEN Admin(env.org, u)
     ELSE u = Requester \/ env.org.role[u] \in PurchasingRoles \cup AdminRoles
  /\ pr' = [pr EXCEPT !.status = "cancelled", !.current_seq = 0]
  /\ UNCHANGED <<steps, env>>

-----------------------------------------------------------------------------
\* Other requests, Finance, stock movements, cost updates and user administration.
World ==
  /\ env' \in Envs
  /\ UNCHANGED <<pr, steps>>

Next ==
  \/ \E t \in Totals, k \in KindSet, d \in DomainSet, c \in BOOLEAN : UpdatePr(t, k, d, c)
  \/ SubmitPr
  \/ \E u \in Users :
       \/ \E t \in Totals, g \in PriceSet : PricePr(u, t, g)
       \/ \E t \in Totals : SetFx(u, t) \/ WarehouseRevise(u, t)
       \/ SetSingleSource(u) \/ AddQuote(u) \/ ChooseQuote(u)
       \/ \E b \in BOOLEAN : IssueFromStock(u, b) \/ ReverseStockIssue(u, b)
       \/ HoldRequest(u) \/ ResumeRequest(u) \/ CancelPr(u)
  \/ \E s \in At(steps, pr.current_seq), u \in Users :
       Approve(u, s) \/ RefusedForDocument(u, s) \/ Reject(u, s)
  \/ \E s \in Present(steps), u \in Users : SendBack(u, s)
  \/ DeleteQuote \/ SetDoamDocument \/ AttachEjr
  \/ World

Spec == Init /\ [][Next]_vars

-----------------------------------------------------------------------------
(* Properties.                                                             *)

TypeOK == pr \in PRs /\ steps \in [Stages -> Rungs] /\ env \in Envs

\* A circulating request is never stuck between rungs: everything below the
\* current seq is signed, everything from it up waits for a signature, and there
\* is a rung AT it (act_on_step's "no_active_step" is unreachable).
LadderSplit ==
  pr.status = "pending" =>
    /\ At(steps, pr.current_seq) # {}
    /\ \A s \in Present(steps) : steps[s].st =
         IF steps[s].seq < pr.current_seq THEN "approved" ELSE "pending"

\* A rung that submit_pr folded into an escalated one below it.
Absorbing == \E s \in Signed(steps) : steps[s].esc # {}

\* However often the price, the rate and the quantities moved and the request
\* was sent back on the way, an approved request carries every signature the
\* matrix asks for the value it was approved at.
ApprovedCovered ==
  pr.status = "approved" /\ ~Absorbing =>
    /\ pr.priced
    /\ DeptLadder(pr.total, pr.kind, pr.domain) \subseteq Signed(steps)

\* Segregation of duties (DOAM 3.4): every signature on the ladder comes from a
\* different person and none from the requester, whatever was delegated,
\* escalated, re-priced or sent back since.
FourEyes ==
  pr.status \in {"pending", "approved"} =>
    \A s \in Signed(steps) :
      /\ steps[s].by \in Users \ {Requester}
      /\ ~SodAdminExempt => \A t \in Signed(steps) \ {s} : steps[t].by # steps[s].by

\* DOAM 4.3: an approved request has competing quotations for its value, or a
\* recorded waiver.
QuotesOnFile ==
  pr.status = "approved" /\ ~Absorbing => pr.waiver \/ pr.quotes >= QuotesRequired(pr.total)

\* Table 4: an approved request that was last routed as unbudgeted carries a
\* signature of L1 authority.
UnbudgetedSigned ==
  /\ pr.status = "approved" /\ ~Absorbing
  /\ pr.budget \in {"no_budget", "over_budget"}
  => \E s \in Signed(steps) : DOAM_LEVEL[s] >= L1

\* DOAM 4.4: the signature that completes a request finds every stage that the
\* masters' reading at that moment asks for already on the ladder and signed.
DeviationAnswered ==
  [][ pr.status = "pending" /\ pr'.status = "approved" /\ ~Absorbing' =>
        DeviationStages(env.price, env.qty) \subseteq Signed(steps') ]_vars

\* Signatures are only ever withdrawn from the top down: while a request
\* circulates, a rung that keeps its signature keeps everything signed below it.
WithdrawnFromTheTop ==
  [][ pr.status = "pending" /\ pr'.status = "pending" =>
        \A s \in Signed(steps) \cap Signed(steps') :
          \A t \in Signed(steps) :
            steps[t].seq < steps[s].seq => t \in Signed(steps') /\ steps'[t].by = steps[t].by ]_vars
=============================================================================
