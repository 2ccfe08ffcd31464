-------------------------- MODULE ProcRequestProofs --------------------------
(***************************************************************************)
(* Theorems about ProcRequest: type correctness, a circulating request is  *)
(* never stuck between rungs, no two signatures come from one person, and  *)
(* what is approved carries what its value asks for.                       *)
(***************************************************************************)
EXTENDS ProcRequest, TLAPS

-----------------------------------------------------------------------------
(* The ladder's stages and their order.                                    *)

\* The eight stages, by name.
LEMMA StagesAre ==
  Stages = {"warehouse", "warehouse_manager", "purchasing",
            "factory_manager", "scd", "cfo", "ceo", "bod"}
<1>1. 1..8 = {1, 2, 3, 4, 5, 6, 7, 8}
  OBVIOUS
<1> QED
  BY <1>1 DEF Stages, DOAM_LADDER

\* A stage's rank is its place on the ladder.
LEMMA RankType == /\ \A s \in Stages : Rank[s] \in 1..8 /\ DOAM_LADDER[Rank[s]] = s
                  /\ \A s, t \in Stages : Rank[s] = Rank[t] => s = t
<1>1. ASSUME NEW s \in Stages PROVE Rank[s] \in 1..8 /\ DOAM_LADDER[Rank[s]] = s
  <2>1. PICK i \in 1..8 : DOAM_LADDER[i] = s
    BY DEF Stages
  <2> QED
    BY <2>1 DEF Rank
<1> QED
  BY <1>1

\* Among finitely many stages one carries the least number, and one the greatest.
LEMMA LeastStage ==
  ASSUME NEW f, \A s \in Stages : f[s] \in Int,
         NEW P \in SUBSET Stages, P # {}
  PROVE  \E s \in P : \A t \in P : f[s] <= f[t]
<1> DEFINE Upto(k) == {s \in P : Rank[s] <= k}
           Good(k) == Upto(k) = {} \/ \E s \in Upto(k) : \A t \in Upto(k) : f[s] <= f[t]
<1>1. ASSUME NEW k \in 0..7, Good(k) PROVE Good(k + 1)
  <2>1. \A s, t \in Upto(k+1) \ Upto(k) : s = t
    BY RankType
  <2>2. Upto(k) \subseteq Upto(k+1)
    BY RankType
  <2>3. \A s \in Upto(k+1) : f[s] \in Int
    OBVIOUS
  <2>4. CASE Upto(k+1) \ Upto(k) = {}
    BY <1>1, <2>2, <2>4
  <2>5. CASE Upto(k+1) \ Upto(k) # {}
    <3>1. PICK x \in Upto(k+1) : Upto(k+1) = Upto(k) \cup {x}
      BY <2>1, <2>2, <2>5
    <3>2. CASE Upto(k) = {}
      BY <3>1, <3>2, <2>3
    <3>3. CASE Upto(k) # {}
      <4>1. PICK y \in Upto(k) : \A t \in Upto(k) : f[y] <= f[t]
        BY <1>1, <3>3
      <4>2. CASE f[x] <= f[y]
        BY <3>1, <4>1, <4>2, <2>2, <2>3
      <4>3. CASE ~(f[x] <= f[y])
        BY <3>1, <4>1, <4>3, <2>2, <2>3
      <4> QED
        BY <4>2, <4>3
    <3> QED
      BY <3>2, <3>3
  <2> QED
    BY <2>4, <2>5
<1>2. Good(0)
  BY RankType
<1> HIDE DEF Good
<1>3. Good(8)
  BY <1>1, <1>2
<1>4. Upto(8) = P
  BY RankType
<1> QED
  BY <1>3, <1>4 DEF Good

\* The lowest of some stages is one of them.
LEMMA LowestIn == ASSUME NEW P \in SUBSET Stages, P # {} PROVE Lowest(P) \in P
<1>1. \A s \in Stages : Rank[s] \in Int
  BY RankType
<1>2. \E s \in P : \A t \in P : Rank[s] <= Rank[t]
  BY <1>1, LeastStage
<1> QED
  BY <1>2 DEF Lowest

-----------------------------------------------------------------------------
(* Ladders.                                                                *)

Ladders == [Stages -> Rungs]

DistinctSeqs(S) == \A s, t \in Present(S) : S[s].seq = S[t].seq => s = t

\* A rung the chain has not come to, or no rung.
Unreached(r, n) == r.st = "none" \/ (r.st = "pending" /\ r.seq > n)

\* T is S with some of the rungs ahead of n taken off or put on.
Rebuilt(S, T, n) ==
  /\ T \in Ladders /\ DistinctSeqs(T)
  /\ \A s \in Stages : T[s] = S[s] \/ (Unreached(S[s], n) /\ Unreached(T[s], n))

\* Rebuilding twice is rebuilding.
LEMMA RebuiltTrans ==
  ASSUME NEW S, NEW T, NEW U, NEW n, Rebuilt(S, T, n), Rebuilt(T, U, n)
  PROVE  Rebuilt(S, U, n)
BY DEF Rebuilt

\* MAX(seq) bounds every seq.
LEMMA MaxSeqTop ==
  ASSUME NEW S \in Ladders
  PROVE  MaxSeq(S) \in Nat /\ \A s \in Stages : S[s].seq <= MaxSeq(S)
<1> DEFINE f == [s \in Stages |-> -S[s].seq]
<1>1. \A s \in Stages : S[s].seq \in Nat /\ f[s] \in Int
  BY DEF Ladders, Rungs
<1>2. Stages # {}
  BY StagesAre
<1>3. \E s \in Stages : \A t \in Stages : f[s] <= f[t]
  <2> HIDE DEF f
  <2> QED
    BY <1>1, <1>2, LeastStage
<1>4. \E n \in {S[s].seq : s \in Stages} : \A m \in {S[s].seq : s \in Stages} : m <= n
  <2>1. PICK s \in Stages : \A t \in Stages : f[s] <= f[t]
    BY <1>3
  <2>2. \A t \in Stages : S[t].seq <= S[s].seq
    BY <1>1, <2>1
  <2> QED
    BY <2>2
<1> QED
  BY <1>1, <1>4 DEF MaxSeq

\* Appending rungs on top of a ladder that has a rung at n.
LEMMA AddRungsRebuilds ==
  ASSUME NEW S \in Ladders, DistinctSeqs(S), NEW n \in Nat, NEW r \in Present(S), S[r].seq >= n,
         NEW base \in Nat, \A s \in Stages : S[s].seq <= base,
         NEW new, new \cap Present(S) = {}, NEW origin \in Origins,
         NEW esc, \A s \in Stages : esc[s] \in SUBSET Roles
  PROVE  Rebuilt(S, AddRungs(S, new, base, origin, esc), n)
<1> DEFINE T == AddRungs(S, new, base, origin, esc)
<1>1. \A s \in Stages : S[s] \in Rungs /\ S[s].seq \in Nat
  BY DEF Ladders, Rungs
<1>2. base \in Nat /\ \A s \in Stages : S[s].seq <= base
  OBVIOUS
<1>3. \A s \in Stages : Rank[s] \in Nat /\ Rank[s] > 0
  BY RankType
<1>4. T \in Ladders
  BY <1>1, <1>2, <1>3 DEF AddRungs, Ladders, Rungs, StepStates
<1>5. ASSUME NEW s \in Stages
      PROVE  IF s \in new THEN T[s].st = "pending" /\ T[s].seq = base + Rank[s]
             ELSE T[s] = S[s]
  BY DEF AddRungs
<1>6. DistinctSeqs(T)
  <2> SUFFICES ASSUME NEW s \in Present(T), NEW t \in Present(T), T[s].seq = T[t].seq
               PROVE  s = t
    BY DEF DistinctSeqs
  <2>1. s \in Stages /\ t \in Stages
    BY DEF Present
  <2>2. CASE s \in new /\ t \in new
    BY <2>1, <2>2, <1>2, <1>3, <1>5, RankType
  <2>3. CASE s \in new /\ t \notin new
    BY <2>1, <2>3, <1>1, <1>2, <1>3, <1>5
  <2>4. CASE s \notin new /\ t \in new
    BY <2>1, <2>4, <1>1, <1>2, <1>3, <1>5
  <2>5. CASE s \notin new /\ t \notin new
    BY <2>1, <2>5, <1>5 DEF DistinctSeqs, Present
  <2> QED
    BY <2>2, <2>3, <2>4, <2>5
<1>7. ASSUME NEW s \in Stages
      PROVE  T[s] = S[s] \/ (Unreached(S[s], n) /\ Unreached(T[s], n))
  <2>1. CASE s \in new
    <3>1. S[s].st = "none"
      BY <2>1 DEF Present
    <3>2. base >= n
      BY <1>1, <1>2 DEF Present
    <3> QED
      BY <2>1, <3>1, <3>2, <1>2, <1>3, <1>5 DEF Unreached
  <2> QED
    BY <2>1, <1>5
<1> QED
  BY <1>4, <1>6, <1>7 DEF Rebuilt

\* Taking unreached rungs off.
LEMMA DropRebuilds ==
  ASSUME NEW S \in Ladders, DistinctSeqs(S), NEW n, NEW gone,
         \A s \in gone \cap Stages : Unreached(S[s], n)
  PROVE  Rebuilt(S, Drop(S, gone), n)
<1>1. NoRung \in Rungs
  BY DEF NoRung, Rungs, StepStates, Origins
<1>2. Drop(S, gone) \in Ladders
  BY <1>1 DEF Drop, Ladders
<1>3. \A s \in Stages : IF s \in gone THEN Drop(S, gone)[s].st = "none"
                        ELSE Drop(S, gone)[s] = S[s]
  BY DEF Drop, NoRung
<1>4. DistinctSeqs(Drop(S, gone))
  BY <1>3 DEF DistinctSeqs, Present
<1> QED
  BY <1>2, <1>3, <1>4 DEF Rebuilt, Unreached

-----------------------------------------------------------------------------
(* What the controls add was not there before.                             *)

\* Both matrices speak of stages only.
LEMMA MatrixStages == \A kind : DOMAIN Matrix(kind) \subseteq Stages
  BY DEF Matrix, CAPEX_MATRIX, OPEX_MATRIX

\* The rung of unbudgeted spend was not on the ladder.
LEMMA UnbudgetedNew ==
  ASSUME NEW P \in SUBSET Stages, NEW kind
  PROVE  ({UnbudgetedStage(P, kind)} \ {NoStage}) \cap P = {}
<1> DEFINE authority == {s \in DOMAIN Matrix(kind) : DOAM_LEVEL[s] = L1}
<1>1. authority \in SUBSET Stages
  BY MatrixStages
<1>2. CASE (\E s \in P : DOAM_LEVEL[s] >= L1) \/ authority = {}
  BY <1>2 DEF UnbudgetedStage
<1>3. CASE ~(\E s \in P : DOAM_LEVEL[s] >= L1) /\ authority # {}
  <2>1. UnbudgetedStage(P, kind) = Lowest(authority)
    BY <1>3 DEF UnbudgetedStage
  <2>2. Lowest(authority) \in authority
    BY <1>1, <1>3, LowestIn
  <2> QED
    BY <1>3, <2>1, <2>2 DEF L1
<1> QED
  BY <1>2, <1>3

\* Nor was the rung of a waiver.
LEMMA SingleSourceNew ==
  ASSUME NEW P \in SUBSET Stages, NEW top, NEW kind
  PROVE  ({SingleSourceStage(P, top, kind)} \ {NoStage}) \cap P = {}
<1> DEFINE free   == DOMAIN Matrix(kind) \ P
           exact  == {s \in free : DOAM_LEVEL[s] = LevelAbove(DOAM_LEVEL[top])}
           higher == {s \in free : DOAM_LEVEL[s] > DOAM_LEVEL[top]}
<1>1. exact \in SUBSET Stages /\ higher \in SUBSET Stages
  BY MatrixStages
<1>2. SingleSourceStage(P, top, kind) =
        IF exact # {} THEN Lowest(exact) ELSE IF higher # {} THEN Lowest(higher) ELSE NoStage
  BY DEF SingleSourceStage
<1>3. (exact # {} => Lowest(exact) \in exact) /\ (higher # {} => Lowest(higher) \in higher)
  BY <1>1, LowestIn
<1> QED
  BY <1>2, <1>3

\* An escalation yields a set of roles.
LEMMA EscRoleType ==
  ASSUME NEW org, NEW s, NEW requester, NEW holders, NEW busy
  PROVE  EscRole(org, s, requester, holders, busy) \in SUBSET Roles
  BY DEF EscRole, ResolveEscalation

-----------------------------------------------------------------------------
(* Every rebuilding step of a circulating request rebuilds its ladder.     *)

\* A ladder with a rung at n, which is where a circulating request stands.
Standing(S, n) == S \in Ladders /\ DistinctSeqs(S) /\ At(S, n) # {}

\* Rebuilding leaves the rung in hand alone.
LEMMA RebuiltStands ==
  ASSUME NEW S, NEW T, NEW n, Standing(S, n), Rebuilt(S, T, n)
  PROVE  Standing(T, n) /\ At(T, n) = At(S, n)
<1>1. \A s \in Stages : S[s] \in Rungs /\ S[s].seq \in Nat /\ T[s] \in Rungs /\ T[s].seq \in Nat
  BY DEF Standing, Rebuilt, Ladders, Rungs
<1>2. At(T, n) = At(S, n)
  BY <1>1 DEF Rebuilt, At, Unreached
<1> QED
  BY <1>2 DEF Rebuilt, Standing

\* Appending above a standing ladder rebuilds it.
LEMMA AppendRebuilds ==
  ASSUME NEW S, NEW n \in Nat, Standing(S, n),
         NEW base \in Nat, \A s \in Stages : S[s].seq <= base,
         NEW new, new \cap Present(S) = {}, NEW origin \in Origins,
         NEW esc, \A s \in Stages : esc[s] \in SUBSET Roles
  PROVE  Rebuilt(S, AddRungs(S, new, base, origin, esc), n)
<1>1. PICK r \in Stages : S[r].st = "pending" /\ S[r].seq = n
  BY DEF Standing, At
<1>2. r \in Present(S) /\ S[r].seq >= n
  BY <1>1 DEF Present
<1> QED
  BY <1>2, AddRungsRebuilds DEF Standing

\* The rungs a control adds are escalated to sets of roles.
LEMMA ControlEscType == \A org : \A s \in Stages : ControlEsc(org)[s] \in SUBSET Roles
  BY EscRoleType DEF ControlEsc

\* Deviation stages are appended.
LEMMA DeviationRebuilds ==
  ASSUME NEW S, NEW n \in Nat, Standing(S, n), NEW e
  PROVE  Rebuilt(S, ApplyDeviation(S, e), n)
<1>1. (DeviationStages(e.price, e.qty) \ Present(S)) \cap Present(S) = {}
  OBVIOUS
<1>2. "deviation" \in Origins
  BY DEF Origins
<1> QED
  BY <1>1, <1>2, AppendRebuilds, MaxSeqTop, ControlEscType DEF Standing, ApplyDeviation

\* The budget verdict appends a rung or takes unreached ones off.
LEMMA BudgetRebuilds ==
  ASSUME NEW S, NEW p, p.current_seq \in Nat, Standing(S, p.current_seq), NEW e
  PROVE  Rebuilt(S, ApplyBudget(S, p, e), p.current_seq)
<1>1. CASE Unbudgeted(p.total, e.headroom)
  <2>1. ({UnbudgetedStage(Present(S), p.kind)} \ {NoStage}) \cap Present(S) = {}
    BY UnbudgetedNew DEF Present
  <2>2. "unbudgeted" \in Origins
    BY DEF Origins
  <2> QED
    BY <1>1, <2>1, <2>2, AppendRebuilds, MaxSeqTop, ControlEscType DEF Standing, ApplyBudget
<1>2. CASE ~Unbudgeted(p.total, e.headroom)
  <2>1. \A s \in Ahead(S, p.current_seq, "unbudgeted") : Unreached(S[s], p.current_seq)
    BY DEF Ahead, Unreached
  <2> QED
    BY <1>2, <2>1, DropRebuilds DEF ApplyBudget, Standing
<1> QED
  BY <1>1, <1>2

\* A waiver appends a rung.
LEMMA SingleSourceRebuilds ==
  ASSUME NEW S, NEW p, p.current_seq \in Nat, Standing(S, p.current_seq), NEW e
  PROVE  Rebuilt(S, ApplySingleSource(S, p, e), p.current_seq)
<1>1. CASE p.waiver
  <2>1. ({SingleSourceStage(Present(S), TopStage(S), p.kind)} \ {NoStage}) \cap Present(S) = {}
    BY SingleSourceNew DEF Present
  <2>2. "single_source" \in Origins
    BY DEF Origins
  <2> QED
    BY <1>1, <2>1, <2>2, AppendRebuilds, MaxSeqTop, ControlEscType DEF Standing, ApplySingleSource
<1>2. CASE ~p.waiver
  BY <1>2 DEF ApplySingleSource, Rebuilt, Standing
<1> QED
  BY <1>1, <1>2

\* The reconciliation takes off and appends unreached rungs.
LEMMA ReconcileRebuilds ==
  ASSUME NEW S, NEW p, p.current_seq \in Nat, Standing(S, p.current_seq), NEW e
  PROVE  Rebuilt(S, Reconcile(S, p, e), p.current_seq)
<1> DEFINE cur    == p.current_seq
           target == DeptLadder(p.total + e.related, p.kind, p.domain) \cap VALUE_STAGES
           kept   == Drop(S, Ahead(S, cur, "unbudgeted") \cup Ahead(S, cur, "single_source"))
           pruned == (Ahead(kept, cur, "ladder") \cap VALUE_STAGES) \ target
           live   == Present(kept) \ {s \in VALUE_STAGES \ target :
                                        kept[s].st = "pending" /\ kept[s].seq > cur}
           hold   == [s \in live \cup target |->
                        StageSigners(e.org, s, RungRoles(s, kept[s].esc))]
           busy   == {kept[s].by : s \in {t \in Stages : kept[t].st \in {"approved", "rejected"}}}
           esc    == [s \in Stages |-> EscRole(e.org, s, Requester, hold, busy)]
           left   == Drop(kept, pruned)
           R      == AddRungs(left, target \ Present(kept), MaxSeq(kept), "ladder", esc)
<1>0. Reconcile(S, p, e) = R
  BY DEF Reconcile
<1>1. Rebuilt(S, kept, cur)
  BY DropRebuilds DEF Ahead, Unreached, Standing
<1>2. Standing(kept, cur)
  BY <1>1, RebuiltStands
<1>3. Rebuilt(kept, left, cur)
  <2>1. \A s \in pruned : Unreached(kept[s], cur)
    BY DEF Ahead, Unreached
  <2> HIDE DEF kept, pruned
  <2> QED
    BY <1>2, <2>1, DropRebuilds DEF Standing
<1>4. Rebuilt(left, R, cur)
  <2>1. Standing(left, cur)
    BY <1>2, <1>3, RebuiltStands
  <2>2. MaxSeq(kept) \in Nat /\ \A s \in Stages : left[s].seq <= MaxSeq(kept)
    <3>1. MaxSeq(kept) \in Nat /\ \A s \in Stages : kept[s].seq <= MaxSeq(kept)
      BY <1>2, MaxSeqTop DEF Standing
    <3>2. \A s \in Stages : left[s] = kept[s] \/ left[s].seq = 0
      BY DEF Drop, NoRung
    <3> HIDE DEF kept, left
    <3> QED
      BY <3>1, <3>2
  <2>3. (target \ Present(kept)) \cap Present(left) = {}
    BY DEF Drop, Present, NoRung
  <2>4. "ladder" \in Origins
    BY DEF Origins
  <2>5. \A s \in Stages : esc[s] \in SUBSET Roles
    BY EscRoleType
  <2> HIDE DEF kept, left, esc, target
  <2> QED
    BY <2>1, <2>2, <2>3, <2>4, <2>5, AppendRebuilds
<1> HIDE DEF kept, left, R
<1> QED
  BY <1>0, <1>1, <1>3, <1>4, RebuiltTrans

-----------------------------------------------------------------------------
(* Submission.                                                             *)

\* The seq a submitted request starts at is its lowest.
LEMMA FirstSeqLowest ==
  ASSUME NEW S \in Ladders, Present(S) # {}
  PROVE  \E low \in Present(S) : /\ FirstSeq(S) = S[low].seq
                                 /\ \A t \in Present(S) : S[low].seq <= S[t].seq
<1> DEFINE f == [s \in Stages |-> S[s].seq]
<1>1. \A s \in Stages : f[s] \in Int /\ f[s] = S[s].seq
  BY DEF Ladders, Rungs
<1>2. Present(S) \in SUBSET Stages
  BY DEF Present
<1>3. \E s \in Present(S) : \A t \in Present(S) : f[s] <= f[t]
  <2> HIDE DEF f
  <2> QED
    BY <1>1, <1>2, LeastStage
<1>4. \E s \in Present(S) : \A t \in Present(S) : S[s].seq <= S[t].seq
  BY <1>1, <1>2, <1>3
<1> QED
  BY <1>4 DEF FirstSeq

\* The bottom of every ladder: the warehouse, or Purchasing where there is none.
LEMMA LadderBottom ==
  ASSUME NEW total \in Int, NEW kind \in Kinds, NEW domain
  PROVE  LET base == DeptLadder(total, kind, domain)
         IN  base \subseteq Stages /\ \E s \in base : \A t \in base : Rank[s] <= Rank[t]
<1>1. DOMAIN CAPEX_MATRIX \subseteq Stages /\ DOMAIN OPEX_MATRIX = Stages
  BY DEF CAPEX_MATRIX, OPEX_MATRIX
<1>2. DeptLadder(total, kind, domain) \in SUBSET Stages
  BY <1>1 DEF DeptLadder, ApplyL2Domain, BuildLadder, Matrix
<1>3. "purchasing" \in DeptLadder(total, kind, domain)
  <2>1. "purchasing" \in DOMAIN Matrix(kind) /\ Matrix(kind)["purchasing"] = 0
    BY StagesAre DEF Matrix, CAPEX_MATRIX, OPEX_MATRIX
  <2>2. "purchasing" \in BuildLadder(total, kind)
    BY <2>1 DEF BuildLadder
  <2> QED
    BY <2>2 DEF DeptLadder, ApplyL2Domain
<1>4. \A s \in Stages : Rank[s] \in Int
  BY RankType
<1>5. \E s \in DeptLadder(total, kind, domain) :
         \A t \in DeptLadder(total, kind, domain) : Rank[s] <= Rank[t]
  BY <1>2, <1>3, <1>4, LeastStage
<1> QED
  BY <1>2, <1>5

\* A submitted ladder is well formed, has a rung, and no signature.
LEMMA SubmitStands ==
  ASSUME NEW p, p.total \in Nat, p.kind \in Kinds, NEW e, e.related \in Nat
  PROVE  LET S == SubmitLadder(p, e)
         IN  /\ S \in Ladders /\ DistinctSeqs(S) /\ Present(S) # {}
             /\ \A s \in Present(S) : S[s].st = "pending"
<1> DEFINE base  == DeptLadder(p.total + e.related, p.kind, p.domain)
           waive == IF p.waiver THEN {SingleSourceStage(base, Highest(base), p.kind)} \ {NoStage}
                    ELSE {}
           unbud == IF p.priced /\ Unbudgeted(p.total, e.headroom)
                    THEN {UnbudgetedStage(base \cup waive, p.kind)} \ {NoStage} ELSE {}
           all   == base \cup waive \cup unbud
           pos   == [s \in all |-> IF s \in base THEN Rank[s] ELSE IF s \in waive THEN 9 ELSE 10]
           hold  == [s \in all |-> StageSigners(e.org, s, StageRoles[s])]
           esc   == [s \in all |-> EscRole(e.org, s, Requester, hold, {})]
           Before(s) == {t \in all : pos[t] < pos[s]}
           absorbed  == {s \in all : /\ esc[s] # {}
                                     /\ \E t \in Before(s) :
                                          /\ esc[t] = esc[s]
                                          /\ \A u \in Before(s) : pos[u] <= pos[t]}
           S     == [s \in Stages |->
                       IF s \notin all \ absorbed THEN NoRung
                       ELSE [st |-> "pending", seq |-> pos[s], by |-> NoUser, esc |-> esc[s],
                             origin |-> IF s \in waive THEN "single_source"
                                        ELSE IF s \in unbud THEN "unbudgeted" ELSE "ladder"]]
<1>0. SubmitLadder(p, e) = S
  BY DEF SubmitLadder
<1>1. base \subseteq Stages /\ \E s \in base : \A t \in base : Rank[s] <= Rank[t]
  BY LadderBottom
<1>2. /\ \A s, t \in waive : s = t
      /\ \A s, t \in unbud : s = t
  OBVIOUS
<1>3. \A s \in all : /\ pos[s] = IF s \in base THEN Rank[s] ELSE IF s \in waive THEN 9 ELSE 10
                     /\ esc[s] \in SUBSET Roles
  BY EscRoleType
<1>4. \A s, t \in all : pos[s] = pos[t] => s = t
  <2>1. \A s \in base : Rank[s] \in 1..8
    BY <1>1, RankType
  <2>2. \A s, t \in base : Rank[s] = Rank[t] => s = t
    BY <1>1, RankType
  <2> HIDE DEF base, waive, unbud, pos
  <2> QED
    BY <1>2, <1>3, <2>1, <2>2
<1>5. \A s \in Stages : S[s].st # "none" <=> s \in all \ absorbed
  BY DEF NoRung
<1>6. \E s \in base : s \notin absorbed
  <2>1. PICK s \in base : \A t \in base : Rank[s] <= Rank[t]
    BY <1>1
  <2>2. \A t \in base : Rank[t] \in 1..8
    BY <1>1, RankType
  <2>3. ASSUME NEW t \in all PROVE ~(pos[t] < pos[s])
    <3> HIDE DEF base, waive, unbud, pos
    <3> QED
      BY <1>3, <2>1, <2>2
  <2> HIDE DEF base, pos, esc
  <2> QED
    BY <2>1, <2>3
<1>7. S \in Ladders
  <2>1. NoRung \in Rungs
    BY DEF NoRung, Rungs, StepStates, Origins
  <2>2. \A s \in Stages \cap all : pos[s] \in Nat
    BY <1>3, RankType
  <2> HIDE DEF base, waive, unbud, all, pos, esc, absorbed
  <2> QED
    BY <1>3, <2>1, <2>2 DEF Ladders, Rungs, StepStates, Origins
<1>8. \A s \in Present(S) : s \in all /\ S[s].st = "pending" /\ S[s].seq = pos[s]
  <2> HIDE DEF base, waive, unbud, all, pos, esc, absorbed
  <2> QED
    BY <1>5 DEF Present
<1>9. DistinctSeqs(S)
  <2> HIDE DEF S, all, pos
  <2> QED
    BY <1>4, <1>8 DEF DistinctSeqs
<1>10. Present(S) # {}
  <2> HIDE DEF S, base, waive, unbud, absorbed
  <2> QED
    BY <1>1, <1>5, <1>6 DEF Present
<1> HIDE DEF S
<1> QED
  BY <1>0, <1>7, <1>8, <1>9, <1>10

-----------------------------------------------------------------------------
(* The inductive invariant.                                                *)

\* Signed below n, waiting from n up, and a rung at n.
Split(S, n) ==
  /\ At(S, n) # {}
  /\ \A s \in Present(S) : S[s].st = IF S[s].seq < n THEN "approved" ELSE "pending"

\* A request the store met from the shelf: signed below, skipped above.
ClosedSplit(S) ==
  /\ \E s \in Present(S) : S[s].st = "skipped"
  /\ \A s \in Present(S) : S[s].st \in {"approved", "skipped"}
  /\ \A s, t \in Present(S) : S[s].st = "approved" /\ S[t].st = "skipped" => S[s].seq < S[t].seq

\* FourEyes, asked of every state rather than of circulating and approved ones.
Independent(S) ==
  \A s \in Signed(S) :
    /\ S[s].by \in Users \ {Requester}
    /\ ~SodAdminExempt => \A t \in Signed(S) \ {s} : S[t].by # S[s].by

Walkable(p, S) == /\ p.status = "pending" => Split(S, p.current_seq)
                  /\ p.status = "closed"  => ClosedSplit(S)

IInv == /\ TypeOK
        /\ DistinctSeqs(steps)
        /\ Walkable(pr, steps)
        /\ Independent(steps)

\* The fields of a rung.
LEMMA RungFields ==
  ASSUME NEW S \in Ladders, NEW s \in Stages
  PROVE  /\ S[s] \in Rungs /\ S[s].st \in StepStates /\ S[s].seq \in Nat
         /\ S[s].by \in Users \cup {NoUser} /\ S[s].origin \in Origins /\ S[s].esc \in SUBSET Roles
  BY DEF Ladders, Rungs

\* A split ladder stands.
LEMMA SplitStands ==
  ASSUME NEW S \in Ladders, DistinctSeqs(S), NEW n, Split(S, n)
  PROVE  Standing(S, n)
  BY DEF Split, Standing

\* Rebuilding what lies ahead keeps a ladder walkable and its signatures.
LEMMA RebuiltKeeps ==
  ASSUME NEW S \in Ladders, NEW T, NEW n, Split(S, n), Independent(S), DistinctSeqs(S),
         Rebuilt(S, T, n)
  PROVE  T \in Ladders /\ DistinctSeqs(T) /\ Split(T, n) /\ Independent(T)
<1>1. T \in Ladders /\ DistinctSeqs(T)
  BY DEF Rebuilt
<1>2. \A s \in Stages : S[s].seq \in Nat /\ T[s].seq \in Nat
  BY <1>1, RungFields
<1>3. Standing(S, n)
  BY SplitStands
<1>4. At(T, n) = At(S, n)
  BY <1>3, RebuiltStands
<1>5. n \in Nat
  BY <1>2 DEF Split, At
<1>6. ASSUME NEW s \in Present(T)
      PROVE  T[s].st = IF T[s].seq < n THEN "approved" ELSE "pending"
  <2>1. s \in Stages /\ T[s].st # "none"
    BY DEF Present
  <2>2. CASE T[s] = S[s]
    BY <2>1, <2>2 DEF Split, Present
  <2>3. CASE Unreached(T[s], n)
    BY <2>1, <2>3, <1>2, <1>5 DEF Unreached
  <2> QED
    BY <2>1, <2>2, <2>3 DEF Rebuilt
<1>7. \A s \in Signed(T) : s \in Signed(S) /\ T[s] = S[s]
  BY DEF Rebuilt, Signed, Unreached
<1>8. Independent(T)
  BY <1>7 DEF Independent
<1> QED
  BY <1>1, <1>4, <1>6, <1>8 DEF Split

\* TypeOK, spoken of ladders.
LEMMA TypeOKLadder == TypeOK <=> pr \in PRs /\ steps \in Ladders /\ env \in Envs
  BY DEF TypeOK, Ladders

\* The fields of a request.
LEMMA PRFields ==
  ASSUME NEW p \in PRs
  PROVE  /\ p.status \in Statuses /\ p.current_seq \in Nat /\ p.total \in Nat /\ p.total \in Totals
         /\ p.kind \in Kinds /\ p.quotes \in 0..MaxQuotes
  BY RequestAssumption DEF PRs

\* A step that leaves the ladder alone and keeps the request where it is, or ends it.
LEMMA FrameInv ==
  ASSUME IInv, pr' \in PRs, env' \in Envs, UNCHANGED steps,
         \/ pr'.status = pr.status /\ pr'.current_seq = pr.current_seq
         \/ pr'.status \notin {"pending", "closed"}
  PROVE  IInv'
<1>1. TypeOK'
  BY TypeOKLadder DEF IInv, TypeOK
<1>2. DistinctSeqs(steps)' /\ Independent(steps)'
  BY DEF IInv, DistinctSeqs, Independent, Present, Signed
<1>3. Walkable(pr, steps)'
  BY DEF IInv, Walkable, Split, ClosedSplit, At, Present
<1> QED
  BY <1>1, <1>2, <1>3 DEF IInv

\* A step that rebuilds what lies ahead of a circulating request.
LEMMA RebuiltInv ==
  ASSUME IInv, pr.status = "pending", pr' \in PRs, env' \in Envs,
         pr'.status = "pending", pr'.current_seq = pr.current_seq,
         Rebuilt(steps, steps', pr.current_seq)
  PROVE  IInv'
<1>1. steps \in Ladders /\ DistinctSeqs(steps) /\ Split(steps, pr.current_seq) /\ Independent(steps)
  BY TypeOKLadder DEF IInv, Walkable
<1>2. /\ steps' \in Ladders /\ DistinctSeqs(steps')
      /\ Split(steps', pr.current_seq) /\ Independent(steps')
  BY <1>1, RebuiltKeeps
<1>3. TypeOK'
  BY <1>2 DEF TypeOK, Ladders
<1>4. Walkable(pr', steps')
  BY <1>2 DEF Walkable
<1> QED
  BY <1>2, <1>3, <1>4 DEF IInv, DistinctSeqs, Independent, Walkable, Present, Signed,
                          Split, ClosedSplit, At
-----------------------------------------------------------------------------
(* The invariant, action by action.                                        *)

\* A draft has no rungs.
LEMMA InitInv == Init => IInv
<1> SUFFICES ASSUME Init PROVE IInv
  OBVIOUS
<1>1. pr \in PRs
  <2>1. PICK t \in Totals, k \in KindSet, d \in DomainSet, cited \in BOOLEAN :
              pr = NewPr(t, k, d, cited)
    BY DEF Init
  <2>2. 0 \in 0..MaxQuotes
    BY RequestAssumption
  <2> QED
    BY <2>1, <2>2 DEF NewPr, PRs, Statuses, BudgetStates
<1>2. steps \in Ladders
  BY DEF Init, Ladders, NoRung, Rungs, StepStates, Origins
<1>3. Present(steps) = {} /\ Signed(steps) = {}
  BY DEF Init, Present, Signed, NoRung
<1>4. pr.status = "draft" /\ env \in Envs
  BY DEF Init, NewPr
<1> QED
  BY <1>1, <1>2, <1>3, <1>4 DEF IInv, TypeOK, Ladders, DistinctSeqs, Walkable, Independent

\* A submitted ladder waits from its first rung up.
LEMMA SubmitInv == IInv /\ SubmitPr => IInv'
<1> SUFFICES ASSUME IInv, SubmitPr PROVE IInv'
  OBVIOUS
<1> DEFINE S == SubmitLadder(pr, env)
<1>1. pr \in PRs /\ env \in Envs /\ env.related \in Nat
  BY RequestAssumption DEF IInv, TypeOK, Envs
<1>2. /\ S \in Ladders /\ DistinctSeqs(S) /\ Present(S) # {}
      /\ \A s \in Present(S) : S[s].st = "pending"
  BY <1>1, PRFields, SubmitStands
<1>3. /\ steps' = S /\ env' = env
      /\ pr' = [pr EXCEPT !.status = "pending", !.current_seq = FirstSeq(S),
                          !.budget = IF pr.priced THEN BudgetState(pr.total, env.headroom)
                                                  ELSE "unset"]
  BY DEF SubmitPr
<1> HIDE DEF S
<1>4. PICK low \in Present(S) : /\ FirstSeq(S) = S[low].seq
                               /\ \A t \in Present(S) : S[low].seq <= S[t].seq
  BY <1>2, FirstSeqLowest
<1>5. \A s \in Present(S) : s \in Stages /\ S[s].seq \in Nat
  BY <1>2, RungFields DEF Present
<1>6. Split(S, FirstSeq(S))
  BY <1>2, <1>4, <1>5 DEF Split, At
<1>7. pr' \in PRs /\ pr'.status = "pending" /\ pr'.current_seq = FirstSeq(S)
  BY <1>1, <1>3, <1>4, <1>5 DEF PRs, Statuses, BudgetStates, BudgetState
<1>8. Independent(S)
  BY <1>2 DEF Independent, Signed, Present
<1>9. Walkable(pr', S)
  BY <1>6, <1>7 DEF Walkable
<1>10. TypeOK'
  BY <1>1, <1>2, <1>3, <1>7 DEF TypeOK, Ladders
<1> QED
  BY <1>2, <1>3, <1>8, <1>9, <1>10
  DEF IInv, DistinctSeqs, Independent, Walkable, Present, Signed, Split, ClosedSplit, At

\* Pricing is four rebuildings in a row.
LEMMA RepricedRebuilds ==
  ASSUME NEW p, NEW e, p.current_seq \in Nat, Standing(steps, p.current_seq)
  PROVE  Rebuilt(steps, Repriced(p, e), p.current_seq)
<1> DEFINE n == p.current_seq
           A == Reconcile(steps, p, e)
           B == ApplyDeviation(A, e)
           C == ApplyBudget(B, p, e)
<1>1. Rebuilt(steps, A, n) /\ Standing(A, n)
  BY ReconcileRebuilds, RebuiltStands
<1> HIDE DEF A
<1>2. Rebuilt(A, B, n) /\ Standing(B, n)
  BY <1>1, DeviationRebuilds, RebuiltStands
<1> HIDE DEF B
<1>3. Rebuilt(B, C, n) /\ Standing(C, n)
  BY <1>2, BudgetRebuilds, RebuiltStands
<1> HIDE DEF C
<1>4. Rebuilt(C, ApplySingleSource(C, p, e), n)
  BY <1>3, SingleSourceRebuilds
<1>5. Repriced(p, e) = ApplySingleSource(C, p, e)
  BY DEF Repriced, A, B, C
<1> QED
  BY <1>1, <1>2, <1>3, <1>4, <1>5, RebuiltTrans

\* Where a circulating request stands.
LEMMA PendingStands ==
  ASSUME IInv, pr.status = "pending"
  PROVE  /\ pr.current_seq \in Nat /\ Standing(steps, pr.current_seq)
         /\ steps \in Ladders /\ DistinctSeqs(steps) /\ Split(steps, pr.current_seq)
  BY TypeOKLadder, SplitStands, PRFields DEF IInv, Walkable

\* Pricing rebuilds what lies ahead.
LEMMA PriceInv ==
  ASSUME IInv, NEW u, NEW t \in Totals, NEW g \in PriceSet, PricePr(u, t, g) PROVE IInv'
<1> DEFINE p == [pr EXCEPT !.priced = TRUE, !.total = t]
           e == [env EXCEPT !.price = g]
<1>1. pr \in PRs /\ env \in Envs
  BY DEF IInv, TypeOK
<1>2. env' = e /\ e \in Envs
  BY <1>1 DEF PricePr, Envs
<1>3. p \in PRs /\ p.status = pr.status /\ p.current_seq = pr.current_seq
  BY <1>1 DEF PRs
<1>4. CASE pr.status = "pending"
  <2>1. steps' = Repriced(p, e) /\ pr' = [p EXCEPT !.budget = BudgetState(t, e.headroom)]
    BY <1>4 DEF PricePr
  <2>2. pr' \in PRs /\ pr'.status = "pending" /\ pr'.current_seq = pr.current_seq
    BY <1>3, <1>4, <2>1 DEF PRs, BudgetState, BudgetStates
  <2>3. Rebuilt(steps, steps', pr.current_seq)
    <3> HIDE DEF p, e
    <3> QED
      BY <1>3, <1>4, <2>1, PendingStands, RepricedRebuilds
  <2> QED
    BY <1>2, <1>4, <2>2, <2>3, RebuiltInv
<1>5. CASE pr.status # "pending"
  BY <1>2, <1>3, <1>5, FrameInv DEF PricePr
<1> QED
  BY <1>4, <1>5

\* So does a new exchange rate.
LEMMA FxInv == ASSUME IInv, NEW u, NEW t \in Totals, SetFx(u, t) PROVE IInv'
<1> DEFINE p == [pr EXCEPT !.total = t]
           A == Reconcile(steps, p, env)
           B == ApplyBudget(A, p, env)
           n == p.current_seq
<1>1. pr \in PRs /\ env \in Envs /\ env' = env
  BY DEF IInv, TypeOK, SetFx
<1>2. p \in PRs /\ p.status = pr.status /\ p.current_seq = pr.current_seq
  BY <1>1 DEF PRs
<1>3. CASE pr.status = "pending"
  <2>1. steps' = ApplySingleSource(B, p, env) /\ pr' = [p EXCEPT !.budget = BudgetState(t, env.headroom)]
    BY <1>3 DEF SetFx
  <2>2. pr' \in PRs /\ pr'.status = "pending" /\ pr'.current_seq = pr.current_seq
    BY <1>2, <1>3, <2>1 DEF PRs, BudgetState, BudgetStates
  <2> HIDE DEF p
  <2>3. Rebuilt(steps, A, n) /\ Standing(A, n)
    BY <1>2, <1>3, PendingStands, ReconcileRebuilds, RebuiltStands
  <2> HIDE DEF A
  <2>4. Rebuilt(A, B, n) /\ Standing(B, n)
    BY <1>2, <2>3, PRFields, BudgetRebuilds, RebuiltStands
  <2> HIDE DEF B
  <2>5. Rebuilt(B, steps', n)
    BY <1>2, <2>1, <2>4, PRFields, SingleSourceRebuilds
  <2>6. Rebuilt(steps, steps', pr.current_seq)
    BY <1>2, <2>3, <2>4, <2>5, RebuiltTrans
  <2> QED
    BY <1>1, <1>3, <2>2, <2>6, RebuiltInv
<1>4. CASE pr.status # "pending"
  BY <1>1, <1>2, <1>4, FrameInv DEF SetFx
<1> QED
  BY <1>3, <1>4

\* So does a waiver.
LEMMA WaiveInv == ASSUME IInv, NEW u, SetSingleSource(u) PROVE IInv'
<1>1. pr \in PRs /\ env \in Envs /\ env' = env
  BY DEF IInv, TypeOK, SetSingleSource
<1>2. pr' \in PRs /\ pr'.status = pr.status /\ pr'.current_seq = pr.current_seq
  BY <1>1 DEF SetSingleSource, PRs
<1>3. CASE pr.status = "pending"
  <2>1. steps' = ApplySingleSource(steps, pr', env)
    BY <1>3 DEF SetSingleSource
  <2>2. Rebuilt(steps, steps', pr.current_seq)
    BY <1>2, <1>3, <2>1, PendingStands, SingleSourceRebuilds
  <2> QED
    BY <1>1, <1>2, <1>3, <2>2, RebuiltInv
<1>4. CASE pr.status # "pending"
  BY <1>1, <1>2, <1>4, FrameInv DEF SetSingleSource
<1> QED
  BY <1>3, <1>4

\* A corrected quantity finds nothing signed above the current seq to withdraw.
LEMMA ReviseInv == ASSUME IInv, NEW u, NEW t \in Totals, WarehouseRevise(u, t) PROVE IInv'
<1> DEFINE p == [pr EXCEPT !.total = t]
           withdrawn == [s \in Stages |->
             IF steps[s].st # "none" /\ steps[s].seq > pr.current_seq /\ steps[s].st # "pending"
             THEN [steps[s] EXCEPT !.st = "pending", !.by = NoUser] ELSE steps[s]]
<1>1. pr \in PRs /\ env \in Envs /\ env' = env /\ pr.status = "pending"
  BY DEF IInv, TypeOK, WarehouseRevise, AtWarehouse
<1>2. /\ pr.current_seq \in Nat /\ Standing(steps, pr.current_seq)
      /\ steps \in Ladders /\ Split(steps, pr.current_seq)
  BY <1>1, PendingStands
<1>3. p \in PRs /\ p.status = pr.status /\ p.current_seq = pr.current_seq
  BY <1>1 DEF PRs
<1>4. pr' = p /\ steps' = Reconcile(withdrawn, p, env)
  BY DEF WarehouseRevise
<1>5. withdrawn = steps
  <2>1. ASSUME NEW s \in Stages, steps[s].st # "none", steps[s].seq > pr.current_seq
        PROVE  steps[s].st = "pending"
    <3>1. s \in Present(steps) /\ steps[s].seq \in Nat
      BY <1>2, <2>1, RungFields DEF Present
    <3> QED
      BY <1>2, <2>1, <3>1 DEF Split
  <2>2. \A s \in Stages : withdrawn[s] = steps[s]
    BY <2>1
  <2> QED
    BY <1>2, <2>2 DEF Ladders
<1>6. Rebuilt(steps, steps', pr.current_seq)
  <2> HIDE DEF p, withdrawn
  <2> QED
    BY <1>2, <1>3, <1>4, <1>5, ReconcileRebuilds
<1> QED
  BY <1>1, <1>3, <1>4, <1>6, RebuiltInv

\* Closing from the shelf skips exactly the waiting rungs.
LEMMA IssueInv == ASSUME IInv, NEW u, NEW all \in BOOLEAN, IssueFromStock(u, all) PROVE IInv'
<1>1. /\ pr \in PRs /\ env \in Envs /\ env' = env /\ pr.status = "pending"
      /\ Independent(steps)
  BY DEF IInv, TypeOK, IssueFromStock, AtWarehouse
<1>2. /\ pr.current_seq \in Nat /\ steps \in Ladders /\ DistinctSeqs(steps)
      /\ Split(steps, pr.current_seq)
  BY <1>1, PendingStands
<1>3. pr' \in PRs
  <2>1. CASE all
    <3>1. pr' = [pr EXCEPT !.issued = TRUE, !.status = "closed", !.current_seq = 0]
      BY <2>1 DEF IssueFromStock
    <3> QED
      BY <1>1, <3>1 DEF PRs, Statuses
  <2>2. CASE ~all
    <3>1. pr' = [pr EXCEPT !.issued = TRUE]
      BY <2>2 DEF IssueFromStock
    <3> QED
      BY <1>1, <3>1 DEF PRs
  <2> QED
    BY <2>1, <2>2
<1>4. CASE all
  <2>1. /\ pr'.status = "closed"
        /\ steps' = [s \in Stages |-> IF steps[s].st = "pending"
                                      THEN [steps[s] EXCEPT !.st = "skipped"] ELSE steps[s]]
    BY <1>1, <1>4 DEF IssueFromStock, PRs
  <2>2. ASSUME NEW s \in Stages
        PROVE  /\ steps'[s] \in Rungs /\ steps'[s].seq = steps[s].seq /\ steps'[s].by = steps[s].by
               /\ steps'[s].st = IF steps[s].st = "pending" THEN "skipped" ELSE steps[s].st
    BY <1>2, <2>1, RungFields DEF Rungs, StepStates
  <2>3. steps' \in Ladders
    BY <2>1, <2>2 DEF Ladders
  <2>4. Present(steps') = Present(steps) /\ Signed(steps') = Signed(steps)
    BY <2>2 DEF Present, Signed
  <2>5. DistinctSeqs(steps')
    BY <1>2, <2>2, <2>4 DEF DistinctSeqs, Present
  <2>6. Independent(steps')
    BY <1>1, <2>2, <2>4 DEF Independent, Signed
  <2>7. \A s \in Present(steps) :
          steps'[s].st = IF steps[s].seq < pr.current_seq THEN "approved" ELSE "skipped"
    BY <1>2, <2>2 DEF Split, Present
  <2>8. ClosedSplit(steps')
    <3>1. PICK s \in Present(steps) : steps'[s].st = "skipped"
      BY <1>2, <2>2 DEF Split, At, Present
    <3>2. \A t \in Present(steps) : steps[t].seq \in Nat /\ steps'[t].seq = steps[t].seq
      BY <1>2, <2>2, RungFields DEF Present
    <3> QED
      BY <1>2, <2>4, <2>7, <3>1, <3>2 DEF ClosedSplit
  <2>9. Walkable(pr', steps') /\ TypeOK'
    BY <1>1, <1>3, <2>1, <2>3, <2>8 DEF Walkable, TypeOK, Ladders
  <2> QED
    BY <2>5, <2>6, <2>9
    DEF IInv, DistinctSeqs, Independent, Walkable, Present, Signed, Split, ClosedSplit, At
<1>5. CASE ~all
  <2>1. pr' = [pr EXCEPT !.issued = TRUE] /\ UNCHANGED steps
    BY <1>5 DEF IssueFromStock
  <2> QED
    BY <1>1, <1>3, <2>1, FrameInv DEF PRs
<1> QED
  BY <1>4, <1>5

\* Reopening restarts at the lowest rung that was skipped.
LEMMA ReverseInv == ASSUME IInv, NEW u, NEW left \in BOOLEAN, ReverseStockIssue(u, left) PROVE IInv'
<1>1. /\ pr \in PRs /\ env \in Envs /\ env' = env /\ Independent(steps)
      /\ steps \in Ladders /\ DistinctSeqs(steps)
  BY DEF IInv, TypeOK, ReverseStockIssue, Ladders
<1>2. CASE pr.status = "closed"
  <2> DEFINE back == [s \in Stages |-> IF steps[s].st = "skipped"
                                       THEN [steps[s] EXCEPT !.st = "pending"] ELSE steps[s]]
             waiting == {t \in Stages : back[t].st = "pending"}
             open == {back[s].seq : s \in waiting}
  <2>1. ClosedSplit(steps)
    BY <1>2 DEF IInv, Walkable
  <2>2. ASSUME NEW s \in Stages
        PROVE  /\ back[s] \in Rungs /\ back[s].seq = steps[s].seq /\ back[s].by = steps[s].by
               /\ back[s].st = IF steps[s].st = "skipped" THEN "pending" ELSE steps[s].st
               /\ steps[s].seq \in Nat
    BY <1>1, RungFields DEF Rungs, StepStates
  <2>3. /\ steps' = back
        /\ pr' = [pr EXCEPT !.issued = left, !.status = "pending",
                    !.current_seq = IF open = {} THEN 1
                                    ELSE CHOOSE n \in open : \A m \in open : n <= m]
    BY <1>2 DEF ReverseStockIssue
  <2>4. back \in Ladders
    BY <2>2 DEF Ladders
  <2> HIDE DEF back
  <2>5. Present(back) = Present(steps) /\ Signed(back) = Signed(steps)
    BY <2>2 DEF Present, Signed
  <2>6. waiting \in SUBSET Stages /\ waiting # {}
    BY <2>1, <2>2 DEF ClosedSplit, Present
  <2>7. PICK low \in waiting : \A t \in waiting : back[low].seq <= back[t].seq
    <3> DEFINE f == [s \in Stages |-> back[s].seq]
    <3>1. \A s \in Stages : f[s] \in Int /\ f[s] = back[s].seq
      BY <2>2
    <3>2. \E s \in waiting : \A t \in waiting : f[s] <= f[t]
      <4> HIDE DEF f, waiting
      <4> QED
        BY <2>6, <3>1, LeastStage
    <3> HIDE DEF f
    <3> QED
      BY <3>1, <3>2
  <2>8. back[low].seq \in open /\ \A m \in open : back[low].seq <= m
    BY <2>7
  <2>9. /\ \A n \in open : n \in Nat
        /\ (CHOOSE n \in open : \A m \in open : n <= m) = back[low].seq
    <3>1. \A n \in open : n \in Nat
      BY <2>2
    <3> HIDE DEF open
    <3>2. \A n \in open : (\A m \in open : n <= m) => n = back[low].seq
      BY <2>8, <3>1
    <3> QED
      BY <2>8, <3>1, <3>2
  <2>10. pr' \in PRs /\ pr'.status = "pending" /\ pr'.current_seq = back[low].seq
    <3>1. pr' = [pr EXCEPT !.issued = left, !.status = "pending", !.current_seq = back[low].seq]
      <4> HIDE DEF open
      <4> QED
        BY <2>3, <2>8, <2>9
    <3> QED
      BY <1>1, <2>2, <3>1 DEF PRs, Statuses
  <2>11. Split(back, back[low].seq)
    <3>1. low \in At(back, back[low].seq)
      BY DEF At
    <3>2. ASSUME NEW s \in Present(back)
          PROVE  back[s].st = IF back[s].seq < back[low].seq THEN "approved" ELSE "pending"
      <4>1. s \in Stages /\ s \in Present(steps) /\ low \in Present(steps) /\ low \in Stages
        BY <2>5, <2>6 DEF Present
      <4>2. steps[low].st = "skipped"
        BY <2>1, <2>2, <4>1 DEF ClosedSplit
      <4>3. CASE steps[s].st = "approved"
        BY <2>1, <2>2, <4>1, <4>2, <4>3 DEF ClosedSplit
      <4>4. CASE steps[s].st = "skipped"
        <5>1. back[s].st = "pending"
          BY <2>2, <4>1, <4>4
        <5>2. back[low].seq <= back[s].seq
          BY <2>7, <4>1, <5>1
        <5> QED
          BY <2>2, <4>1, <5>1, <5>2
      <4> QED
        BY <2>1, <4>1, <4>3, <4>4 DEF ClosedSplit
    <3> QED
      BY <3>1, <3>2 DEF Split
  <2>12. DistinctSeqs(back) /\ Independent(back)
    BY <1>1, <2>2, <2>5 DEF DistinctSeqs, Independent, Present, Signed
  <2>13. Walkable(pr', steps') /\ TypeOK'
    BY <1>1, <2>3, <2>4, <2>10, <2>11 DEF Walkable, TypeOK, Ladders
  <2> QED
    BY <2>3, <2>12, <2>13
    DEF IInv, DistinctSeqs, Independent, Walkable, Present, Signed, Split, ClosedSplit, At
<1>3. CASE pr.status # "closed"
  <2>1. pr' = [pr EXCEPT !.issued = left] /\ UNCHANGED steps
    BY <1>3 DEF ReverseStockIssue
  <2> QED
    BY <1>1, <2>1, FrameInv DEF PRs
<1> QED
  BY <1>2, <1>3

\* Editing before circulation, quotations, papers, holds and cancellation leave the
\* ladder alone.
LEMMA UpdateInv ==
  ASSUME IInv, NEW t \in Totals, NEW k \in KindSet, NEW d \in DomainSet, NEW c \in BOOLEAN,
         UpdatePr(t, k, d, c)
  PROVE  IInv'
<1>1. pr \in PRs /\ env \in Envs /\ env' = env /\ UNCHANGED steps
  BY DEF IInv, TypeOK, UpdatePr
<1>2. pr' = [pr EXCEPT !.total = t, !.kind = k, !.domain = d, !.issued = FALSE,
                       !.priced = c /\ @]
  BY DEF UpdatePr
<1>3. (c /\ pr.priced) \in BOOLEAN
  BY <1>1 DEF PRs
<1>4. pr' \in PRs /\ pr'.status = pr.status /\ pr'.current_seq = pr.current_seq
  BY <1>1, <1>2, <1>3 DEF PRs
<1> QED
  BY <1>1, <1>4, FrameInv

\* Quotations leave the ladder alone.
LEMMA QuotesInv ==
  ASSUME IInv, \/ DeleteQuote \/ \E u \in Users : AddQuote(u) \/ ChooseQuote(u)
  PROVE  IInv'
<1>1. pr \in PRs /\ env \in Envs /\ env' = env /\ UNCHANGED steps
  BY DEF IInv, TypeOK, DeleteQuote, AddQuote, ChooseQuote
<1>2. pr.quotes \in 0..MaxQuotes /\ MaxQuotes \in Nat
  BY <1>1, RequestAssumption DEF PRs
<1>3. /\ pr' \in PRs
      /\ pr'.status = pr.status /\ pr'.current_seq = pr.current_seq
  <2>1. CASE DeleteQuote
    <3>1. pr' = [pr EXCEPT !.quotes = @ - 1] /\ pr.quotes - 1 \in 0..MaxQuotes
      BY <1>2, <2>1 DEF DeleteQuote
    <3> QED
      BY <1>1, <3>1 DEF PRs
  <2>2. ASSUME NEW u \in Users, AddQuote(u)
        PROVE  pr' \in PRs /\ pr'.status = pr.status /\ pr'.current_seq = pr.current_seq
    <3>1. pr' = [pr EXCEPT !.quotes = @ + 1] /\ pr.quotes + 1 \in 0..MaxQuotes
      BY <1>2, <2>2 DEF AddQuote
    <3> QED
      BY <1>1, <3>1 DEF PRs
  <2>3. ASSUME NEW u \in Users, ChooseQuote(u)
        PROVE  pr' \in PRs /\ pr'.status = pr.status /\ pr'.current_seq = pr.current_seq
    <3>1. pr' = [pr EXCEPT !.chosen = TRUE]
      BY <2>3 DEF ChooseQuote
    <3> QED
      BY <1>1, <3>1 DEF PRs
  <2> QED
    BY <2>1, <2>2, <2>3
<1> QED
  BY <1>1, <1>3, FrameInv

\* So do papers.
LEMMA PapersInv == ASSUME IInv, SetDoamDocument \/ AttachEjr PROVE IInv'
<1>1. pr \in PRs /\ env \in Envs /\ env' = env /\ UNCHANGED steps
  BY DEF IInv, TypeOK, SetDoamDocument, AttachEjr
<1>2. \/ pr' = [pr EXCEPT !.memo = TRUE]
      \/ pr' = [pr EXCEPT !.bcase = TRUE]
      \/ pr' = [pr EXCEPT !.ejr = TRUE]
  BY DEF SetDoamDocument, AttachEjr
<1>3. pr' \in PRs /\ pr'.status = pr.status /\ pr'.current_seq = pr.current_seq
  BY <1>1, <1>2 DEF PRs
<1> QED
  BY <1>1, <1>3, FrameInv

\* So do holds; cancelling ends the request.
LEMMA HoldsInv ==
  ASSUME IInv, NEW u, HoldRequest(u) \/ ResumeRequest(u) \/ CancelPr(u) PROVE IInv'
<1>1. pr \in PRs /\ env \in Envs /\ env' = env /\ UNCHANGED steps
  BY DEF IInv, TypeOK, HoldRequest, ResumeRequest, CancelPr
<1>2. \/ pr' = [pr EXCEPT !.held = TRUE]
      \/ pr' = [pr EXCEPT !.held = FALSE]
      \/ pr' = [pr EXCEPT !.status = "cancelled", !.current_seq = 0]
  BY DEF HoldRequest, ResumeRequest, CancelPr
<1>3. /\ pr' \in PRs
      /\ \/ pr'.status = pr.status /\ pr'.current_seq = pr.current_seq
         \/ pr'.status \notin {"pending", "closed"}
  <2>1. CASE pr' = [pr EXCEPT !.held = TRUE]
    BY <1>1, <2>1 DEF PRs
  <2>2. CASE pr' = [pr EXCEPT !.held = FALSE]
    BY <1>1, <2>2 DEF PRs
  <2>3. CASE pr' = [pr EXCEPT !.status = "cancelled", !.current_seq = 0]
    BY <1>1, <2>3 DEF PRs, Statuses
  <2> QED
    BY <1>2, <2>1, <2>2, <2>3
<1> QED
  BY <1>1, <1>3, FrameInv

\* So do the surroundings.
LEMMA WorldInv == ASSUME IInv, World PROVE IInv'
  BY FrameInv DEF World, IInv, TypeOK

\* Reading the masters again at a signature rebuilds what lies ahead.
LEMMA RegradedRebuilds ==
  ASSUME NEW s, Standing(steps, pr.current_seq), pr.current_seq \in Nat
  PROVE  Rebuilt(steps, Regraded(s), pr.current_seq)
<1>1. Rebuilt(steps, steps, pr.current_seq)
  BY DEF Rebuilt, Standing
<1>2. Rebuilt(steps, ApplyDeviation(steps, env), pr.current_seq)
  BY DeviationRebuilds
<1> QED
  BY <1>1, <1>2 DEF Regraded

\* A refused signature rebuilds at most what lies ahead.
LEMMA RefusedInv == ASSUME IInv, NEW u, NEW s, RefusedForDocument(u, s) PROVE IInv'
<1>1. pr \in PRs /\ env \in Envs /\ env' = env /\ pr' = pr /\ pr.status = "pending"
  BY DEF IInv, TypeOK, RefusedForDocument, Acceptable, MayDecide
<1>2. Rebuilt(steps, steps', pr.current_seq)
  BY <1>1, PendingStands, RegradedRebuilds DEF RefusedForDocument
<1> QED
  BY <1>1, <1>2, RebuiltInv

\* A rejection puts one name on one rung and ends circulation.
LEMMA RejectInv == ASSUME IInv, NEW u \in Users, NEW s, Reject(u, s) PROVE IInv'
<1>1. /\ pr \in PRs /\ env \in Envs /\ env' = env /\ Independent(steps)
      /\ steps \in Ladders /\ DistinctSeqs(steps) /\ s \in Stages /\ steps[s].st = "pending"
  BY DEF IInv, TypeOK, Ladders, Reject, MayDecide, At
<1>2. /\ steps' = [steps EXCEPT ![s].st = "rejected", ![s].by = u]
      /\ pr' = [pr EXCEPT !.status = "rejected"]
  BY DEF Reject
<1>3. pr' \in PRs /\ pr'.status = "rejected"
  BY <1>1, <1>2 DEF PRs, Statuses
<1>4. ASSUME NEW t \in Stages
      PROVE  /\ steps'[t] \in Rungs /\ steps'[t].seq = steps[t].seq
             /\ t # s => steps'[t] = steps[t]
             /\ t = s => steps'[t].st = "rejected"
  BY <1>1, <1>2, RungFields DEF Rungs, StepStates, Ladders
<1>5. steps' \in Ladders
  BY <1>1, <1>2, <1>4 DEF Ladders
<1>6. Present(steps') = Present(steps) /\ Signed(steps') = Signed(steps)
  BY <1>1, <1>4 DEF Present, Signed
<1>7. DistinctSeqs(steps') /\ Independent(steps')
  BY <1>1, <1>4, <1>6 DEF DistinctSeqs, Independent, Present, Signed
<1>8. Walkable(pr', steps') /\ TypeOK'
  BY <1>1, <1>3, <1>5 DEF Walkable, TypeOK, Ladders
<1> QED
  BY <1>7, <1>8
  DEF IInv, DistinctSeqs, Independent, Walkable, Present, Signed, Split, ClosedSplit, At

\* After send_back everything from the chosen rung up waits.
LEMMA SendBackInv ==
  ASSUME IInv, NEW u, NEW s \in Present(steps), SendBack(u, s) PROVE IInv'
<1>1. /\ pr \in PRs /\ env \in Envs /\ env' = env /\ Independent(steps)
      /\ steps \in Ladders /\ DistinctSeqs(steps) /\ s \in Stages /\ steps[s].st # "none"
      /\ pr.status = "pending" /\ steps[s].seq < pr.current_seq
  BY DEF IInv, TypeOK, Ladders, SendBack, Present
<1>2. Split(steps, pr.current_seq) /\ pr.current_seq \in Nat
  BY <1>1, PendingStands
<1>3. /\ steps' = [t \in Stages |->
                    IF steps[t].st # "none" /\ steps[t].seq >= steps[s].seq
                    THEN [steps[t] EXCEPT !.st = "pending", !.by = NoUser] ELSE steps[t]]
      /\ pr' = [pr EXCEPT !.current_seq = steps[s].seq]
  BY DEF SendBack
<1>4. ASSUME NEW t \in Stages
      PROVE  /\ steps'[t] \in Rungs /\ steps'[t].seq = steps[t].seq /\ steps[t].seq \in Nat
             /\ IF steps[t].st # "none" /\ steps[t].seq >= steps[s].seq
                THEN steps'[t].st = "pending" ELSE steps'[t] = steps[t]
  BY <1>1, <1>3, RungFields DEF Rungs, StepStates
<1>5. steps' \in Ladders
  BY <1>3, <1>4 DEF Ladders
<1>6. /\ Present(steps') = Present(steps)
      /\ \A t \in Signed(steps') : t \in Signed(steps) /\ steps'[t] = steps[t]
  BY <1>4 DEF Present, Signed
<1>7. DistinctSeqs(steps') /\ Independent(steps')
  BY <1>1, <1>4, <1>6 DEF DistinctSeqs, Independent, Present
<1>8. Split(steps', steps[s].seq)
  <2>1. s \in At(steps', steps[s].seq)
    BY <1>1, <1>4 DEF At
  <2>2. ASSUME NEW t \in Present(steps')
        PROVE  steps'[t].st = IF steps'[t].seq < steps[s].seq THEN "approved" ELSE "pending"
    <3>1. t \in Stages /\ steps[t].st # "none" /\ steps[t].seq \in Nat /\ steps[s].seq \in Nat
      BY <1>1, <1>4, <1>6 DEF Present
    <3>2. CASE steps[t].seq >= steps[s].seq
      BY <1>4, <3>1, <3>2
    <3>3. CASE steps[t].seq < steps[s].seq
      BY <1>1, <1>2, <1>4, <3>1, <3>3 DEF Split, Present
    <3> QED
      BY <3>1, <3>2, <3>3
  <2> QED
    BY <2>1, <2>2 DEF Split
<1>9. pr' \in PRs /\ pr'.status = "pending" /\ pr'.current_seq = steps[s].seq
  BY <1>1, <1>3, <1>4 DEF PRs
<1>10. Walkable(pr', steps') /\ TypeOK'
  BY <1>1, <1>5, <1>8, <1>9 DEF Walkable, TypeOK, Ladders
<1> QED
  BY <1>7, <1>10
  DEF IInv, DistinctSeqs, Independent, Walkable, Present, Signed, Split, ClosedSplit, At

\* The signature: the rung at n leaves no rung at n, and the chain moves to the
\* lowest one waiting above it.
LEMMA ApproveInv == ASSUME IInv, NEW u \in Users, NEW s, Approve(u, s) PROVE IInv'
<1> DEFINE n == pr.current_seq
           R == Regraded(s)
           S == [R EXCEPT ![s].st = "approved", ![s].by = u]
           waiting == {t \in Stages : S[t].st = "pending" /\ S[t].seq > n}
           ahead == {S[x].seq : x \in waiting}
<1>1. /\ pr \in PRs /\ env \in Envs /\ env' = env /\ pr.status = "pending"
      /\ s \in At(steps, n) /\ ~DualRole(u, s) /\ u # Requester
      /\ Independent(steps) /\ n \in Nat
  BY PRFields DEF IInv, TypeOK, Approve, Acceptable, MayDecide, SelfApproval
<1>2. /\ R \in Ladders /\ DistinctSeqs(R) /\ Split(R, n) /\ Independent(R)
      /\ At(R, n) = At(steps, n)
      /\ \A t \in Signed(R) : t \in Signed(steps) /\ R[t] = steps[t]
  <2>1. Rebuilt(steps, R, n) /\ steps \in Ladders /\ DistinctSeqs(steps) /\ Split(steps, n)
    BY <1>1, PendingStands, RegradedRebuilds
  <2> HIDE DEF R
  <2>2. R \in Ladders /\ DistinctSeqs(R) /\ Split(R, n) /\ Independent(R)
    BY <1>1, <2>1, RebuiltKeeps
  <2>3. At(R, n) = At(steps, n)
    BY <2>1, SplitStands, RebuiltStands
  <2> QED
    BY <2>1, <2>2, <2>3 DEF Rebuilt, Signed, Unreached
<1>3. /\ steps' = S
      /\ pr' = IF At(S, n) # {} THEN pr
               ELSE IF ahead # {}
               THEN [pr EXCEPT !.current_seq = CHOOSE k \in ahead : \A m \in ahead : k <= m]
               ELSE [pr EXCEPT !.status = "approved", !.current_seq = 0]
  BY DEF Approve
<1> HIDE DEF R
<1>4. s \in Stages /\ R[s].st = "pending" /\ R[s].seq = n
  BY <1>1, <1>2 DEF At
<1>5. ASSUME NEW t \in Stages
      PROVE  /\ S[t] \in Rungs /\ S[t].seq = R[t].seq /\ R[t].seq \in Nat
             /\ t # s => S[t] = R[t]
             /\ t = s => S[t].st = "approved" /\ S[t].by = u
  BY <1>1, <1>2, <1>4, RungFields DEF Rungs, StepStates, Ladders
<1>6. S \in Ladders
  BY <1>2, <1>4, <1>5 DEF Ladders
<1> HIDE DEF S
<1>7. Present(S) = Present(R) /\ Signed(S) = Signed(R) \cup {s} /\ s \in Present(R)
  BY <1>4, <1>5 DEF Present, Signed
<1>8. DistinctSeqs(S)
  BY <1>2, <1>5, <1>7 DEF DistinctSeqs, Present
<1>9. Independent(S)
  <2>1. ASSUME NEW t \in Signed(R) PROVE R[t].by \in Users \ {Requester}
    BY <1>2, <2>1 DEF Independent
  <2>2. ASSUME ~SodAdminExempt, NEW t \in Signed(R) PROVE R[t].by # u
    BY <1>1, <1>2, <1>4, <2>2 DEF DualRole, Signed
  <2>3. s \notin Signed(R) /\ \A t \in Signed(R) : t \in Stages /\ S[t] = R[t]
    BY <1>4, <1>5 DEF Signed
  <2>4. S[s].by = u
    BY <1>4, <1>5
  <2> QED
    BY <1>1, <1>2, <1>7, <2>1, <2>2, <2>3, <2>4 DEF Independent
<1>10. /\ At(S, n) = {}
       /\ \A t \in Present(S) : \/ S[t].st = "approved" /\ S[t].seq <= n
                                \/ S[t].st = "pending" /\ S[t].seq > n
  <2>1. ASSUME NEW t \in Present(R), t # s
        PROVE  R[t].seq # n /\ R[t].st = IF R[t].seq < n THEN "approved" ELSE "pending"
    BY <1>2, <1>4, <1>7, <2>1 DEF DistinctSeqs, Split
  <2>2. ASSUME NEW t \in Present(S)
        PROVE  \/ S[t].st = "approved" /\ S[t].seq <= n
               \/ S[t].st = "pending" /\ S[t].seq > n
    <3>1. t \in Stages /\ t \in Present(R) /\ R[t].seq \in Nat
      BY <1>5, <1>7 DEF Present
    <3>2. CASE t = s
      BY <1>1, <1>4, <1>5, <3>1, <3>2
    <3>3. CASE t # s
      BY <1>1, <1>5, <2>1, <3>1, <3>3
    <3> QED
      BY <3>2, <3>3
  <2>3. At(S, n) \subseteq Present(S) /\ \A t \in At(S, n) : S[t].st = "pending" /\ S[t].seq = n
    BY DEF At, Present
  <2> QED
    BY <1>1, <2>2, <2>3
<1>11. ASSUME ahead # {} PROVE pr' \in PRs /\ Walkable(pr', S)
  <2>1. PICK low \in waiting : \A t \in waiting : S[low].seq <= S[t].seq
    <3> DEFINE f == [t \in Stages |-> S[t].seq]
    <3>1. \A t \in Stages : f[t] \in Int /\ f[t] = S[t].seq
      BY <1>5
    <3>2. waiting \in SUBSET Stages /\ waiting # {}
      BY <1>11
    <3>3. \E t \in waiting : \A x \in waiting : f[t] <= f[x]
      <4> HIDE DEF f, waiting
      <4> QED
        BY <3>1, <3>2, LeastStage
    <3> HIDE DEF f
    <3> QED
      BY <3>1, <3>3
  <2>2. (CHOOSE k \in ahead : \A m \in ahead : k <= m) = S[low].seq
    <3>1. \A k \in ahead : k \in Nat
      BY <1>5
    <3>2. S[low].seq \in ahead /\ \A m \in ahead : S[low].seq <= m
      BY <2>1
    <3> HIDE DEF ahead
    <3>3. \A k \in ahead : (\A m \in ahead : k <= m) => k = S[low].seq
      BY <3>1, <3>2
    <3> QED
      BY <3>2, <3>3
  <2>3. pr' = [pr EXCEPT !.current_seq = S[low].seq]
    <3> HIDE DEF ahead
    <3> QED
      BY <1>3, <1>10, <1>11, <2>2
  <2>4. pr' \in PRs /\ pr'.status = "pending" /\ pr'.current_seq = S[low].seq
    BY <1>1, <1>5, <2>3 DEF PRs
  <2>5. Split(S, S[low].seq)
    <3>1. low \in Stages /\ S[low].st = "pending" /\ S[low].seq > n /\ S[low].seq \in Nat
      BY <1>5, <2>1
    <3>2. low \in At(S, S[low].seq)
      BY <3>1 DEF At
    <3>3. ASSUME NEW t \in Present(S)
          PROVE  S[t].st = IF S[t].seq < S[low].seq THEN "approved" ELSE "pending"
      <4>1. t \in Stages /\ S[t].seq \in Nat
        BY <1>5 DEF Present
      <4>2. CASE S[t].st = "approved" /\ S[t].seq <= n
        BY <1>1, <3>1, <4>1, <4>2
      <4>3. CASE S[t].st = "pending" /\ S[t].seq > n
        BY <1>1, <2>1, <3>1, <4>1, <4>3
      <4> QED
        BY <1>10, <4>2, <4>3
    <3> QED
      BY <3>2, <3>3 DEF Split
  <2> QED
    BY <2>4, <2>5 DEF Walkable
<1>12. ASSUME ahead = {} PROVE pr' \in PRs /\ Walkable(pr', S)
  <2>1. pr' = [pr EXCEPT !.status = "approved", !.current_seq = 0]
    <3> HIDE DEF ahead
    <3> QED
      BY <1>3, <1>10, <1>12
  <2> QED
    BY <1>1, <2>1 DEF PRs, Statuses, Walkable
<1>13. pr' \in PRs /\ Walkable(pr', S)
  BY <1>11, <1>12
<1>14. TypeOK'
  BY <1>1, <1>3, <1>6, <1>13 DEF TypeOK, Ladders
<1> QED
  BY <1>3, <1>8, <1>9, <1>13, <1>14
  DEF IInv, DistinctSeqs, Independent, Walkable, Present, Signed, Split, ClosedSplit, At

-----------------------------------------------------------------------------
(* The theorems.                                                           *)

\* Every step keeps the invariant.
LEMMA NextInv == IInv /\ [Next]_vars => IInv'
<1> SUFFICES ASSUME IInv, [Next]_vars PROVE IInv'
  OBVIOUS
<1>1. ASSUME NEW t \in Totals, NEW k \in KindSet, NEW d \in DomainSet, NEW c \in BOOLEAN,
             UpdatePr(t, k, d, c)
      PROVE  IInv'
  BY <1>1, UpdateInv
<1>2. CASE SubmitPr
  BY <1>2, SubmitInv
<1>3. ASSUME NEW u \in Users, NEW t \in Totals, NEW g \in PriceSet, PricePr(u, t, g)
      PROVE  IInv'
  BY <1>3, PriceInv
<1>4. ASSUME NEW u \in Users, NEW t \in Totals, SetFx(u, t) \/ WarehouseRevise(u, t) PROVE IInv'
  BY <1>4, FxInv, ReviseInv
<1>5. ASSUME NEW u \in Users, SetSingleSource(u) \/ AddQuote(u) \/ ChooseQuote(u) PROVE IInv'
  BY <1>5, WaiveInv, QuotesInv
<1>6. ASSUME NEW u \in Users, NEW b \in BOOLEAN, IssueFromStock(u, b) \/ ReverseStockIssue(u, b)
      PROVE  IInv'
  BY <1>6, IssueInv, ReverseInv
<1>7. ASSUME NEW u \in Users, HoldRequest(u) \/ ResumeRequest(u) \/ CancelPr(u) PROVE IInv'
  BY <1>7, HoldsInv
<1>8. ASSUME NEW s \in At(steps, pr.current_seq), NEW u \in Users,
             Approve(u, s) \/ RefusedForDocument(u, s) \/ Reject(u, s)
      PROVE  IInv'
  BY <1>8, ApproveInv, RefusedInv, RejectInv
<1>9. ASSUME NEW s \in Present(steps), NEW u \in Users, SendBack(u, s) PROVE IInv'
  BY <1>9, SendBackInv
<1>10. CASE DeleteQuote \/ SetDoamDocument \/ AttachEjr
  BY <1>10, QuotesInv, PapersInv
<1>11. CASE World
  BY <1>11, WorldInv
<1>12. CASE UNCHANGED vars
  BY <1>12
  DEF vars, IInv, TypeOK, DistinctSeqs, Walkable, Independent, Split, ClosedSplit,
      At, Present, Signed
<1> QED
  BY <1>1, <1>2, <1>3, <1>4, <1>5, <1>6, <1>7, <1>8, <1>9, <1>10, <1>11, <1>12 DEF Next

\* The invariant holds throughout.
LEMMA Inductive == Spec => []IInv
  BY InitInv, NextInv, PTL DEF Spec

\* Every state a request, its ladder and its surroundings reach is well formed:
\* no function writes a status, a seq, a signer or a total outside its range.
THEOREM TypeCorrect == Spec => []TypeOK
<1>1. IInv => TypeOK
  BY DEF IInv
<1> QED
  BY <1>1, Inductive, PTL

\* For every roster, matrix of roles, set of amounts and budgets: a circulating
\* request always has a rung at its current seq, everything below it is signed and
\* everything from it up is waiting.
THEOREM NeverStuck == Spec => []LadderSplit
<1>1. IInv => LadderSplit
  BY DEF IInv, Walkable, Split, LadderSplit
<1> QED
  BY <1>1, Inductive, PTL

\* For every roster, whatever was lent, escalated, priced again or sent back: no
\* signature is the requester's, and no two are one person's (unless the
\* sod_admin_exempt setting lets an administrator sign twice).
THEOREM IndependentSigners == Spec => []FourEyes
<1>1. IInv => FourEyes
  BY DEF IInv, Independent, FourEyes
<1> QED
  BY <1>1, Inductive, PTL

-----------------------------------------------------------------------------
(***************************************************************************)
(* What an approved request carries: the signatures its value asks for,    *)
(* the quotations, the L1 authority of unbudgeted spend, the stages the    *)
(* deviation grades add, and the order in which signatures are withdrawn.  *)
(*                                                                         *)
(* submit_pr may fold a rung into an escalated one below it, and no column *)
(* says so.  The invariant here therefore speaks of a ladder that covers   *)
(* its value OR holds an escalated rung, and says which rungs of a ladder  *)
(* no control ever takes off.                                              *)
(***************************************************************************)
(* The tables.                                                             *)

\* The rungs reconciled with the value, and the demand rungs below them.
LEMMA ValueStagesAre ==
  /\ VALUE_STAGES = {"factory_manager", "scd", "cfo", "ceo", "bod"}
  /\ Stages \ VALUE_STAGES = {"warehouse", "warehouse_manager", "purchasing"}
  BY StagesAre DEF VALUE_STAGES, OPEX_MATRIX

\* Above L4 there are value rungs only.
LEMMA LevelsAre ==
  \A s \in Stages : /\ DOAM_LEVEL[s] \in {L4, L2, L1, BOD}
                    /\ DOAM_LEVEL[s] > L4 => s \in VALUE_STAGES
<1>1. ASSUME NEW s \in Stages
      PROVE  DOAM_LEVEL[s] \in {L4, L2, L1, BOD} /\ (DOAM_LEVEL[s] > L4 => s \in VALUE_STAGES)
  BY StagesAre, ValueStagesAre DEF DOAM_LEVEL, L4, L2, L1, BOD
<1> QED
  BY <1>1

\* The demand rungs have the lowest ranks.
LEMMA DemandRanks ==
  \A s \in Stages : s \notin VALUE_STAGES <=> Rank[s] <= 3
<1>1. ASSUME NEW s \in Stages PROVE s \notin VALUE_STAGES <=> Rank[s] <= 3
  <2>1. Rank[s] \in 1..8 /\ DOAM_LADDER[Rank[s]] = s
    BY RankType
  <2>2. Rank[s] \in {1, 2, 3, 4, 5, 6, 7, 8}
    BY <2>1
  <2> QED
    BY <2>1, <2>2, ValueStagesAre DEF DOAM_LADDER
<1> QED
  BY <1>1

\* A larger commitment asks for every signature a smaller one asks for, and for
\* the same demand rungs.
LEMMA LadderGrows ==
  ASSUME NEW a \in Nat, NEW b \in Nat, a <= b, NEW kind, NEW domain
  PROVE  /\ DeptLadder(a, kind, domain) \subseteq DeptLadder(b, kind, domain)
         /\ DeptLadder(a, kind, domain) \ VALUE_STAGES = DeptLadder(b, kind, domain) \ VALUE_STAGES
         /\ DeptLadder(a, kind, domain) \subseteq Stages
         /\ "purchasing" \in DeptLadder(a, kind, domain)
<1>1. \A s \in Stages : OPEX_MATRIX[s] \in Nat
  BY StagesAre DEF OPEX_MATRIX
<1>2. /\ DOMAIN CAPEX_MATRIX \subseteq Stages /\ DOMAIN OPEX_MATRIX = Stages
      /\ \A s \in DOMAIN CAPEX_MATRIX : CAPEX_MATRIX[s] \in Nat
  BY StagesAre DEF OPEX_MATRIX, CAPEX_MATRIX
<1>3. \A s \in DOMAIN Matrix(kind) : Matrix(kind)[s] \in Nat /\ s \in Stages
  BY <1>1, <1>2 DEF Matrix
<1>4. /\ BuildLadder(a, kind) \subseteq BuildLadder(b, kind)
      /\ BuildLadder(b, kind) \subseteq Stages
  BY <1>3 DEF BuildLadder
<1>5. ASSUME NEW s \in DOMAIN Matrix(kind), s \notin VALUE_STAGES PROVE Matrix(kind)[s] = 0
  BY <1>3, <1>5, ValueStagesAre, StagesAre DEF Matrix, OPEX_MATRIX, CAPEX_MATRIX
<1>6. BuildLadder(a, kind) \ VALUE_STAGES = BuildLadder(b, kind) \ VALUE_STAGES
  BY <1>3, <1>5 DEF BuildLadder
<1>7. "purchasing" \in BuildLadder(a, kind)
  BY StagesAre DEF Matrix, BuildLadder, OPEX_MATRIX, CAPEX_MATRIX
<1>8. CASE kind = "capex"
  BY <1>4, <1>6, <1>7, <1>8 DEF DeptLadder
<1>9. CASE kind # "capex"
  <2>1. \A n \in {a, b} : "factory_manager" \in BuildLadder(n, kind)
                            <=> "scd" \in BuildLadder(n, kind)
    BY <1>9, StagesAre DEF BuildLadder, Matrix, OPEX_MATRIX
  <2>2. L2_DOMAIN_STAGE = [d \in {"plant", "supply_chain"} |->
                             IF d = "plant" THEN "factory_manager" ELSE "scd"]
    BY DEF L2_DOMAIN_STAGE
  <2>3. \A n \in {a, b} :
          ApplyL2Domain(BuildLadder(n, kind), domain) =
            IF domain \in DOMAIN L2_DOMAIN_STAGE
            THEN BuildLadder(n, kind) \ ({"factory_manager", "scd"} \ {L2_DOMAIN_STAGE[domain]})
            ELSE BuildLadder(n, kind)
    <3>1. ASSUME NEW n \in {a, b}, domain \in DOMAIN L2_DOMAIN_STAGE,
                 ~({"factory_manager", "scd"} \subseteq BuildLadder(n, kind))
          PROVE  BuildLadder(n, kind) \ ({"factory_manager", "scd"} \ {L2_DOMAIN_STAGE[domain]})
                   = BuildLadder(n, kind)
      BY <2>1, <3>1
    <3> QED
      BY <3>1 DEF ApplyL2Domain
  <2>4. {"factory_manager", "scd"} \subseteq VALUE_STAGES /\ "purchasing" \notin VALUE_STAGES
    BY ValueStagesAre
  <2>5. /\ DeptLadder(a, kind, domain) = ApplyL2Domain(BuildLadder(a, kind), domain)
        /\ DeptLadder(b, kind, domain) = ApplyL2Domain(BuildLadder(b, kind), domain)
    BY <1>9 DEF DeptLadder
  <2> QED
    BY <1>4, <1>6, <1>7, <2>3, <2>4, <2>5
<1> QED
  BY <1>8, <1>9

-----------------------------------------------------------------------------
(* What the controls add.                                                  *)

\* Among finitely many stages one has the greatest rank.
LEMMA HighestIn == ASSUME NEW P \in SUBSET Stages, P # {} PROVE Highest(P) \in P
<1> DEFINE f == [s \in Stages |-> -Rank[s]]
<1>1. \A s \in Stages : Rank[s] \in Int /\ f[s] \in Int
  BY RankType
<1>2. \E s \in P : \A t \in P : f[s] <= f[t]
  <2> HIDE DEF f
  <2> QED
    BY <1>1, LeastStage
<1>3. \E s \in P : \A t \in P : Rank[t] <= Rank[s]
  <2>1. PICK s \in P : \A t \in P : f[s] <= f[t]
    BY <1>2
  <2>2. ASSUME NEW t \in P PROVE Rank[t] <= Rank[s]
    <3>1. f[s] <= f[t] /\ f[s] = -Rank[s] /\ f[t] = -Rank[t]
      BY <2>1
    <3> HIDE DEF f
    <3> QED
      BY <1>1, <3>1
  <2> QED
    BY <2>2
<1> QED
  BY <1>3 DEF Highest

\* Some rung carries MAX(seq).
LEMMA TopStageIn == ASSUME NEW S \in Ladders PROVE TopStage(S) \in Stages
<1> DEFINE f == [s \in Stages |-> -S[s].seq]
<1>1. \A s \in Stages : S[s].seq \in Nat /\ f[s] \in Int
  BY RungFields
<1>2. Stages # {}
  BY StagesAre
<1>3. \E s \in Stages : \A t \in Stages : f[s] <= f[t]
  <2> HIDE DEF f
  <2> QED
    BY <1>1, <1>2, LeastStage
<1>4. PICK top \in Stages : \A t \in Stages : S[t].seq <= S[top].seq
  BY <1>1, <1>3
<1>5. \A m \in {S[s].seq : s \in Stages} : m <= S[top].seq
  BY <1>4
<1>6. MaxSeq(S) \in {S[s].seq : s \in Stages}
  BY <1>5 DEF MaxSeq
<1> QED
  BY <1>6 DEF TopStage

\* A waiver is signed above L4, so never by a demand rung.
LEMMA SingleSourceValue ==
  ASSUME NEW P, NEW top \in Stages, NEW kind
  PROVE  {SingleSourceStage(P, top, kind)} \ {NoStage} \subseteq VALUE_STAGES
<1> DEFINE free   == DOMAIN Matrix(kind) \ P
           exact  == {s \in free : DOAM_LEVEL[s] = LevelAbove(DOAM_LEVEL[top])}
           higher == {s \in free : DOAM_LEVEL[s] > DOAM_LEVEL[top]}
<1>1. exact \in SUBSET Stages /\ higher \in SUBSET Stages
  BY MatrixStages
<1>2. SingleSourceStage(P, top, kind) =
        IF exact # {} THEN Lowest(exact) ELSE IF higher # {} THEN Lowest(higher) ELSE NoStage
  BY DEF SingleSourceStage
<1>3. (exact # {} => Lowest(exact) \in exact) /\ (higher # {} => Lowest(higher) \in higher)
  BY <1>1, LowestIn
<1>4. DOAM_LEVEL[top] \in {L4, L2, L1, BOD} /\ L4 = 1 /\ L2 = 3 /\ L1 = 4 /\ BOD = 5
  BY LevelsAre DEF L4, L2, L1, BOD
<1>5. LevelAbove(DOAM_LEVEL[top]) > L4
  <2> DEFINE staffed == {DOAM_LEVEL[s] : s \in Stages}
             above == {l \in staffed : l > DOAM_LEVEL[top]}
  <2>1. staffed \subseteq {L4, L2, L1, BOD}
    BY LevelsAre
  <2>2. LevelAbove(DOAM_LEVEL[top]) =
          IF above = {} THEN BOD ELSE CHOOSE l \in above : \A m \in above : l <= m
    BY DEF LevelAbove
  <2>3. above \subseteq {3, 4, 5} /\ L4 = 1
    BY <1>4, <2>1
  <2> HIDE DEF above
  <2>4. ASSUME above # {} PROVE \E l \in above : \A m \in above : l <= m
    <3>1. CASE 3 \in above
      BY <2>3, <3>1
    <3>2. CASE 3 \notin above /\ 4 \in above
      BY <2>3, <3>2
    <3>3. CASE 3 \notin above /\ 4 \notin above
      <4>1. above = {5}
        BY <2>3, <2>4, <3>3
      <4> QED
        BY <4>1
    <3> QED
      BY <3>1, <3>2, <3>3
  <2>5. ASSUME above # {}
        PROVE  (CHOOSE l \in above : \A m \in above : l <= m) \in above
    BY <2>4, <2>5
  <2>6. LevelAbove(DOAM_LEVEL[top]) \in {3, 4, 5}
    BY <1>4, <2>2, <2>3, <2>5
  <2> QED
    BY <2>3, <2>6
<1>6. \A s \in exact \cup higher : s \in VALUE_STAGES
  <2>1. ASSUME NEW s \in exact \cup higher PROVE s \in Stages /\ DOAM_LEVEL[s] > L4
    <3>1. s \in Stages
      BY <1>1
    <3>2. DOAM_LEVEL[s] \in {L4, L2, L1, BOD}
      BY <3>1, LevelsAre
    <3>3. CASE s \in exact
      BY <1>5, <3>1, <3>3
    <3>4. CASE s \in higher
      BY <1>4, <3>1, <3>2, <3>4
    <3> QED
      BY <3>1, <3>3, <3>4
  <2> QED
    BY <2>1, LevelsAre
<1> HIDE DEF exact, higher
<1> QED
  BY <1>2, <1>3, <1>6

\* Unbudgeted spend is signed at L1, which both matrices staff.
LEMMA UnbudgetedAuthority ==
  ASSUME NEW P, NEW kind
  PROVE  /\ {UnbudgetedStage(P, kind)} \ {NoStage} \subseteq VALUE_STAGES
         /\ \/ \E s \in P : DOAM_LEVEL[s] >= L1
            \/ \E s \in {UnbudgetedStage(P, kind)} \ {NoStage} : s \in Stages /\ DOAM_LEVEL[s] >= L1
<1> DEFINE authority == {s \in DOMAIN Matrix(kind) : DOAM_LEVEL[s] = L1}
<1>1. authority \in SUBSET Stages
  BY MatrixStages
<1>2. "cfo" \in authority
  BY StagesAre DEF Matrix, OPEX_MATRIX, CAPEX_MATRIX, DOAM_LEVEL
<1>3. \A s \in authority : s \in VALUE_STAGES /\ DOAM_LEVEL[s] >= L1 /\ s \in Stages
  BY <1>1, LevelsAre DEF L1, L4
<1>4. UnbudgetedStage(P, kind) =
        IF \E s \in P : DOAM_LEVEL[s] >= L1 THEN NoStage ELSE Lowest(authority)
  BY <1>2 DEF UnbudgetedStage
<1>5. Lowest(authority) \in authority
  BY <1>1, <1>2, LowestIn
<1>6. NoStage \notin Stages
  BY StagesAre DEF NoStage
<1> HIDE DEF authority
<1> QED
  BY <1>3, <1>4, <1>5, <1>6

\* The stages the deviation grades add are value rungs.
LEMMA DeviationValue == \A price, qty : DeviationStages(price, qty) \subseteq VALUE_STAGES
  BY ValueStagesAre DEF DeviationStages
-----------------------------------------------------------------------------
(* Ladders that cover the value, and what keeps them so.                   *)

\* Rungs that submit_pr or a control handed to a superior.
Escalated(S) == {s \in Present(S) : S[s].esc # {}}

Need(p) == DeptLadder(p.total, p.kind, p.domain)

\* Every value rung of the request is on the ladder, or one was escalated and may
\* have absorbed it; and the demand rungs likewise, among themselves.
ValueCovered(p, S)  == Need(p) \cap VALUE_STAGES \subseteq Present(S) \/ Escalated(S) # {}
DemandCovered(p, S) == Need(p) \ VALUE_STAGES \subseteq Present(S)
                         \/ Escalated(S) \ VALUE_STAGES # {}

\* No control puts its mark on a demand rung, so no rebuilding takes one off.
DemandRungs(S) == \A s \in Present(S) \ VALUE_STAGES : S[s].origin = "ladder"

Covering(p, S) == ValueCovered(p, S) /\ DemandCovered(p, S) /\ DemandRungs(S)

\* Somebody of L1 authority is on the ladder, or a rung was escalated.
AtL1(S) == (\E s \in Present(S) : DOAM_LEVEL[s] >= L1) \/ Escalated(S) # {}

\* T has every rung of S, perhaps with fewer signatures, and new value rungs only.
Keeps(S, T) ==
  /\ \A s \in Present(S) : s \in Present(T) /\ T[s].esc = S[s].esc /\ T[s].origin = S[s].origin
  /\ Present(T) \ Present(S) \subseteq VALUE_STAGES

\* Keeping the rungs twice is keeping them.
LEMMA KeepsTrans ==
  ASSUME NEW S, NEW T, NEW U, Keeps(S, T), Keeps(T, U) PROVE Keeps(S, U)
  BY DEF Keeps

\* What a ladder covers, a ladder that keeps its rungs covers.
LEMMA KeepsCovering ==
  ASSUME NEW S, NEW T, Keeps(S, T)
  PROVE  /\ Present(S) \subseteq Present(T) /\ Escalated(S) \subseteq Escalated(T)
         /\ DemandRungs(S) => DemandRungs(T)
         /\ AtL1(S) => AtL1(T)
         /\ \A p : /\ ValueCovered(p, S) => ValueCovered(p, T)
                   /\ DemandCovered(p, S) => DemandCovered(p, T)
                   /\ Covering(p, S) => Covering(p, T)
<1>1. Present(S) \subseteq Present(T) /\ Escalated(S) \subseteq Escalated(T)
  BY DEF Keeps, Escalated
<1>2. DemandRungs(S) => DemandRungs(T)
  BY DEF Keeps, DemandRungs
<1>3. AtL1(S) => AtL1(T)
  BY <1>1 DEF AtL1
<1>4. ASSUME NEW p
      PROVE  /\ ValueCovered(p, S) => ValueCovered(p, T)
             /\ DemandCovered(p, S) => DemandCovered(p, T)
  BY <1>1 DEF ValueCovered, DemandCovered
<1> QED
  BY <1>1, <1>2, <1>3, <1>4 DEF Covering

\* Appending value rungs keeps the rest.
LEMMA AddKeeps ==
  ASSUME NEW S, NEW new, new \cap Present(S) = {}, new \cap Stages \subseteq VALUE_STAGES,
         NEW base, NEW origin, NEW esc
  PROVE  Keeps(S, AddRungs(S, new, base, origin, esc))
<1> DEFINE T == AddRungs(S, new, base, origin, esc)
<1>1. ASSUME NEW s \in Stages
      PROVE  IF s \in new THEN T[s].st = "pending" ELSE T[s] = S[s]
  BY DEF AddRungs
<1> HIDE DEF T
<1>2. \A s \in Present(S) : s \in Stages /\ s \notin new
  BY DEF Present
<1>3. Keeps(S, T)
  BY <1>1, <1>2 DEF Keeps, Present
<1> QED
  BY <1>3 DEF T

\* Same rungs, whatever became of their signatures.
LEMMA SameKeeps ==
  ASSUME NEW S, NEW T,
         \A s \in Stages : /\ T[s].st = "none" <=> S[s].st = "none"
                           /\ T[s].esc = S[s].esc /\ T[s].origin = S[s].origin
  PROVE  Keeps(S, T) /\ Present(T) = Present(S) /\ Escalated(T) = Escalated(S)
  BY DEF Keeps, Present, Escalated

\* apply_deviation_stages keeps every rung, adds the stages the grades ask for and no
\* unbudgeted rung.
LEMMA DeviationKeeps ==
  ASSUME NEW S, NEW e
  PROVE  /\ Keeps(S, ApplyDeviation(S, e))
         /\ DeviationStages(e.price, e.qty) \subseteq Present(ApplyDeviation(S, e))
         /\ \A n : Ahead(ApplyDeviation(S, e), n, "unbudgeted") \subseteq Ahead(S, n, "unbudgeted")
<1> DEFINE new == DeviationStages(e.price, e.qty) \ Present(S)
           T   == ApplyDeviation(S, e)
<1>1. new \cap Present(S) = {} /\ new \subseteq VALUE_STAGES /\ VALUE_STAGES \subseteq Stages
  BY DeviationValue DEF VALUE_STAGES
<1>2. T = AddRungs(S, new, MaxSeq(S), "deviation", ControlEsc(e.org))
  BY DEF ApplyDeviation
<1>3. ASSUME NEW s \in Stages
      PROVE  IF s \in new THEN T[s].st = "pending" /\ T[s].origin = "deviation" ELSE T[s] = S[s]
  BY <1>2 DEF AddRungs
<1>4. Keeps(S, T)
  <2> HIDE DEF new, T
  <2> QED
    BY <1>1, <1>2, AddKeeps
<1>5. new \subseteq Present(T)
  BY <1>1, <1>3 DEF Present
<1>6. DeviationStages(e.price, e.qty) \subseteq Present(T)
  BY <1>4, <1>5 DEF Keeps
<1>7. \A n : Ahead(T, n, "unbudgeted") \subseteq Ahead(S, n, "unbudgeted")
  <2> HIDE DEF new, T
  <2> QED
    BY <1>3 DEF Ahead
<1> QED
  BY <1>4, <1>6, <1>7

\* A waiver keeps every rung and adds at most one, above L4.
LEMMA SingleSourceKeeps ==
  ASSUME NEW S \in Ladders, NEW p, NEW e PROVE Keeps(S, ApplySingleSource(S, p, e))
<1> DEFINE new == {SingleSourceStage(Present(S), TopStage(S), p.kind)} \ {NoStage}
<1>1. new \cap Present(S) = {} /\ new \subseteq VALUE_STAGES
  BY SingleSourceNew, SingleSourceValue, TopStageIn DEF Present
<1>2. CASE p.waiver
  <2>1. ApplySingleSource(S, p, e) = AddRungs(S, new, MaxSeq(S), "single_source", ControlEsc(e.org))
    BY <1>2 DEF ApplySingleSource
  <2> HIDE DEF new
  <2> QED
    BY <1>1, <2>1, AddKeeps
<1>3. CASE ~p.waiver
  BY <1>3 DEF ApplySingleSource, Keeps
<1> QED
  BY <1>2, <1>3

\* The verdict on the budget only adds a rung where none of its own lies ahead, and
\* unbudgeted spend leaves an L1 rung on the ladder.
LEMMA BudgetKeeps ==
  ASSUME NEW S \in Ladders, NEW p, NEW e, Ahead(S, p.current_seq, "unbudgeted") = {}
  PROVE  /\ Keeps(S, ApplyBudget(S, p, e))
         /\ Unbudgeted(p.total, e.headroom) => AtL1(ApplyBudget(S, p, e))
<1> DEFINE new == {UnbudgetedStage(Present(S), p.kind)} \ {NoStage}
           T   == ApplyBudget(S, p, e)
<1>1. CASE Unbudgeted(p.total, e.headroom)
  <2>1. new \cap Present(S) = {} /\ new \subseteq VALUE_STAGES
    BY UnbudgetedNew, UnbudgetedAuthority DEF Present
  <2>2. T = AddRungs(S, new, MaxSeq(S), "unbudgeted", ControlEsc(e.org))
    BY <1>1 DEF ApplyBudget
  <2>3. \/ \E s \in Present(S) : DOAM_LEVEL[s] >= L1
        \/ \E s \in new : s \in Stages /\ DOAM_LEVEL[s] >= L1
    BY UnbudgetedAuthority
  <2>4. \A s \in Stages : s \in new => T[s].st = "pending"
    BY <2>2 DEF AddRungs
  <2> HIDE DEF new, T
  <2>5. Keeps(S, T)
    BY <2>1, <2>2, AddKeeps
  <2>6. \A s \in new : s \in Stages => s \in Present(T)
    BY <2>4 DEF Present
  <2>7. AtL1(T)
    BY <2>3, <2>5, <2>6 DEF AtL1, Keeps
  <2> QED
    BY <2>5, <2>7 DEF T
<1>2. CASE ~Unbudgeted(p.total, e.headroom)
  <2>1. T = Drop(S, {})
    BY <1>2 DEF ApplyBudget
  <2>2. \A s \in Stages : T[s] = S[s]
    BY <2>1 DEF Drop
  <2> HIDE DEF T
  <2>3. Keeps(S, T)
    BY <2>2, SameKeeps
  <2> QED
    BY <1>2, <2>3 DEF T
<1> QED
  BY <1>1, <1>2
-----------------------------------------------------------------------------
(* Rebuilding a circulating ladder keeps it covering, at the new value.    *)

\* _reconcile_value_ladder leaves the demand rungs alone, puts on every value rung the
\* total asks for, and takes back the unbudgeted rungs that lie ahead.
LEMMA ReconcileCovers ==
  ASSUME NEW S \in Ladders, DemandRungs(S), NEW p, p.total \in Nat, NEW e, e.related \in Nat
  PROVE  LET R == Reconcile(S, p, e)
         IN  /\ DemandRungs(R) /\ ValueCovered(p, R)
             /\ DemandCovered(p, S) => DemandCovered(p, R)
             /\ Ahead(R, p.current_seq, "unbudgeted") = {}
<1> DEFINE cur    == p.current_seq
           target == DeptLadder(p.total + e.related, p.kind, p.domain) \cap VALUE_STAGES
           gone   == Ahead(S, cur, "unbudgeted") \cup Ahead(S, cur, "single_source")
           kept   == Drop(S, gone)
           pruned == (Ahead(kept, cur, "ladder") \cap VALUE_STAGES) \ target
           live   == Present(kept) \ {s \in VALUE_STAGES \ target :
                                        kept[s].st = "pending" /\ kept[s].seq > cur}
           hold   == [s \in live \cup target |->
                        StageSigners(e.org, s, RungRoles(s, kept[s].esc))]
           busy   == {kept[s].by : s \in {t \in Stages : kept[t].st \in {"approved", "rejected"}}}
           esc    == [s \in Stages |-> EscRole(e.org, s, Requester, hold, busy)]
           new    == target \ Present(kept)
           R      == AddRungs(Drop(kept, pruned), new, MaxSeq(kept), "ladder", esc)
<1>0. Reconcile(S, p, e) = R
  BY DEF Reconcile
<1>1. \A s \in Stages : kept[s] = IF s \in gone THEN NoRung ELSE S[s]
  BY DEF Drop
<1>2. \A s \in Stages : Drop(kept, pruned)[s] = IF s \in pruned THEN NoRung ELSE kept[s]
  BY DEF Drop
<1>3. ASSUME NEW s \in Stages
      PROVE  IF s \in new THEN R[s].st = "pending" /\ R[s].origin = "ladder"
             ELSE R[s] = IF s \in pruned THEN NoRung ELSE kept[s]
  <2> HIDE DEF kept, new, pruned, esc
  <2> QED
    BY <1>2 DEF AddRungs
<1>4. target \subseteq VALUE_STAGES /\ VALUE_STAGES \subseteq Stages
  BY DEF VALUE_STAGES
<1>5. pruned \subseteq VALUE_STAGES \ target
  OBVIOUS
<1>6. gone \subseteq Stages /\ \A s \in gone : s \in Present(S) /\ S[s].origin # "ladder"
  BY DEF Ahead, Present
<1>7. gone \subseteq VALUE_STAGES
  BY <1>6 DEF DemandRungs
<1>8. \A s \in Stages : s \notin VALUE_STAGES => R[s] = S[s]
  <2> HIDE DEF target, gone, kept, pruned, R
  <2> QED
    BY <1>1, <1>3, <1>4, <1>5, <1>7
<1>9. target \subseteq Present(R)
  <2>1. ASSUME NEW s \in target PROVE R[s].st # "none"
    <3>1. s \in Stages /\ s \notin pruned
      BY <1>4, <1>5
    <3> HIDE DEF target, kept, pruned, R
    <3>2. CASE s \in new
      BY <1>3, <3>1, <3>2
    <3>3. CASE s \notin new
      BY <1>3, <3>1, <3>3 DEF Present
    <3> QED
      BY <3>2, <3>3
  <2> QED
    BY <1>4, <2>1 DEF Present
<1>10. DemandRungs(R)
  <2> HIDE DEF R
  <2> QED
    BY <1>8 DEF DemandRungs, Present
<1>11. ValueCovered(p, R)
  <2>1. Need(p) \cap VALUE_STAGES \subseteq target
    BY LadderGrows DEF Need
  <2> HIDE DEF R, target
  <2> QED
    BY <1>9, <2>1 DEF ValueCovered
<1>12. DemandCovered(p, S) => DemandCovered(p, R)
  <2>1. \A s \in Stages \ VALUE_STAGES :
          (s \in Present(S) => s \in Present(R)) /\ (s \in Escalated(S) => s \in Escalated(R))
    <3> HIDE DEF R
    <3> QED
      BY <1>8 DEF Present, Escalated
  <2>2. Escalated(S) \subseteq Stages /\ Need(p) \subseteq Stages
    BY LadderGrows DEF Escalated, Present, Need
  <2> HIDE DEF R
  <2> QED
    BY <2>1, <2>2 DEF DemandCovered
<1>13. Ahead(R, cur, "unbudgeted") = {}
  <2>1. ASSUME NEW s \in Ahead(R, cur, "unbudgeted") PROVE FALSE
    <3>1. s \in Stages /\ R[s].st = "pending" /\ R[s].seq > cur /\ R[s].origin = "unbudgeted"
      BY <2>1 DEF Ahead
    <3>2. NoRung.st = "none"
      BY DEF NoRung
    <3> HIDE DEF R, pruned, new, kept, gone
    <3>3. R[s] = S[s] /\ s \notin gone
      BY <1>1, <1>3, <3>1, <3>2
    <3> QED
      BY <3>1, <3>3 DEF Ahead, gone
  <2> QED
    BY <2>1
<1> HIDE DEF R
<1> QED
  BY <1>0, <1>10, <1>11, <1>12, <1>13

\* submit_pr: a rung is left out only when an earlier one of the same kind was
\* escalated to the same role, and the earliest of those stays.
LEMMA SubmitCovers ==
  ASSUME NEW p, p.total \in Nat, p.kind \in Kinds, NEW e, e.related \in Nat
  PROVE  LET S == SubmitLadder(p, e)
         IN  /\ Covering(p, S)
             /\ p.priced /\ Unbudgeted(p.total, e.headroom) => AtL1(S)
<1> DEFINE base  == DeptLadder(p.total + e.related, p.kind, p.domain)
           waive == IF p.waiver THEN {SingleSourceStage(base, Highest(base), p.kind)} \ {NoStage}
                    ELSE {}
           unbud == IF p.priced /\ Unbudgeted(p.total, e.headroom)
                    THEN {UnbudgetedStage(base \cup waive, p.kind)} \ {NoStage} ELSE {}
           all   == base \cup waive \cup unbud
           pos   == [s \in all |-> IF s \in base THEN Rank[s] ELSE IF s \in waive THEN 9 ELSE 10]
           hold  == [s \in all |-> StageSigners(e.org, s, StageRoles[s])]
           esc   == [s \in all |-> EscRole(e.org, s, Requester, hold, {})]
           Before(s) == {t \in all : pos[t] < pos[s]}
           absorbed  == {s \in all : /\ esc[s] # {}
                                     /\ \E t \in Before(s) :
                                          /\ esc[t] = esc[s]
                                          /\ \A u \in Before(s) : pos[u] <= pos[t]}
           S     == [s \in Stages |->
                       IF s \notin all \ absorbed THEN NoRung
                       ELSE [st |-> "pending", seq |-> pos[s], by |-> NoUser, esc |-> esc[s],
                             origin |-> IF s \in waive THEN "single_source"
                                        ELSE IF s \in unbud THEN "unbudgeted" ELSE "ladder"]]
<1>0. SubmitLadder(p, e) = S
  BY DEF SubmitLadder
<1>1. /\ base \subseteq Stages /\ "purchasing" \in base
      /\ Need(p) \subseteq base /\ Need(p) \ VALUE_STAGES = base \ VALUE_STAGES
  BY LadderGrows DEF Need
<1>2. waive \subseteq VALUE_STAGES /\ unbud \subseteq VALUE_STAGES /\ VALUE_STAGES \subseteq Stages
  <2>1. Highest(base) \in Stages
    <3> HIDE DEF base
    <3> QED
      BY <1>1, HighestIn
  <2> HIDE DEF base
  <2> QED
    BY <2>1, SingleSourceValue, UnbudgetedAuthority DEF VALUE_STAGES
<1>3. all \subseteq Stages
  <2> HIDE DEF base, waive, unbud
  <2> QED
    BY <1>1, <1>2
<1>4. \A s \in all : pos[s] = IF s \in base THEN Rank[s] ELSE IF s \in waive THEN 9 ELSE 10
  OBVIOUS
<1>5. ASSUME NEW s \in all
      PROVE  /\ pos[s] \in Nat
             /\ s \notin VALUE_STAGES <=> pos[s] <= 3
  <2>1. s \in Stages /\ Rank[s] \in 1..8 /\ (s \notin VALUE_STAGES <=> Rank[s] <= 3)
    BY <1>3, RankType, DemandRanks
  <2> HIDE DEF base, waive, unbud, pos, all
  <2>2. CASE s \in base
    BY <1>4, <2>1, <2>2
  <2>3. CASE s \notin base
    <3>1. s \in VALUE_STAGES
      BY <1>2, <2>3 DEF all
    <3> QED
      BY <1>4, <2>3, <3>1
  <2> QED
    BY <2>2, <2>3
<1>6. ASSUME NEW s \in Stages
      PROVE  IF s \in all \ absorbed
             THEN /\ S[s].st = "pending" /\ S[s].esc = esc[s]
                  /\ s \notin waive \cup unbud => S[s].origin = "ladder"
             ELSE S[s].st = "none"
  <2> HIDE DEF base, waive, unbud, all, absorbed, pos, esc
  <2> QED
    BY DEF NoRung
<1>7. Present(S) = all \ absorbed
  <2> HIDE DEF S, all, absorbed
  <2> QED
    BY <1>3, <1>6 DEF Present
\* Either a rung is on the ladder or one at most as high, escalated to the same role, is.
<1>8. ASSUME NEW s \in all
      PROVE  s \in Present(S) \/ \E t \in all : t \in Escalated(S) /\ pos[t] <= pos[s]
  <2> DEFINE alike == {t \in all : esc[t] = esc[s]}
             g == [t \in Stages |-> IF t \in all THEN pos[t] ELSE 0]
  <2>1. CASE s \in absorbed
    <3>1. esc[s] # {}
      BY <2>1
    <3>2. alike \in SUBSET Stages /\ s \in alike
      <4> HIDE DEF all, esc
      <4> QED
        BY <1>3
    <3>3. \A t \in Stages : g[t] \in Int
      <4> HIDE DEF all, pos
      <4> QED
        BY <1>5
    <3>4. PICK low \in alike : \A t \in alike : g[low] <= g[t]
      <4>1. \E low \in alike : \A t \in alike : g[low] <= g[t]
        <5> HIDE DEF alike, g
        <5> QED
          BY <3>2, <3>3, LeastStage
      <4> QED
        BY <4>1
    <3>5. low \in all /\ low \in Stages /\ esc[low] = esc[s]
      BY <3>2
    <3>6. \A t \in alike : pos[low] <= pos[t]
      <4>1. \A t \in alike : t \in Stages /\ t \in all
        BY <3>2
      <4> HIDE DEF all, pos, alike
      <4> QED
        BY <3>4, <3>5, <4>1
    <3>7. low \notin absorbed
      <4>1. ASSUME NEW t \in Before(low), esc[t] = esc[low] PROVE FALSE
        <5>1. t \in all /\ pos[t] < pos[low] /\ t \in alike
          <6> HIDE DEF base, waive, unbud, pos, esc
          <6> QED
            BY <3>5, <4>1
        <5>2. pos[t] \in Nat /\ pos[low] \in Nat
          BY <1>5, <3>5, <5>1
        <5> HIDE DEF all, pos, alike
        <5> QED
          BY <3>6, <5>1, <5>2
      <4> HIDE DEF all, pos, esc
      <4> QED
        BY <4>1
    <3>8. low \in Present(S) /\ S[low].esc = esc[low]
      <4> HIDE DEF all, absorbed, S
      <4> QED
        BY <1>6, <1>7, <3>5, <3>7
    <3>9. low \in Escalated(S)
      <4> HIDE DEF S, esc
      <4> QED
        BY <3>1, <3>5, <3>8 DEF Escalated
    <3> HIDE DEF S, all, pos, alike
    <3> QED
      BY <3>2, <3>5, <3>6, <3>9
  <2>2. CASE s \notin absorbed
    <3> HIDE DEF all, absorbed, S
    <3> QED
      BY <1>7, <2>2
  <2> QED
    BY <2>1, <2>2
<1>9. DemandRungs(S)
  <2> HIDE DEF S, all, absorbed, waive, unbud
  <2> QED
    BY <1>2, <1>3, <1>6, <1>7 DEF DemandRungs
<1>10. base \subseteq all /\ unbud \subseteq all /\ base \cup waive \subseteq all
  OBVIOUS
<1>11. ValueCovered(p, S)
  <2> HIDE DEF S, all, base
  <2> QED
    BY <1>1, <1>8, <1>10 DEF ValueCovered
<1>12. DemandCovered(p, S)
  <2>1. ASSUME NEW s \in Need(p) \ VALUE_STAGES, s \notin Present(S)
        PROVE  \E t \in Escalated(S) : t \notin VALUE_STAGES
    <3>1. s \in all
      <4> HIDE DEF all, base
      <4> QED
        BY <1>1, <1>10, <2>1
    <3>2. PICK t \in all : t \in Escalated(S) /\ pos[t] <= pos[s]
      <4> HIDE DEF all, pos, S
      <4> QED
        BY <1>8, <2>1, <3>1
    <3>3. pos[s] <= 3 /\ pos[s] \in Nat /\ pos[t] \in Nat
      <4> HIDE DEF all, pos
      <4> QED
        BY <1>5, <2>1, <3>1, <3>2
    <3>4. pos[t] <= 3
      <4> HIDE DEF all, pos
      <4> QED
        BY <3>2, <3>3
    <3>5. t \notin VALUE_STAGES
      <4> HIDE DEF all, pos
      <4> QED
        BY <1>5, <3>2, <3>4
    <3> QED
      BY <3>2, <3>5
  <2> HIDE DEF S
  <2> QED
    BY <2>1 DEF DemandCovered
<1>13. ASSUME p.priced, Unbudgeted(p.total, e.headroom) PROVE AtL1(S)
  <2>1. unbud = {UnbudgetedStage(base \cup waive, p.kind)} \ {NoStage}
    BY <1>13
  <2>2. \E s \in all : DOAM_LEVEL[s] >= L1
    <3>1. \/ \E s \in base \cup waive : DOAM_LEVEL[s] >= L1
          \/ \E s \in unbud : s \in Stages /\ DOAM_LEVEL[s] >= L1
      <4> HIDE DEF base, waive
      <4> QED
        BY <2>1, UnbudgetedAuthority
    <3> HIDE DEF base, waive, unbud, all
    <3> QED
      BY <1>10, <3>1
  <2> HIDE DEF S, all
  <2> QED
    BY <1>8, <2>2 DEF AtL1
<1> HIDE DEF S
<1> QED
  BY <1>0, <1>9, <1>11, <1>12, <1>13 DEF Covering
-----------------------------------------------------------------------------
(* The invariant.                                                          *)

\* Circulating, or decided by its signatures or by the store.
Live(p) == p.status \in {"pending", "approved", "closed"}

\* What a request's ladder covers, and what its signatures have looked at.
Controlled(p, S) ==
  /\ Live(p) => /\ Covering(p, S)
                /\ "purchasing" \in Signed(S) => p.priced
  /\ p.status = "approved" =>
       /\ Present(S) = Signed(S)
       /\ Escalated(S) = {} => p.waiver \/ p.quotes >= QuotesRequired(p.total)

\* A request last routed as unbudgeted.
BudgetSigned(p, S) ==
  Live(p) /\ p.budget \in {"no_budget", "over_budget"} => AtL1(S)

\* A step keeps the invariant and, if L1 was on the ladder of unbudgeted spend, that too.
Stays == /\ Controlled(pr', steps')
         /\ BudgetSigned(pr, steps) => BudgetSigned(pr', steps')

SameValue(p, q) == /\ q.total = p.total /\ q.kind = p.kind /\ q.domain = p.domain
                   /\ q.priced = p.priced /\ q.budget = p.budget

\* What is covered depends on the total, the kind and the domain alone.
LEMMA SameNeed ==
  ASSUME NEW p, NEW q, q.total = p.total, q.kind = p.kind, q.domain = p.domain, NEW S
  PROVE  /\ ValueCovered(p, S) => ValueCovered(q, S)
         /\ DemandCovered(p, S) => DemandCovered(q, S)
         /\ Covering(p, S) => Covering(q, S)
  BY DEF Covering, ValueCovered, DemandCovered, Need

\* The demand rungs do not depend on the value.
LEMMA SameDemand ==
  ASSUME NEW p, NEW q, p.total \in Nat, q.total \in Nat, q.kind = p.kind, q.domain = p.domain,
         NEW S, DemandCovered(p, S)
  PROVE  DemandCovered(q, S)
<1>1. p.total <= q.total \/ q.total <= p.total
  OBVIOUS
<1>2. Need(p) \ VALUE_STAGES = Need(q) \ VALUE_STAGES
  BY <1>1, LadderGrows DEF Need
<1> QED
  BY <1>2 DEF DemandCovered

\* A step that leaves the ladder alone.
LEMMA FrameStays ==
  ASSUME Controlled(pr, steps), steps' = steps, pr.quotes \in Nat, pr'.quotes \in Nat,
         \/ ~Live(pr')
         \/ /\ pr'.status = pr.status /\ SameValue(pr, pr')
            /\ pr.status = "approved" => pr'.waiver = pr.waiver /\ pr'.quotes >= pr.quotes
  PROVE  Stays
<1>1. CASE ~Live(pr')
  BY <1>1 DEF Stays, Controlled, BudgetSigned, Live
<1>2. CASE /\ pr'.status = pr.status /\ SameValue(pr, pr')
           /\ pr.status = "approved" => pr'.waiver = pr.waiver /\ pr'.quotes >= pr.quotes
  <2>1. Live(pr') <=> Live(pr)
    BY <1>2 DEF Live
  <2>2. Covering(pr, steps) => Covering(pr', steps')
    BY <1>2, SameNeed DEF SameValue
  <2>3. "purchasing" \in Signed(steps') => pr'.priced \/ ~("purchasing" \in Signed(steps) => pr.priced)
    BY <1>2 DEF SameValue
  <2>4. QuotesRequired(pr'.total) = QuotesRequired(pr.total) /\ QuotesRequired(pr.total) \in Nat
    BY <1>2 DEF SameValue, QuotesRequired
  <2>5. ASSUME pr.status = "approved", pr.waiver \/ pr.quotes >= QuotesRequired(pr.total)
        PROVE  pr'.waiver \/ pr'.quotes >= QuotesRequired(pr'.total)
    BY <1>2, <2>4, <2>5
  <2>6. Controlled(pr', steps')
    BY <1>2, <2>1, <2>2, <2>3, <2>5 DEF Controlled
  <2>7. BudgetSigned(pr, steps) => BudgetSigned(pr', steps')
    BY <1>2, <2>1 DEF BudgetSigned, SameValue
  <2> QED
    BY <2>6, <2>7 DEF Stays
<1> QED
  BY <1>1, <1>2

\* A step that keeps the rungs of a live request and signs nothing.
LEMMA KeptStays ==
  ASSUME Controlled(pr, steps), Live(pr), pr'.status \in {"pending", "closed"},
         SameValue(pr, pr'), Keeps(steps, steps'), Signed(steps') \subseteq Signed(steps)
  PROVE  Stays
<1>1. Covering(pr', steps)
  BY SameNeed DEF Controlled, SameValue
<1>2. Covering(pr', steps')
  BY <1>1, KeepsCovering
<1>3. "purchasing" \in Signed(steps') => pr'.priced
  BY DEF Controlled, SameValue
<1>4. BudgetSigned(pr, steps) => BudgetSigned(pr', steps')
  BY KeepsCovering DEF BudgetSigned, SameValue
<1> QED
  BY <1>2, <1>3, <1>4 DEF Stays, Controlled

\* A step that reconciles the value ladder and then only adds to it.
LEMMA ReconciledStays ==
  ASSUME IInv, Controlled(pr, steps), pr.status = "pending", pr'.status = "pending",
         NEW p, p.total \in Nat, p.current_seq = pr.current_seq,
         p.kind = pr.kind, p.domain = pr.domain,
         NEW e, e.related \in Nat,
         NEW A, A = Reconcile(steps, p, e), Keeps(A, steps'),
         Rebuilt(steps, steps', pr.current_seq),
         pr'.total = p.total, pr'.kind = p.kind, pr'.domain = p.domain, pr.priced => pr'.priced
  PROVE  Controlled(pr', steps')
<1>1. steps \in Ladders /\ pr.total \in Nat
  BY PRFields, TypeOKLadder DEF IInv
<1>2. Covering(pr, steps) /\ ("purchasing" \in Signed(steps) => pr.priced)
  BY DEF Controlled, Live
<1>3. DemandCovered(p, steps) /\ DemandRungs(steps)
  BY <1>1, <1>2, SameDemand DEF Covering
<1>4. Covering(p, A)
  BY <1>1, <1>3, ReconcileCovers DEF Covering
<1>5. Covering(p, steps')
  BY <1>4, KeepsCovering
<1>6. Covering(pr', steps')
  BY <1>5, SameNeed
<1>7. Signed(steps') \subseteq Signed(steps)
  BY DEF Rebuilt, Signed, Unreached
<1> QED
  BY <1>2, <1>6, <1>7 DEF Controlled, Live
-----------------------------------------------------------------------------
(* The invariant, action by action.                                        *)

\* The shape of a reachable request.
LEMMA InvFields ==
  ASSUME IInv
  PROVE  /\ pr \in PRs /\ env \in Envs /\ steps \in Ladders
         /\ env.related \in Nat /\ pr.quotes \in Nat /\ pr.total \in Nat /\ pr.kind \in Kinds
         /\ \A t \in Totals : t \in Nat
<1>1. pr \in PRs /\ env \in Envs /\ steps \in Ladders
  BY TypeOKLadder DEF IInv
<1>2. env.related \in Nat /\ \A t \in Totals : t \in Nat
  BY <1>1, RequestAssumption DEF Envs
<1>3. pr.total \in Nat /\ pr.kind \in Kinds /\ pr.quotes \in 0..MaxQuotes
  BY <1>1, PRFields
<1> QED
  BY <1>1, <1>2, <1>3

\* A new request is a draft.
LEMMA ControlledInit == Init => Controlled(pr, steps) /\ BudgetSigned(pr, steps)
<1> SUFFICES ASSUME Init PROVE Controlled(pr, steps) /\ BudgetSigned(pr, steps)
  OBVIOUS
<1>1. pr.status = "draft"
  BY DEF Init, NewPr
<1> QED
  BY <1>1 DEF Controlled, BudgetSigned, Live

\* Submission builds a covering ladder with no signature on it.
LEMMA SubmitStays == ASSUME IInv, Controlled(pr, steps), SubmitPr PROVE Stays
<1> DEFINE S == SubmitLadder(pr, env)
<1>1. /\ pr \in PRs /\ env.related \in Nat
      /\ pr.total \in Nat /\ pr.kind \in Kinds
  BY InvFields
<1>2. /\ Covering(pr, S)
      /\ pr.priced /\ Unbudgeted(pr.total, env.headroom) => AtL1(S)
  BY <1>1, SubmitCovers
<1>3. Signed(S) = {}
  BY <1>1, SubmitStands DEF Signed, Present
<1>4. /\ steps' = S
      /\ pr' = [pr EXCEPT !.status = "pending", !.current_seq = FirstSeq(S),
                          !.budget = IF pr.priced THEN BudgetState(pr.total, env.headroom)
                                                  ELSE "unset"]
  BY DEF SubmitPr
<1> HIDE DEF S
<1>5. /\ pr'.status = "pending" /\ pr'.total = pr.total /\ pr'.kind = pr.kind
      /\ pr'.domain = pr.domain /\ pr'.priced = pr.priced
      /\ pr'.budget = IF pr.priced THEN BudgetState(pr.total, env.headroom) ELSE "unset"
  BY <1>1, <1>4 DEF PRs
<1>6. Covering(pr', steps')
  <2>1. Covering(pr', S)
    BY <1>2, <1>5, SameNeed
  <2> QED
    BY <1>4, <2>1
<1>7. Controlled(pr', steps')
  BY <1>3, <1>4, <1>5, <1>6 DEF Controlled
<1>8. BudgetSigned(pr', steps')
  BY <1>2, <1>4, <1>5 DEF BudgetSigned, BudgetState, Unbudgeted
<1> QED
  BY <1>7, <1>8 DEF Stays

\* Pricing rebuilds the ladder at the new value and then only adds to it.
LEMMA PriceStays ==
  ASSUME IInv, Controlled(pr, steps), NEW u, NEW t \in Totals, NEW g \in PriceSet, PricePr(u, t, g)
  PROVE  Stays
<1> DEFINE p == [pr EXCEPT !.priced = TRUE, !.total = t]
           e == [env EXCEPT !.price = g]
           n == pr.current_seq
           A == Reconcile(steps, p, e)
           B == ApplyDeviation(A, e)
           C == ApplyBudget(B, p, e)
<1>1. pr \in PRs /\ env \in Envs /\ t \in Nat /\ env.related \in Nat /\ pr.quotes \in Nat
  BY InvFields
<1>2. e.related = env.related /\ e.headroom = env.headroom
  BY <1>1 DEF Envs
<1>3. /\ p.total = t /\ p.kind = pr.kind /\ p.domain = pr.domain /\ p.priced = TRUE
      /\ p.status = pr.status /\ p.current_seq = n /\ p.quotes = pr.quotes
  BY <1>1 DEF PRs
<1>4. CASE pr.status = "pending"
  <2>1. n \in Nat /\ Standing(steps, n) /\ steps \in Ladders
    BY <1>4, PendingStands
  <2>2. steps' = Repriced(p, e) /\ pr' = [p EXCEPT !.budget = BudgetState(t, e.headroom)]
    BY <1>4 DEF PricePr
  <2>3. /\ pr'.status = "pending" /\ pr'.total = p.total /\ pr'.kind = p.kind
        /\ pr'.domain = p.domain /\ pr'.priced = TRUE
        /\ pr'.budget = BudgetState(t, e.headroom)
    BY <1>1, <1>3, <1>4, <2>2 DEF PRs
  <2>4. steps' = ApplySingleSource(C, p, e)
    BY <2>2 DEF Repriced
  <2> HIDE DEF p, e
  <2>5. Rebuilt(steps, steps', n)
    BY <1>3, <2>1, <2>2, RepricedRebuilds
  <2>6. Rebuilt(steps, A, n) /\ Standing(A, n)
    BY <1>3, <2>1, ReconcileRebuilds, RebuiltStands
  <2>7. Ahead(A, n, "unbudgeted") = {}
    BY <1>1, <1>2, <1>3, <1>4, <2>1, ReconcileCovers DEF Controlled, Live, Covering
  <2> HIDE DEF A
  <2>8. Keeps(A, B) /\ Ahead(B, n, "unbudgeted") = {}
    BY <2>7, DeviationKeeps
  <2>9. Standing(B, n)
    BY <2>1, <2>6, DeviationRebuilds, RebuiltStands
  <2> HIDE DEF B
  <2>10. Keeps(B, C) /\ (Unbudgeted(p.total, e.headroom) => AtL1(C))
    BY <1>3, <2>8, <2>9, BudgetKeeps DEF Standing
  <2>11. Standing(C, n)
    BY <1>3, <2>1, <2>9, BudgetRebuilds, RebuiltStands
  <2> HIDE DEF C
  <2>12. Keeps(C, steps')
    BY <2>4, <2>11, SingleSourceKeeps DEF Standing
  <2>13. Keeps(A, steps')
    BY <2>8, <2>10, <2>12, KeepsTrans
  <2>14. Controlled(pr', steps')
    BY <1>1, <1>2, <1>3, <1>4, <2>3, <2>5, <2>13, ReconciledStays DEF A
  <2>15. Unbudgeted(t, e.headroom) => AtL1(steps')
    BY <1>3, <2>10, <2>12, KeepsCovering
  <2>16. BudgetSigned(pr', steps')
    BY <2>3, <2>15 DEF BudgetSigned, BudgetState, Unbudgeted
  <2> QED
    BY <2>14, <2>16 DEF Stays
<1>5. CASE pr.status # "pending"
  <2>1. pr' = p /\ steps' = steps /\ pr.status \notin {"approved", "closed"}
    BY <1>5 DEF PricePr, Locked
  <2>2. ~Live(pr')
    BY <1>3, <1>5, <2>1 DEF Live
  <2> QED
    BY <1>1, <1>3, <2>1, <2>2, FrameStays
<1> QED
  BY <1>4, <1>5

\* So does a new exchange rate.
LEMMA FxStays ==
  ASSUME IInv, Controlled(pr, steps), NEW u, NEW t \in Totals, SetFx(u, t) PROVE Stays
<1> DEFINE p == [pr EXCEPT !.total = t]
           n == pr.current_seq
           A == Reconcile(steps, p, env)
           B == ApplyBudget(A, p, env)
<1>1. pr \in PRs /\ env \in Envs /\ t \in Nat /\ env.related \in Nat /\ pr.quotes \in Nat
  BY InvFields
<1>2. /\ p.total = t /\ p.kind = pr.kind /\ p.domain = pr.domain /\ p.priced = pr.priced
      /\ p.status = pr.status /\ p.current_seq = n /\ p.quotes = pr.quotes
  BY <1>1 DEF PRs
<1>3. CASE pr.status = "pending"
  <2>1. n \in Nat /\ Standing(steps, n) /\ steps \in Ladders
    BY <1>3, PendingStands
  <2>2. steps' = ApplySingleSource(B, p, env) /\ pr' = [p EXCEPT !.budget = BudgetState(t, env.headroom)]
    BY <1>3 DEF SetFx
  <2>3. /\ pr'.status = "pending" /\ pr'.total = p.total /\ pr'.kind = p.kind
        /\ pr'.domain = p.domain /\ pr'.priced = pr.priced
        /\ pr'.budget = BudgetState(t, env.headroom)
    BY <1>1, <1>2, <1>3, <2>2 DEF PRs
  <2> HIDE DEF p
  <2>4. Rebuilt(steps, A, n) /\ Standing(A, n)
    BY <1>2, <2>1, ReconcileRebuilds, RebuiltStands
  <2>5. Ahead(A, n, "unbudgeted") = {}
    BY <1>1, <1>2, <1>3, <2>1, ReconcileCovers DEF Controlled, Live, Covering
  <2> HIDE DEF A
  <2>6. Keeps(A, B) /\ (Unbudgeted(p.total, env.headroom) => AtL1(B))
    BY <1>2, <2>4, <2>5, BudgetKeeps DEF Standing
  <2>7. Rebuilt(A, B, n) /\ Standing(B, n)
    BY <1>2, <2>1, <2>4, BudgetRebuilds, RebuiltStands
  <2> HIDE DEF B
  <2>8. Keeps(B, steps') /\ Rebuilt(B, steps', n)
    BY <1>2, <2>1, <2>2, <2>7, SingleSourceKeeps, SingleSourceRebuilds DEF Standing
  <2>9. Keeps(A, steps') /\ Rebuilt(steps, steps', n)
    BY <2>4, <2>6, <2>7, <2>8, KeepsTrans, RebuiltTrans
  <2>10. Controlled(pr', steps')
    BY <1>1, <1>2, <1>3, <2>3, <2>9, ReconciledStays DEF A
  <2>11. Unbudgeted(t, env.headroom) => AtL1(steps')
    BY <1>2, <2>6, <2>8, KeepsCovering
  <2>12. BudgetSigned(pr', steps')
    BY <2>3, <2>11 DEF BudgetSigned, BudgetState, Unbudgeted
  <2> QED
    BY <2>10, <2>12 DEF Stays
<1>4. CASE pr.status # "pending"
  <2>1. pr' = p /\ steps' = steps /\ pr.status \notin {"approved", "closed"}
    BY <1>4 DEF SetFx, Locked
  <2>2. ~Live(pr')
    BY <1>2, <1>4, <2>1 DEF Live
  <2> QED
    BY <1>1, <1>2, <2>1, <2>2, FrameStays
<1> QED
  BY <1>3, <1>4

\* A waiver only adds.
LEMMA WaiveStays ==
  ASSUME IInv, Controlled(pr, steps), NEW u, SetSingleSource(u) PROVE Stays
<1>1. pr \in PRs /\ pr.quotes \in Nat /\ pr' = [pr EXCEPT !.waiver = TRUE]
  BY InvFields DEF SetSingleSource
<1>2. /\ pr'.status = pr.status /\ pr'.current_seq = pr.current_seq
      /\ SameValue(pr, pr') /\ pr'.quotes = pr.quotes
  BY <1>1 DEF PRs, SameValue
<1>3. CASE pr.status = "pending"
  <2>1. steps' = ApplySingleSource(steps, pr', env)
    BY <1>3 DEF SetSingleSource
  <2>2. Standing(steps, pr.current_seq) /\ pr.current_seq \in Nat /\ steps \in Ladders
    BY <1>3, PendingStands
  <2>3. Keeps(steps, steps') /\ Rebuilt(steps, steps', pr.current_seq)
    BY <1>2, <2>1, <2>2, SingleSourceKeeps, SingleSourceRebuilds
  <2>4. Signed(steps') \subseteq Signed(steps)
    BY <2>3 DEF Rebuilt, Signed, Unreached
  <2> QED
    BY <1>2, <1>3, <2>3, <2>4, KeptStays DEF Live
<1>4. CASE pr.status # "pending"
  <2>1. steps' = steps /\ pr.status \notin {"approved", "closed"}
    BY <1>4 DEF SetSingleSource, Locked
  <2> QED
    BY <1>1, <1>2, <1>4, <2>1, FrameStays DEF Live
<1> QED
  BY <1>3, <1>4

\* A corrected quantity keeps the value covered; it takes unbudgeted rungs back and
\* asks nobody about the budget.
LEMMA ReviseStays ==
  ASSUME IInv, Controlled(pr, steps), NEW u, NEW t \in Totals, WarehouseRevise(u, t)
  PROVE  Controlled(pr', steps')
<1> DEFINE p == [pr EXCEPT !.total = t]
           withdrawn == [s \in Stages |->
             IF steps[s].st # "none" /\ steps[s].seq > pr.current_seq /\ steps[s].st # "pending"
             THEN [steps[s] EXCEPT !.st = "pending", !.by = NoUser] ELSE steps[s]]
           A == Reconcile(steps, p, env)
<1>1. pr \in PRs /\ env \in Envs /\ t \in Nat /\ env.related \in Nat /\ pr.status = "pending"
  BY InvFields DEF WarehouseRevise, AtWarehouse
<1>2. /\ pr.current_seq \in Nat /\ Standing(steps, pr.current_seq)
      /\ steps \in Ladders /\ Split(steps, pr.current_seq)
  BY <1>1, PendingStands
<1>3. /\ p.total = t /\ p.kind = pr.kind /\ p.domain = pr.domain /\ p.priced = pr.priced
      /\ p.status = pr.status /\ p.current_seq = pr.current_seq
  BY <1>1 DEF PRs
<1>4. pr' = p /\ steps' = Reconcile(withdrawn, p, env)
  BY DEF WarehouseRevise
<1>5. withdrawn = steps
  <2>1. ASSUME NEW s \in Stages, steps[s].st # "none", steps[s].seq > pr.current_seq
        PROVE  steps[s].st = "pending"
    <3>1. s \in Present(steps) /\ steps[s].seq \in Nat
      BY <1>2, <2>1, RungFields DEF Present
    <3> QED
      BY <1>2, <2>1, <3>1 DEF Split
  <2>2. \A s \in Stages : withdrawn[s] = steps[s]
    BY <2>1
  <2> QED
    BY <1>2, <2>2 DEF Ladders
<1> HIDE DEF p, withdrawn
<1>6. Rebuilt(steps, steps', pr.current_seq) /\ steps' = A
  BY <1>2, <1>3, <1>4, <1>5, ReconcileRebuilds
<1>7. Keeps(A, steps')
  BY <1>6 DEF Keeps
<1> QED
  BY <1>1, <1>3, <1>4, <1>6, <1>7, ReconciledStays
\* Closing from the shelf skips rungs and takes none off.
LEMMA IssueStays ==
  ASSUME IInv, Controlled(pr, steps), NEW u, NEW all \in BOOLEAN, IssueFromStock(u, all)
  PROVE  Stays
<1>1. pr \in PRs /\ steps \in Ladders /\ pr.quotes \in Nat /\ pr.status = "pending"
  BY InvFields DEF IssueFromStock, AtWarehouse
<1>2. CASE all
  <2>1. /\ pr' = [pr EXCEPT !.issued = TRUE, !.status = "closed", !.current_seq = 0]
        /\ steps' = [s \in Stages |-> IF steps[s].st = "pending"
                                      THEN [steps[s] EXCEPT !.st = "skipped"] ELSE steps[s]]
    BY <1>2 DEF IssueFromStock
  <2>2. pr'.status = "closed" /\ SameValue(pr, pr')
    BY <1>1, <2>1 DEF PRs, SameValue
  <2>3. ASSUME NEW s \in Stages
        PROVE  /\ steps'[s].esc = steps[s].esc /\ steps'[s].origin = steps[s].origin
               /\ steps'[s].st = IF steps[s].st = "pending" THEN "skipped" ELSE steps[s].st
    BY <1>1, <2>1, RungFields DEF Rungs
  <2>4. Signed(steps') = Signed(steps)
    BY <2>3 DEF Signed
  <2>5. Keeps(steps, steps')
    BY <2>3, SameKeeps
  <2> QED
    BY <1>1, <2>2, <2>4, <2>5, KeptStays DEF Live
<1>3. CASE ~all
  <2>1. pr' = [pr EXCEPT !.issued = TRUE] /\ steps' = steps
    BY <1>3 DEF IssueFromStock
  <2>2. pr'.status = pr.status /\ SameValue(pr, pr') /\ pr'.waiver = pr.waiver /\ pr'.quotes = pr.quotes
    BY <1>1, <2>1 DEF PRs, SameValue
  <2> QED
    BY <1>1, <2>1, <2>2, FrameStays
<1> QED
  BY <1>2, <1>3

\* Reopening takes the skipped rungs up again.
LEMMA ReverseStays ==
  ASSUME IInv, Controlled(pr, steps), NEW u, NEW left \in BOOLEAN, ReverseStockIssue(u, left)
  PROVE  Stays
<1>1. pr \in PRs /\ steps \in Ladders /\ pr.quotes \in Nat
  BY InvFields
<1>2. CASE pr.status = "closed"
  <2> DEFINE back == [s \in Stages |-> IF steps[s].st = "skipped"
                                       THEN [steps[s] EXCEPT !.st = "pending"] ELSE steps[s]]
             open == {back[s].seq : s \in {t \in Stages : back[t].st = "pending"}}
             at == IF open = {} THEN 1 ELSE CHOOSE n \in open : \A m \in open : n <= m
  <2>1. /\ steps' = back
        /\ pr' = [pr EXCEPT !.issued = left, !.status = "pending", !.current_seq = at]
    BY <1>2 DEF ReverseStockIssue
  <2>2. pr'.status = "pending" /\ SameValue(pr, pr')
    <3> HIDE DEF at
    <3> QED
      BY <1>1, <2>1 DEF PRs, SameValue
  <2>3. ASSUME NEW s \in Stages
        PROVE  /\ steps'[s].esc = steps[s].esc /\ steps'[s].origin = steps[s].origin
               /\ steps'[s].st = IF steps[s].st = "skipped" THEN "pending" ELSE steps[s].st
    BY <1>1, <2>1, RungFields DEF Rungs
  <2>4. Signed(steps') = Signed(steps)
    BY <2>3 DEF Signed
  <2>5. Keeps(steps, steps')
    BY <2>3, SameKeeps
  <2> QED
    BY <1>2, <2>2, <2>4, <2>5, KeptStays DEF Live
<1>3. CASE pr.status # "closed"
  <2>1. pr' = [pr EXCEPT !.issued = left] /\ steps' = steps
    BY <1>3 DEF ReverseStockIssue
  <2>2. pr'.status = pr.status /\ SameValue(pr, pr') /\ pr'.waiver = pr.waiver /\ pr'.quotes = pr.quotes
    BY <1>1, <2>1 DEF PRs, SameValue
  <2> QED
    BY <1>1, <2>1, <2>2, FrameStays
<1> QED
  BY <1>2, <1>3

\* Editing happens before circulation.
LEMMA UpdateStays ==
  ASSUME IInv, Controlled(pr, steps), NEW t, NEW k, NEW d, NEW c, UpdatePr(t, k, d, c)
  PROVE  Stays
<1>1. pr \in PRs /\ pr.quotes \in Nat
  BY InvFields
<1>2. /\ pr' = [pr EXCEPT !.total = t, !.kind = k, !.domain = d, !.issued = FALSE,
                          !.priced = c /\ @]
      /\ pr.status \in {"draft", "rejected"} /\ steps' = steps
  BY DEF UpdatePr
<1>3. ~Live(pr') /\ pr'.quotes = pr.quotes
  BY <1>1, <1>2 DEF PRs, Live
<1> QED
  BY <1>1, <1>2, <1>3, FrameStays

\* A decided request keeps its quotations: the ones on file can only grow in number.
LEMMA QuotesStay ==
  ASSUME IInv, Controlled(pr, steps), \/ DeleteQuote \/ \E u \in Users : AddQuote(u) \/ ChooseQuote(u)
  PROVE  Stays
<1>1. pr \in PRs /\ pr.quotes \in Nat
  BY InvFields
<1>2. CASE DeleteQuote
  <2>1. /\ pr' = [pr EXCEPT !.quotes = @ - 1] /\ steps' = steps
        /\ pr.status # "approved" /\ pr.quotes > 0
    BY <1>1, <1>2 DEF DeleteQuote, Locked
  <2>2. pr'.status = pr.status /\ SameValue(pr, pr') /\ pr'.quotes = pr.quotes - 1
    BY <1>1, <2>1 DEF PRs, SameValue
  <2> QED
    BY <1>1, <2>1, <2>2, FrameStays
<1>3. ASSUME NEW u \in Users, AddQuote(u) PROVE Stays
  <2>1. pr' = [pr EXCEPT !.quotes = @ + 1] /\ steps' = steps
    BY <1>3 DEF AddQuote
  <2>2. /\ pr'.status = pr.status /\ SameValue(pr, pr') /\ pr'.waiver = pr.waiver
        /\ pr'.quotes = pr.quotes + 1
    BY <1>1, <2>1 DEF PRs, SameValue
  <2> QED
    BY <1>1, <2>1, <2>2, FrameStays
<1>4. ASSUME NEW u \in Users, ChooseQuote(u) PROVE Stays
  <2>1. pr' = [pr EXCEPT !.chosen = TRUE] /\ steps' = steps
    BY <1>4 DEF ChooseQuote
  <2>2. pr'.status = pr.status /\ SameValue(pr, pr') /\ pr'.waiver = pr.waiver /\ pr'.quotes = pr.quotes
    BY <1>1, <2>1 DEF PRs, SameValue
  <2> QED
    BY <1>1, <2>1, <2>2, FrameStays
<1> QED
  BY <1>2, <1>3, <1>4

\* Papers touch neither the ladder nor the value.
LEMMA PapersStay ==
  ASSUME IInv, Controlled(pr, steps), SetDoamDocument \/ AttachEjr PROVE Stays
<1>1. pr \in PRs /\ pr.quotes \in Nat /\ steps' = steps
  BY InvFields DEF SetDoamDocument, AttachEjr
<1>2. \/ pr' = [pr EXCEPT !.memo = TRUE]
      \/ pr' = [pr EXCEPT !.bcase = TRUE]
      \/ pr' = [pr EXCEPT !.ejr = TRUE]
  BY DEF SetDoamDocument, AttachEjr
<1>3. pr'.status = pr.status /\ SameValue(pr, pr') /\ pr'.waiver = pr.waiver /\ pr'.quotes = pr.quotes
  BY <1>1, <1>2 DEF PRs, SameValue
<1> QED
  BY <1>1, <1>3, FrameStays

\* Nor does holding or resuming; cancelling ends the request.
LEMMA HoldsStay ==
  ASSUME IInv, Controlled(pr, steps), NEW u, HoldRequest(u) \/ ResumeRequest(u) \/ CancelPr(u)
  PROVE  Stays
<1>1. pr \in PRs /\ pr.quotes \in Nat /\ steps' = steps
  BY InvFields DEF HoldRequest, ResumeRequest, CancelPr
<1>2. CASE CancelPr(u)
  <2>1. pr' = [pr EXCEPT !.status = "cancelled", !.current_seq = 0]
    BY <1>2 DEF CancelPr
  <2>2. ~Live(pr') /\ pr'.quotes = pr.quotes
    BY <1>1, <2>1 DEF PRs, Live
  <2> QED
    BY <1>1, <2>2, FrameStays
<1>3. CASE HoldRequest(u) \/ ResumeRequest(u)
  <2>1. pr' = [pr EXCEPT !.held = TRUE] \/ pr' = [pr EXCEPT !.held = FALSE]
    BY <1>3 DEF HoldRequest, ResumeRequest
  <2>2. pr'.status = pr.status /\ SameValue(pr, pr') /\ pr'.waiver = pr.waiver /\ pr'.quotes = pr.quotes
    BY <1>1, <2>1 DEF PRs, SameValue
  <2> QED
    BY <1>1, <2>2, FrameStays
<1> QED
  BY <1>2, <1>3

\* A step of the surroundings.
LEMMA StutterStays ==
  ASSUME IInv, Controlled(pr, steps), pr' = pr, steps' = steps PROVE Stays
<1>1. pr.quotes \in Nat
  BY InvFields
<1> QED
  BY <1>1, FrameStays DEF SameValue

\* A rejected request is not live.
LEMMA RejectStays == ASSUME IInv, Controlled(pr, steps), NEW u, NEW s, Reject(u, s) PROVE Stays
<1>1. pr \in PRs /\ pr' = [pr EXCEPT !.status = "rejected"]
  BY InvFields DEF Reject
<1>2. pr'.status = "rejected"
  BY <1>1 DEF PRs
<1> QED
  BY <1>2 DEF Stays, Controlled, BudgetSigned, Live

\* Sending back takes signatures, never rungs.
LEMMA SendBackStays ==
  ASSUME IInv, Controlled(pr, steps), NEW u, NEW s \in Present(steps), SendBack(u, s)
  PROVE  Stays
<1>1. pr \in PRs /\ steps \in Ladders /\ pr.status = "pending"
  BY InvFields DEF SendBack
<1>2. /\ steps' = [t \in Stages |->
                    IF steps[t].st # "none" /\ steps[t].seq >= steps[s].seq
                    THEN [steps[t] EXCEPT !.st = "pending", !.by = NoUser] ELSE steps[t]]
      /\ pr' = [pr EXCEPT !.current_seq = steps[s].seq]
  BY DEF SendBack
<1>3. pr'.status = "pending" /\ SameValue(pr, pr')
  BY <1>1, <1>2 DEF PRs, SameValue
<1>4. ASSUME NEW t \in Stages
      PROVE  /\ steps'[t].esc = steps[t].esc /\ steps'[t].origin = steps[t].origin
             /\ IF steps[t].st # "none" /\ steps[t].seq >= steps[s].seq
                THEN steps'[t].st = "pending" ELSE steps'[t].st = steps[t].st
  BY <1>1, <1>2, RungFields DEF Rungs
<1>5. Signed(steps') \subseteq Signed(steps)
  BY <1>4 DEF Signed
<1>6. Keeps(steps, steps')
  BY <1>4, SameKeeps
<1> QED
  BY <1>1, <1>3, <1>5, <1>6, KeptStays DEF Live

\* Reading the masters again only adds rungs.
LEMMA RegradedKeeps == \A s : Keeps(steps, Regraded(s)) /\ Signed(Regraded(s)) \subseteq Signed(steps)
<1>1. ASSUME NEW s PROVE Keeps(steps, Regraded(s)) /\ Signed(Regraded(s)) \subseteq Signed(steps)
  <2>1. CASE PastGate(s) /\ pr.priced
    <3>1. Regraded(s) = ApplyDeviation(steps, env)
      BY <2>1 DEF Regraded
    <3>2. \A t \in Stages : \/ ApplyDeviation(steps, env)[t] = steps[t]
                            \/ ApplyDeviation(steps, env)[t].st = "pending"
      BY DEF ApplyDeviation, AddRungs
    <3> QED
      BY <3>1, <3>2, DeviationKeeps DEF Signed
  <2>2. CASE ~(PastGate(s) /\ pr.priced)
    BY <2>2 DEF Regraded, Keeps
  <2> QED
    BY <2>1, <2>2
<1> QED
  BY <1>1

\* A refused signature may leave new rungs behind and nothing else.
LEMMA RefusedStays ==
  ASSUME IInv, Controlled(pr, steps), NEW u, NEW s, RefusedForDocument(u, s) PROVE Stays
<1>1. pr' = pr /\ steps' = Regraded(s) /\ pr.status = "pending"
  BY DEF RefusedForDocument, Acceptable, MayDecide
<1>2. Keeps(steps, steps') /\ Signed(steps') \subseteq Signed(steps) /\ SameValue(pr, pr')
  BY <1>1, RegradedKeeps DEF SameValue
<1> QED
  BY <1>1, <1>2, KeptStays DEF Live
-----------------------------------------------------------------------------
(* The signature.                                                          *)

\* What a signature does to the ladder: rungs may be added, rung s is signed, and
\* the signatures already there stay.
LEMMA ApproveSigns ==
  ASSUME IInv, NEW u, NEW s, Approve(u, s)
  PROVE  /\ pr.status = "pending" /\ s \in Stages
         /\ Keeps(steps, steps') /\ Present(steps') = Present(Regraded(s))
         /\ Signed(steps') \subseteq Signed(steps) \cup {s}
         /\ \A t \in Signed(steps) : steps'[t] = steps[t]
<1> DEFINE n == pr.current_seq
           R == Regraded(s)
           S == [R EXCEPT ![s].st = "approved", ![s].by = u]
<1>1. pr.status = "pending" /\ s \in At(steps, n) /\ n \in Nat
  BY PRFields, InvFields DEF Approve, Acceptable, MayDecide
<1>2. s \in Stages /\ s \in At(R, n) /\ R \in Ladders /\ Rebuilt(steps, R, n)
  <2>1. Standing(steps, n)
    BY <1>1, PendingStands
  <2>2. Rebuilt(steps, R, n)
    BY <1>1, <2>1, RegradedRebuilds
  <2>3. At(R, n) = At(steps, n)
    <3> HIDE DEF R
    <3> QED
      BY <2>1, <2>2, RebuiltStands
  <2> HIDE DEF R
  <2> QED
    BY <1>1, <2>2, <2>3 DEF At, Rebuilt
<1>3. Keeps(steps, R) /\ Signed(R) \subseteq Signed(steps)
  BY RegradedKeeps
<1>4. steps' = S
  BY DEF Approve
<1> HIDE DEF R
<1>5. ASSUME NEW t \in Stages
      PROVE  /\ S[t].esc = R[t].esc /\ S[t].origin = R[t].origin
             /\ t # s => S[t] = R[t]
             /\ t = s => S[t].st = "approved"
  BY <1>2, RungFields DEF Rungs, Ladders
<1>6. R[s].st = "pending"
  BY <1>2 DEF At
<1>7. Keeps(R, S) /\ Present(S) = Present(R)
  <2>1. \A t \in Stages : S[t].st = "none" <=> R[t].st = "none"
    BY <1>5, <1>6
  <2> HIDE DEF S
  <2> QED
    BY <1>5, <2>1, SameKeeps
<1>8. Signed(S) \subseteq Signed(R) \cup {s}
  BY <1>5 DEF Signed
<1>9. \A t \in Signed(steps) : S[t] = steps[t]
  <2>1. ASSUME NEW t \in Signed(steps) PROVE S[t] = steps[t]
    <3>1. t \in Stages /\ steps[t].st = "approved"
      BY DEF Signed
    <3>2. R[t] = steps[t]
      BY <1>2, <3>1 DEF Rebuilt, Unreached
    <3>3. t # s
      BY <1>6, <3>1, <3>2
    <3> QED
      BY <1>5, <3>1, <3>2, <3>3
  <2> QED
    BY <2>1
<1> HIDE DEF S
<1>10. Keeps(steps, S)
  BY <1>3, <1>7, KeepsTrans
<1> QED
  BY <1>1, <1>2, <1>3, <1>4, <1>7, <1>8, <1>9, <1>10 DEF R

\* The chain moves on, or the signature was the last one: every rung is signed.
LEMMA ApproveMoves ==
  ASSUME IInv, NEW u, NEW s, Approve(u, s)
  PROVE  /\ SameValue(pr, pr') /\ pr'.waiver = pr.waiver /\ pr'.quotes = pr.quotes
         /\ pr'.status \in {"pending", "approved"}
         /\ pr'.status = "approved" => Present(steps') = Signed(steps')
<1> DEFINE n == pr.current_seq
           R == Regraded(s)
           S == [R EXCEPT ![s].st = "approved", ![s].by = u]
           waiting == {t \in Stages : S[t].st = "pending" /\ S[t].seq > n}
           ahead == {S[x].seq : x \in waiting}
           next == CHOOSE k \in ahead : \A m \in ahead : k <= m
<1>1. pr \in PRs /\ pr.status = "pending" /\ s \in At(steps, n) /\ n \in Nat
  BY PRFields, InvFields DEF Approve, Acceptable, MayDecide
<1>2. /\ steps' = S
      /\ pr' = IF At(S, n) # {} THEN pr
               ELSE IF ahead # {} THEN [pr EXCEPT !.current_seq = next]
               ELSE [pr EXCEPT !.status = "approved", !.current_seq = 0]
  BY DEF Approve
<1>3. /\ SameValue(pr, pr') /\ pr'.waiver = pr.waiver /\ pr'.quotes = pr.quotes
      /\ pr'.status \in {"pending", "approved"}
      /\ pr'.status = "approved" => At(S, n) = {} /\ ahead = {}
  <2> HIDE DEF S, ahead, next
  <2>1. CASE pr' = pr
    BY <1>1, <2>1 DEF SameValue
  <2>2. CASE pr' = [pr EXCEPT !.current_seq = next]
    BY <1>1, <2>2 DEF SameValue, PRs
  <2>3. CASE /\ At(S, n) = {} /\ ahead = {}
             /\ pr' = [pr EXCEPT !.status = "approved", !.current_seq = 0]
    BY <1>1, <2>3 DEF SameValue, PRs
  <2> QED
    BY <1>2, <2>1, <2>2, <2>3
<1>4. ASSUME At(S, n) = {}, ahead = {} PROVE Present(S) = Signed(S)
  <2>1. /\ Standing(steps, n) /\ Split(steps, n) /\ steps \in Ladders /\ DistinctSeqs(steps)
        /\ Independent(steps)
    BY <1>1, PendingStands DEF IInv
  <2>2. Rebuilt(steps, R, n)
    BY <1>1, <2>1, RegradedRebuilds
  <2> HIDE DEF R
  <2>3. Split(R, n) /\ R \in Ladders
    BY <2>1, <2>2, RebuiltKeeps
  <2>4. s \in Stages /\ \A t \in Stages :
          /\ S[t].seq = R[t].seq /\ R[t].seq \in Nat
          /\ t # s => S[t] = R[t]
          /\ t = s => S[t].st = "approved"
    BY <1>1, <2>3, RungFields DEF Rungs, Ladders, At
  <2>5. \A t \in Stages : ~(S[t].st = "pending" /\ S[t].seq >= n)
    <3>1. ASSUME NEW t \in Stages, S[t].st = "pending", S[t].seq >= n PROVE FALSE
      <4> HIDE DEF S
      <4>1. S[t].seq = n \/ S[t].seq > n
        BY <1>1, <2>4, <3>1
      <4>2. CASE S[t].seq = n
        BY <1>4, <3>1, <4>2 DEF At
      <4>3. CASE S[t].seq > n
        <5>1. t \in waiting
          BY <3>1, <4>3
        <5> HIDE DEF waiting
        <5> QED
          BY <1>4, <5>1
      <4> QED
        BY <4>1, <4>2, <4>3
    <3> QED
      BY <3>1
  <2> HIDE DEF S
  <2>6. ASSUME NEW t \in Present(S) PROVE S[t].st = "approved"
    <3>1. t \in Stages /\ S[t].st # "none"
      BY DEF Present
    <3>2. CASE t = s
      BY <2>4, <3>2
    <3>3. CASE t # s
      <4>1. S[t] = R[t] /\ t \in Present(R)
        BY <2>4, <3>1, <3>3 DEF Present
      <4>2. S[t].st = IF S[t].seq < n THEN "approved" ELSE "pending"
        BY <2>3, <4>1 DEF Split
      <4> QED
        BY <1>1, <2>4, <2>5, <3>1, <4>2
    <3> QED
      BY <3>2, <3>3
  <2> QED
    BY <2>6 DEF Present, Signed
<1> HIDE DEF S, ahead
<1> QED
  BY <1>2, <1>3, <1>4

\* The signature that completes an uncompressed ladder finds Purchasing's gate passed
\* on a priced request.
LEMMA LastIsPastGate ==
  ASSUME IInv, Controlled(pr, steps), NEW u, NEW s, Approve(u, s),
         pr'.status = "approved", Escalated(steps') = {}
  PROVE  PastGate(s) /\ pr.priced
<1>1. /\ pr.status = "pending" /\ Keeps(steps, steps')
      /\ Signed(steps') \subseteq Signed(steps) \cup {s} /\ Present(steps') = Signed(steps')
  BY ApproveSigns, ApproveMoves
<1>2. DemandCovered(pr, steps) /\ ("purchasing" \in Signed(steps) => pr.priced)
  BY <1>1 DEF Controlled, Live, Covering
<1>3. DemandCovered(pr, steps')
  BY <1>1, <1>2, KeepsCovering
<1>4. "purchasing" \in Need(pr) \ VALUE_STAGES
  BY InvFields, LadderGrows, ValueStagesAre DEF Need
<1>5. "purchasing" \in Signed(steps')
  BY <1>1, <1>3, <1>4 DEF DemandCovered
<1>6. CASE "purchasing" \in Signed(steps)
  BY <1>2, <1>6 DEF PastGate, PRICING_GATE_STAGE, Signed
<1>7. CASE s = "purchasing"
  BY <1>7 DEF PastGate, PRICING_GATE_STAGE, Approve, Acceptable
<1> QED
  BY <1>1, <1>5, <1>6, <1>7

\* A signature passes the gates the invariant remembers.
LEMMA ApproveStays ==
  ASSUME IInv, Controlled(pr, steps), NEW u, NEW s, Approve(u, s) PROVE Stays
<1>1. /\ pr.status = "pending" /\ Keeps(steps, steps')
      /\ Signed(steps') \subseteq Signed(steps) \cup {s}
  BY ApproveSigns
<1>2. /\ SameValue(pr, pr') /\ pr'.waiver = pr.waiver /\ pr'.quotes = pr.quotes
      /\ pr'.status \in {"pending", "approved"}
      /\ pr'.status = "approved" => Present(steps') = Signed(steps')
  BY ApproveMoves
<1>3. Covering(pr, steps) /\ ("purchasing" \in Signed(steps) => pr.priced)
  BY <1>1 DEF Controlled, Live
<1>4. Covering(pr', steps')
  <2>1. Covering(pr, steps')
    BY <1>1, <1>3, KeepsCovering
  <2> QED
    BY <1>2, <2>1, SameNeed DEF SameValue
<1>5. "purchasing" \in Signed(steps') => pr'.priced
  <2>1. s = "purchasing" => pr.priced
    BY DEF Approve, Acceptable, PRICING_GATE_STAGE
  <2> QED
    BY <1>1, <1>2, <1>3, <2>1 DEF SameValue
<1>6. ASSUME pr'.status = "approved", Escalated(steps') = {}
      PROVE  pr'.waiver \/ pr'.quotes >= QuotesRequired(pr'.total)
  <2>1. PastGate(s) /\ pr.priced
    BY <1>6, LastIsPastGate
  <2>2. RfqGate
    BY <2>1 DEF Approve, Acceptable
  <2> QED
    BY <1>2, <2>1, <2>2 DEF RfqGate, SameValue
<1>7. BudgetSigned(pr, steps) => BudgetSigned(pr', steps')
  BY <1>1, <1>2, KeepsCovering DEF BudgetSigned, Live, SameValue
<1> QED
  BY <1>2, <1>4, <1>5, <1>6, <1>7 DEF Stays, Controlled
-----------------------------------------------------------------------------
(* Every step.                                                             *)

\* No quantity of the request is corrected by the warehouse in this step.
NoRevision == \A u \in Users, t \in Totals : ~WarehouseRevise(u, t)

\* Every step keeps the invariant; every step but a corrected quantity keeps an L1 rung on
\* unbudgeted spend.
LEMMA NextStays ==
  ASSUME IInv, Controlled(pr, steps), [Next]_vars
  PROVE  Controlled(pr', steps') /\ (NoRevision => Stays)
<1> DEFINE G == Controlled(pr', steps') /\ (NoRevision => Stays)
<1>0. Stays => G
  BY DEF Stays
<1>1. ASSUME NEW t \in Totals, NEW k \in KindSet, NEW d \in DomainSet, NEW c \in BOOLEAN,
             UpdatePr(t, k, d, c)
      PROVE  G
  BY <1>0, <1>1, UpdateStays
<1>2. ASSUME SubmitPr PROVE G
  BY <1>0, <1>2, SubmitStays
<1>3. ASSUME NEW u \in Users, NEW t \in Totals, NEW g \in PriceSet, PricePr(u, t, g)
      PROVE  G
  BY <1>0, <1>3, PriceStays
<1>4. ASSUME NEW u \in Users, NEW t \in Totals, SetFx(u, t) PROVE G
  BY <1>0, <1>4, FxStays
<1>5. ASSUME NEW u \in Users, NEW t \in Totals, WarehouseRevise(u, t)
      PROVE  G
  BY <1>5, ReviseStays DEF NoRevision
<1>6. ASSUME NEW u \in Users, SetSingleSource(u) \/ AddQuote(u) \/ ChooseQuote(u) PROVE G
  BY <1>0, <1>6, WaiveStays, QuotesStay
<1>7. ASSUME NEW u \in Users, NEW b \in BOOLEAN, IssueFromStock(u, b) \/ ReverseStockIssue(u, b)
      PROVE  G
  BY <1>0, <1>7, IssueStays, ReverseStays
<1>8. ASSUME NEW u \in Users, HoldRequest(u) \/ ResumeRequest(u) \/ CancelPr(u) PROVE G
  BY <1>0, <1>8, HoldsStay
<1>9. ASSUME NEW s \in At(steps, pr.current_seq), NEW u \in Users,
             Approve(u, s) \/ RefusedForDocument(u, s) \/ Reject(u, s)
      PROVE  G
  BY <1>0, <1>9, ApproveStays, RefusedStays, RejectStays
<1>10. ASSUME NEW s \in Present(steps), NEW u \in Users, SendBack(u, s) PROVE G
  BY <1>0, <1>10, SendBackStays
<1>11. ASSUME DeleteQuote \/ SetDoamDocument \/ AttachEjr PROVE G
  BY <1>0, <1>11, QuotesStay, PapersStay
<1>12. ASSUME World \/ UNCHANGED vars PROVE G
  BY <1>0, <1>12, StutterStays DEF World, vars
<1>13. ASSUME Next PROVE G
  <2> HIDE DEF G
  <2> QED
    BY <1>1, <1>2, <1>3, <1>4, <1>5, <1>6, <1>7, <1>8, <1>9, <1>10, <1>11, <1>12, <1>13 DEF Next
<1> QED
  BY <1>12, <1>13

CInv == Controlled(pr, steps)
BInv == BudgetSigned(pr, steps)

\* The invariant holds throughout.
LEMMA Covered == Spec => []CInv
<1>1. Init => CInv
  BY ControlledInit DEF CInv
<1>2. IInv /\ CInv /\ [Next]_vars => CInv'
  BY NextStays DEF CInv
<1> QED
  BY <1>1, <1>2, Inductive, PTL DEF Spec

\* And so does the one about unbudgeted spend, while no quantity is corrected.
LEMMA BudgetCovered == Spec /\ [][NoRevision]_vars => []BInv
<1>1. Init => BInv
  BY ControlledInit DEF BInv
<1>2. IInv /\ CInv /\ BInv /\ [Next]_vars /\ [NoRevision]_vars => BInv'
  <2> SUFFICES ASSUME IInv, CInv, BInv, [Next]_vars, [NoRevision]_vars PROVE BInv'
    OBVIOUS
  <2>1. CASE NoRevision
    BY <2>1, NextStays DEF CInv, BInv, Stays
  <2>2. CASE UNCHANGED vars
    BY <2>2, StutterStays DEF CInv, BInv, Stays, vars
  <2> QED
    BY <2>1, <2>2
<1> QED
  BY <1>1, <1>2, Inductive, Covered, PTL DEF Spec

-----------------------------------------------------------------------------
(* The theorems.                                                           *)

\* On a request whose rungs are all signed, nothing was absorbed exactly when nothing
\* was escalated, and then every stage its value asks for has signed.
LEMMA AbsorbingIs ==
  ASSUME CInv, pr.status = "approved", ~Absorbing
  PROVE  /\ Escalated(steps) = {} /\ Present(steps) = Signed(steps)
         /\ Need(pr) \subseteq Signed(steps)
<1>1. Present(steps) = Signed(steps)
  BY DEF CInv, Controlled
<1>2. Escalated(steps) = {}
  BY <1>1 DEF Absorbing, Escalated
<1>3. Covering(pr, steps)
  BY DEF CInv, Controlled, Live
<1> QED
  BY <1>1, <1>2, <1>3 DEF Covering, ValueCovered, DemandCovered

\* However the price, the rate, the quantities, the waiver and the budget moved while the
\* request circulated, whatever was sent back: an approved request was priced and carries
\* every signature the matrix asks for its value, for every matrix of roles and amounts.
THEOREM ValueSigned == Spec => []ApprovedCovered
<1>1. IInv /\ CInv => ApprovedCovered
  <2> SUFFICES ASSUME IInv, CInv, pr.status = "approved", ~Absorbing
               PROVE  pr.priced /\ Need(pr) \subseteq Signed(steps)
    BY DEF ApprovedCovered, Need
  <2>1. Need(pr) \subseteq Signed(steps)
    BY AbsorbingIs
  <2>2. "purchasing" \in Need(pr)
    BY InvFields, LadderGrows DEF Need
  <2> QED
    BY <2>1, <2>2 DEF CInv, Controlled, Live
<1> QED
  BY <1>1, Covered, Inductive, PTL

\* DOAM 4.3: an approved request has the competing quotations its value asks for, or a
\* recorded waiver, and neither can be taken from it afterwards.
THEOREM CompetitionOnFile == Spec => []QuotesOnFile
<1>1. CInv => QuotesOnFile
  BY AbsorbingIs DEF QuotesOnFile, CInv, Controlled
<1> QED
  BY <1>1, Covered, PTL

\* DOAM Table 4: as long as the warehouse corrects no quantity, an approved request last
\* routed as unbudgeted carries a signature of L1 authority.  (A correction rebuilds the
\* value ladder, which takes the unbudgeted rung back, and reads no budget.)
THEOREM UnbudgetedAtL1 == Spec /\ [][NoRevision]_vars => []UnbudgetedSigned
<1>1. CInv /\ BInv => UnbudgetedSigned
  <2> SUFFICES ASSUME CInv, BInv, pr.status = "approved", ~Absorbing,
                      pr.budget \in {"no_budget", "over_budget"}
               PROVE  \E s \in Signed(steps) : DOAM_LEVEL[s] >= L1
    BY DEF UnbudgetedSigned
  <2>1. AtL1(steps)
    BY DEF BInv, BudgetSigned, Live
  <2> QED
    BY <2>1, AbsorbingIs DEF AtL1
<1> QED
  BY <1>1, Covered, BudgetCovered, PTL

\* Only a signature takes a circulating request to "approved".
LEMMA OnlySignatures ==
  ASSUME IInv, [Next]_vars, pr.status = "pending", pr'.status = "approved"
  PROVE  \E u \in Users, s \in Stages : Approve(u, s)
<1>1. pr \in PRs
  BY InvFields
<1>2. ASSUME NEW t, NEW k, NEW d, NEW c, UpdatePr(t, k, d, c) PROVE FALSE
  BY <1>2 DEF UpdatePr
<1>3. CASE SubmitPr
  BY <1>3 DEF SubmitPr
<1>4. ASSUME NEW u, NEW t, NEW g, PricePr(u, t, g) PROVE FALSE
  BY <1>1, <1>4 DEF PricePr, PRs
<1>5. ASSUME NEW u, NEW t, SetFx(u, t) \/ WarehouseRevise(u, t) PROVE FALSE
  BY <1>1, <1>5 DEF SetFx, WarehouseRevise, PRs
<1>6. ASSUME NEW u, SetSingleSource(u) \/ AddQuote(u) \/ ChooseQuote(u) PROVE FALSE
  BY <1>1, <1>6 DEF SetSingleSource, AddQuote, ChooseQuote, PRs
<1>7. ASSUME NEW u, NEW b, IssueFromStock(u, b) PROVE FALSE
  <2>1. \/ pr' = [pr EXCEPT !.issued = TRUE, !.status = "closed", !.current_seq = 0]
        \/ pr' = [pr EXCEPT !.issued = TRUE]
    BY <1>7 DEF IssueFromStock
  <2> QED
    BY <1>1, <2>1 DEF PRs
<1>8. ASSUME NEW u, NEW b, ReverseStockIssue(u, b) PROVE FALSE
  <2>1. pr' = [pr EXCEPT !.issued = b]
    BY <1>8 DEF ReverseStockIssue
  <2> QED
    BY <1>1, <2>1 DEF PRs
<1>9. ASSUME NEW u, HoldRequest(u) \/ ResumeRequest(u) \/ CancelPr(u) PROVE FALSE
  <2>1. \/ pr' = [pr EXCEPT !.held = TRUE] \/ pr' = [pr EXCEPT !.held = FALSE]
        \/ pr' = [pr EXCEPT !.status = "cancelled", !.current_seq = 0]
    BY <1>9 DEF HoldRequest, ResumeRequest, CancelPr
  <2> QED
    BY <1>1, <2>1 DEF PRs
<1>10. ASSUME NEW u, NEW s, RefusedForDocument(u, s) \/ Reject(u, s) \/ SendBack(u, s) PROVE FALSE
  <2>1. \/ pr' = pr \/ pr' = [pr EXCEPT !.status = "rejected"]
        \/ pr' = [pr EXCEPT !.current_seq = steps[s].seq]
    BY <1>10 DEF RefusedForDocument, Reject, SendBack
  <2> QED
    BY <1>1, <2>1 DEF PRs
<1>11. CASE DeleteQuote \/ SetDoamDocument \/ AttachEjr
  <2>1. \/ pr' = [pr EXCEPT !.quotes = @ - 1] \/ pr' = [pr EXCEPT !.memo = TRUE]
        \/ pr' = [pr EXCEPT !.bcase = TRUE] \/ pr' = [pr EXCEPT !.ejr = TRUE]
    BY <1>11 DEF DeleteQuote, SetDoamDocument, AttachEjr
  <2> QED
    BY <1>1, <2>1 DEF PRs
<1>12. CASE World \/ UNCHANGED vars
  BY <1>12 DEF World, vars
<1>13. At(steps, pr.current_seq) \subseteq Stages
  BY DEF At
<1> QED
  BY <1>2, <1>3, <1>4, <1>5, <1>6, <1>7, <1>8, <1>9, <1>10, <1>11, <1>12, <1>13 DEF Next

\* DOAM 4.4: the signature that completes a request reads the masters again first, and
\* finds every stage their grades ask for on the ladder and signed.
THEOREM DeviationsAnswered == Spec => DeviationAnswered
<1> DEFINE Answered == pr.status = "pending" /\ pr'.status = "approved" /\ ~Absorbing' =>
                         DeviationStages(env.price, env.qty) \subseteq Signed(steps')
<1>1. IInv /\ CInv /\ [Next]_vars => Answered
  <2> SUFFICES ASSUME IInv, CInv, [Next]_vars,
                      pr.status = "pending", pr'.status = "approved", ~Absorbing'
               PROVE  DeviationStages(env.price, env.qty) \subseteq Signed(steps')
    OBVIOUS
  <2>1. PICK u \in Users, s \in Stages : Approve(u, s)
    BY OnlySignatures
  <2>2. Present(steps') = Signed(steps') /\ Present(steps') = Present(Regraded(s))
    BY <2>1, ApproveSigns, ApproveMoves
  <2>3. Escalated(steps') = {}
    BY <2>2 DEF Absorbing, Escalated
  <2>4. PastGate(s) /\ pr.priced
    BY <2>1, <2>3, LastIsPastGate DEF CInv
  <2>5. Regraded(s) = ApplyDeviation(steps, env)
    BY <2>4 DEF Regraded
  <2> QED
    BY <2>2, <2>5, DeviationKeeps
<1>2. [][Answered]_vars => DeviationAnswered
  BY PTL DEF DeviationAnswered
<1> HIDE DEF Answered
<1> QED
  BY <1>1, <1>2, Covered, Inductive, PTL DEF Spec
-----------------------------------------------------------------------------
(* Withdrawing signatures.                                                 *)

\* A signature kept in a step keeps every signature below it.
KeptFromTheBottom(S, T) ==
  \A s \in Signed(S) \cap Signed(T) :
    \A t \in Signed(S) : S[t].seq < S[s].seq => t \in Signed(T) /\ T[t].by = S[t].by

\* Rebuilding what lies ahead withdraws nothing.
LEMMA RebuiltWithdraws ==
  ASSUME NEW S, NEW T, NEW n, Rebuilt(S, T, n) PROVE KeptFromTheBottom(S, T)
  BY DEF KeptFromTheBottom, Rebuilt, Unreached, Signed

\* A ladder that keeps every signature withdraws nothing.
LEMMA SameWithdraws ==
  ASSUME NEW S, NEW T, \A t \in Signed(S) : T[t] = S[t] PROVE KeptFromTheBottom(S, T)
  BY DEF KeptFromTheBottom, Signed

\* send_back takes the signatures from one rung up.
LEMMA SendBackWithdraws ==
  ASSUME IInv, NEW u, NEW s \in Present(steps), SendBack(u, s)
  PROVE  KeptFromTheBottom(steps, steps')
<1>1. steps \in Ladders /\ s \in Stages
  BY InvFields DEF Present
<1>2. steps' = [t \in Stages |->
                  IF steps[t].st # "none" /\ steps[t].seq >= steps[s].seq
                  THEN [steps[t] EXCEPT !.st = "pending", !.by = NoUser] ELSE steps[t]]
  BY DEF SendBack
<1>3. ASSUME NEW t \in Stages
      PROVE  /\ steps[t].seq \in Nat
             /\ IF steps[t].st # "none" /\ steps[t].seq >= steps[s].seq
                THEN steps'[t].st = "pending" ELSE steps'[t] = steps[t]
  BY <1>1, <1>2, RungFields DEF Rungs
<1>4. ASSUME NEW x \in Signed(steps) \cap Signed(steps'), NEW t \in Signed(steps),
             steps[t].seq < steps[x].seq
      PROVE  steps'[t] = steps[t]
  <2>1. x \in Stages /\ t \in Stages /\ steps[x].st = "approved" /\ steps'[x].st = "approved"
    BY DEF Signed
  <2>2. ~(steps[x].seq >= steps[s].seq)
    BY <1>3, <2>1
  <2>3. steps[x].seq \in Nat /\ steps[t].seq \in Nat /\ steps[s].seq \in Nat
    BY <1>1, <1>3, <2>1
  <2>4. ~(steps[t].seq >= steps[s].seq)
    BY <1>4, <2>2, <2>3
  <2> QED
    BY <1>3, <2>1, <2>4
<1> QED
  BY <1>4 DEF KeptFromTheBottom, Signed

\* Which steps keep a circulating request circulating, and how they treat its ladder.
LEMMA NextWithdraws ==
  ASSUME IInv, [Next]_vars, pr.status = "pending", pr'.status = "pending"
  PROVE  KeptFromTheBottom(steps, steps')
<1> DEFINE G == KeptFromTheBottom(steps, steps')
           n == pr.current_seq
<1>1. pr \in PRs /\ n \in Nat /\ Standing(steps, n) /\ steps \in Ladders
  BY InvFields, PendingStands
<1>2. \A S : Rebuilt(steps, S, n) => KeptFromTheBottom(steps, S)
  BY RebuiltWithdraws
<1>3. ASSUME steps' = steps PROVE G
  BY <1>3, SameWithdraws
<1>4. ASSUME NEW u, NEW t \in Totals, NEW g, PricePr(u, t, g) PROVE G
  <2> DEFINE p == [pr EXCEPT !.priced = TRUE, !.total = t]
             e == [env EXCEPT !.price = g]
  <2>1. steps' = Repriced(p, e)
    BY <1>4 DEF PricePr
  <2>2. p.current_seq = n
    BY <1>1 DEF PRs
  <2> HIDE DEF p, e
  <2> QED
    BY <1>1, <1>2, <2>1, <2>2, RepricedRebuilds
<1>5. ASSUME NEW u, NEW t \in Totals, SetFx(u, t) PROVE G
  <2> DEFINE p == [pr EXCEPT !.total = t]
             A == Reconcile(steps, p, env)
             B == ApplyBudget(A, p, env)
  <2>1. steps' = ApplySingleSource(B, p, env)
    BY <1>5 DEF SetFx
  <2>2. p.current_seq = n
    BY <1>1 DEF PRs
  <2> HIDE DEF p
  <2>3. Rebuilt(steps, A, n) /\ Standing(A, n)
    BY <1>1, <2>2, ReconcileRebuilds, RebuiltStands
  <2> HIDE DEF A
  <2>4. Rebuilt(A, B, n) /\ Standing(B, n)
    BY <1>1, <2>2, <2>3, BudgetRebuilds, RebuiltStands
  <2> HIDE DEF B
  <2>5. Rebuilt(B, steps', n)
    BY <1>1, <2>1, <2>2, <2>4, SingleSourceRebuilds
  <2> QED
    BY <1>2, <2>3, <2>4, <2>5, RebuiltTrans
<1>6. ASSUME NEW u, NEW t \in Totals, WarehouseRevise(u, t) PROVE G
  <2> DEFINE p == [pr EXCEPT !.total = t]
             withdrawn == [s \in Stages |->
               IF steps[s].st # "none" /\ steps[s].seq > pr.current_seq /\ steps[s].st # "pending"
               THEN [steps[s] EXCEPT !.st = "pending", !.by = NoUser] ELSE steps[s]]
  <2>1. steps' = Reconcile(withdrawn, p, env) /\ p.current_seq = n
    BY <1>1, <1>6 DEF WarehouseRevise, PRs
  <2>2. ASSUME NEW s \in Stages PROVE withdrawn[s] = steps[s]
    <3>1. steps[s].seq \in Nat
      BY <1>1, RungFields
    <3>2. steps[s].st # "none" /\ steps[s].seq > n => steps[s].st = "pending"
      BY <1>1, <3>1, PendingStands DEF Split, Present
    <3> QED
      BY <3>2
  <2>3. withdrawn = steps
    BY <1>1, <2>2 DEF Ladders
  <2> HIDE DEF p, withdrawn
  <2> QED
    BY <1>1, <1>2, <2>1, <2>3, ReconcileRebuilds
<1>7. ASSUME NEW u, SetSingleSource(u) PROVE G
  <2>1. steps' = ApplySingleSource(steps, pr', env) /\ pr'.current_seq = n
    BY <1>1, <1>7 DEF SetSingleSource, PRs
  <2> QED
    BY <1>1, <1>2, <2>1, SingleSourceRebuilds
<1>8. ASSUME NEW u, NEW b \in BOOLEAN, IssueFromStock(u, b) PROVE G
  <2>1. b => pr'.status = "closed"
    <3>1. b => pr' = [pr EXCEPT !.issued = TRUE, !.status = "closed", !.current_seq = 0]
      BY <1>8 DEF IssueFromStock
    <3> QED
      BY <1>1, <3>1 DEF PRs
  <2> QED
    BY <1>3, <1>8, <2>1 DEF IssueFromStock
<1>9. ASSUME NEW u, NEW b, ReverseStockIssue(u, b) PROVE G
  BY <1>3, <1>9 DEF ReverseStockIssue
<1>10. ASSUME NEW u, NEW s, Approve(u, s) PROVE G
  BY <1>10, ApproveSigns, SameWithdraws
<1>11. ASSUME NEW u, NEW s, RefusedForDocument(u, s) PROVE G
  BY <1>1, <1>2, <1>11, RegradedRebuilds DEF RefusedForDocument
<1>12. ASSUME NEW u, NEW s, Reject(u, s) PROVE FALSE
  BY <1>1, <1>12 DEF Reject, PRs
<1>13. ASSUME NEW u, NEW s \in Present(steps), SendBack(u, s) PROVE G
  BY <1>13, SendBackWithdraws
<1>14. ASSUME NEW t, NEW k, NEW d, NEW c, UpdatePr(t, k, d, c) PROVE G
  BY <1>3, <1>14 DEF UpdatePr
<1>15. ASSUME SubmitPr PROVE FALSE
  BY <1>15 DEF SubmitPr
<1>16. ASSUME NEW u, AddQuote(u) \/ ChooseQuote(u) \/ HoldRequest(u) \/ ResumeRequest(u) \/ CancelPr(u)
       PROVE  G
  BY <1>3, <1>16 DEF AddQuote, ChooseQuote, HoldRequest, ResumeRequest, CancelPr
<1>17. ASSUME DeleteQuote \/ SetDoamDocument \/ AttachEjr \/ World \/ UNCHANGED vars PROVE G
  BY <1>3, <1>17 DEF DeleteQuote, SetDoamDocument, AttachEjr, World, vars
<1>18. ASSUME Next PROVE G
  <2> HIDE DEF G
  <2> QED
    BY <1>4, <1>5, <1>6, <1>7, <1>8, <1>9, <1>10, <1>11, <1>12, <1>13, <1>14, <1>15, <1>16,
       <1>17, <1>18 DEF Next
<1> QED
  BY <1>17, <1>18

\* While a request circulates, signatures are only ever withdrawn from the top down: a
\* rung that keeps its signature keeps everything signed below it, whatever is priced,
\* revised, waived, sent back or read again.
THEOREM WithdrawnInOrder == Spec => WithdrawnFromTheTop
<1> DEFINE Orderly ==
      pr.status = "pending" /\ pr'.status = "pending" =>
        \A s \in Signed(steps) \cap Signed(steps') :
          \A t \in Signed(steps) :
            steps[t].seq < steps[s].seq => t \in Signed(steps') /\ steps'[t].by = steps[t].by
<1>1. IInv /\ [Next]_vars => Orderly
  BY NextWithdraws DEF KeptFromTheBottom
<1>2. [][Orderly]_vars => WithdrawnFromTheTop
  BY PTL DEF WithdrawnFromTheTop
<1> HIDE DEF Orderly
<1> QED
  BY <1>1, <1>2, Inductive, PTL DEF Spec
=============================================================================
