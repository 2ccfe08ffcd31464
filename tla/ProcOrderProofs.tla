-------------------------- MODULE ProcOrderProofs --------------------------
(***************************************************************************)
(* Proofs about ProcOrder for every set of lines, suppliers, quantities,   *)
(* prices and bounds.                                                      *)
(***************************************************************************)
EXTENDS ProcOrder, SumProofs, SequenceTheorems, TLAPS

-----------------------------------------------------------------------------
(* The rows an operation appends.                                          *)

\* SetToSeq lists each element of a finite set once.
LEMMA Listed ==
  ASSUME NEW S, IsFiniteSet(S)
  PROVE  /\ SetToSeq(S) \in Seq(S)
         /\ Len(SetToSeq(S)) = Cardinality(S) /\ Cardinality(S) \in Nat
         /\ \A i, j \in 1..Cardinality(S) : SetToSeq(S)[i] = SetToSeq(S)[j] => i = j
         /\ \A x \in S : \E i \in 1..Cardinality(S) : SetToSeq(S)[i] = x
<1> DEFINE n == Cardinality(S)
           q == SetToSeq(S)
<1>1. n \in Nat /\ ExistsBijection(1..n, S)
  BY FS_CardinalityType
<1>2. q \in [1..n -> S] /\ IsInjective(q)
  BY <1>1 DEF SetToSeq, ExistsBijection, Bijection, Injection
<1>3. q \in Seq(S) /\ Len(q) = n
  BY <1>1, <1>2
<1>4. IsFiniteSet(1..n) /\ Cardinality(1..n) = n
  BY <1>1, FS_Interval
<1>5. q \in Injection(1..n, S)
  BY <1>2 DEF Injection
<1>6. q \in Surjection(1..n, S)
  <2> HIDE DEF q
  <2> QED
    BY <1>4, <1>5, FS_Injection
<1>7. \A i, j \in 1..n : q[i] = q[j] => i = j
  BY <1>2 DEF IsInjective
<1>8. \A x \in S : \E i \in 1..n : q[i] = x
  BY <1>6 DEF Surjection
<1> QED
  BY <1>1, <1>3, <1>7, <1>8

\* The lines, the suppliers and the lines of each supplier are finitely many.
LEMMA LinesFinite ==
  /\ IsFiniteSet(Lines) /\ Suppliers \subseteq Vendors /\ IsFiniteSet(Suppliers)
  /\ \A o : LinesOf(o) \subseteq Lines /\ IsFiniteSet(LinesOf(o))
<1>1. IsFiniteSet(Lines) /\ SupplierOf \in [Lines -> Vendors]
  BY OrderAssumption
<1>2. \A o : LinesOf(o) \subseteq Lines
  BY DEF LinesOf
<1>3. \A o : IsFiniteSet(LinesOf(o))
  BY <1>1, <1>2, FS_Subset
<1>4. Suppliers \subseteq Vendors
  BY <1>1 DEF Suppliers
<1>5. IsFiniteSet(Suppliers)
  <2>1. SupplierOf \in Surjection(Lines, Suppliers)
    BY <1>1 DEF Surjection, Suppliers
  <2> QED
    BY <1>1, <2>1, FS_Surjection
<1> QED
  BY <1>1, <1>2, <1>3, <1>4, <1>5

\* A list of rows, one for each line with a positive quantity.
LEMMA HeldListed ==
  ASSUME NEW q \in [Lines -> Nat], NEW res \in {"quarantined", "rejected_surplus"}
  PROVE  /\ HeldRows(q, res) \in Seq(HeldRow)
         /\ \A l \in Lines : Quarantined(HeldRows(q, res), l) = q[l]
<1> DEFINE S == {[line |-> l, qty |-> q[l], res |-> res] : l \in {k \in Lines : q[k] > 0}}
           H == HeldRows(q, res)
<1>1. S \subseteq HeldRow
  BY DEF HeldRow
<1>2. IsFiniteSet(S)
  <2> DEFINE on == {k \in Lines : q[k] > 0}
             b == [k \in on |-> [line |-> k, qty |-> q[k], res |-> res]]
  <2>1. IsFiniteSet(on)
    BY LinesFinite, FS_Subset
  <2>2. b \in Surjection(on, S)
    BY DEF Surjection
  <2> HIDE DEF on, b, S
  <2> QED
    BY <2>1, <2>2, FS_Surjection
<1>3. H = SetToSeq(S)
  BY DEF HeldRows
<1>4. /\ H \in Seq(S) /\ Len(H) \in Nat /\ DOMAIN H = 1..Len(H)
      /\ \A i \in DOMAIN H : H[i] \in S
      /\ \A i, j \in DOMAIN H : H[i] = H[j] => i = j
      /\ \A x \in S : \E i \in DOMAIN H : H[i] = x
  <2> HIDE DEF S, H
  <2>1. /\ H \in Seq(S) /\ Len(H) = Cardinality(S) /\ Cardinality(S) \in Nat
        /\ \A i, j \in 1..Cardinality(S) : H[i] = H[j] => i = j
        /\ \A x \in S : \E i \in 1..Cardinality(S) : H[i] = x
    BY <1>2, <1>3, Listed
  <2>2. DOMAIN H = 1..Len(H) /\ \A i \in DOMAIN H : H[i] \in S
    BY <2>1, ElementOfSeq
  <2> QED
    BY <2>1, <2>2
<1>5. H \in Seq(HeldRow)
  <2> HIDE DEF S, H
  <2> QED
    BY <1>1, <1>4, SeqMonotonic
<1>6. ASSUME NEW l \in Lines PROVE Quarantined(H, l) = q[l]
  <2> DEFINE of == {i \in DOMAIN H : H[i].line = l /\ H[i].res # "received"}
             v  == [i \in DOMAIN H |-> H[i].qty]
  <2>1. Quarantined(H, l) = SumFunctionOnSet(v, of)
    BY DEF Quarantined
  <2>2. CASE q[l] > 0
    <3>1. [line |-> l, qty |-> q[l], res |-> res] \in S
      BY <2>2
    <3>2. PICK i \in DOMAIN H : H[i] = [line |-> l, qty |-> q[l], res |-> res]
      BY <1>4, <3>1
    <3>3. of = {i}
      <4>1. i \in of
        BY <3>2
      <4>2. ASSUME NEW j \in of PROVE j = i
        <5>1. j \in DOMAIN H /\ H[j] \in S /\ H[j].line = l
          BY <1>4
        <5>2. H[j] = [line |-> l, qty |-> q[l], res |-> res]
          BY <5>1
        <5> QED
          BY <1>4, <3>2, <5>1, <5>2
      <4> QED
        BY <4>1, <4>2
    <3>4. v[i] = q[l] /\ q[l] \in Int
      BY <3>2
    <3>5. SumFunctionOnSet(v, {i}) = v[i]
      <4> HIDE DEF v, H
      <4> QED
        BY <3>4, FS_Singleton, SumLone
    <3> QED
      BY <2>1, <3>3, <3>4, <3>5
  <2>3. CASE ~(q[l] > 0)
    <3>1. of = {}
      <4> SUFFICES ASSUME NEW j \in of PROVE FALSE
        OBVIOUS
      <4>1. j \in DOMAIN H /\ H[j] \in S /\ H[j].line = l
        BY <1>4
      <4> QED
        BY <4>1, <2>3
    <3>2. q[l] = 0
      BY <2>3
    <3> QED
      BY <2>1, <3>1, <3>2, SumEmpty
  <2> QED
    BY <2>2, <2>3
<1> QED
  BY <1>5, <1>6

\* The returns of one receipt: every rejected unit is on exactly one of them.
LEMMA ReturnsListed ==
  ASSUME NEW q \in [Lines -> Nat]
  PROVE  /\ ReturnRows(q) \in Seq(NoteRow)
         /\ \A l \in Lines : Returned(ReturnRows(q), l) = q[l]
<1> DEFINE who == {SupplierOf[l] : l \in {k \in Lines : q[k] > 0}}
           Row(v) == [vendor |-> v, open |-> TRUE,
                      qty |-> [l \in Lines |-> IF SupplierOf[l] = v THEN q[l] ELSE 0]]
           S == {Row(v) : v \in who}
           N == ReturnRows(q)
<1>1. who \subseteq Vendors /\ IsFiniteSet(who)
  <2>1. who \subseteq Suppliers
    BY DEF Suppliers
  <2> HIDE DEF who
  <2> QED
    BY <2>1, LinesFinite, FS_Subset
<1>2. \A v \in Vendors : Row(v) \in NoteRow
  BY DEF NoteRow
<1>3. IsFiniteSet(S) /\ S \subseteq NoteRow
  <2> DEFINE b == [v \in who |-> Row(v)]
  <2>1. b \in Surjection(who, S)
    BY DEF Surjection
  <2>2. S \subseteq NoteRow
    BY <1>1, <1>2
  <2> HIDE DEF who, b, S
  <2> QED
    BY <1>1, <2>1, <2>2, FS_Surjection
<1>4. N = SetToSeq(S)
  BY DEF ReturnRows
<1>5. /\ N \in Seq(S) /\ DOMAIN N = 1..Len(N) /\ IsFiniteSet(DOMAIN N)
      /\ \A i \in DOMAIN N : N[i] \in S
      /\ \A i, j \in DOMAIN N : N[i] = N[j] => i = j
      /\ \A x \in S : \E i \in DOMAIN N : N[i] = x
  <2> HIDE DEF S, N
  <2>1. /\ N \in Seq(S) /\ Len(N) = Cardinality(S) /\ Cardinality(S) \in Nat
        /\ \A i, j \in 1..Cardinality(S) : N[i] = N[j] => i = j
        /\ \A x \in S : \E i \in 1..Cardinality(S) : N[i] = x
    BY <1>3, <1>4, Listed
  <2>2. DOMAIN N = 1..Len(N) /\ \A i \in DOMAIN N : N[i] \in S
    BY <2>1, ElementOfSeq
  <2>3. IsFiniteSet(1..Len(N))
    BY <2>1, FS_Interval
  <2> QED
    BY <2>1, <2>2, <2>3
<1>6. N \in Seq(NoteRow)
  <2> HIDE DEF S, N
  <2> QED
    BY <1>3, <1>5, SeqMonotonic
<1>7. ASSUME NEW l \in Lines PROVE Returned(N, l) = q[l]
  <2> DEFINE v == [i \in DOMAIN N |-> N[i].qty[l]]
  <2>1. Returned(N, l) = SumFunctionOnSet(v, DOMAIN N)
    BY DEF Returned
  <2>2. \A i \in DOMAIN N : \E w \in who : N[i] = Row(w)
    BY <1>5
  <2>3. \A w : Row(w).qty[l] = IF SupplierOf[l] = w THEN q[l] ELSE 0
    OBVIOUS
  <2>4. CASE q[l] > 0
    <3>1. Row(SupplierOf[l]) \in S
      BY <2>4
    <3>2. PICK i \in DOMAIN N : N[i] = Row(SupplierOf[l])
      BY <1>5, <3>1
    <3>3. v[i] = q[l]
      <4> HIDE DEF Row, N
      <4> QED
        BY <3>2, <2>3
    <3>4. \A j \in DOMAIN N \ {i} : v[j] = 0
      <4> SUFFICES ASSUME NEW j \in DOMAIN N \ {i} PROVE v[j] = 0
        OBVIOUS
      <4>1. PICK w \in who : N[j] = Row(w)
        BY <2>2
      <4> HIDE DEF Row, N
      <4>2. w # SupplierOf[l]
        BY <1>5, <3>2, <4>1
      <4> QED
        BY <2>3, <4>1, <4>2
    <3>5. SumFunctionOnSet(v, DOMAIN N) = v[i]
      <4>1. v[i] \in Int
        BY <3>3
      <4> HIDE DEF v, N
      <4> QED
        BY <1>5, <3>4, <4>1, SumLone
    <3> QED
      BY <2>1, <3>3, <3>5
  <2>5. CASE ~(q[l] > 0)
    <3>1. q[l] = 0
      BY <2>5
    <3>2. \A j \in DOMAIN N : v[j] = 0
      <4> SUFFICES ASSUME NEW j \in DOMAIN N PROVE v[j] = 0
        OBVIOUS
      <4>1. PICK w \in who : N[j] = Row(w)
        BY <2>2
      <4> HIDE DEF Row, N
      <4> QED
        BY <2>3, <3>1, <4>1
    <3>3. SumFunctionOnSet(v, DOMAIN N) = 0
      <4> HIDE DEF v, N
      <4> QED
        BY <1>5, <3>2, SumZero
    <3> QED
      BY <2>1, <3>1, <3>3
  <2> QED
    BY <2>4, <2>5
<1> QED
  BY <1>6, <1>7

\* What two lists hold of a line, appended one to the other.
LEMMA HeldAppended ==
  ASSUME NEW H \in Seq(HeldRow), NEW G \in Seq(HeldRow), NEW l \in Lines
  PROVE  Quarantined(H \o G, l) = Quarantined(H, l) + Quarantined(G, l)
<1> DEFINE HG == H \o G
           n == Len(H)
           m == Len(G)
           On(Q) == {i \in DOMAIN Q : Q[i].line = l /\ Q[i].res # "received"}
           Qty(Q) == [i \in DOMAIN Q |-> Q[i].qty]
<1>1. /\ HG \in Seq(HeldRow) /\ Len(HG) = n + m /\ n \in Nat /\ m \in Nat
      /\ DOMAIN HG = 1..n + m /\ DOMAIN H = 1..n /\ DOMAIN G = 1..m
      /\ \A i \in 1..n : HG[i] = H[i]
      /\ \A i \in 1..m : HG[n + i] = G[i]
  BY ConcatProperties, LenProperties
<1>2. /\ \A i \in 1..n : H[i] \in HeldRow
      /\ \A i \in 1..m : G[i] \in HeldRow
  BY ElementOfSeq
<1>3. /\ \A i \in 1..n : H[i].qty \in Int
      /\ \A i \in 1..m : G[i].qty \in Int
  BY <1>2 DEF HeldRow
<1> HIDE DEF HG, n, m
<1>4. /\ On(H) \in SUBSET (1..n) /\ On(G) \in SUBSET (1..m)
      /\ \A i \in On(H) : Qty(H)[i] \in Int /\ Qty(HG)[i] = Qty(H)[i]
      /\ \A i \in On(G) : Qty(G)[i] \in Int /\ Qty(HG)[n + i] = Qty(G)[i]
      /\ On(H) \subseteq On(HG) /\ \A i \in On(G) : n + i \in On(HG)
  BY <1>1, <1>3
<1>5. ASSUME NEW i \in On(HG), i \notin On(H) PROVE i - n \in On(G) /\ i \in Int
  <2>1. i \in 1..n + m /\ i \notin 1..n
    BY <1>1, <1>5
  <2>2. i - n \in 1..m /\ n + (i - n) = i
    BY <1>1, <2>1
  <2> QED
    BY <1>1, <2>1, <2>2
<1>6. SumFunctionOnSet(Qty(HG), On(HG))
        = SumFunctionOnSet(Qty(H), On(H)) + SumFunctionOnSet(Qty(G), On(G))
  <2> DEFINE S == On(H)
             T == On(G)
             R == On(HG)
             f == Qty(H)
             g == Qty(G)
             h == Qty(HG)
  <2>1. SumFunctionOnSet(h, R) = SumFunctionOnSet(f, S) + SumFunctionOnSet(g, T)
    <3>1. IsFiniteSet(T) /\ n \in Nat
      <4>1. IsFiniteSet(1..m)
        BY <1>1, FS_Interval
      <4>2. T \subseteq 1..m /\ n \in Nat
        BY <1>1, <1>4
      <4> HIDE DEF T
      <4> QED
        BY <4>1, <4>2, FS_Subset
    <3>2. Behind(n, f, S, g, T, h, R)
      <4>1. S \subseteq 1..n /\ T \subseteq Nat \ {0} /\ R \subseteq Int
        BY <1>1, <1>4
      <4>2. \A i \in S : i \in R /\ h[i] = f[i] /\ f[i] \in Int
        BY <1>4
      <4>3. \A i \in T : n + i \in R /\ h[n + i] = g[i] /\ g[i] \in Int
        BY <1>4
      <4>4. \A i \in R : i \in S \/ i - n \in T
        BY <1>5
      <4> HIDE DEF S, T, R, f, g, h
      <4> QED
        BY <3>1, <4>1, <4>2, <4>3, <4>4 DEF Behind
    <3> HIDE DEF S, T, R, f, g, h
    <3> QED
      BY <3>2, SumAppended
  <2> QED
    BY <2>1
<1> QED
  BY <1>6 DEF Quarantined, HG

\* The same for the returns.
LEMMA ReturnsAppended ==
  ASSUME NEW N \in Seq(NoteRow), NEW M \in Seq(NoteRow), NEW l \in Lines
  PROVE  Returned(N \o M, l) = Returned(N, l) + Returned(M, l)
<1> DEFINE NM == N \o M
           n == Len(N)
           m == Len(M)
           Qty(Q) == [i \in DOMAIN Q |-> Q[i].qty[l]]
<1>1. /\ NM \in Seq(NoteRow) /\ Len(NM) = n + m /\ n \in Nat /\ m \in Nat
      /\ DOMAIN NM = 1..n + m /\ DOMAIN N = 1..n /\ DOMAIN M = 1..m
      /\ \A i \in 1..n : NM[i] = N[i]
      /\ \A i \in 1..m : NM[n + i] = M[i]
  BY ConcatProperties, LenProperties
<1>2. /\ \A i \in 1..n : N[i] \in NoteRow
      /\ \A i \in 1..m : M[i] \in NoteRow
  BY ElementOfSeq
<1>3. /\ \A i \in 1..n : N[i].qty[l] \in Int
      /\ \A i \in 1..m : M[i].qty[l] \in Int
  BY <1>2 DEF NoteRow
<1> HIDE DEF NM, n, m
<1>4. /\ \A i \in 1..n : Qty(N)[i] \in Int /\ Qty(NM)[i] = Qty(N)[i]
      /\ \A i \in 1..m : Qty(M)[i] \in Int /\ Qty(NM)[n + i] = Qty(M)[i]
      /\ 1..n \subseteq 1..n + m /\ \A i \in 1..m : n + i \in 1..n + m
      /\ \A i \in 1..n + m : i \in 1..n \/ (i - n \in 1..m /\ i \in Int)
  BY <1>1, <1>3
<1>5. SumFunctionOnSet(Qty(NM), 1..n + m)
        = SumFunctionOnSet(Qty(N), 1..n) + SumFunctionOnSet(Qty(M), 1..m)
  <2> DEFINE S == 1..n
             T == 1..m
             R == 1..n + m
             f == Qty(N)
             g == Qty(M)
             h == Qty(NM)
  <2>1. SumFunctionOnSet(h, R) = SumFunctionOnSet(f, S) + SumFunctionOnSet(g, T)
    <3>1. IsFiniteSet(T) /\ n \in Nat
      <4>1. IsFiniteSet(1..m)
        BY <1>1, FS_Interval
      <4>2. T \subseteq 1..m /\ n \in Nat
        BY <1>1, <1>4
      <4> HIDE DEF T
      <4> QED
        BY <4>1, <4>2, FS_Subset
    <3>2. Behind(n, f, S, g, T, h, R)
      <4>1. S \subseteq 1..n /\ T \subseteq Nat \ {0} /\ R \subseteq Int
        BY <1>1, <1>4
      <4>2. \A i \in S : i \in R /\ h[i] = f[i] /\ f[i] \in Int
        BY <1>4
      <4>3. \A i \in T : n + i \in R /\ h[n + i] = g[i] /\ g[i] \in Int
        BY <1>4
      <4>4. \A i \in R : i \in S \/ i - n \in T
        BY <1>4
      <4> HIDE DEF S, T, R, f, g, h
      <4> QED
        BY <3>1, <4>1, <4>2, <4>3, <4>4 DEF Behind
    <3> HIDE DEF S, T, R, f, g, h
    <3> QED
      BY <3>2, SumAppended
  <2> QED
    BY <2>1
<1> QED
  BY <1>1, <1>5 DEF Returned, NM

-----------------------------------------------------------------------------
(* Types.                                                                  *)

\* three_way_match changes the verdict on the latest invoice and nothing else.
LEMMA JudgedKeeps ==
  ASSUME NEW B \in Seq(BillRow)
  PROVE  /\ Judged(B) \in Seq(BillRow) /\ Len(Judged(B)) = Len(B)
         /\ DOMAIN Judged(B) = DOMAIN B
         /\ \A i \in DOMAIN B : /\ Judged(B)[i].amount = B[i].amount
                                /\ Judged(B)[i].po = B[i].po
<1> DEFINE st == IF Matched(B) THEN "matched" ELSE "disputed"
<1>1. CASE B = <<>>
  BY <1>1 DEF Judged
<1>2. CASE B # <<>>
  <2>1. Len(B) \in 1..Len(B) /\ DOMAIN B = 1..Len(B)
    BY <1>2, EmptySeq, LenProperties
  <2>2. Judged(B) = [B EXCEPT ![Len(B)].st = st]
    BY <1>2 DEF Judged
  <2>3. st \in {"received", "matched", "disputed"}
    OBVIOUS
  <2>4. B[Len(B)] \in BillRow
    BY <2>1, ElementOfSeq
  <2> DEFINE e == [B[Len(B)] EXCEPT !.st = st]
  <2>5. e \in BillRow /\ e.amount = B[Len(B)].amount /\ e.po = B[Len(B)].po
    BY <2>3, <2>4 DEF BillRow
  <2>6. Judged(B) = [B EXCEPT ![Len(B)] = e]
    BY <2>2
  <2> HIDE DEF e
  <2>7. /\ Judged(B) \in Seq(BillRow) /\ Len(Judged(B)) = Len(B)
        /\ \A j \in 1..Len(B) : Judged(B)[j] = IF j = Len(B) THEN e ELSE B[j]
    BY <2>1, <2>5, <2>6, ExceptSeq
  <2>8. DOMAIN Judged(B) = 1..Len(B)
    BY <2>7, LenProperties
  <2> QED
    BY <2>1, <2>5, <2>7, <2>8
<1> QED
  BY <1>1, <1>2

\* What a receipt does with the n accepted and r rejected units of a line.
LEMMA GateArithmetic ==
  ASSUME TypeOK, NEW l \in Lines, NEW n \in Nat, NEW r \in Nat
  PROVE  /\ NewTotal(l, n) \in Nat /\ Over(l, n) \in Nat
         /\ InOrder(l, n, r) \in Nat /\ r - InOrder(l, n, r) \in Nat
         /\ NewTotal(l, n) + Over(l, n) = recv[l] + n
<1>1. recv[l] \in Nat /\ Ordered[l] \in Nat
  BY OrderAssumption DEF TypeOK
<1>2. NewTotal(l, n) \in Nat /\ Over(l, n) \in Nat /\ NewTotal(l, n) + Over(l, n) = recv[l] + n
  BY <1>1 DEF NewTotal, Over, Least, Most
<1>3. Accepted(l, n) \in Nat
  BY <1>1, <1>2 DEF Accepted, Most
<1>4. Most(0, Ordered[l] - recv[l] - Accepted(l, n)) \in Nat
  BY <1>1, <1>3 DEF Most
<1>5. InOrder(l, n, r) \in Nat /\ InOrder(l, n, r) <= r
  BY <1>4 DEF InOrder, Least
<1> QED
  BY <1>2, <1>5

\* An approved request with nothing ordered has the types.
LEMMA InitTypes == Init => TypeOK
<1> SUFFICES ASSUME Init PROVE TypeOK
  OBVIOUS
<1>1. order \in Requests
  BY SMT DEF Init, Requests, Statuses, Receivable
<1>2. /\ recv \in [Lines -> Nat] /\ came \in [Lines -> Nat] /\ paidOn \in [AllPos -> Nat]
      /\ held = <<>> /\ notes = <<>> /\ bills = <<>>
  BY DEF Init
<1>3. held \in Seq(HeldRow) /\ notes \in Seq(NoteRow) /\ bills \in Seq(BillRow)
  BY <1>2, EmptySeq
<1> QED
  BY <1>1, <1>2, <1>3 DEF TypeOK

\* The lists receive_items appends to.
LEMMA ReceiveTypes ==
  ASSUME TypeOK, NEW add \in [Lines -> AddSet], NEW rej \in [Lines -> RejSet], Receive(add, rej)
  PROVE  /\ TypeOK'
         /\ \E over, within, surplus \in [Lines -> Nat] :
              /\ held' = held \o HeldRows(over, "quarantined") \o HeldRows(surplus, "rejected_surplus")
              /\ notes' = notes \o ReturnRows(within)
              /\ \A l \in Lines :
                   recv'[l] + over[l] + within[l] + surplus[l] = recv[l] + add[l] + rej[l]
         /\ came' = [l \in Lines |-> came[l] + add[l] + rej[l]]
<1> DEFINE moved   == {l \in Lines : add[l] > 0 \/ rej[l] > 0}
           total   == [l \in Lines |-> IF l \in moved THEN NewTotal(l, add[l]) ELSE recv[l]]
           over    == [l \in Lines |-> IF l \in moved THEN Over(l, add[l]) ELSE 0]
           within  == [l \in Lines |-> InOrder(l, add[l], rej[l])]
           surplus == [l \in Lines |-> rej[l] - within[l]]
<1>1. \A l \in Lines : add[l] \in Nat /\ rej[l] \in Nat /\ recv[l] \in Nat /\ came[l] \in Nat
  BY OrderAssumption DEF TypeOK
<1>2. \A l \in Lines :
        /\ NewTotal(l, add[l]) \in Nat /\ Over(l, add[l]) \in Nat
        /\ InOrder(l, add[l], rej[l]) \in Nat /\ rej[l] - InOrder(l, add[l], rej[l]) \in Nat
        /\ NewTotal(l, add[l]) + Over(l, add[l]) = recv[l] + add[l]
  BY <1>1, GateArithmetic
<1>3. /\ total \in [Lines -> Nat] /\ over \in [Lines -> Nat]
      /\ within \in [Lines -> Nat] /\ surplus \in [Lines -> Nat]
  BY <1>1, <1>2
<1>4. \A l \in Lines : total[l] + over[l] + within[l] + surplus[l] = recv[l] + add[l] + rej[l]
  <2> SUFFICES ASSUME NEW l \in Lines
               PROVE  total[l] + over[l] + within[l] + surplus[l] = recv[l] + add[l] + rej[l]
    OBVIOUS
  <2>1. within[l] + surplus[l] = rej[l] /\ within[l] \in Nat /\ surplus[l] \in Nat
    BY <1>1, <1>2
  <2>2. total[l] + over[l] = recv[l] + add[l]
    <3>1. CASE l \in moved
      BY <1>1, <1>2, <3>1
    <3>2. CASE l \notin moved
      BY <1>1, <3>2
    <3> QED
      BY <3>1, <3>2
  <2>3. total[l] \in Nat /\ over[l] \in Nat /\ add[l] \in Nat /\ rej[l] \in Nat /\ recv[l] \in Nat
    BY <1>1, <1>3
  <2> HIDE DEF total, over, within, surplus
  <2> QED
    BY <2>1, <2>2, <2>3
<1>5. /\ recv' = total
      /\ held' = held \o HeldRows(over, "quarantined") \o HeldRows(surplus, "rejected_surplus")
      /\ notes' = notes \o ReturnRows(within)
      /\ came' = [l \in Lines |-> came[l] + add[l] + rej[l]]
      /\ bills' = bills /\ paidOn' = paidOn
  BY Zenon DEF Receive
<1>6. order' \in Requests
  <2>1. PICK st \in {"received", "partially_received"} : order' = [order EXCEPT !.status = st]
    BY DEF Receive
  <2> QED
    BY <2>1 DEF TypeOK, Requests, Statuses, Receivable
<1> HIDE DEF moved, total, over, within, surplus
<1>7. held' \in Seq(HeldRow)
  <2>1. HeldRows(over, "quarantined") \in Seq(HeldRow) /\ HeldRows(surplus, "rejected_surplus") \in Seq(HeldRow)
    BY <1>3, HeldListed
  <2>2. held \in Seq(HeldRow)
    BY DEF TypeOK
  <2> QED
    BY <1>5, <2>1, <2>2, ConcatProperties
<1>8. notes' \in Seq(NoteRow)
  <2>1. ReturnRows(within) \in Seq(NoteRow) /\ notes \in Seq(NoteRow)
    BY <1>3, ReturnsListed DEF TypeOK
  <2> QED
    BY <1>5, <2>1, ConcatProperties
<1>9. came' \in [Lines -> Nat]
  BY <1>1, <1>5
<1>10. TypeOK'
  BY <1>3, <1>5, <1>6, <1>7, <1>8, <1>9 DEF TypeOK
<1>11. \A l \in Lines : recv'[l] + over[l] + within[l] + surplus[l] = recv[l] + add[l] + rej[l]
  BY <1>4, <1>5
<1> QED
  BY <1>3, <1>5, <1>10, <1>11
\* The request's row after a payment of a.
AfterPayment(a, override, ps) ==
  [order EXCEPT !.paid = order.paid + a, !.forced = order.forced \/ override,
                !.paystate = ps]

\* A payment adds its amount to what is paid, here and on its order.
LEMMA PaymentWrites ==
  ASSUME TypeOK, NEW o \in AllPos, NEW a \in PaySet, NEW override \in Overrides,
         AddPayment(o, a, override)
  PROVE  /\ order.paid + a \in Nat /\ paidOn[o] + a \in Nat /\ a \in Nat \ {0}
         /\ \E ps \in {"paid", "partial"} : order' = AfterPayment(a, override, ps)
         /\ paidOn' = [paidOn EXCEPT ![o] = paidOn[o] + a]
         /\ bills' = Judged(bills) /\ UNCHANGED goods
<1>1. a \in Nat \ {0} /\ order.paid \in Nat /\ paidOn[o] \in Nat
  BY OrderAssumption DEF TypeOK, Requests
<1>2. order.paid + a \in Nat /\ paidOn[o] + a \in Nat
  BY <1>1
<1>3. \E ps \in {"paid", "partial"} : order' = AfterPayment(a, override, ps)
  <2>1. \/ order' = AfterPayment(a, override, "paid")
        \/ order' = AfterPayment(a, override, "partial")
    BY DEF AddPayment, AfterPayment
  <2> QED
    BY <2>1
<1>4. /\ paidOn' = [paidOn EXCEPT ![o] = paidOn[o] + a]
      /\ bills' = Judged(bills) /\ UNCHANGED goods
  BY DEF AddPayment
<1> QED
  BY <1>1, <1>2, <1>3, <1>4

\* One action leaves every list a list of its rows.
LEMMA NextTypes == TypeOK /\ [Next]_vars => TypeOK'
<1> SUFFICES ASSUME TypeOK, [Next]_vars PROVE TypeOK'
  OBVIOUS
<1> USE DEF goods, Requests, Statuses, Receivable
<1>1. ASSUME NEW over \in BOOLEAN, NEW override \in Overrides, IssuePo(over, override)
      PROVE  TypeOK'
  BY <1>1 DEF IssuePo, TypeOK
<1>2. CASE MarkInTransit
  BY <1>2 DEF MarkInTransit, TypeOK
<1>3. ASSUME NEW add \in [Lines -> AddSet], NEW rej \in [Lines -> RejSet], Receive(add, rej)
      PROVE  TypeOK'
  BY <1>3, ReceiveTypes
<1>4. ASSUME NEW i \in DOMAIN held, NEW d \in Decisions, ResolveQuarantine(i, d)
      PROVE  TypeOK'
  <2> DEFINE e == [held[i] EXCEPT !.res = d]
  <2>1. held \in Seq(HeldRow) /\ i \in 1..Len(held)
    BY LenProperties DEF TypeOK
  <2>2. held[i] \in HeldRow
    BY <2>1, ElementOfSeq
  <2>3. d \in {"return", "accept", "accept_tolerance"}
    BY OrderAssumption
  <2>4. e \in HeldRow
    BY <2>2, <2>3 DEF HeldRow
  <2>5. held' = [held EXCEPT ![i] = e]
    BY <1>4 DEF ResolveQuarantine
  <2> HIDE DEF e
  <2>6. held' \in Seq(HeldRow)
    BY <2>1, <2>4, <2>5, ExceptSeq
  <2> QED
    BY <1>4, <2>6 DEF ResolveQuarantine, TypeOK
<1>5. ASSUME NEW i \in DOMAIN held, AddAccepted(i) PROVE TypeOK'
  <2> DEFINE e == [held[i] EXCEPT !.res = "received"]
  <2>1. held \in Seq(HeldRow) /\ i \in 1..Len(held)
    BY LenProperties DEF TypeOK
  <2>2. held[i] \in HeldRow
    BY <2>1, ElementOfSeq
  <2>3. e \in HeldRow /\ held[i].line \in Lines /\ held[i].qty \in Nat
    BY <2>2 DEF HeldRow
  <2>4. held' = [held EXCEPT ![i] = e]
    BY <1>5 DEF AddAccepted
  <2> HIDE DEF e
  <2>5. held' \in Seq(HeldRow)
    BY <2>1, <2>3, <2>4, ExceptSeq
  <2>6. recv' \in [Lines -> Nat]
    BY <1>5, <2>3 DEF AddAccepted, TypeOK
  <2> QED
    BY <1>5, <2>5, <2>6 DEF AddAccepted, TypeOK
<1>6. ASSUME NEW i \in DOMAIN notes, SettleReturn(i) PROVE TypeOK'
  <2> DEFINE e == [notes[i] EXCEPT !.open = FALSE]
  <2>1. notes \in Seq(NoteRow) /\ i \in 1..Len(notes)
    BY LenProperties DEF TypeOK
  <2>2. notes[i] \in NoteRow
    BY <2>1, ElementOfSeq
  <2>3. e \in NoteRow
    BY <2>2 DEF NoteRow
  <2>4. notes' = [notes EXCEPT ![i] = e]
    BY <1>6 DEF SettleReturn
  <2> HIDE DEF e
  <2>5. notes' \in Seq(NoteRow)
    BY <2>1, <2>3, <2>4, ExceptSeq
  <2> QED
    BY <1>6, <2>5 DEF SettleReturn, TypeOK
<1>7. ASSUME NEW o \in AllPos, NEW no \in InvoiceNos, NEW a \in BillSet, AddInvoice(o, no, a)
      PROVE  TypeOK'
  <2> DEFINE e == [no |-> no, po |-> o, amount |-> a, st |-> "received"]
  <2>1. e \in BillRow
    BY DEF BillRow
  <2>2. bills' = Judged(Append(bills, e))
    BY <1>7 DEF AddInvoice
  <2> HIDE DEF e
  <2>3. Append(bills, e) \in Seq(BillRow)
    BY <2>1, AppendProperties DEF TypeOK
  <2>4. bills' \in Seq(BillRow)
    BY <2>2, <2>3, JudgedKeeps
  <2> QED
    BY <1>7, <2>4 DEF AddInvoice, TypeOK
<1>8. CASE RefreshMatch
  <2>1. bills' \in Seq(BillRow)
    BY <1>8, JudgedKeeps DEF RefreshMatch, TypeOK
  <2> QED
    BY <1>8, <2>1 DEF RefreshMatch, TypeOK
<1>9. ASSUME NEW pct \in AdvanceSet, NEW g \in BOOLEAN, AuthorizeAdvance(pct, g)
      PROVE  TypeOK'
  BY <1>9 DEF AuthorizeAdvance, TypeOK
<1>10. ASSUME NEW o \in AllPos, NEW a \in PaySet, NEW override \in Overrides,
              AddPayment(o, a, override)
       PROVE  TypeOK'
  <2>1. /\ order.paid + a \in Nat /\ paidOn[o] + a \in Nat
        /\ paidOn' = [paidOn EXCEPT ![o] = paidOn[o] + a]
        /\ bills' = Judged(bills) /\ UNCHANGED <<recv, held, notes, came>>
    BY <1>10, PaymentWrites
  <2>2. PICK ps \in {"paid", "partial"} : order' = AfterPayment(a, override, ps)
    BY <1>10, PaymentWrites
  <2>3. (order.forced \/ override) \in BOOLEAN
    OBVIOUS
  <2>4. order' \in Requests
    BY <2>1, <2>2, <2>3 DEF TypeOK, AfterPayment
  <2>5. paidOn' \in [AllPos -> Nat]
    BY <2>1 DEF TypeOK
  <2>6. bills' \in Seq(BillRow)
    BY <2>1, JudgedKeeps DEF TypeOK
  <2> QED
    BY <2>1, <2>4, <2>5, <2>6 DEF TypeOK
<1>11. CASE ClosePr
  BY <1>11 DEF ClosePr, TypeOK
<1>12. CASE CancelPr
  BY <1>12 DEF CancelPr, TypeOK
<1>13. CASE UNCHANGED vars
  BY <1>13 DEF vars, TypeOK
<1> QED
  BY <1>1, <1>2, <1>3, <1>4, <1>5, <1>6, <1>7, <1>8, <1>9, <1>10, <1>11, <1>12, <1>13
  DEF Next
\* Types, at every state.
THEOREM TypeCorrect == Spec => []TypeOK
BY InitTypes, NextTypes, PTL DEF Spec

-----------------------------------------------------------------------------
(* Goods.                                                                  *)

\* The state the invariant speaks of: what came and where it is.
Accounts == \A l \in Lines : came[l] = recv[l] + Quarantined(held, l) + Returned(notes, l)

\* A decision on one row of goods at the gate, of quantity held[i].qty.
LEMMA RowDecided ==
  ASSUME held \in Seq(HeldRow), NEW i \in DOMAIN held, NEW d,
         held[i].res # "received", NEW l \in Lines
  PROVE  LET G == [held EXCEPT ![i].res = d] IN
         /\ d = "received" /\ held[i].line = l =>
              Quarantined(G, l) = Quarantined(held, l) - held[i].qty
         /\ ~(d = "received" /\ held[i].line = l) => Quarantined(G, l) = Quarantined(held, l)
<1> DEFINE G      == [held EXCEPT ![i].res = d]
           before == {j \in DOMAIN held : held[j].line = l /\ held[j].res # "received"}
           after  == {j \in DOMAIN G : G[j].line = l /\ G[j].res # "received"}
           v      == [j \in DOMAIN held |-> held[j].qty]
           w      == [j \in DOMAIN G |-> G[j].qty]
<1>1. IsFiniteSet(before) /\ \A j \in before : v[j] \in Int
  <2>1. DOMAIN held = 1..Len(held) /\ Len(held) \in Nat
    BY LenProperties
  <2>2. IsFiniteSet(DOMAIN held)
    BY <2>1, FS_Interval
  <2>3. before \subseteq DOMAIN held
    OBVIOUS
  <2>4. IsFiniteSet(before)
    <3> HIDE DEF before
    <3> QED
      BY <2>2, <2>3, FS_Subset
  <2>5. \A j \in DOMAIN held : held[j] \in HeldRow
    BY <2>1, ElementOfSeq
  <2> QED
    BY <2>4, <2>5 DEF HeldRow
<1>2. /\ DOMAIN G = DOMAIN held
      /\ \A j \in DOMAIN held : /\ j # i => G[j] = held[j]
                                /\ G[j].line = held[j].line /\ G[j].qty = held[j].qty
      /\ G[i].res = d
  <2>1. \A j \in DOMAIN held : held[j] \in HeldRow
    BY LenProperties, ElementOfSeq
  <2> QED
    BY <2>1 DEF HeldRow
<1>3. Quarantined(held, l) = SumFunctionOnSet(v, before)
      /\ Quarantined(G, l) = SumFunctionOnSet(w, after)
  BY DEF Quarantined
<1>4. CASE ~(d = "received" /\ held[i].line = l)
  <2>1. after = before
    BY <1>2, <1>4
  <2>2. \A j \in before : w[j] = v[j]
    BY <1>2
  <2>3. SumFunctionOnSet(w, before) = SumFunctionOnSet(v, before)
        /\ SumFunctionOnSet(v, before) \in Int
    <3> HIDE DEF before, v, w
    <3> QED
      BY <1>1, <2>2, SumSame, SumInt
  <2> QED
    BY <1>3, <1>4, <2>1, <2>3
<1>5. CASE d = "received" /\ held[i].line = l
  <2>1. i \in before /\ after = before \ {i}
    BY <1>2, <1>5
  <2>2. \A j \in before \ {i} : w[j] = v[j]
    BY <1>2
  <2>3. IsFiniteSet(before \ {i})
    BY <1>1, FS_Subset
  <2>4. SumFunctionOnSet(w, before \ {i}) = SumFunctionOnSet(v, before \ {i})
    <3> HIDE DEF before, v, w
    <3> QED
      BY <2>2, <2>3, SumSame
  <2>5. SumFunctionOnSet(v, before) = v[i] + SumFunctionOnSet(v, before \ {i})
        /\ SumFunctionOnSet(v, before \ {i}) \in Int /\ v[i] \in Int
    <3> HIDE DEF before, v
    <3> QED
      BY <1>1, <2>1, <2>3, SumTakeOut, SumInt
  <2>6. SumFunctionOnSet(w, before \ {i}) = SumFunctionOnSet(v, before) - v[i]
    <3> HIDE DEF before, v, w
    <3> QED
      BY <2>4, <2>5
  <2> QED
    BY <1>3, <1>5, <2>1, <2>6
<1> QED
  BY <1>4, <1>5

\* What is on quarantine or returned is a number of units.
LEMMA HoldsNat ==
  ASSUME TypeOK, NEW l \in Lines
  PROVE  Quarantined(held, l) \in Nat /\ Returned(notes, l) \in Nat
<1>1. Quarantined(held, l) \in Nat
  <2> DEFINE on == {j \in DOMAIN held : held[j].line = l /\ held[j].res # "received"}
             v  == [j \in DOMAIN held |-> held[j].qty]
  <2>1. DOMAIN held = 1..Len(held) /\ Len(held) \in Nat /\ held \in Seq(HeldRow)
    BY LenProperties DEF TypeOK
  <2>2. IsFiniteSet(DOMAIN held) /\ on \subseteq DOMAIN held
    BY <2>1, FS_Interval
  <2>3. \A j \in on : v[j] \in Nat
    <3>1. \A j \in DOMAIN held : held[j] \in HeldRow
      BY <2>1, ElementOfSeq
    <3> QED
      BY <3>1 DEF HeldRow
  <2>4. IsFiniteSet(on)
    <3> HIDE DEF on
    <3> QED
      BY <2>2, FS_Subset
  <2>5. SumFunctionOnSet(v, on) \in Nat
    <3> HIDE DEF v, on
    <3> QED
      BY <2>3, <2>4, SumNat
  <2> QED
    BY <2>5 DEF Quarantined
<1>2. Returned(notes, l) \in Nat
  <2> DEFINE v == [j \in DOMAIN notes |-> notes[j].qty[l]]
  <2>1. DOMAIN notes = 1..Len(notes) /\ Len(notes) \in Nat /\ notes \in Seq(NoteRow)
    BY LenProperties DEF TypeOK
  <2>2. IsFiniteSet(DOMAIN notes)
    BY <2>1, FS_Interval
  <2>3. \A j \in DOMAIN notes : v[j] \in Nat
    <3>1. \A j \in DOMAIN notes : notes[j] \in NoteRow
      BY <2>1, ElementOfSeq
    <3> QED
      BY <3>1 DEF NoteRow
  <2>4. SumFunctionOnSet(v, DOMAIN notes) \in Nat
    <3> HIDE DEF v
    <3> QED
      BY <2>2, <2>3, SumNat
  <2> QED
    BY <2>4 DEF Returned
<1> QED
  BY <1>1, <1>2

\* receive_items books every unit once: as received, held or returned.
LEMMA ReceiptBooked ==
  ASSUME TypeOK, Accounts, NEW add \in [Lines -> AddSet], NEW rej \in [Lines -> RejSet],
         Receive(add, rej)
  PROVE  Accounts'
<1>1. PICK over \in [Lines -> Nat], within \in [Lines -> Nat], surplus \in [Lines -> Nat] :
        /\ held' = held \o HeldRows(over, "quarantined") \o HeldRows(surplus, "rejected_surplus")
        /\ notes' = notes \o ReturnRows(within)
        /\ \A l \in Lines :
             recv'[l] + over[l] + within[l] + surplus[l] = recv[l] + add[l] + rej[l]
  BY ReceiveTypes
<1>2. came' = [l \in Lines |-> came[l] + add[l] + rej[l]] /\ TypeOK'
  BY ReceiveTypes
<1> SUFFICES ASSUME NEW l \in Lines
             PROVE  came'[l] = recv'[l] + Quarantined(held', l) + Returned(notes', l)
  BY DEF Accounts, Quarantined, Returned
<1>3. held \in Seq(HeldRow) /\ notes \in Seq(NoteRow)
  BY DEF TypeOK
<1> DEFINE O == HeldRows(over, "quarantined")
           U == HeldRows(surplus, "rejected_surplus")
           R == ReturnRows(within)
<1>4. /\ O \in Seq(HeldRow) /\ Quarantined(O, l) = over[l]
      /\ U \in Seq(HeldRow) /\ Quarantined(U, l) = surplus[l]
  BY HeldListed
<1>5. R \in Seq(NoteRow) /\ Returned(R, l) = within[l]
  BY ReturnsListed
<1>6. held' = (held \o O) \o U /\ notes' = notes \o R
  BY <1>1
<1> HIDE DEF O, U, R
<1>7. held \o O \in Seq(HeldRow) /\ Quarantined(held \o O, l) = Quarantined(held, l) + over[l]
  BY <1>3, <1>4, HeldAppended, ConcatProperties
<1>8. Quarantined(held', l) = Quarantined(held, l) + over[l] + surplus[l]
  BY <1>4, <1>6, <1>7, HeldAppended
<1>9. Returned(notes', l) = Returned(notes, l) + within[l]
  BY <1>3, <1>5, <1>6, ReturnsAppended
<1>10. Quarantined(held, l) \in Nat /\ Returned(notes, l) \in Nat
  BY HoldsNat
<1>11. /\ recv[l] \in Nat /\ recv'[l] \in Nat /\ came[l] \in Nat /\ add[l] \in Nat /\ rej[l] \in Nat
       /\ over[l] \in Nat /\ within[l] \in Nat /\ surplus[l] \in Nat
  BY <1>2, OrderAssumption DEF TypeOK
<1>12. /\ came'[l] = came[l] + add[l] + rej[l]
       /\ came[l] = recv[l] + Quarantined(held, l) + Returned(notes, l)
       /\ recv'[l] + over[l] + within[l] + surplus[l] = recv[l] + add[l] + rej[l]
  BY <1>1, <1>2 DEF Accounts
<1> DEFINE c == came[l]          c2 == came'[l]
           g == recv[l]          g2 == recv'[l]
           q == Quarantined(held, l)    q2 == Quarantined(held', l)
           n == Returned(notes, l)      n2 == Returned(notes', l)
           a == add[l]    r == rej[l]
           o == over[l]   w == within[l]   u == surplus[l]
<1>13. /\ c \in Nat /\ g \in Nat /\ g2 \in Nat /\ q \in Nat /\ n \in Nat
       /\ a \in Nat /\ r \in Nat /\ o \in Nat /\ w \in Nat /\ u \in Nat
  BY <1>10, <1>11
<1>14. /\ c2 = c + a + r /\ c = g + q + n /\ g2 + o + w + u = g + a + r
       /\ q2 = q + o + u /\ n2 = n + w
  BY <1>8, <1>9, <1>12
<1>15. c2 = g2 + q2 + n2
  <2> HIDE DEF c, c2, g, g2, q, q2, n, n2, a, r, o, w, u
  <2> QED
    BY <1>13, <1>14
<1> QED
  BY <1>15

\* No other operation takes goods out of the accounts or counts them twice.
LEMMA NextBooked == TypeOK /\ Accounts /\ [Next]_vars => Accounts'
<1> SUFFICES ASSUME TypeOK, Accounts, [Next]_vars PROVE Accounts'
  OBVIOUS
<1>1. UNCHANGED goods => Accounts'
  BY DEF goods, Accounts, Quarantined, Returned
<1>2. ASSUME NEW add \in [Lines -> AddSet], NEW rej \in [Lines -> RejSet], Receive(add, rej)
      PROVE  Accounts'
  BY <1>2, ReceiptBooked
<1>3. ASSUME NEW i \in DOMAIN held, NEW d \in Decisions, ResolveQuarantine(i, d)
      PROVE  Accounts'
  <2> SUFFICES ASSUME NEW l \in Lines
               PROVE  came'[l] = recv'[l] + Quarantined(held', l) + Returned(notes', l)
    BY DEF Accounts, Quarantined, Returned
  <2>1. d # "received" /\ held[i].res # "received" /\ held \in Seq(HeldRow)
    BY <1>3, OrderAssumption DEF ResolveQuarantine, TypeOK
  <2>2. held' = [held EXCEPT ![i].res = d] /\ UNCHANGED <<recv, notes, came>>
    BY <1>3 DEF ResolveQuarantine
  <2>3. Quarantined([held EXCEPT ![i].res = d], l) = Quarantined(held, l)
    BY <2>1, RowDecided
  <2>4. Quarantined(held', l) = Quarantined(held, l)
    BY <2>2, <2>3
  <2> QED
    BY <2>2, <2>3, <2>4 DEF Accounts
<1>4. ASSUME NEW i \in DOMAIN held, AddAccepted(i) PROVE Accounts'
  <2> SUFFICES ASSUME NEW l \in Lines
               PROVE  came'[l] = recv'[l] + Quarantined(held', l) + Returned(notes', l)
    BY DEF Accounts, Quarantined, Returned
  <2>1. held[i].res # "received" /\ held \in Seq(HeldRow) /\ held[i] \in HeldRow
    BY <1>4, LenProperties, ElementOfSeq DEF AddAccepted, TypeOK
  <2>2. /\ held' = [held EXCEPT ![i].res = "received"] /\ UNCHANGED <<notes, came>>
        /\ recv' = [recv EXCEPT ![held[i].line] = @ + held[i].qty]
    BY <1>4 DEF AddAccepted
  <2>3. /\ held[i].line = l => Quarantined(held', l) = Quarantined(held, l) - held[i].qty
        /\ held[i].line # l => Quarantined(held', l) = Quarantined(held, l)
    <3> DEFINE G == [held EXCEPT ![i].res = "received"]
    <3>1. /\ held[i].line = l => Quarantined(G, l) = Quarantined(held, l) - held[i].qty
          /\ held[i].line # l => Quarantined(G, l) = Quarantined(held, l)
      BY <2>1, RowDecided
    <3> QED
      BY <2>2, <3>1
  <2>4. Quarantined(held, l) \in Nat /\ Returned(notes, l) \in Nat
    BY HoldsNat
  <2>5. recv[l] \in Nat /\ held[i].line \in Lines /\ held[i].qty \in Nat /\ recv \in [Lines -> Nat]
    BY <2>1 DEF TypeOK, HeldRow
  <2>6. /\ held[i].line = l => recv'[l] = recv[l] + held[i].qty
        /\ held[i].line # l => recv'[l] = recv[l]
    BY <2>2, <2>5
  <2>7. /\ came'[l] = recv[l] + Quarantined(held, l) + Returned(notes, l)
        /\ Returned(notes', l) = Returned(notes, l)
    BY <2>2 DEF Accounts
  <2> QED
    BY <2>3, <2>4, <2>5, <2>6, <2>7
<1>5. ASSUME NEW i \in DOMAIN notes, SettleReturn(i) PROVE Accounts'
  <2> SUFFICES ASSUME NEW l \in Lines
               PROVE  came'[l] = recv'[l] + Quarantined(held', l) + Returned(notes', l)
    BY DEF Accounts, Quarantined, Returned
  <2>1. notes' = [notes EXCEPT ![i].open = FALSE] /\ UNCHANGED <<recv, held, came>>
    BY <1>5 DEF SettleReturn
  <2>2. notes \in Seq(NoteRow) /\ DOMAIN notes = 1..Len(notes) /\ Len(notes) \in Nat
    BY LenProperties DEF TypeOK
  <2> DEFINE v == [j \in DOMAIN notes |-> notes[j].qty[l]]
             w == [j \in DOMAIN notes' |-> notes'[j].qty[l]]
  <2>3. DOMAIN notes' = DOMAIN notes /\ \A j \in DOMAIN notes : w[j] = v[j]
    <3>1. \A j \in DOMAIN notes : notes[j] \in NoteRow
      BY <2>2, ElementOfSeq
    <3> QED
      BY <2>1, <3>1 DEF NoteRow
  <2>4. IsFiniteSet(DOMAIN notes)
    BY <2>2, FS_Interval
  <2>5. SumFunctionOnSet(w, DOMAIN notes) = SumFunctionOnSet(v, DOMAIN notes)
    <3> HIDE DEF v, w
    <3> QED
      BY <2>3, <2>4, SumSame
  <2>6. Returned(notes', l) = Returned(notes, l)
    BY <2>3, <2>5 DEF Returned
  <2> QED
    BY <2>1, <2>6 DEF Accounts
<1>6. ASSUME NEW over \in BOOLEAN, NEW override \in Overrides, IssuePo(over, override)
      PROVE  Accounts'
  BY <1>1, <1>6 DEF IssuePo
<1>7. CASE MarkInTransit
  BY <1>1, <1>7 DEF MarkInTransit
<1>8. ASSUME NEW o \in AllPos, NEW no \in InvoiceNos, NEW a \in BillSet, AddInvoice(o, no, a)
      PROVE  Accounts'
  BY <1>1, <1>8 DEF AddInvoice
<1>9. CASE RefreshMatch
  BY <1>1, <1>9 DEF RefreshMatch
<1>10. ASSUME NEW pct \in AdvanceSet, NEW g \in BOOLEAN, AuthorizeAdvance(pct, g)
       PROVE  Accounts'
  BY <1>1, <1>10 DEF AuthorizeAdvance
<1>11. ASSUME NEW o \in AllPos, NEW a \in PaySet, NEW override \in Overrides,
              AddPayment(o, a, override)
       PROVE  Accounts'
  BY <1>1, <1>11 DEF AddPayment
<1>12. CASE ClosePr
  BY <1>1, <1>12 DEF ClosePr
<1>13. CASE CancelPr
  BY <1>1, <1>13 DEF CancelPr
<1>14. CASE UNCHANGED vars
  BY <1>1, <1>14 DEF vars, goods
<1> QED
  BY <1>2, <1>3, <1>4, <1>5, <1>6, <1>7, <1>8, <1>9, <1>10, <1>11, <1>12, <1>13, <1>14
  DEF Next

\* receive_items and resolve_quarantine: after any sequence of receipts,
\* rejections, decisions and settlements, every unit a supplier brought of a
\* line is received, on one quarantine row or on one return, and on one only.
THEOREM EveryUnitOnce == Spec => []GoodsAccounted
<1>1. Init => Accounts
  <2> SUFFICES ASSUME Init, NEW l \in Lines
               PROVE  came[l] = recv[l] + Quarantined(held, l) + Returned(notes, l)
    BY DEF Accounts
  <2>1. held = <<>> /\ notes = <<>> /\ came[l] = 0 /\ recv[l] = 0
    BY DEF Init
  <2>2. Quarantined(<<>>, l) = 0
    <3>1. {j \in DOMAIN <<>> : <<>>[j].line = l /\ <<>>[j].res # "received"} = {}
      OBVIOUS
    <3> QED
      BY <3>1, SumEmpty DEF Quarantined
  <2>3. Returned(<<>>, l) = 0
    <3>1. DOMAIN <<>> = {}
      OBVIOUS
    <3> QED
      BY <3>1, SumEmpty DEF Returned
  <2> QED
    BY <2>1, <2>2, <2>3
<1>2. TypeOK /\ Accounts => GoodsAccounted
  BY DEF Accounts, GoodsAccounted
<1> QED
  BY <1>1, <1>2, InitTypes, NextTypes, NextBooked, PTL DEF Spec
-----------------------------------------------------------------------------
(* Cancellation.                                                           *)

\* The strengthening: nothing has come to the gate in any status from which
\* cancel_pr may still be called, nor after it.
NothingYet ==
  order.status \in Cancellable \cup {"cancelled"} => \A l \in Lines : came[l] = 0

\* Every action but Receive leaves `came` alone, and enters a status of
\* Cancellable or "cancelled" only from one of Cancellable.
LEMMA NextEmpty == TypeOK /\ NothingYet /\ [Next]_vars => NothingYet'
<1> SUFFICES ASSUME TypeOK, NothingYet, [Next]_vars PROVE NothingYet'
  OBVIOUS
<1> USE DEF NothingYet, Cancellable, goods
<1>0. order \in Requests
  BY DEF TypeOK
<1>1. ASSUME NEW over \in BOOLEAN, NEW override \in Overrides, IssuePo(over, override)
      PROVE  NothingYet'
  BY <1>0, <1>1 DEF IssuePo, Requests
<1>2. CASE MarkInTransit
  BY <1>0, <1>2 DEF MarkInTransit, Requests
<1>3. ASSUME NEW add \in [Lines -> AddSet], NEW rej \in [Lines -> RejSet], Receive(add, rej)
      PROVE  NothingYet'
  <2>1. PICK s \in {"received", "partially_received"} : order' = [order EXCEPT !.status = s]
    BY <1>3 DEF Receive
  <2> QED
    BY <1>0, <2>1 DEF Requests
<1>4. ASSUME NEW i \in DOMAIN held, NEW d \in Decisions, ResolveQuarantine(i, d)
      PROVE  NothingYet'
  BY <1>4 DEF ResolveQuarantine
<1>5. ASSUME NEW i \in DOMAIN held, AddAccepted(i) PROVE NothingYet'
  BY <1>5 DEF AddAccepted
<1>6. ASSUME NEW i \in DOMAIN notes, SettleReturn(i) PROVE NothingYet'
  BY <1>6 DEF SettleReturn
<1>7. ASSUME NEW o \in AllPos, NEW no \in InvoiceNos, NEW a \in BillSet, AddInvoice(o, no, a)
      PROVE  NothingYet'
  BY <1>7 DEF AddInvoice
<1>8. CASE RefreshMatch
  BY <1>8 DEF RefreshMatch
<1>9. ASSUME NEW pct \in AdvanceSet, NEW g \in BOOLEAN, AuthorizeAdvance(pct, g)
      PROVE  NothingYet'
  BY <1>0, <1>9 DEF AuthorizeAdvance, Requests
<1>10. ASSUME NEW o \in AllPos, NEW a \in PaySet, NEW override \in Overrides,
              AddPayment(o, a, override)
       PROVE  NothingYet'
  <2>1. order'.status = order.status
    <3>1. PICK ps \in {"paid", "partial"} : order' = AfterPayment(a, override, ps)
      BY <1>10, PaymentWrites
    <3> QED
      BY <1>0, <3>1 DEF AfterPayment, Requests
  <2>2. came' = came
    BY <1>10 DEF AddPayment
  <2> QED
    BY <2>1, <2>2
<1>11. CASE ClosePr
  BY <1>0, <1>11 DEF ClosePr, Requests
<1>12. CASE CancelPr
  BY <1>0, <1>12 DEF CancelPr, Requests
<1>13. CASE UNCHANGED vars
  BY <1>13 DEF vars
<1> QED
  BY <1>1, <1>2, <1>3, <1>4, <1>5, <1>6, <1>7, <1>8, <1>9, <1>10, <1>11, <1>12, <1>13
  DEF Next

\* cancel_pr: whatever the order of receipts, payments and decisions, a request
\* is never cancelled once goods of it have come to the gate.
THEOREM NeverErased == Spec => []CancelledEmpty
<1>1. Init => NothingYet
  BY DEF Init, NothingYet
<1>2. NothingYet => CancelledEmpty
  BY DEF NothingYet, CancelledEmpty
<1> QED
  BY InitTypes, NextTypes, NextEmpty, <1>1, <1>2, PTL DEF Spec

-----------------------------------------------------------------------------
(* Advances.                                                               *)

\* Only a payment moves what is paid or records an override, and an authority,
\* once given, may be changed and is never taken back.
LEMMA OnlyPaymentsPay ==
  ASSUME TypeOK, [Next]_vars
  PROVE  \/ \E o \in AllPos, a \in PaySet, override \in Overrides : AddPayment(o, a, override)
         \/ /\ order'.paid = order.paid /\ order'.forced = order.forced /\ paidOn' = paidOn
            /\ order'.advance = 0 => order.advance = 0
<1> DEFINE Kept == /\ order'.paid = order.paid /\ order'.forced = order.forced /\ paidOn' = paidOn
                   /\ order'.advance = 0 => order.advance = 0
<1>0. order \in Requests
  BY DEF TypeOK
<1>1. ASSUME NEW over \in BOOLEAN, NEW override \in Overrides, IssuePo(over, override)
      PROVE  Kept
  BY <1>0, <1>1 DEF IssuePo, Requests
<1>2. CASE MarkInTransit
  BY <1>0, <1>2 DEF MarkInTransit, Requests
<1>3. ASSUME NEW add \in [Lines -> AddSet], NEW rej \in [Lines -> RejSet], Receive(add, rej)
      PROVE  Kept
  <2>1. PICK s \in {"received", "partially_received"} : order' = [order EXCEPT !.status = s]
    BY <1>3 DEF Receive
  <2>2. paidOn' = paidOn
    BY <1>3, Zenon DEF Receive
  <2> QED
    BY <1>0, <2>1, <2>2 DEF Requests
<1>4. ASSUME NEW i \in DOMAIN held, NEW d \in Decisions, ResolveQuarantine(i, d) PROVE Kept
  BY <1>4 DEF ResolveQuarantine
<1>5. ASSUME NEW i \in DOMAIN held, AddAccepted(i) PROVE Kept
  BY <1>5 DEF AddAccepted
<1>6. ASSUME NEW i \in DOMAIN notes, SettleReturn(i) PROVE Kept
  BY <1>6 DEF SettleReturn
<1>7. ASSUME NEW o \in AllPos, NEW no \in InvoiceNos, NEW a \in BillSet, AddInvoice(o, no, a)
      PROVE  Kept
  BY <1>7 DEF AddInvoice
<1>8. CASE RefreshMatch
  BY <1>8 DEF RefreshMatch
<1>9. ASSUME NEW pct \in AdvanceSet, NEW g \in BOOLEAN, AuthorizeAdvance(pct, g) PROVE Kept
  <2>1. pct # 0
    BY OrderAssumption
  <2> QED
    BY <1>0, <1>9, <2>1 DEF AuthorizeAdvance, Requests
<1>10. CASE ClosePr
  BY <1>0, <1>10 DEF ClosePr, Requests
<1>11. CASE CancelPr
  BY <1>0, <1>11 DEF CancelPr, Requests
<1>12. CASE UNCHANGED vars
  BY <1>12 DEF vars
<1> QED
  BY <1>1, <1>2, <1>3, <1>4, <1>5, <1>6, <1>7, <1>8, <1>9, <1>10, <1>11, <1>12 DEF Next

\* Without invoices, an amount that is not forced passes on the authority of
\* the advance alone.
LEMMA AdvanceStep ==
  ASSUME TypeOK, [Next]_vars, order'.paid # order.paid, bills = <<>>, ~order'.forced
  PROVE  /\ order.advance > 0
         /\ 100 * order'.paid - order.advance * Grand <= Grand \div 100
         /\ GuaranteeNeeded(order'.paid, Grand) => order.guarantee
<1>0. order \in Requests
  BY DEF TypeOK
<1>1. PICK o \in AllPos, a \in PaySet, override \in Overrides : AddPayment(o, a, override)
  BY OnlyPaymentsPay
<1>2. /\ order'.paid = order.paid + a /\ order.paid + a \in Nat /\ a \in Nat \ {0}
      /\ ~override /\ order.paid \in Nat
  <2>1. order.paid + a \in Nat /\ a \in Nat \ {0}
    BY <1>1, PaymentWrites
  <2>2. PICK ps \in {"paid", "partial"} : order' = AfterPayment(a, override, ps)
    BY <1>1, PaymentWrites
  <2>3. order'.paid = order.paid + a /\ (order'.forced <=> order.forced \/ override)
    BY <1>0, <2>2 DEF AfterPayment, Requests
  <2> QED
    BY <1>0, <2>1, <2>3 DEF Requests
<1>3. Caps(o, a)
  BY <1>1, <1>2 DEF AddPayment, Allowed
<1>4. ~NotAnAdvance(order.paid + a)
  <2>1. {i \in DOMAIN bills : bills[i].po \in AllPos} = {}
    OBVIOUS
  <2>2. Billed(bills, AllPos) = 0
    BY <2>1, SumEmpty DEF Billed
  <2> QED
    BY <1>2, <2>2 DEF NotAnAdvance
<1>5. AdvanceAuthorised(order'.paid)
  BY <1>2, <1>3, <1>4 DEF Caps
<1> QED
  BY <1>5 DEF AdvanceAuthorised

\* add_payment and advance_gate_check: whatever instalments came before, a
\* payment ahead of every invoice stays, with all of them, within the authority
\* in force and within the guarantee a large advance needs.
THEOREM AdvancesWithinAuthority == Spec => AdvanceBounded
<1>1. TypeOK /\ [Next]_vars =>
        [(order'.paid # order.paid /\ bills = <<>> /\ ~order'.forced) =>
           /\ order.advance > 0
           /\ 100 * order'.paid - order.advance * Grand <= Grand \div 100
           /\ GuaranteeNeeded(order'.paid, Grand) => order.guarantee]_vars
  BY AdvanceStep
<1> QED
  BY <1>1, TypeCorrect, PTL DEF Spec, AdvanceBounded
-----------------------------------------------------------------------------
(* Payments against what was received.                                     *)

\* Nobody has accepted an over-delivery within tolerance.  Once one is,
\* received_qty stands above the quantity ordered and the next receipt of that
\* line brings it back down (services.py 3601): what the caps and the match were
\* judged on can then shrink, and the three theorems below do not speak of it.
NoneAccepted == \A i \in DOMAIN held : held[i].res \notin {"accept_tolerance", "received"}

\* The strengthening they need: no line is received beyond its order.
WithinOrder == \A l \in Lines : recv[l] <= Ordered[l]

\* A receipt adds to a line what its order still leaves open.
LEMMA ReceiptGrows ==
  ASSUME TypeOK, WithinOrder, NEW add \in [Lines -> AddSet], NEW rej \in [Lines -> RejSet],
         Receive(add, rej), NEW l \in Lines
  PROVE  recv[l] <= recv'[l] /\ recv'[l] <= Ordered[l]
<1>1. recv[l] \in Nat /\ Ordered[l] \in Nat /\ add[l] \in Nat /\ recv[l] <= Ordered[l]
  BY OrderAssumption DEF TypeOK, WithinOrder
<1>2. recv[l] <= NewTotal(l, add[l]) /\ NewTotal(l, add[l]) <= Ordered[l]
  BY <1>1 DEF NewTotal, Least
<1>3. recv'[l] \in {NewTotal(l, add[l]), recv[l]}
  <2> DEFINE moved == {k \in Lines : add[k] > 0 \/ rej[k] > 0}
  <2>1. recv' = [k \in Lines |-> IF k \in moved THEN NewTotal(k, add[k]) ELSE recv[k]]
    BY Zenon DEF Receive
  <2> HIDE DEF moved
  <2> QED
    BY <2>1
<1> QED
  BY <1>1, <1>2, <1>3

\* received_qty never falls and never passes the order.
LEMMA NextGrows ==
  TypeOK /\ WithinOrder /\ NoneAccepted /\ [Next]_vars =>
    WithinOrder' /\ \A l \in Lines : recv[l] <= recv'[l]
<1> SUFFICES ASSUME TypeOK, WithinOrder, NoneAccepted, [Next]_vars, NEW l \in Lines
             PROVE  recv[l] <= recv'[l] /\ recv'[l] <= Ordered[l]
  BY DEF WithinOrder
<1>1. recv' = recv => recv[l] <= recv'[l] /\ recv'[l] <= Ordered[l]
  BY DEF TypeOK, WithinOrder
<1>2. ASSUME NEW add \in [Lines -> AddSet], NEW rej \in [Lines -> RejSet], Receive(add, rej)
      PROVE  recv[l] <= recv'[l] /\ recv'[l] <= Ordered[l]
  BY <1>2, ReceiptGrows
<1>3. \A i \in DOMAIN held : ~AddAccepted(i)
  BY DEF NoneAccepted, AddAccepted
<1>4. \/ \E add \in [Lines -> AddSet], rej \in [Lines -> RejSet] : Receive(add, rej)
      \/ recv' = recv
  BY <1>3 DEF Next, vars, IssuePo, MarkInTransit, ResolveQuarantine, SettleReturn, AddInvoice,
              RefreshMatch, AuthorizeAdvance, AddPayment, ClosePr, CancelPr, goods
<1> QED
  BY <1>1, <1>2, <1>4

\* Amounts: quantities of some lines at their prices.
LEMMA WorthGrows ==
  ASSUME NEW p \in [Lines -> Nat], NEW q \in [Lines -> Nat], \A l \in Lines : p[l] <= q[l],
         NEW ls \in SUBSET Lines
  PROVE  /\ SumFunctionOnSet(Worth(p), ls) \in Nat /\ SumFunctionOnSet(Worth(q), ls) \in Nat
         /\ SumFunctionOnSet(Worth(p), ls) <= SumFunctionOnSet(Worth(q), ls)
<1>1. IsFiniteSet(ls)
  BY LinesFinite, FS_Subset
<1>2. \A l \in ls : /\ Worth(p)[l] \in Nat /\ Worth(q)[l] \in Nat
                    /\ Worth(p)[l] <= Worth(q)[l]
  <2> SUFFICES ASSUME NEW l \in ls
               PROVE  /\ Worth(p)[l] \in Nat /\ Worth(q)[l] \in Nat
                      /\ Worth(p)[l] <= Worth(q)[l]
    OBVIOUS
  <2> DEFINE a == p[l]
             b == q[l]
             c == Price[l]
  <2>1. a \in Nat /\ b \in Nat /\ c \in Nat /\ a <= b
    BY OrderAssumption
  <2>2. a * c \in Nat /\ b * c \in Nat /\ a * c <= b * c
    <3> HIDE DEF a, b, c
    <3> QED
      BY <2>1
  <2> QED
    BY <2>2 DEF Worth
<1>3. SumFunctionOnSet(Worth(p), ls) \in Nat /\ SumFunctionOnSet(Worth(q), ls) \in Nat
  BY <1>1, <1>2, SumNat
<1>4. SumFunctionOnSet(Worth(p), ls) <= SumFunctionOnSet(Worth(q), ls)
  <2>1. \A l \in ls : Worth(p)[l] \in Int /\ Worth(q)[l] \in Int /\ Worth(p)[l] <= Worth(q)[l]
    BY <1>2
  <2> QED
    BY <1>1, <2>1, SumMonotone
<1> QED
  BY <1>3, <1>4

\* What was received is worth no more than what was ordered.
LEMMA ReceivedTypes ==
  ASSUME TypeOK, NEW ls \in SUBSET Lines
  PROVE  /\ ReceivedValue(ls) \in Nat /\ OrderedValue(ls) \in Nat /\ Grand \in Nat
         /\ WithinOrder => ReceivedValue(ls) <= OrderedValue(ls)
<1>1. recv \in [Lines -> Nat] /\ Ordered \in [Lines -> Nat]
  BY OrderAssumption DEF TypeOK
<1>2. \A q \in [Lines -> Nat] : \A T \in SUBSET Lines : SumFunctionOnSet(Worth(q), T) \in Nat
  <2> SUFFICES ASSUME NEW q \in [Lines -> Nat], NEW T \in SUBSET Lines
               PROVE  SumFunctionOnSet(Worth(q), T) \in Nat
    OBVIOUS
  <2>1. \A l \in Lines : q[l] <= q[l]
    OBVIOUS
  <2> QED
    BY <2>1, WorthGrows
<1>3. WithinOrder => SumFunctionOnSet(Worth(recv), ls) <= SumFunctionOnSet(Worth(Ordered), ls)
  BY <1>1, WorthGrows DEF WithinOrder
<1> QED
  BY <1>1, <1>2, <1>3 DEF ReceivedValue, OrderedValue, Grand

\* The value of the open debit notes is an amount.
LEMMA DebitNat == ASSUME TypeOK, NEW vs PROVE DebitOpen(vs) \in Nat
<1> DEFINE v  == [i \in DOMAIN notes |-> SumFunctionOnSet(Worth(notes[i].qty), Lines)]
           on == {i \in DOMAIN notes : notes[i].open /\ notes[i].vendor \in vs}
<1>1. DOMAIN notes = 1..Len(notes) /\ Len(notes) \in Nat /\ notes \in Seq(NoteRow)
  BY LenProperties DEF TypeOK
<1>2. IsFiniteSet(DOMAIN notes) /\ on \subseteq DOMAIN notes
  BY <1>1, FS_Interval
<1>3. \A i \in DOMAIN notes : v[i] \in Nat
  <2> SUFFICES ASSUME NEW i \in DOMAIN notes PROVE v[i] \in Nat
    OBVIOUS
  <2>1. notes[i] \in NoteRow
    BY <1>1, ElementOfSeq
  <2> DEFINE q == notes[i].qty
  <2>2. q \in [Lines -> Nat]
    BY <2>1 DEF NoteRow
  <2>3. \A l \in Lines : q[l] <= q[l]
    BY <2>2
  <2>4. SumFunctionOnSet(Worth(q), Lines) \in Nat
    <3> HIDE DEF q
    <3> QED
      BY <2>2, <2>3, WorthGrows
  <2> QED
    BY <2>4
<1>4. SumFunctionOnSet(v, on) \in Nat
  <2>1. IsFiniteSet(on)
    <3> HIDE DEF on
    <3> QED
      BY <1>2, FS_Subset
  <2>2. \A i \in on : v[i] \in Nat
    BY <1>3
  <2> HIDE DEF v, on
  <2> QED
    BY <2>1, <2>2, SumNat
<1> QED
  BY <1>4 DEF DebitOpen

\* A ceiling that rises still holds.
LEMMA CeilingRises ==
  ASSUME NEW x \in Int, NEW c \in Int, NEW d \in Int, c <= d
  PROVE  /\ WithinPay(x, c) => WithinPay(x, d)
         /\ \A v \in Int : WithinMatch(x, c, v) => WithinMatch(x, d, v)
BY DEF WithinPay, WithinMatch, Most

\* Nothing is within every ceiling.
LEMMA NothingPaid == ASSUME NEW d \in Nat PROVE WithinPay(0, d)
BY DEF WithinPay, Most

\* What is payable is never more than what was received.
LEMMA PayableUnder ==
  ASSUME NEW o \in Int, NEW c \in Nat, NEW b \in Int
  PROVE  Payable(o, c, b) \in Int /\ Payable(o, c, b) <= c
BY DEF Payable, Most, Least

\* A line-by-line full delivery is what equal unit totals mean, when no line
\* is above its order.
LEMMA DeliveredInFull ==
  ASSUME TypeOK, WithinOrder, ~Short
  PROVE  ReceivedValue(Lines) = Grand
<1>1. /\ \A l \in Lines : recv[l] \in Int /\ Ordered[l] \in Int /\ recv[l] <= Ordered[l]
      /\ IsFiniteSet(Lines)
  BY OrderAssumption DEF TypeOK, WithinOrder
<1>2. SumFunctionOnSet(recv, Lines) \in Int /\ SumFunctionOnSet(Ordered, Lines) \in Int
  BY <1>1, SumInt
<1>3. SumFunctionOnSet(recv, Lines) >= SumFunctionOnSet(Ordered, Lines)
  BY <1>2 DEF Short, Units
<1>4. \A l \in Lines : recv[l] = Ordered[l]
  BY <1>1, <1>3, SumSqueeze
<1>5. \A l \in Lines : Worth(recv)[l] = Worth(Ordered)[l]
  BY <1>4 DEF Worth
<1>6. SumFunctionOnSet(Worth(recv), Lines) = SumFunctionOnSet(Worth(Ordered), Lines)
  BY <1>1, <1>5, SumSame
<1> QED
  BY <1>6 DEF ReceivedValue, Grand, OrderedValue

\* A payment that is not forced passes every cap.
LEMMA PaymentCapped ==
  ASSUME TypeOK, NEW o \in AllPos, NEW a \in PaySet, NEW override \in Overrides,
         AddPayment(o, a, override), ~order'.forced
  PROVE  /\ Caps(o, a) /\ ~order.forced /\ order'.advance = order.advance
         /\ order'.paid = order.paid + a /\ order.paid + a \in Nat \ {0}
         /\ paidOn' = [paidOn EXCEPT ![o] = paidOn[o] + a] /\ paidOn[o] + a \in Nat
         /\ recv' = recv
<1>1. order \in Requests
  BY DEF TypeOK
<1>2. PICK ps \in {"paid", "partial"} : order' = AfterPayment(a, override, ps)
  BY PaymentWrites
<1>3. /\ order'.paid = order.paid + a /\ order'.advance = order.advance
      /\ (order'.forced <=> order.forced \/ override)
  BY <1>1, <1>2 DEF AfterPayment, Requests
<1>4. /\ order.paid + a \in Nat /\ a \in Nat \ {0} /\ order.paid \in Nat
      /\ paidOn' = [paidOn EXCEPT ![o] = paidOn[o] + a] /\ paidOn[o] + a \in Nat
      /\ recv' = recv
  BY <1>1, PaymentWrites DEF goods, Requests
<1>5. Caps(o, a)
  BY <1>3 DEF AddPayment, Allowed
<1>6. order.paid + a # 0
  BY <1>4
<1> QED
  BY <1>3, <1>4, <1>5, <1>6

\* Without an advance, the caps keep what is paid under what was received.
LEMMA CapsReceived ==
  ASSUME TypeOK, WithinOrder, NEW o \in AllPos, NEW a \in PaySet, Caps(o, a),
         order.paid + a \in Nat \ {0}, order.advance = 0
  PROVE  WithinPay(order.paid + a, ReceivedValue(Lines))
<1> DEFINE total == order.paid + a
           value == ReceivedValue(Lines)
           debit == DebitOpen(Vendors)
<1>1. value \in Nat /\ Grand \in Nat /\ debit \in Nat /\ total \in Nat \ {0}
  BY ReceivedTypes, DebitNat
<1>2. bills # <<>>
  <2>1. NotAnAdvance(total)
    BY DEF Caps, AdvanceAuthorised
  <2>2. bills = <<>> => Billed(bills, AllPos) = 0
    <3>1. {i \in DOMAIN <<>> : <<>>[i].po \in AllPos} = {}
      OBVIOUS
    <3> QED
      BY <3>1, SumEmpty DEF Billed
  <2> QED
    BY <1>1, <2>1, <2>2 DEF NotAnAdvance
<1>3. WithinPay(total, Grand) /\ ReceivedCap(total)
  BY DEF Caps
<1>4. CASE Short \/ debit > 0
  <2>1. WithinPay(total, Payable(Grand, value, debit))
    BY <1>2, <1>3, <1>4 DEF ReceivedCap
  <2> HIDE DEF total, value, debit
  <2>2. Payable(Grand, value, debit) \in Int /\ Payable(Grand, value, debit) <= value
    <3>1. Grand \in Int /\ value \in Nat /\ debit \in Int
      BY <1>1
    <3> QED
      BY <3>1, PayableUnder
  <2> DEFINE cap == Payable(Grand, value, debit)
  <2>3. WithinPay(total, value)
    <3> HIDE DEF cap
    <3> QED
      BY <1>1, <2>1, <2>2, CeilingRises
  <2> QED
    BY <2>3 DEF total, value
<1>5. CASE ~(Short \/ debit > 0)
  BY <1>3, <1>5, DeliveredInFull
<1> QED
  BY <1>4, <1>5

\* More units of a line are worth more.
LEMMA ValueGrows ==
  ASSUME TypeOK, TypeOK', \A l \in Lines : recv[l] <= recv'[l], NEW ls \in SUBSET Lines
  PROVE  /\ ReceivedValue(ls) \in Nat /\ ReceivedValue(ls)' \in Nat
         /\ ReceivedValue(ls) <= ReceivedValue(ls)'
BY WorthGrows DEF TypeOK, ReceivedValue

\* One step under the caps.
LEMMA NextPaid ==
  TypeOK /\ TypeOK' /\ WithinOrder /\ NoneAccepted /\ PaidForReceived /\ [Next]_vars
    => PaidForReceived'
<1> SUFFICES ASSUME TypeOK, TypeOK', WithinOrder, NoneAccepted, PaidForReceived, [Next]_vars,
                    ~order'.forced, order'.advance = 0
             PROVE  WithinPay(order'.paid, ReceivedValue(Lines)')
  BY DEF PaidForReceived
<1>1. order \in Requests /\ order' \in Requests
  BY DEF TypeOK
<1>2. ASSUME NEW o \in AllPos, NEW a \in PaySet, NEW override \in Overrides,
             AddPayment(o, a, override)
      PROVE  WithinPay(order'.paid, ReceivedValue(Lines)')
  <2>1. /\ Caps(o, a) /\ order.advance = 0 /\ order'.paid = order.paid + a
        /\ order.paid + a \in Nat \ {0} /\ recv' = recv
    BY <1>2, PaymentCapped
  <2>2. WithinPay(order.paid + a, ReceivedValue(Lines))
    BY <2>1, CapsReceived
  <2>3. ReceivedValue(Lines)' = ReceivedValue(Lines)
    BY <2>1 DEF ReceivedValue
  <2> QED
    BY <2>1, <2>2, <2>3
<1>3. CASE /\ order'.paid = order.paid /\ order'.forced = order.forced
           /\ order'.advance = 0 => order.advance = 0
  <2> DEFINE x == order.paid
             c == ReceivedValue(Lines)
             d == ReceivedValue(Lines)'
  <2>1. WithinPay(x, c)
    BY <1>3 DEF PaidForReceived
  <2>2. c \in Int /\ d \in Int /\ c <= d
    BY NextGrows, ValueGrows
  <2>3. x \in Int
    BY <1>1 DEF Requests
  <2>4. WithinPay(x, d)
    <3> HIDE DEF x, c, d
    <3> QED
      BY <2>1, <2>2, <2>3, CeilingRises
  <2> QED
    BY <1>3, <2>4
<1> QED
  BY <1>2, <1>3, OnlyPaymentsPay

\* add_payment: as long as nobody accepts an over-delivery within tolerance, no
\* order of receipts, rejections, invoices, settlements and payments pays the
\* suppliers more than the goods they delivered, unless by an advance or an
\* administrator's override.
THEOREM NeverAheadOfGoods == Spec /\ []NoneAccepted => []PaidForReceived
<1>1. Init => WithinOrder /\ PaidForReceived
  <2> SUFFICES ASSUME Init PROVE WithinOrder /\ PaidForReceived
    OBVIOUS
  <2>1. WithinOrder
    BY OrderAssumption DEF Init, WithinOrder
  <2>2. order.paid = 0
    BY DEF Init
  <2>3. ReceivedValue(Lines) \in Nat
    BY InitTypes, ReceivedTypes
  <2>4. WithinPay(0, ReceivedValue(Lines))
    BY <2>3, NothingPaid
  <2> QED
    BY <2>1, <2>2, <2>4 DEF PaidForReceived
<1>2. TypeOK /\ WithinOrder /\ NoneAccepted /\ [Next]_vars => WithinOrder'
  BY NextGrows
<1> QED
  BY <1>1, <1>2, InitTypes, NextTypes, NextPaid, PTL DEF Spec
\* The caps on one supplier's order, taken from that supplier's lines alone.
LEMMA OrderCapsReceived ==
  ASSUME TypeOK, NEW o \in Suppliers, NEW a \in PaySet, OrderCaps(o, a), paidOn[o] + a \in Nat
  PROVE  WithinPay(paidOn[o] + a, ReceivedValue(LinesOf(o)))
<1> DEFINE total == paidOn[o] + a
           value == ReceivedValue(LinesOf(o))
           worth == OrderedValue(LinesOf(o))
           debit == DebitOpen({o})
<1>1. value \in Nat /\ worth \in Nat /\ debit \in Nat /\ total \in Nat
  BY ReceivedTypes, DebitNat, LinesFinite
<1>2. /\ WithinPay(total, worth)
      /\ (value < worth \/ debit > 0) => WithinPay(total, Payable(worth, value, debit))
  BY DEF OrderCaps
<1> HIDE DEF total, value, worth, debit
<1>3. CASE value < worth \/ debit > 0
  <2> DEFINE cap == Payable(worth, value, debit)
  <2>1. WithinPay(total, cap)
    BY <1>2, <1>3
  <2>2. cap \in Int /\ cap <= value
    <3>1. worth \in Int /\ value \in Nat /\ debit \in Int
      BY <1>1
    <3> QED
      BY <3>1, PayableUnder
  <2>3. WithinPay(total, value)
    <3>1. total \in Int /\ value \in Int
      BY <1>1
    <3> HIDE DEF cap
    <3> QED
      BY <2>1, <2>2, <3>1, CeilingRises
  <2> QED
    BY <2>3 DEF total, value
<1>4. CASE ~(value < worth \/ debit > 0)
  <2>1. worth <= value
    BY <1>1, <1>4
  <2>2. WithinPay(total, value)
    BY <1>1, <1>2, <2>1, CeilingRises
  <2> QED
    BY <2>2 DEF total, value
<1> QED
  BY <1>3, <1>4

\* One step under the caps of every order.
LEMMA NextSplitPaid ==
  TypeOK /\ TypeOK' /\ WithinOrder /\ NoneAccepted /\ SplitPaid /\ [Next]_vars => SplitPaid'
<1> SUFFICES ASSUME TypeOK, TypeOK', WithinOrder, NoneAccepted, SplitPaid, [Next]_vars,
                    ~order'.forced, NEW s \in Suppliers
             PROVE  WithinPay(paidOn'[s], ReceivedValue(LinesOf(s))')
  BY DEF SplitPaid
<1> DEFINE c == ReceivedValue(LinesOf(s))
           d == ReceivedValue(LinesOf(s))'
<1>1. c \in Nat /\ d \in Nat /\ c <= d /\ LinesOf(s) \in SUBSET Lines
  BY NextGrows, ValueGrows, LinesFinite
<1>2. s \in AllPos /\ s # NoPo /\ paidOn \in [AllPos -> Nat]
  BY LinesFinite, OrderAssumption DEF AllPos, TypeOK
<1>3. ASSUME NEW x \in Int, WithinPay(x, c) PROVE WithinPay(x, d)
  <2> HIDE DEF c, d
  <2> QED
    BY <1>1, <1>3, CeilingRises
<1>4. ~order.forced => WithinPay(paidOn[s], c)
  BY DEF SplitPaid
<1>5. ASSUME NEW o \in AllPos, NEW a \in PaySet, NEW override \in Overrides,
             AddPayment(o, a, override)
      PROVE  WithinPay(paidOn'[s], d)
  <2>1. /\ Caps(o, a) /\ ~order.forced /\ recv' = recv
        /\ paidOn' = [paidOn EXCEPT ![o] = paidOn[o] + a] /\ paidOn[o] + a \in Nat
    BY <1>5, PaymentCapped
  <2>2. CASE o = s
    <3>1. OrderCaps(s, a) /\ paidOn'[s] = paidOn[s] + a /\ paidOn[s] + a \in Nat
      BY <1>2, <2>1, <2>2 DEF Caps
    <3>2. WithinPay(paidOn[s] + a, c)
      BY <3>1, OrderCapsReceived
    <3> QED
      BY <1>3, <3>1, <3>2
  <2>3. CASE o # s
    <3>1. paidOn'[s] = paidOn[s] /\ paidOn[s] \in Int
      BY <1>2, <2>1, <2>3
    <3> QED
      BY <1>3, <1>4, <2>1, <3>1
  <2> QED
    BY <2>2, <2>3
<1>6. CASE order'.forced = order.forced /\ paidOn' = paidOn
  <2>1. paidOn[s] \in Int
    BY <1>2
  <2> QED
    BY <1>3, <1>4, <1>6, <2>1
<1> QED
  BY <1>5, <1>6, OnlyPaymentsPay

\* add_payment on a requisition split over suppliers: under the same condition,
\* no supplier is ever paid with the value of another's goods.
THEOREM NoOnePaidForAnother == Spec /\ []NoneAccepted => []SplitPaid
<1>1. Init => WithinOrder /\ SplitPaid
  <2> SUFFICES ASSUME Init PROVE WithinOrder /\ SplitPaid
    OBVIOUS
  <2>1. WithinOrder
    BY OrderAssumption DEF Init, WithinOrder
  <2>2. \A o \in Suppliers : paidOn[o] = 0
    BY LinesFinite DEF Init, AllPos
  <2>3. \A o \in Suppliers : ReceivedValue(LinesOf(o)) \in Nat
    BY InitTypes, ReceivedTypes, LinesFinite
  <2>4. \A o \in Suppliers : WithinPay(0, ReceivedValue(LinesOf(o)))
    BY <2>3, NothingPaid
  <2> QED
    BY <2>1, <2>2, <2>4 DEF SplitPaid
<1>2. TypeOK /\ WithinOrder /\ NoneAccepted /\ [Next]_vars => WithinOrder'
  BY NextGrows
<1> QED
  BY <1>1, <1>2, InitTypes, NextTypes, NextSplitPaid, PTL DEF Spec

-----------------------------------------------------------------------------
(* The three-way match.                                                    *)

\* What the invoices of some orders add up to is an amount, and the same
\* whatever the verdict written on them.
LEMMA BilledKept ==
  ASSUME NEW B \in Seq(BillRow), NEW os
  PROVE  Billed(B, os) \in Nat /\ Billed(Judged(B), os) = Billed(B, os)
<1> DEFINE J  == Judged(B)
           v  == [i \in DOMAIN B |-> B[i].amount]
           w  == [i \in DOMAIN J |-> J[i].amount]
           on == {i \in DOMAIN B : B[i].po \in os}
<1>1. DOMAIN B = 1..Len(B) /\ Len(B) \in Nat
  BY LenProperties
<1>2. IsFiniteSet(DOMAIN B) /\ on \subseteq DOMAIN B
  BY <1>1, FS_Interval
<1>3. IsFiniteSet(on)
  <2> HIDE DEF on
  <2> QED
    BY <1>2, FS_Subset
<1>4. DOMAIN J = DOMAIN B /\ \A i \in DOMAIN B : J[i].amount = B[i].amount /\ J[i].po = B[i].po
  BY JudgedKeeps
<1>5. \A i \in on : v[i] \in Nat
  <2>1. \A i \in DOMAIN B : B[i] \in BillRow
    BY <1>1, ElementOfSeq
  <2> QED
    BY <2>1, OrderAssumption DEF BillRow
<1>6. \A i \in on : w[i] = v[i]
  BY <1>4
<1>7. {i \in DOMAIN J : J[i].po \in os} = on
  BY <1>4
<1>8. SumFunctionOnSet(v, on) \in Nat /\ SumFunctionOnSet(w, on) = SumFunctionOnSet(v, on)
  <2> HIDE DEF v, w, on
  <2> QED
    BY <1>3, <1>5, <1>6, SumNat, SumSame
<1> QED
  BY <1>7, <1>8 DEF Billed

\* The verdict three_way_match writes is the match it judges.
LEMMA VerdictTrue ==
  ASSUME NEW B \in Seq(BillRow), Judged(B) # <<>>
  PROVE  Judged(B)[Len(Judged(B))].st = "matched" => Matched(Judged(B))
<1>1. B # <<>> /\ Len(Judged(B)) = Len(B) /\ Len(B) \in DOMAIN B
  BY JudgedKeeps, EmptySeq, LenProperties DEF Judged
<1>2. B[Len(B)] \in BillRow
  BY <1>1, LenProperties, ElementOfSeq
<1>3. Judged(B)[Len(B)].st = IF Matched(B) THEN "matched" ELSE "disputed"
  BY <1>1, <1>2 DEF Judged, BillRow
<1>4. Billed(Judged(B), AllPos) = Billed(B, AllPos)
  BY BilledKept
<1>5. Matched(Judged(B)) <=> Matched(B)
  BY <1>4 DEF Matched, PriceOk, ReceiptOk
<1> QED
  BY <1>1, <1>3, <1>5

\* One step: the verdict is written again, or the goods only grew.
LEMMA NextMatched ==
  TypeOK /\ TypeOK' /\ WithinOrder /\ NoneAccepted /\ MatchStays /\ [Next]_vars => MatchStays'
<1> SUFFICES ASSUME TypeOK, TypeOK', WithinOrder, NoneAccepted, MatchStays, [Next]_vars
             PROVE  MatchStays'
  OBVIOUS
<1>1. ASSUME NEW B \in Seq(BillRow), bills' = Judged(B), recv' = recv PROVE MatchStays'
  <2>1. bills' # <<>> /\ bills'[Len(bills')].st = "matched" => Matched(bills')
    BY <1>1, VerdictTrue
  <2>2. Matched(bills') => Matched(bills)'
    BY <1>1 DEF Matched, QtyOk, PriceOk, ReceiptOk, ReceivedValue, Billed, Grand, OrderedValue
  <2> QED
    BY <2>1, <2>2 DEF MatchStays
<1>2. bills \in Seq(BillRow)
  BY DEF TypeOK
<1>3. CASE bills' = bills
  <2> SUFFICES ASSUME Matched(bills) PROVE Matched(bills)'
    BY <1>3 DEF MatchStays
  <2> DEFINE x == Billed(bills, AllPos)
             c == ReceivedValue(Lines)
             d == ReceivedValue(Lines)'
  <2>1. \A l \in Lines : recv[l] <= recv'[l] /\ recv[l] \in Nat /\ recv'[l] \in Nat
                         /\ Ordered[l] \in Nat
    BY NextGrows, OrderAssumption DEF TypeOK
  <2>2. QtyOk'
    BY <2>1 DEF Matched, QtyOk
  <2>3. x \in Int /\ c \in Int /\ d \in Int /\ c <= d /\ Grand \in Int
    BY <1>2, <2>1, BilledKept, ValueGrows, ReceivedTypes
  <2>4. Billed(bills, AllPos)' = x
    BY <1>3 DEF Billed
  <2>5. WithinMatch(x, Grand, Grand) /\ WithinMatch(x, c, Grand)
    BY DEF Matched, PriceOk, ReceiptOk
  <2>6. WithinMatch(x, d, Grand)
    <3> HIDE DEF x, c, d
    <3> QED
      BY <2>3, <2>5, CeilingRises
  <2> QED
    BY <2>2, <2>4, <2>5, <2>6 DEF Matched, PriceOk, ReceiptOk, Grand, OrderedValue
<1>4. ASSUME NEW o \in AllPos, NEW no \in InvoiceNos, NEW a \in BillSet, AddInvoice(o, no, a)
      PROVE  MatchStays'
  <2> DEFINE e == [no |-> no, po |-> o, amount |-> a, st |-> "received"]
  <2>1. e \in BillRow
    BY DEF BillRow
  <2>2. bills' = Judged(Append(bills, e)) /\ recv' = recv
    BY <1>4 DEF AddInvoice, goods
  <2> HIDE DEF e
  <2>3. Append(bills, e) \in Seq(BillRow)
    BY <1>2, <2>1, AppendProperties
  <2> QED
    BY <1>1, <2>2, <2>3
<1>5. CASE RefreshMatch
  BY <1>1, <1>2, <1>5 DEF RefreshMatch, goods
<1>6. ASSUME NEW o \in AllPos, NEW a \in PaySet, NEW override \in Overrides,
             AddPayment(o, a, override)
      PROVE  MatchStays'
  BY <1>1, <1>2, <1>6 DEF AddPayment, goods
<1>7. \/ bills' = bills \/ RefreshMatch
      \/ \E o \in AllPos, no \in InvoiceNos, a \in BillSet : AddInvoice(o, no, a)
      \/ \E o \in AllPos, a \in PaySet, override \in Overrides : AddPayment(o, a, override)
  <2>1. \A add \in [Lines -> AddSet], rej \in [Lines -> RejSet] : Receive(add, rej) => bills' = bills
    BY Zenon DEF Receive
  <2> QED
    BY <2>1 DEF Next, vars, IssuePo, MarkInTransit, ResolveQuarantine, AddAccepted, SettleReturn,
                AuthorizeAdvance, ClosePr, CancelPr
<1> QED
  BY <1>3, <1>4, <1>5, <1>6, <1>7

\* three_way_match keeps its verdict on the latest invoice: under the same
\* condition, what it called a match is still one, whatever came after.
THEOREM MatchedStaysMatched == Spec /\ []NoneAccepted => []MatchStays
<1>1. Init => WithinOrder /\ MatchStays
  BY OrderAssumption DEF Init, WithinOrder, MatchStays
<1>2. TypeOK /\ WithinOrder /\ NoneAccepted /\ [Next]_vars => WithinOrder'
  BY NextGrows
<1> QED
  BY <1>1, <1>2, InitTypes, NextTypes, NextMatched, PTL DEF Spec
=============================================================================
