----------------------- MODULE ResourceControlProofs -----------------------
(***************************************************************************)
(* Proofs about ResourceControl, for any estimates, costs, limits and      *)
(* bounds: nothing is free, the budget is kept however many requests are   *)
(* in flight or lost, a stop holds, and the ledger is kept.                *)
(*                                                                         *)
(* Sums over the ledger need induction over its length.  The library's     *)
(* theorems of induction take an operator, which no prover here can        *)
(* instantiate, so the inductions below take the least element of the set  *)
(* of counterexamples.                                                     *)
(***************************************************************************)
EXTENDS ResourceControl, FiniteSetTheorems, WellFoundedInduction, TLAPS

LEMMA LeastNatural ==
    ASSUME NEW T, T \subseteq Nat, T # {}
    PROVE  \E m \in T : \A k \in T : m <= k
<1>. DEFINE R == {p \in Nat \X Nat : p[1] < p[2]}
<1>1. R = OpToRel(<, Nat)
  BY DEF OpToRel
<1>2. IsWellFoundedOn(R, Nat)
  BY <1>1, NatLessThanWellFounded
<1>3. PICK m \in T : \A k \in T : ~(<<k, m>> \in R)
  BY <1>2, WFMin
<1>4. ASSUME NEW k \in T, k < m
      PROVE  FALSE
  <2>1. <<k, m>> \in Nat \X Nat /\ <<k, m>>[1] < <<k, m>>[2]
    BY <1>4
  <2>2. <<k, m>> \in R
    BY <2>1
  <2>. QED
    BY <2>2, <1>3
<1>. QED
  BY <1>4

-----------------------------------------------------------------------------
(* Totals *)

\* t lists the totals of the first 0, 1, ..., n amounts.
Totals(t, amount, n) ==
    /\ t \in [0..n -> Nat]
    /\ t[0] = 0
    /\ \A i \in 1..n : t[i] = t[i - 1] + amount[i]

LEMMA TotalsExist ==
    ASSUME NEW N \in Nat, NEW amount \in [1..N -> Nat]
    PROVE  \A n \in 0..N : \E t : Totals(t, amount, n)
<1>. DEFINE T == {n \in 0..N : ~\E t : Totals(t, amount, n)}
<1>1. SUFFICES ASSUME T # {}
               PROVE  FALSE
  OBVIOUS
<1>2. PICK m \in T : \A k \in T : m <= k
  <2>1. T \subseteq Nat
    OBVIOUS
  <2>. QED
    BY <1>1, <2>1, LeastNatural
<1>3. m # 0
  <2>1. Totals([i \in 0..0 |-> 0], amount, 0)
    BY DEF Totals
  <2>. QED
    BY <2>1
<1>4. PICK t : Totals(t, amount, m - 1)
  <2>1. m - 1 \in 0..N /\ m - 1 \notin T
    BY <1>2, <1>3
  <2>. QED
    BY <2>1
<1>. DEFINE u == [i \in 0..m |-> IF i = m THEN t[m - 1] + amount[m] ELSE t[i]]
<1>5. m \in Nat \ {0} /\ m <= N /\ amount[m] \in Nat
  BY <1>3
<1>6. t \in [0..(m - 1) -> Nat] /\ t[0] = 0 /\ \A i \in 1..(m - 1) : t[i] = t[i - 1] + amount[i]
  BY <1>4 DEF Totals
<1>7. u \in [0..m -> Nat]
  BY <1>5, <1>6
<1>8. u[0] = 0 /\ \A i \in 1..m : u[i] = u[i - 1] + amount[i]
  BY <1>5, <1>6
<1>9. Totals(u, amount, m)
  <2>. HIDE DEF u
  <2>. QED
    BY <1>7, <1>8 DEF Totals
<1>. QED
  BY <1>2, <1>9

\* The recursive function is the list of the totals.
LEMMA TotalIsLast ==
    ASSUME NEW n \in Nat, NEW amount \in [1..n -> Nat]
    PROVE  \E t : Totals(t, amount, n) /\ Total(amount, n) = t[n]
<1>. DEFINE IsFn(f) == f = [i \in 0..n |-> IF i = 0 THEN 0 ELSE f[i - 1] + amount[i]]
            f == CHOOSE f : IsFn(f)
<1>1. PICK t : Totals(t, amount, n)
  BY TotalsExist
<1>2. IsFn(t)
  BY <1>1 DEF Totals
<1>3. IsFn(f)
  BY <1>2
<1>4. Total(amount, n) = f[n]
  BY DEF Total
<1>5. f = t
  <2>. DEFINE D == {i \in 0..n : f[i] # t[i]}
  <2>1. SUFFICES ASSUME D # {}
                 PROVE  FALSE
    <3>1. f = [i \in 0..n |-> f[i]]
      BY <1>3
    <3>2. t = [i \in 0..n |-> t[i]]
      BY <1>1 DEF Totals
    <3>. HIDE DEF f
    <3>. QED
      BY <2>1, <3>1, <3>2
  <2>2. PICK m \in D : \A k \in D : m <= k
    <3>1. D \subseteq Nat
      OBVIOUS
    <3>. QED
      BY <2>1, <3>1, LeastNatural
  <2>3. m \in 0..n /\ f[m] # t[m]
    OBVIOUS
  <2>4. f[m] = IF m = 0 THEN 0 ELSE f[m - 1] + amount[m]
    BY <1>3, <2>3
  <2>5. t[m] = IF m = 0 THEN 0 ELSE t[m - 1] + amount[m]
    BY <1>2, <2>3
  <2>6. m # 0 => f[m - 1] = t[m - 1]
    <3>. HIDE DEF f
    <3>. QED
      BY <2>2
  <2>. HIDE DEF f
  <2>. QED
    BY <2>3, <2>4, <2>5, <2>6
<1>. QED
  BY <1>1, <1>4, <1>5

LEMMA TotalsAgree ==
    ASSUME NEW n \in Nat, NEW f, NEW g, NEW t, NEW u, Totals(t, f, n), Totals(u, g, n),
           NEW m \in 0..n, \A i \in 1..m : f[i] = g[i]
    PROVE  t[m] = u[m]
<1>. DEFINE D == {i \in 0..m : t[i] # u[i]}
<1>1. SUFFICES ASSUME D # {}
               PROVE  FALSE
  OBVIOUS
<1>2. PICK k \in D : \A j \in D : k <= j
  <2>1. D \subseteq Nat
    OBVIOUS
  <2>. QED
    BY <1>1, <2>1, LeastNatural
<1>3. k \in 1..m /\ k \in 1..n
  BY DEF Totals
<1>4. k - 1 \in 0..m /\ k - 1 \notin D
  BY <1>2, <1>3
<1>. QED
  BY <1>3, <1>4 DEF Totals

LEMMA TotalNat ==
    ASSUME NEW n \in Nat, NEW f \in [1..n -> Nat]
    PROVE  Total(f, n) \in Nat
BY TotalIsLast DEF Totals

LEMMA TotalEmpty ==
    ASSUME NEW f \in [1..0 -> Nat]
    PROVE  Total(f, 0) = 0
BY TotalIsLast DEF Totals

LEMMA TotalAppend ==
    ASSUME NEW n \in Nat, NEW f \in [1..n -> Nat], NEW g \in [1..(n + 1) -> Nat],
           \A i \in 1..n : g[i] = f[i]
    PROVE  Total(g, n + 1) = Total(f, n) + g[n + 1]
<1>1. PICK t : Totals(t, f, n) /\ Total(f, n) = t[n]
  BY TotalIsLast
<1>2. PICK u : Totals(u, g, n + 1) /\ Total(g, n + 1) = u[n + 1]
  BY TotalIsLast
<1>. DEFINE v == [i \in 0..n |-> u[i]]
<1>3. Totals(v, g, n)
  BY <1>2 DEF Totals
<1>4. v[n] = t[n]
  <2>. HIDE DEF v
  <2>. QED
    BY <1>1, <1>3, TotalsAgree
<1>5. u[n + 1] = u[n] + g[n + 1] /\ v[n] = u[n]
  BY <1>2 DEF Totals
<1>. QED
  BY <1>1, <1>2, <1>4, <1>5

LEMMA TotalUpdate ==
    ASSUME NEW n \in Nat, NEW f \in [1..n -> Nat], NEW g \in [1..n -> Nat], NEW r \in 1..n,
           \A i \in 1..n \ {r} : g[i] = f[i]
    PROVE  Total(g, n) + f[r] = Total(f, n) + g[r]
<1>1. PICK t : Totals(t, f, n) /\ Total(f, n) = t[n]
  BY TotalIsLast
<1>2. PICK u : Totals(u, g, n) /\ Total(g, n) = u[n]
  BY TotalIsLast
<1>3. t[r - 1] = u[r - 1]
  BY <1>1, <1>2, TotalsAgree
<1>. DEFINE D == {i \in r..n : u[i] + f[r] # t[i] + g[r]}
<1>4. D = {}
  <2>1. SUFFICES ASSUME D # {}
                 PROVE  FALSE
    OBVIOUS
  <2>2. PICK k \in D : \A j \in D : k <= j
    <3>1. D \subseteq Nat
      OBVIOUS
    <3>. QED
      BY <2>1, <3>1, LeastNatural
  <2>3. t \in [0..n -> Nat] /\ u \in [0..n -> Nat]
        /\ t[k] = t[k - 1] + f[k] /\ u[k] = u[k - 1] + g[k]
    <3>1. k \in 1..n
      OBVIOUS
    <3>. HIDE DEF D
    <3>. QED
      BY <1>1, <1>2, <3>1 DEF Totals
  <2>4. k \in 1..n /\ t[k - 1] \in Nat /\ u[k - 1] \in Nat /\ f[k] \in Nat /\ g[k] \in Nat
        /\ f[r] \in Nat /\ g[r] \in Nat
    BY <2>3
  <2>5. u[k] + f[r] # t[k] + g[r]
    OBVIOUS
  <2>6. k # r => g[k] = f[k] /\ u[k - 1] + f[r] = t[k - 1] + g[r]
    <3>1. k # r => k - 1 \in r..n /\ k - 1 \notin D
      BY <2>2
    <3>. QED
      BY <3>1
  <2>. HIDE DEF D
  <2>7. CASE k = r
    <3>1. u[k - 1] = t[k - 1]
      BY <1>3, <2>7
    <3>2. u[k] = t[k - 1] + g[r] /\ t[k] = t[k - 1] + f[r]
      BY <2>3, <2>7, <3>1
    <3>. QED
      BY <2>4, <2>5, <3>2
  <2>8. CASE k # r
    <3>1. PICK a \in Nat, b \in Nat, x \in Nat, y \in Nat, z \in Nat :
             a = u[k - 1] /\ b = t[k - 1] /\ x = f[k] /\ y = f[r] /\ z = g[r]
      BY <2>4
    <3>2. u[k] = a + x /\ t[k] = b + x /\ a + y = b + z
      BY <2>3, <2>6, <2>8, <3>1
    <3>3. (a + x) + y # (b + x) + z
      BY <2>5, <3>1, <3>2
    <3>. QED
      BY <3>2, <3>3
  <2>. QED
    BY <2>7, <2>8
<1>. QED
  BY <1>1, <1>2, <1>4

LEMMA TotalSame ==
    ASSUME NEW n \in Nat, NEW f \in [1..n -> Nat], NEW g \in [1..n -> Nat],
           \A i \in 1..n : g[i] = f[i]
    PROVE  Total(g, n) = Total(f, n)
<1>1. f = g
  OBVIOUS
<1>. QED
  BY <1>1

-----------------------------------------------------------------------------
(* States of the database *)

\* What the rows and the limits of a database say is within the budget.
Budget(d) ==
    /\ \A r \in DOMAIN d.rows :
         d.rows[r].status # "reported" => d.rows[r].charged >= d.rows[r].estimate
    /\ Len(d.rows) <= d.limits.requests
    /\ Charged(d) > d.limits.tokens => d.stop # "none"
    /\ d.failures >= d.limits.failures => d.stop # "none"
    /\ Charged(d) <= d.limits.tokens + Excess(d)

\* Database e comes after d without a command that extends or resumes.
Continues(d, e) ==
    /\ Len(d.rows) <= Len(e.rows)
    /\ \A r \in DOMAIN d.rows :
         /\ e.rows[r].caller = d.rows[r].caller /\ e.rows[r].estimate = d.rows[r].estimate
         /\ d.rows[r].status = "reported" => e.rows[r] = d.rows[r]
         /\ d.rows[r].status = "unknown" => e.rows[r].status # "reserved"
    /\ e.limits = d.limits /\ e.extension = d.extension /\ e.epoch = d.epoch
    /\ d.revision <= e.revision /\ (e.revision = d.revision => e.stop = d.stop)
    /\ e.stop = "none" => d.stop = "none"

\* Database e comes after d by reserving, settling and stopping.
Follows(d, e) ==
    /\ Continues(d, e)
    /\ e.stop = "none" => e.item = d.item
    /\ d.item = "active" => e.item = "active"

\* No row of e is reported that was not in d.
NothingReported(d, e) ==
    \A r \in DOMAIN e.rows : e.rows[r].status = "reported" =>
        r \in DOMAIN d.rows /\ e.rows[r] = d.rows[r]

SameCosts(d, e) ==
    /\ Len(e.rows) = Len(d.rows)
    /\ \A r \in DOMAIN d.rows : /\ e.rows[r].charged = d.rows[r].charged
                                /\ e.rows[r].estimate = d.rows[r].estimate

ExcessRow(row) == Larger(0, row.charged - row.estimate)

LEMMA RowType ==
    ASSUME NEW d \in Database, NEW r \in DOMAIN d.rows
    PROVE  /\ d.rows[r] \in Rows
           /\ d.rows[r].charged \in Nat /\ d.rows[r].estimate \in Nat
           /\ d.rows[r].estimate # 0
           /\ ExcessRow(d.rows[r]) \in Nat
<1>1. d.rows \in Seq(Rows)
  BY DEF Database
<1>2. d.rows[r] \in Rows
  BY <1>1
<1>3. d.rows[r].charged \in Nat /\ d.rows[r].estimate \in Nat \ {0}
  BY <1>2, BudgetAssumption DEF Rows, BudgetAssumption
<1>. QED
  BY <1>2, <1>3 DEF ExcessRow, Larger

LEMMA RowsDomain ==
    ASSUME NEW d \in Database
    PROVE  Len(d.rows) \in Nat /\ DOMAIN d.rows = 1..Len(d.rows) /\ d.rows \in Seq(Rows)
BY DEF Database

LEMMA Amounts ==
    ASSUME NEW d \in Database
    PROVE  /\ [r \in DOMAIN d.rows |-> d.rows[r].charged] \in [1..Len(d.rows) -> Nat]
           /\ [r \in DOMAIN d.rows |-> Larger(0, d.rows[r].charged - d.rows[r].estimate)]
                 \in [1..Len(d.rows) -> Nat]
           /\ Charged(d) \in Nat /\ Excess(d) \in Nat
<1>1. [r \in DOMAIN d.rows |-> d.rows[r].charged] \in [1..Len(d.rows) -> Nat]
  BY RowType, RowsDomain
<1>2. [r \in DOMAIN d.rows |-> Larger(0, d.rows[r].charged - d.rows[r].estimate)]
                 \in [1..Len(d.rows) -> Nat]
  BY RowType, RowsDomain DEF ExcessRow
<1>. QED
  BY <1>1, <1>2, TotalNat, RowsDomain DEF Charged, Excess

LEMMA SameCostsSameTotals ==
    ASSUME NEW d \in Database, NEW e \in Database, SameCosts(d, e)
    PROVE  Charged(e) = Charged(d) /\ Excess(e) = Excess(d)
<1>1. [r \in DOMAIN e.rows |-> e.rows[r].charged] = [r \in DOMAIN d.rows |-> d.rows[r].charged]
  BY RowsDomain DEF SameCosts
<1>2. [r \in DOMAIN e.rows |-> Larger(0, e.rows[r].charged - e.rows[r].estimate)]
        = [r \in DOMAIN d.rows |-> Larger(0, d.rows[r].charged - d.rows[r].estimate)]
  BY RowsDomain DEF SameCosts
<1>. QED
  BY <1>1, <1>2 DEF Charged, Excess, SameCosts

\* One row changes.
LEMMA RowChangesTotals ==
    ASSUME NEW d \in Database, NEW e \in Database, NEW r \in DOMAIN d.rows,
           Len(e.rows) = Len(d.rows),
           \A q \in DOMAIN d.rows \ {r} : e.rows[q] = d.rows[q]
    PROVE  /\ Charged(e) + d.rows[r].charged = Charged(d) + e.rows[r].charged
           /\ Excess(e) + ExcessRow(d.rows[r]) = Excess(d) + ExcessRow(e.rows[r])
<1>. DEFINE n == Len(d.rows)
            f == [q \in DOMAIN d.rows |-> d.rows[q].charged]
            g == [q \in DOMAIN e.rows |-> e.rows[q].charged]
            x == [q \in DOMAIN d.rows |-> Larger(0, d.rows[q].charged - d.rows[q].estimate)]
            y == [q \in DOMAIN e.rows |-> Larger(0, e.rows[q].charged - e.rows[q].estimate)]
<1>1. n \in Nat /\ r \in 1..n /\ DOMAIN d.rows = 1..n /\ DOMAIN e.rows = 1..n
  BY RowsDomain
<1>2. f \in [1..n -> Nat] /\ g \in [1..n -> Nat] /\ x \in [1..n -> Nat] /\ y \in [1..n -> Nat]
  BY Amounts
<1>3. \A q \in 1..n \ {r} : g[q] = f[q] /\ y[q] = x[q]
  BY <1>1
<1>4. f[r] = d.rows[r].charged /\ g[r] = e.rows[r].charged
      /\ x[r] = ExcessRow(d.rows[r]) /\ y[r] = ExcessRow(e.rows[r])
  BY <1>1 DEF ExcessRow
<1>5. Charged(d) = Total(f, n) /\ Charged(e) = Total(g, n)
      /\ Excess(d) = Total(x, n) /\ Excess(e) = Total(y, n)
  BY DEF Charged, Excess
<1>. HIDE DEF f, g, x, y, n
<1>6. Total(g, n) + f[r] = Total(f, n) + g[r]
  BY <1>1, <1>2, <1>3, TotalUpdate
<1>7. Total(y, n) + x[r] = Total(x, n) + y[r]
  BY <1>1, <1>2, <1>3, TotalUpdate
<1>. QED
  BY <1>4, <1>5, <1>6, <1>7

\* One row is added.
LEMMA RowAddsToTotals ==
    ASSUME NEW d \in Database, NEW e \in Database, NEW row, e.rows = Append(d.rows, row)
    PROVE  /\ Charged(e) = Charged(d) + row.charged
           /\ Excess(e) = Excess(d) + ExcessRow(row)
<1>. DEFINE n == Len(d.rows)
            f == [q \in DOMAIN d.rows |-> d.rows[q].charged]
            g == [q \in DOMAIN e.rows |-> e.rows[q].charged]
            x == [q \in DOMAIN d.rows |-> Larger(0, d.rows[q].charged - d.rows[q].estimate)]
            y == [q \in DOMAIN e.rows |-> Larger(0, e.rows[q].charged - e.rows[q].estimate)]
<1>1. n \in Nat /\ DOMAIN d.rows = 1..n /\ Len(e.rows) = n + 1 /\ DOMAIN e.rows = 1..(n + 1)
  BY RowsDomain
<1>2. e.rows[n + 1] = row /\ \A q \in 1..n : e.rows[q] = d.rows[q]
  BY RowsDomain
<1>3. f \in [1..n -> Nat] /\ g \in [1..(n + 1) -> Nat]
      /\ x \in [1..n -> Nat] /\ y \in [1..(n + 1) -> Nat]
  BY <1>1, Amounts
<1>4. \A q \in 1..n : g[q] = f[q] /\ y[q] = x[q]
  BY <1>1, <1>2
<1>5. g[n + 1] = row.charged /\ y[n + 1] = ExcessRow(row)
  BY <1>1, <1>2 DEF ExcessRow
<1>6. Charged(d) = Total(f, n) /\ Charged(e) = Total(g, n + 1)
      /\ Excess(d) = Total(x, n) /\ Excess(e) = Total(y, n + 1)
  BY <1>1 DEF Charged, Excess
<1>. HIDE DEF f, g, x, y, n
<1>7. Total(g, n + 1) = Total(f, n) + g[n + 1]
  BY <1>1, <1>3, <1>4, TotalAppend
<1>8. Total(y, n + 1) = Total(x, n) + y[n + 1]
  BY <1>1, <1>3, <1>4, TotalAppend
<1>. QED
  BY <1>5, <1>6, <1>7, <1>8

-----------------------------------------------------------------------------
(* The operations on the database *)

LEMMA FollowsItself ==
    ASSUME NEW d \in Database
    PROVE  Follows(d, d) /\ NothingReported(d, d)
BY RowsDomain DEF Follows, Continues, NothingReported, Database

LEMMA FollowsTransitive ==
    ASSUME NEW d \in Database, NEW e \in Database, NEW f \in Database, Follows(d, e), Follows(e, f)
    PROVE  Follows(d, f)
<1>1. DOMAIN d.rows \subseteq DOMAIN e.rows
  BY RowsDomain DEF Follows, Continues
<1>2. d.revision \in Nat /\ e.revision \in Nat /\ f.revision \in Nat
  BY DEF Database
<1>3. \A r \in DOMAIN d.rows : d.rows[r].status = "unknown" => f.rows[r].status # "reserved"
  <2>1. \A r \in DOMAIN d.rows : e.rows[r].status \in {"reserved", "unknown", "reported"}
    BY <1>1, RowType DEF Rows
  <2>. QED
    BY <1>1, <2>1 DEF Follows, Continues
<1>4. \A r \in DOMAIN d.rows :
         /\ f.rows[r].caller = d.rows[r].caller /\ f.rows[r].estimate = d.rows[r].estimate
         /\ d.rows[r].status = "reported" => f.rows[r] = d.rows[r]
  BY <1>1 DEF Follows, Continues
<1>5. Len(d.rows) <= Len(f.rows)
  BY RowsDomain DEF Follows, Continues
<1>6. d.revision <= f.revision /\ (f.revision = d.revision => f.stop = d.stop)
  BY <1>2 DEF Follows, Continues
<1>. QED
  BY <1>3, <1>4, <1>5, <1>6 DEF Follows, Continues

LEMMA NothingReportedTransitive ==
    ASSUME NEW d, NEW e, NEW f, NothingReported(d, e), NothingReported(e, f)
    PROVE  NothingReported(d, f)
BY DEF NothingReported

LEMMA StoppedFacts ==
    ASSUME NEW d \in Database, NEW code \in Codes \ {"none"}
    PROVE  LET e == Stopped(d, code) IN
           /\ e \in Database /\ Follows(d, e) /\ NothingReported(d, e)
           /\ e.rows = d.rows /\ e.stop # "none" /\ e.failures = d.failures
<1>. DEFINE e == Stopped(d, code)
<1>1. CASE d.stop # "none"
  BY <1>1, FollowsItself DEF Stopped
<1>2. CASE d.stop = "none"
  <2>. DEFINE s == IF d.item = "cancelled" THEN d.item ELSE "active"
  <2>1. e = [d EXCEPT !.stop = code, !.revision = d.revision + 1, !.item = s]
    BY <1>2 DEF Stopped
  <2>2. d.revision + 1 \in Nat \ {0} /\ s \in {"active", "done", "cancelled"}
    BY DEF Database
  <2>. HIDE DEF s
  <2>3. e \in Database
    BY <2>1, <2>2 DEF Database, Codes
  <2>4. /\ e.rows = d.rows /\ e.stop = code /\ e.failures = d.failures /\ e.item = s
        /\ e.revision = d.revision + 1 /\ e.limits = d.limits /\ e.extension = d.extension
        /\ e.epoch = d.epoch
    BY <2>1 DEF Database
  <2>5. d.item = "active" => s = "active"
    BY DEF s
  <2>6. d.revision < e.revision
    BY <2>4 DEF Database
  <2>7. Follows(d, e)
    <3>1. d.revision <= e.revision /\ e.revision # d.revision
      BY <2>2, <2>4 DEF Database
    <3>. QED
      BY <2>4, <2>5, <3>1, RowsDomain DEF Follows, Continues
  <2>. QED
    BY <2>3, <2>4, <2>7 DEF NothingReported
<1>. QED
  BY <1>1, <1>2

LEMMA StoppedBudget ==
    ASSUME NEW d \in Database, NEW code \in Codes \ {"none"},
           Len(d.rows) <= d.limits.requests,
           \A r \in DOMAIN d.rows :
             d.rows[r].status # "reported" => d.rows[r].charged >= d.rows[r].estimate,
           Charged(d) <= d.limits.tokens + Excess(d)
    PROVE  Budget(Stopped(d, code))
<1>. DEFINE e == Stopped(d, code)
<1>1. e.rows = d.rows /\ e.stop # "none" /\ e.limits = d.limits /\ e \in Database
  BY StoppedFacts DEF Follows, Continues
<1>2. Charged(e) = Charged(d) /\ Excess(e) = Excess(d)
  BY <1>1 DEF Charged, Excess
<1>. HIDE DEF e
<1>3. Budget(e)
  BY <1>1, <1>2 DEF Budget
<1>. QED
  BY <1>3 DEF e

LEMMA CheckedFacts ==
    ASSUME NEW d \in Database
    PROVE  LET e == Checked(d) IN
           /\ e \in Database /\ Follows(d, e) /\ NothingReported(d, e)
           /\ e.rows = d.rows /\ e.failures = d.failures
BY StoppedFacts, FollowsItself DEF Checked, Codes

\* settle, before the limit is checked again: row r gets status s and charge x.
Put(d, r, s, x) == [d EXCEPT !.rows[r].status = s, !.rows[r].charged = x]

LEMMA PutFacts ==
    ASSUME NEW d \in Database, NEW r \in DOMAIN d.rows, d.rows[r].status # "reported",
           NEW s \in {"unknown", "reported"}, NEW x \in Nat
    PROVE  LET e == Put(d, r, s, x) IN
           /\ e \in Database /\ Follows(d, e)
           /\ Len(e.rows) = Len(d.rows)
           /\ e.rows[r].status = s /\ e.rows[r].charged = x
           /\ \A q \in DOMAIN d.rows \ {r} : e.rows[q] = d.rows[q]
           /\ e.limits = d.limits /\ e.stop = d.stop /\ e.failures = d.failures
           /\ s = "unknown" => NothingReported(d, e)
<1>. DEFINE e == Put(d, r, s, x)
            row == [d.rows[r] EXCEPT !.status = s, !.charged = x]
            rows == [d.rows EXCEPT ![r] = row]
<1>1. row \in Rows /\ row.status = s /\ row.charged = x
      /\ row.caller = d.rows[r].caller /\ row.estimate = d.rows[r].estimate
  BY RowType DEF Rows
<1>2. e = [d EXCEPT !.rows = rows]
  BY RowType DEF Put, Rows, Database
<1>3. rows \in Seq(Rows) /\ Len(rows) = Len(d.rows) /\ rows[r] = row
      /\ \A q \in DOMAIN d.rows \ {r} : rows[q] = d.rows[q]
  <2>. HIDE DEF row
  <2>. QED
    BY <1>1, RowsDomain
<1>. HIDE DEF rows, e
<1>4. e \in Database /\ e.rows = rows /\ e.limits = d.limits /\ e.stop = d.stop
      /\ e.failures = d.failures /\ e.extension = d.extension /\ e.epoch = d.epoch
      /\ e.revision = d.revision /\ e.item = d.item
  BY <1>2, <1>3 DEF Database
<1>. HIDE DEF row
<1>5. Follows(d, e)
  <2>1. Len(d.rows) <= Len(e.rows) /\ d.revision <= e.revision
    BY <1>3, <1>4, RowsDomain DEF Database
  <2>. QED
    BY <1>1, <1>3, <1>4, <2>1 DEF Follows, Continues
<1>6. s = "unknown" => NothingReported(d, e)
  BY <1>1, <1>3, <1>4, RowsDomain DEF NothingReported
<1>. QED
  BY <1>1, <1>3, <1>4, <1>5, <1>6 DEF e

LEMMA PutBudget ==
    ASSUME NEW d \in Database, NEW r \in DOMAIN d.rows, d.rows[r].status # "reported",
           NEW s \in {"unknown", "reported"}, NEW x \in Nat,
           s = "unknown" => x >= d.rows[r].estimate,
           Budget(d)
    PROVE  Budget(Checked(Put(d, r, s, x)))
<1>. DEFINE e == Put(d, r, s, x)
<1>1. /\ e \in Database /\ Len(e.rows) = Len(d.rows) /\ DOMAIN e.rows = DOMAIN d.rows
      /\ e.rows[r].status = s /\ e.rows[r].charged = x
      /\ e.rows[r].estimate = d.rows[r].estimate
      /\ \A q \in DOMAIN d.rows \ {r} : e.rows[q] = d.rows[q]
      /\ e.limits = d.limits /\ e.stop = d.stop /\ e.failures = d.failures
  BY PutFacts, RowsDomain DEF Follows, Continues
<1>. HIDE DEF e
<1>2. /\ Charged(e) + d.rows[r].charged = Charged(d) + x
      /\ Excess(e) + ExcessRow(d.rows[r]) = Excess(d) + ExcessRow(e.rows[r])
  BY <1>1, RowChangesTotals
<1>3. ExcessRow(d.rows[r]) = d.rows[r].charged - d.rows[r].estimate
  BY RowType DEF ExcessRow, Larger, Budget
<1>4. ExcessRow(e.rows[r]) \in Nat /\ ExcessRow(e.rows[r]) >= x - d.rows[r].estimate
  <2>1. d.rows[r].estimate \in Nat
    BY RowType
  <2>. QED
    BY <1>1, <2>1 DEF ExcessRow, Larger
<1>5. Charged(e) <= e.limits.tokens + Excess(e)
  <2>1. PICK a \in Nat, b \in Nat, c \in Nat, p \in Nat, q \in Nat, l \in Nat, o \in Nat, t \in Nat :
           /\ a = Charged(d) /\ b = Charged(e) /\ c = Excess(d) /\ p = Excess(e)
           /\ q = d.rows[r].charged /\ l = d.limits.tokens /\ o = d.rows[r].estimate
           /\ t = ExcessRow(e.rows[r])
    BY Amounts, RowType, <1>1, <1>4 DEF Database, Limit
  <2>2. b + q = a + x /\ p + (q - o) = c + t /\ t >= x - o /\ a <= l + c
    BY <1>2, <1>3, <1>4, <2>1 DEF Budget
  <2>3. b <= l + p
    BY <2>2
  <2>. QED
    BY <1>1, <2>1, <2>3
<1>6. \A q \in DOMAIN e.rows : e.rows[q].status # "reported" => e.rows[q].charged >= e.rows[q].estimate
  BY <1>1 DEF Budget
<1>7. Len(e.rows) <= e.limits.requests
  BY <1>1 DEF Budget
<1>8. CASE Charged(e) > e.limits.tokens
  <2>1. Checked(e) = Stopped(e, "tokens")
    BY <1>8 DEF Checked
  <2>. QED
    BY <1>1, <1>5, <1>6, <1>7, <2>1, StoppedBudget DEF e, Codes
<1>9. CASE ~(Charged(e) > e.limits.tokens)
  <2>1. Checked(e) = e
    BY <1>9 DEF Checked
  <2>2. Budget(e)
    BY <1>1, <1>5, <1>6, <1>7, <1>9 DEF Budget
  <2>. QED
    BY <2>1, <2>2 DEF e
<1>. QED
  BY <1>8, <1>9

LEMMA SettledFacts ==
    ASSUME NEW d \in Database, NEW r \in 0..Len(d.rows), NEW usage \in Nat, NEW complete \in BOOLEAN
    PROVE  LET e == Settled(d, r, usage, complete) IN
           /\ e \in Database /\ Follows(d, e)
           /\ Len(e.rows) = Len(d.rows) /\ e.failures = d.failures
           /\ \A q \in DOMAIN d.rows \ {r} : e.rows[q] = d.rows[q]
           /\ ~complete => NothingReported(d, e)
           /\ r # 0 /\ d.rows[r].status # "reported" =>
                (e.rows[r].status = "reported" => e.rows[r].charged = usage)
           /\ Budget(d) => Budget(e)
<1>. DEFINE e == Settled(d, r, usage, complete)
            reported == complete /\ usage > 0
            row == d.rows[r]
            s == IF reported THEN "reported" ELSE "unknown"
            x == Charge(row, usage, reported)
            skip == r = 0 \/ row.status = "reported" \/ (row.status = "unknown" /\ usage = 0)
<1>1. CASE skip
  <2>1. e = d
    BY <1>1 DEF Settled
  <2>. HIDE DEF e
  <2>2. e \in Database /\ Follows(d, e) /\ Len(e.rows) = Len(d.rows) /\ e.failures = d.failures
        /\ NothingReported(d, e) /\ (Budget(d) => Budget(e))
    BY <2>1, FollowsItself
  <2>3. r # 0 /\ d.rows[r].status # "reported" => e.rows[r].status # "reported"
    BY <2>1
  <2>. QED
    BY <2>1, <2>2, <2>3 DEF e
<1>2. CASE ~skip
  <2>1. r \in DOMAIN d.rows /\ d.rows[r].status # "reported"
    BY <1>2, RowsDomain
  <2>2. e = Checked(Put(d, r, s, x))
    BY <1>2 DEF Settled, Put
  <2>3. x \in Nat /\ s \in {"unknown", "reported"}
        /\ (s = "unknown" => x >= d.rows[r].estimate /\ ~reported) /\ (s = "reported" => x = usage)
        /\ (~complete => s = "unknown")
    <3>1. row.estimate \in Nat
      BY <2>1, RowType
    <3>2. CASE reported
      BY <3>2 DEF Charge
    <3>3. CASE ~reported
      BY <3>1, <3>3 DEF Charge, Larger
    <3>. QED
      BY <3>2, <3>3
  <2>. HIDE DEF e, s, x, row, reported, skip
  <2>. DEFINE p == Put(d, r, s, x)
  <2>4. /\ p \in Database /\ Follows(d, p)
        /\ Len(p.rows) = Len(d.rows)
        /\ p.rows[r].status = s /\ p.rows[r].charged = x
        /\ \A q \in DOMAIN d.rows \ {r} : p.rows[q] = d.rows[q]
        /\ p.failures = d.failures
        /\ s = "unknown" => NothingReported(d, p)
    BY <2>1, <2>3, PutFacts
  <2>. HIDE DEF p
  <2>5. e \in Database /\ Follows(p, e) /\ NothingReported(p, e)
        /\ e.rows = p.rows /\ e.failures = p.failures
    BY <2>2, <2>4, CheckedFacts DEF p
  <2>6. Follows(d, e)
    BY <2>4, <2>5, FollowsTransitive
  <2>7. ~complete => NothingReported(d, e)
    BY <2>3, <2>4, <2>5, NothingReportedTransitive
  <2>8. Budget(d) => Budget(e)
    BY <2>1, <2>2, <2>3, PutBudget
  <2>9. e.rows[r].status = "reported" => e.rows[r].charged = usage
    BY <2>3, <2>4, <2>5
  <2>. QED
    BY <2>4, <2>5, <2>6, <2>7, <2>8, <2>9 DEF e
<1>. QED
  BY <1>1, <1>2

LEMMA ReservedFacts ==
    ASSUME NEW d \in Database, NEW c \in Nat, NEW estimate \in Estimates
    PROVE  LET e == Reserved(d, c, estimate) IN
           /\ e \in Database /\ Follows(d, e) /\ NothingReported(d, e)
           /\ e.failures = d.failures
           /\ Budget(d) => Budget(e)
           /\ IF Denied(d, c, estimate) = "none"
              THEN /\ e = [d EXCEPT !.rows = e.rows]
                   /\ e.rows = Append(d.rows, [caller |-> c, estimate |-> estimate,
                                               charged |-> estimate, status |-> "reserved"])
                   /\ d.stop = "none" /\ d.item = "active" /\ ~RunExhausted(d, c)
              ELSE e.rows = d.rows
<1>. DEFINE e == Reserved(d, c, estimate)
            row == [caller |-> c, estimate |-> estimate, charged |-> estimate,
                    status |-> "reserved"]
            code == Denied(d, c, estimate)
<1>0. code \in Codes \cup {"stopped", "inactive"}
  BY DEF Denied, Codes
<1>1. CASE code = "none"
  <2>1. /\ d.stop = "none" /\ d.item = "active" /\ ~RunExhausted(d, c)
        /\ ~(Len(d.rows) >= d.limits.requests) /\ Fits(d, estimate)
    BY <1>1 DEF Denied
  <2>2. e = [d EXCEPT !.rows = Append(d.rows, row)]
    BY <1>1 DEF Reserved
  <2>3. row \in Rows /\ estimate \in Nat \ {0}
    BY BudgetAssumption DEF BudgetAssumption, Rows
  <2>4. /\ row.estimate = estimate /\ row.charged = estimate /\ row.status = "reserved"
    OBVIOUS
  <2>. HIDE DEF row, e, code
  <2>5. e \in Database /\ e.rows = Append(d.rows, row) /\ e.limits = d.limits /\ e.stop = d.stop
        /\ e.failures = d.failures /\ e.extension = d.extension /\ e.epoch = d.epoch
        /\ e.revision = d.revision /\ e.item = d.item
    <3>1. Append(d.rows, row) \in Seq(Rows)
      BY <2>3, RowsDomain
    <3>. QED
      BY <2>2, <3>1 DEF Database
  <2>6. Len(e.rows) = Len(d.rows) + 1 /\ e.rows[Len(d.rows) + 1] = row
        /\ \A r \in DOMAIN d.rows : e.rows[r] = d.rows[r]
    BY <2>3, <2>5, RowsDomain
  <2>7. Follows(d, e)
    <3>1. Len(d.rows) <= Len(e.rows) /\ d.revision <= e.revision
      BY <2>5, <2>6, RowsDomain DEF Database
    <3>. QED
      BY <2>5, <2>6, <3>1 DEF Follows, Continues
  <2>8. NothingReported(d, e)
    BY <2>4, <2>5, <2>6, RowsDomain DEF NothingReported
  <2>9. Budget(d) => Budget(e)
    <3>1. Charged(e) = Charged(d) + estimate /\ Excess(e) = Excess(d) + ExcessRow(row)
      BY <2>4, <2>5, RowAddsToTotals
    <3>2. ExcessRow(row) = 0
      BY <2>3, <2>4 DEF ExcessRow, Larger
    <3>3. Charged(d) \in Nat /\ Excess(d) \in Nat /\ d.limits.tokens \in Nat
          /\ d.limits.requests \in Nat /\ Len(d.rows) \in Nat
      BY Amounts DEF Database, Limit
    <3>4. Charged(e) <= e.limits.tokens + Excess(e) /\ ~(Charged(e) > e.limits.tokens)
      BY <2>1, <2>3, <2>5, <3>1, <3>2, <3>3 DEF Fits
    <3>5. Len(e.rows) <= e.limits.requests
      BY <2>1, <2>5, <2>6, <3>3
    <3>6. Budget(d) => \A r \in DOMAIN e.rows :
             e.rows[r].status # "reported" => e.rows[r].charged >= e.rows[r].estimate
      <4>1. row.charged >= row.estimate
        BY <2>3, <2>4
      <4>. QED
        BY <2>5, <2>6, <4>1, RowsDomain DEF Budget
    <3>. QED
      BY <2>5, <3>4, <3>5, <3>6 DEF Budget
  <2>. QED
    BY <1>1, <2>1, <2>2, <2>5, <2>7, <2>8, <2>9 DEF e, row, code
<1>2. CASE code \in {"stopped", "inactive"}
  <2>1. e = d
    BY <1>2 DEF Reserved
  <2>. HIDE DEF e
  <2>. QED
    BY <1>2, <2>1, FollowsItself DEF e
<1>3. CASE code \in Codes \ {"none"}
  <2>1. e = Stopped(d, code)
    BY <1>3 DEF Reserved, Codes
  <2>. HIDE DEF e, code
  <2>2. /\ e \in Database /\ Follows(d, e) /\ NothingReported(d, e)
        /\ e.rows = d.rows /\ e.stop # "none" /\ e.failures = d.failures
    BY <1>3, <2>1, StoppedFacts
  <2>3. Budget(d) => Budget(e)
    BY <1>3, <2>1, StoppedBudget DEF Budget
  <2>. QED
    BY <1>3, <2>2, <2>3 DEF e, code
<1>. QED
  BY <1>0, <1>1, <1>2, <1>3

LEMMA EarlierUnknownFacts ==
    ASSUME NEW d \in Database, NEW c, NEW last
    PROVE  LET e == EarlierUnknown(d, c, last) IN
           /\ e \in Database /\ Follows(d, e) /\ NothingReported(d, e)
           /\ e = [d EXCEPT !.rows = e.rows] /\ Len(e.rows) = Len(d.rows)
           /\ last \in DOMAIN d.rows => e.rows[last] = d.rows[last]
           /\ Budget(d) => Budget(e)
<1>. DEFINE e == EarlierUnknown(d, c, last)
            Earlier(r) == r \in RequestsOf(d, c) \ {last} /\ d.rows[r].status = "reserved"
            rows == [r \in DOMAIN d.rows |->
                      IF Earlier(r) THEN [d.rows[r] EXCEPT !.status = "unknown"] ELSE d.rows[r]]
<1>1. e = [d EXCEPT !.rows = rows]
  BY DEF EarlierUnknown
<1>. DEFINE Good(r) ==
              /\ rows[r] \in Rows
              /\ Earlier(r) => /\ rows[r].status = "unknown" /\ d.rows[r].status = "reserved"
                               /\ rows[r].caller = d.rows[r].caller
                               /\ rows[r].estimate = d.rows[r].estimate
                               /\ rows[r].charged = d.rows[r].charged
              /\ ~Earlier(r) => rows[r] = d.rows[r]
<1>2. \A r \in DOMAIN d.rows : Good(r)
  <2>1. SUFFICES ASSUME NEW r \in DOMAIN d.rows
                 PROVE  Good(r)
    OBVIOUS
  <2>2. d.rows[r] \in Rows
    BY RowType
  <2>3. rows[r] = IF Earlier(r) THEN [d.rows[r] EXCEPT !.status = "unknown"] ELSE d.rows[r]
    OBVIOUS
  <2>4. Earlier(r) => d.rows[r].status = "reserved"
    OBVIOUS
  <2>. HIDE DEF rows, Earlier
  <2>5. CASE Earlier(r)
    <3>1. rows[r] = [d.rows[r] EXCEPT !.status = "unknown"]
      BY <2>3, <2>5
    <3>. QED
      BY <2>2, <2>4, <2>5, <3>1 DEF Rows
  <2>6. CASE ~Earlier(r)
    <3>1. rows[r] = d.rows[r]
      BY <2>3, <2>6
    <3>. QED
      BY <2>2, <2>6, <3>1
  <2>. QED
    BY <2>5, <2>6
<1>3. last \in DOMAIN d.rows => ~Earlier(last)
  OBVIOUS
<1>4. rows \in Seq(Rows) /\ Len(rows) = Len(d.rows) /\ DOMAIN rows = DOMAIN d.rows
  <2>1. DOMAIN rows = 1..Len(d.rows) /\ Len(d.rows) \in Nat
    BY RowsDomain
  <2>2. rows = [r \in 1..Len(d.rows) |-> rows[r]]
    BY <2>1
  <2>3. \A r \in 1..Len(d.rows) : rows[r] \in Rows
    BY <1>2, <2>1
  <2>. HIDE DEF rows
  <2>. QED
    BY <2>1, <2>2, <2>3, RowsDomain
<1>. HIDE DEF rows, e, Earlier
<1>5. e \in Database /\ e.rows = rows /\ e.limits = d.limits /\ e.stop = d.stop
      /\ e.failures = d.failures /\ e.extension = d.extension /\ e.epoch = d.epoch
      /\ e.revision = d.revision /\ e.item = d.item
  BY <1>1, <1>4 DEF Database
<1>6. Follows(d, e) /\ SameCosts(d, e)
  <2>1. Len(d.rows) <= Len(e.rows) /\ d.revision <= e.revision
    BY <1>4, <1>5, RowsDomain DEF Database
  <2>. QED
    BY <1>2, <1>4, <1>5, <2>1 DEF Follows, Continues, SameCosts
<1>7. NothingReported(d, e)
  BY <1>2, <1>4, <1>5 DEF NothingReported
<1>8. Budget(d) => Budget(e)
  <2>1. Charged(e) = Charged(d) /\ Excess(e) = Excess(d)
    BY <1>5, <1>6, SameCostsSameTotals
  <2>2. \A r \in DOMAIN d.rows : e.rows[r].status # "reported" => d.rows[r].status # "reported"
    BY <1>2, <1>5
  <2>. QED
    BY <1>4, <1>5, <1>6, <2>1, <2>2 DEF Budget, SameCosts
<1>. QED
  BY <1>1, <1>2, <1>3, <1>4, <1>5, <1>6, <1>7, <1>8 DEF e

LEMMA FailedFacts ==
    ASSUME NEW d \in Database
    PROVE  LET e == Failed(d) IN
           /\ e \in Database /\ Follows(d, e) /\ NothingReported(d, e)
           /\ e.rows = d.rows
           /\ Budget(d) => Budget(e)
<1>. DEFINE n == d.failures + 1
            f == [d EXCEPT !.failures = n, !.waiting = TRUE]
            e == Failed(d)
<1>0. n \in Nat
  BY DEF Database
<1>. HIDE DEF n
<1>1. /\ f \in Database /\ f.rows = d.rows /\ f.limits = d.limits /\ f.stop = d.stop
      /\ f.failures = n /\ f.extension = d.extension /\ f.epoch = d.epoch
      /\ f.revision = d.revision /\ f.item = d.item
  BY <1>0 DEF Database
<1>2. e = IF f.failures >= f.limits.failures THEN Stopped(f, "failures") ELSE f
  <2>1. [d EXCEPT !.failures = @ + 1, !.waiting = TRUE] = f
    BY DEF n
  <2>. HIDE DEF f
  <2>. QED
    BY ONLY <2>1 DEF Failed, e
<1>. HIDE DEF f, e
<1>3. Follows(d, f) /\ NothingReported(d, f)
  <2>1. Follows(d, d) /\ NothingReported(d, d)
    BY FollowsItself
  <2>. QED
    BY <1>1, <2>1 DEF Follows, Continues, NothingReported
<1>4. Charged(f) = Charged(d) /\ Excess(f) = Excess(d)
  BY <1>1 DEF Charged, Excess
<1>5. CASE f.failures >= f.limits.failures
  <2>1. e = Stopped(f, "failures") /\ "failures" \in Codes \ {"none"}
    BY <1>2, <1>5 DEF Codes
  <2>2. e \in Database /\ Follows(f, e) /\ NothingReported(f, e) /\ e.rows = f.rows
    BY <1>1, <2>1, StoppedFacts
  <2>3. Budget(d) => Budget(e)
    BY <1>1, <1>4, <2>1, StoppedBudget DEF Budget
  <2>. QED
    BY <1>1, <1>3, <2>2, <2>3, FollowsTransitive, NothingReportedTransitive DEF e
<1>6. CASE ~(f.failures >= f.limits.failures)
  <2>1. e = f
    BY <1>2, <1>6
  <2>2. Budget(d) => Budget(f)
    BY <1>1, <1>4, <1>6 DEF Budget
  <2>. QED
    BY <1>1, <1>3, <2>1, <2>2 DEF e
<1>. QED
  BY <1>5, <1>6

-----------------------------------------------------------------------------
(* The inductive invariant *)

\* The request in flight is the caller's own, it is not reported, and it was
\* not sent yet while the adapter only admitted it.
InFlight ==
    \A c \in DOMAIN callers :
        callers[c].phase \in {"admitted", "sent"} =>
            LET r == callers[c].row IN
            /\ r \in DOMAIN db.rows /\ db.rows[r].caller = c
            /\ db.rows[r].status # "reported"
            /\ callers[c].phase = "admitted" => sent[r].times = 0

\* What is live began after the last resume, and Runs are live only in an
\* active WorkItem.
LiveIsCurrent ==
    \A c \in DOMAIN callers : callers[c].live =>
        /\ callers[c].epoch = db.epoch
        /\ callers[c].kind = "action" => db.item = "active"

\* The browser shows a state the WorkItem had: the present one if the revision
\* is still the same.
ViewWasTrue ==
    /\ view.revision <= db.revision
    /\ view.revision = db.revision => view.stop = db.stop

IInv ==
    /\ TypeOK /\ NothingIsFree /\ WithinLimits /\ OvershootIsReported
    /\ InFlight /\ LiveIsCurrent /\ ViewWasTrue

Sent == [times : Nat, told : Nat]

\* What LedgerIsKept says of one step.
LedgerStep ==
    \A r \in DOMAIN db.rows :
        /\ r \in DOMAIN db'.rows
        /\ db'.rows[r].caller = db.rows[r].caller /\ db'.rows[r].estimate = db.rows[r].estimate
        /\ db.rows[r].status = "reported" => db'.rows[r] = db.rows[r]
        /\ db.rows[r].status = "unknown" => db'.rows[r].status # "reserved"

Good == IInv' /\ LedgerStep /\ FetchIsAdmitted /\ StopNeedsUser

LEMMA BudgetOf ==
    ASSUME NothingIsFree, WithinLimits, OvershootIsReported
    PROVE  Budget(db)
BY DEF NothingIsFree, WithinLimits, OvershootIsReported, Budget

LEMMA CallersDomain ==
    ASSUME callers \in Seq(Callers)
    PROVE  /\ Len(callers) \in Nat /\ DOMAIN callers = 1..Len(callers)
           /\ \A c \in DOMAIN callers : callers[c] \in Callers /\ c \in Nat
OBVIOUS

LEMMA ContinuesKeeps ==
    ASSUME db \in Database, db' \in Database, Continues(db, db')
    PROVE  LedgerStep /\ (db'.stop = "none" => db.stop = "none") /\ StopNeedsUser
BY RowsDomain DEF Continues, LedgerStep, StopNeedsUser

LEMMA ViewKept ==
    ASSUME TypeOK, db' \in Database, Continues(db, db'), ViewWasTrue, UNCHANGED view
    PROVE  ViewWasTrue'
<1>1. view.revision \in Nat /\ db.revision \in Nat /\ db'.revision \in Nat
  BY DEF TypeOK, Database
<1>. QED
  BY <1>1 DEF ViewWasTrue, Continues

\* The counts of requests and Runs, when no entry and no caller is new.
LEMMA CountsKept ==
    ASSUME TypeOK, WithinLimits, db' \in Database, Continues(db, db'), Budget(db'),
           Len(db'.rows) = Len(db.rows),
           DOMAIN callers' = DOMAIN callers,
           \A c \in DOMAIN callers : callers'[c].kind = callers[c].kind
    PROVE  WithinLimits' /\ OvershootIsReported'
<1>1. DOMAIN db'.rows = DOMAIN db.rows
  BY RowsDomain DEF TypeOK
<1>2. \A c : RequestsOf(db', c) = RequestsOf(db, c)
  BY <1>1 DEF RequestsOf, Continues
<1>3. Runs' = Runs
  BY DEF Runs
<1>4. Attempts(db') = Attempts(db)
  BY DEF Attempts, Continues
<1>5. db'.limits = db.limits
  BY DEF Continues
<1>6. (\A c \in Runs : Cardinality(RequestsOf(db, c)) <= db.limits.runRequests)'
  <2>1. SUFFICES ASSUME NEW c \in Runs'
                 PROVE  Cardinality(RequestsOf(db', c)) <= db'.limits.runRequests
    OBVIOUS
  <2>2. c \in Runs /\ RequestsOf(db', c) = RequestsOf(db, c)
    BY <1>2, <1>3
  <2>. QED
    BY <1>5, <2>2 DEF WithinLimits
<1>7. (Cardinality(Runs) <= Attempts(db))'
  BY <1>3, <1>4 DEF WithinLimits
<1>. QED
  BY <1>6, <1>7 DEF Budget, WithinLimits, OvershootIsReported

\* Every step but those that add an entry or a caller, and the commands that
\* extend and resume.
LEMMA OrdinaryStep ==
    ASSUME IInv, db' \in Database, Continues(db, db'), Budget(db'),
           Len(db'.rows) = Len(db.rows),
           callers' \in Seq(Callers), Len(callers') = Len(callers),
           \A c \in DOMAIN callers :
               /\ callers'[c].kind = callers[c].kind /\ callers'[c].epoch = callers[c].epoch
               /\ callers'[c].row \in {0, callers[c].row}
               /\ callers'[c].live =>
                    callers[c].live /\ (callers[c].kind = "action" => db'.item = "active")
               /\ callers'[c].phase \in {"admitted", "sent"} =>
                    LET r == callers[c].row IN
                    /\ callers'[c].row = r
                    /\ callers[c].phase \in {"admitted", "sent"}
                    /\ db'.rows[r].status # "reported"
                    /\ callers'[c].phase = "admitted" =>
                         callers[c].phase = "admitted" /\ sent'[r].times = sent[r].times,
           up' \in BOOLEAN, UNCHANGED <<adapter, view>>, used' \in [{"command", "fault"} -> Nat],
           sent' \in Seq(Sent), Len(sent') = Len(sent),
           \A r \in DOMAIN sent : sent'[r].times <= 1,
           \A r \in DOMAIN db.rows :
               db'.rows[r].status = "reported" => db'.rows[r].charged = sent'[r].told
    PROVE  IInv' /\ LedgerStep /\ StopNeedsUser
<1>1. db \in Database /\ callers \in Seq(Callers) /\ TypeOK /\ sent \in Seq(Sent)
  BY DEF IInv, TypeOK, Sent
<1>2. /\ DOMAIN db'.rows = DOMAIN db.rows /\ DOMAIN callers' = DOMAIN callers
      /\ DOMAIN sent' = DOMAIN sent /\ DOMAIN db.rows = DOMAIN sent
  BY <1>1, RowsDomain DEF TypeOK
<1>3. TypeOK'
  <2>1. \A r \in DOMAIN db'.rows : db'.rows[r].caller \in DOMAIN callers'
    BY <1>1, <1>2 DEF TypeOK, Continues
  <2>2. \A c \in DOMAIN callers' : callers'[c].row <= Len(db'.rows)
    <3>1. SUFFICES ASSUME NEW c \in DOMAIN callers
                   PROVE  callers'[c].row <= Len(db.rows)
      BY <1>2
    <3>2. callers[c].row <= Len(db.rows) /\ 0 <= Len(db.rows)
      BY <1>1, RowsDomain DEF TypeOK
    <3>. QED
      BY <3>2
  <2>3. adapter' \in Adapters /\ view' \in [revision : Nat, stop : Codes]
    BY <1>1 DEF TypeOK
  <2>4. Len(sent') = Len(db'.rows)
    BY <1>1 DEF TypeOK
  <2>. QED
    BY <2>1, <2>2, <2>3, <2>4 DEF TypeOK, Sent
<1>4. NothingIsFree'
  BY <1>2 DEF NothingIsFree, Budget
<1>5. WithinLimits' /\ OvershootIsReported'
  BY <1>1, <1>2, CountsKept DEF IInv
<1>6. InFlight'
  <2>1. SUFFICES ASSUME NEW c \in DOMAIN callers, callers'[c].phase \in {"admitted", "sent"}
                 PROVE  LET r == callers'[c].row IN
                        /\ r \in DOMAIN db'.rows /\ db'.rows[r].caller = c
                        /\ db'.rows[r].status # "reported"
                        /\ callers'[c].phase = "admitted" => sent'[r].times = 0
    BY <1>2 DEF InFlight
  <2>2. callers[c].phase \in {"admitted", "sent"} /\ callers'[c].row = callers[c].row
    BY <2>1
  <2>3. callers[c].row \in DOMAIN db.rows /\ db.rows[callers[c].row].caller = c
        /\ (callers[c].phase = "admitted" => sent[callers[c].row].times = 0)
    BY <2>2 DEF IInv, InFlight
  <2>4. db'.rows[callers[c].row].caller = c
    BY <2>3 DEF Continues
  <2>. QED
    BY <1>2, <2>1, <2>2, <2>3, <2>4
<1>7. LiveIsCurrent'
  <2>1. \A c \in DOMAIN callers' : callers'[c].live =>
           callers[c].epoch = db.epoch /\ callers'[c].epoch = callers[c].epoch
           /\ (callers'[c].kind = "action" => db'.item = "active")
    BY <1>2 DEF IInv, LiveIsCurrent
  <2>. QED
    BY <2>1 DEF LiveIsCurrent, Continues
<1>8. ViewWasTrue'
  BY <1>1, ViewKept DEF IInv
<1>. QED
  BY <1>1, <1>3, <1>4, <1>5, <1>6, <1>7, <1>8, ContinuesKeeps DEF IInv

\* A step of one caller.
LEMMA CallerStep ==
    ASSUME IInv, NEW c \in DOMAIN callers, NEW x \in Callers,
           callers' = [callers EXCEPT ![c] = x],
           x.kind = callers[c].kind, x.epoch = callers[c].epoch, x.row \in {0, callers[c].row},
           x.live => callers[c].live,
           db' \in Database, Follows(db, db'), Budget(db'), Len(db'.rows) = Len(db.rows),
           sent' \in Seq(Sent), Len(sent') = Len(sent),
           \A q \in DOMAIN db.rows :
               q # callers[c].row \/ callers[c].phase \notin {"admitted", "sent"} =>
                 /\ db.rows[q].status # "reported" => db'.rows[q].status # "reported"
                 /\ sent'[q] = sent[q],
           LET r == callers[c].row IN
           /\ r \in DOMAIN sent =>
                /\ sent'[r].times <= 1
                /\ db'.rows[r].status = "reported" => db'.rows[r].charged = sent'[r].told
           /\ x.phase \in {"admitted", "sent"} =>
                /\ x.row = r /\ callers[c].phase \in {"admitted", "sent"}
                /\ db'.rows[r].status # "reported"
                /\ x.phase = "admitted" =>
                     callers[c].phase = "admitted" /\ sent'[r].times = sent[r].times,
           UNCHANGED <<up, adapter, view>>, used' \in [{"command", "fault"} -> Nat]
    PROVE  IInv' /\ LedgerStep /\ StopNeedsUser
<1>. DEFINE r == callers[c].row
<1>1. db \in Database /\ callers \in Seq(Callers) /\ TypeOK /\ sent \in Seq(Sent) /\ up \in BOOLEAN
  BY DEF IInv, TypeOK, Sent
<1>2. DOMAIN db.rows = DOMAIN sent
  BY <1>1, RowsDomain DEF TypeOK
<1>3. /\ callers' \in Seq(Callers) /\ Len(callers') = Len(callers) /\ callers'[c] = x
      /\ \A b \in DOMAIN callers \ {c} : callers'[b] = callers[b]
  BY <1>1
<1>4. ASSUME NEW b \in DOMAIN callers
      PROVE  /\ callers'[b].kind = callers[b].kind /\ callers'[b].epoch = callers[b].epoch
             /\ callers'[b].row \in {0, callers[b].row}
             /\ callers'[b].live =>
                  callers[b].live /\ (callers[b].kind = "action" => db'.item = "active")
             /\ callers'[b].phase \in {"admitted", "sent"} =>
                  LET q == callers[b].row IN
                  /\ callers'[b].row = q
                  /\ callers[b].phase \in {"admitted", "sent"}
                  /\ db'.rows[q].status # "reported"
                  /\ callers'[b].phase = "admitted" =>
                       callers[b].phase = "admitted" /\ sent'[q].times = sent[q].times
  <2>1. callers[b].live /\ callers[b].kind = "action" => db'.item = "active"
    BY DEF IInv, LiveIsCurrent, Follows
  <2>2. CASE b = c
    BY <1>3, <2>1, <2>2
  <2>3. CASE b # c
    <3>1. callers'[b] = callers[b]
      BY <1>3, <2>3
    <3>2. callers[b].phase \in {"admitted", "sent"} =>
            /\ callers[b].row \in DOMAIN db.rows /\ db.rows[callers[b].row].caller = b
            /\ db.rows[callers[b].row].status # "reported"
      BY DEF IInv, InFlight
    <3>3. callers[c].phase \in {"admitted", "sent"} => db.rows[callers[c].row].caller = c
      BY DEF IInv, InFlight
    <3>. QED
      BY <1>2, <2>1, <2>3, <3>1, <3>2, <3>3
  <2>. QED
    BY <2>2, <2>3
<1>5. \A q \in DOMAIN sent : sent'[q].times <= 1
  BY <1>1, <1>2 DEF IInv, NothingIsFree
<1>6. ASSUME NEW q \in DOMAIN db.rows, db'.rows[q].status = "reported"
      PROVE  db'.rows[q].charged = sent'[q].told
  <2>1. CASE q = r
    BY <1>2, <1>6, <2>1
  <2>2. CASE q # r
    <3>1. db.rows[q].status = "reported" /\ sent'[q] = sent[q]
      BY <1>2, <1>6, <2>2
    <3>2. db'.rows[q] = db.rows[q]
      BY <3>1 DEF Follows, Continues
    <3>. QED
      BY <3>1, <3>2 DEF IInv, NothingIsFree
  <2>. QED
    BY <2>1, <2>2
<1>7. Continues(db, db') /\ up' \in BOOLEAN
  BY <1>1 DEF Follows
<1>. QED
  BY <1>3, <1>4, <1>5, <1>6, <1>7, OrdinaryStep

LEMMA NoFetch ==
    ASSUME \A r \in DOMAIN sent' : r \in DOMAIN sent /\ sent'[r].times = sent[r].times
    PROVE  FetchIsAdmitted
BY DEF FetchIsAdmitted

LEMMA StateTypes ==
    ASSUME IInv
    PROVE  /\ TypeOK /\ db \in Database /\ Budget(db) /\ callers \in Seq(Callers)
           /\ sent \in Seq(Sent) /\ up \in BOOLEAN /\ used \in [{"command", "fault"} -> Nat]
           /\ DOMAIN sent = DOMAIN db.rows /\ Len(sent) = Len(db.rows)
           /\ \A r \in DOMAIN sent : sent[r] \in Sent /\ sent[r].times <= 1
           /\ \A r \in DOMAIN db.rows :
                db.rows[r].status = "reported" => db.rows[r].charged = sent[r].told
           /\ \A c \in DOMAIN callers : callers[c].row \in 0..Len(db.rows)
<1>1. TypeOK /\ db \in Database /\ callers \in Seq(Callers) /\ sent \in Seq(Sent) /\ up \in BOOLEAN
      /\ used \in [{"command", "fault"} -> Nat] /\ Len(sent) = Len(db.rows)
  BY DEF IInv, TypeOK, Sent
<1>2. Budget(db)
  BY BudgetOf DEF IInv
<1>3. \A c \in DOMAIN callers : callers[c].row \in 0..Len(db.rows)
  <2>1. \A c \in DOMAIN callers : callers[c].row \in Nat /\ callers[c].row <= Len(db.rows)
    BY <1>1, CallersDomain DEF Callers, TypeOK
  <2>. QED
    BY <1>1, <2>1, RowsDomain
<1>4. DOMAIN sent = DOMAIN db.rows
  BY <1>1, RowsDomain
<1>. QED
  BY <1>1, <1>2, <1>3, <1>4 DEF IInv, NothingIsFree

\* A step of one caller that sends nothing and reports nothing.
LEMMA SilentStep ==
    ASSUME IInv, NEW c \in DOMAIN callers, NEW x \in Callers,
           callers' = [callers EXCEPT ![c] = x],
           x.kind = callers[c].kind, x.epoch = callers[c].epoch, x.row \in {0, callers[c].row},
           x.live => callers[c].live, x.phase \in {"admitted", "sent"} =>
               x.phase = callers[c].phase /\ x.row = callers[c].row,
           db' \in Database, Follows(db, db'), NothingReported(db, db'), Budget(db'),
           Len(db'.rows) = Len(db.rows),
           UNCHANGED <<up, adapter, view, sent>>, used' \in [{"command", "fault"} -> Nat]
    PROVE  Good
<1>1. /\ TypeOK /\ db \in Database /\ sent \in Seq(Sent)
      /\ DOMAIN sent = DOMAIN db.rows
      /\ \A r \in DOMAIN sent : sent[r].times <= 1
      /\ \A r \in DOMAIN db.rows :
           db.rows[r].status = "reported" => db.rows[r].charged = sent[r].told
  BY StateTypes
<1>2. DOMAIN db'.rows = DOMAIN db.rows
  BY <1>1, RowsDomain
<1>3. \A q \in DOMAIN db.rows :
        db'.rows[q].status = "reported" =>
            db.rows[q].status = "reported" /\ db'.rows[q].charged = sent[q].told
  BY <1>1, <1>2 DEF NothingReported
<1>4. callers[c].phase \in {"admitted", "sent"} =>
        callers[c].row \in DOMAIN db.rows /\ db.rows[callers[c].row].status # "reported"
  BY DEF IInv, InFlight
<1>5. IInv' /\ LedgerStep /\ StopNeedsUser
  BY <1>1, <1>3, <1>4, CallerStep
<1>6. FetchIsAdmitted
  BY NoFetch
<1>. QED
  BY <1>5, <1>6 DEF Good

LEMMA PhaseFacts ==
    ASSUME NEW x \in Callers,
           NEW p \in {"idle", "admitted", "sent", "failed", "lost", "gone"}
    PROVE  LET y == [x EXCEPT !.phase = p] IN
           y \in Callers /\ y.kind = x.kind /\ y.live = x.live /\ y.epoch = x.epoch
           /\ y.row = x.row /\ y.phase = p
BY DEF Callers

LEMMA CallbackStep ==
    ASSUME IInv, NEW c \in DOMAIN callers, Callback(c)
    PROVE  Good
<1>. DEFINE r == callers[c].row
            x == [callers[c] EXCEPT !.phase = "sent"]
            y == [callers[c] EXCEPT !.phase = "failed"]
<1>1. callers[c] \in Callers /\ callers[c].phase = "admitted" /\ db \in Database
      /\ UNCHANGED <<up, adapter, view, used>>
  BY StateTypes, CallersDomain DEF Callback
<1>2. r \in DOMAIN db.rows /\ db.rows[r].caller = c /\ db.rows[r].status # "reported"
      /\ sent[r].times = 0 /\ r \in DOMAIN sent
  BY <1>1, StateTypes DEF IInv, InFlight
<1>3. CASE MaySend(c)
  <2>1. sent' = [sent EXCEPT ![r].times = @ + 1] /\ db' = db
        /\ callers' = [callers EXCEPT ![c] = x]
    BY <1>3 DEF Callback, Fetch, Phase
  <2>2. x \in Callers /\ x.kind = callers[c].kind /\ x.live = callers[c].live
        /\ x.epoch = callers[c].epoch /\ x.row = r /\ x.phase = "sent"
    BY <1>1, PhaseFacts
  <2>3. sent' \in Seq(Sent) /\ Len(sent') = Len(sent) /\ sent'[r].times = 1
        /\ \A q \in DOMAIN sent \ {r} : sent'[q] = sent[q]
    <3>1. sent[r] \in Sent /\ sent \in Seq(Sent)
      BY <1>2, StateTypes
    <3>. DEFINE s == [sent[r] EXCEPT !.times = 1]
    <3>2. s \in Sent /\ s.times = 1
      BY <3>1 DEF Sent
    <3>3. sent' = [sent EXCEPT ![r] = s]
      <4>1. [sent[r] EXCEPT !.times = @ + 1] = s
        BY <1>2
      <4>. QED
        BY <1>2, <2>1, <4>1
    <3>. HIDE DEF r, s
    <3>. QED
      BY <1>2, <3>1, <3>2, <3>3
  <2>4. Follows(db, db') /\ NothingReported(db, db') /\ db' \in Database /\ Budget(db')
    BY <1>1, <2>1, FollowsItself, StateTypes
  <2>. HIDE DEF x
  <2>5. IInv' /\ LedgerStep /\ StopNeedsUser
    <3>1. /\ DOMAIN sent = DOMAIN db.rows /\ used \in [{"command", "fault"} -> Nat]
          /\ Len(db'.rows) = Len(db.rows) /\ x.row \in {0, r} /\ (x.live => callers[c].live)
          /\ callers' = [callers EXCEPT ![c] = x] /\ UNCHANGED <<up, adapter, view>> /\ used' = used
      BY <1>1, <2>1, <2>2, StateTypes
    <3>2. \A q \in DOMAIN db.rows : q # r \/ callers[c].phase \notin {"admitted", "sent"} =>
            /\ db.rows[q].status # "reported" => db'.rows[q].status # "reported"
            /\ sent'[q] = sent[q]
      BY <1>1, <2>1, <2>3, <3>1
    <3>3. /\ r \in DOMAIN sent =>
               /\ sent'[r].times <= 1
               /\ db'.rows[r].status = "reported" => db'.rows[r].charged = sent'[r].told
          /\ x.phase \in {"admitted", "sent"} =>
                /\ x.row = r /\ callers[c].phase \in {"admitted", "sent"}
                /\ db'.rows[r].status # "reported"
                /\ x.phase = "admitted" =>
                     callers[c].phase = "admitted" /\ sent'[r].times = sent[r].times
      BY <1>1, <1>2, <2>1, <2>2, <2>3
    <3>. QED
      BY <2>2, <2>3, <2>4, <3>1, <3>2, <3>3, CallerStep
  <2>6. FetchIsAdmitted
    <3>1. DOMAIN sent' = DOMAIN sent
      BY <2>1
    <3>2. SUFFICES ASSUME NEW q \in DOMAIN sent, sent[q].times # sent'[q].times
                   PROVE  /\ db'.stop = "none" /\ db.item = "active"
                          /\ callers[db'.rows[q].caller].live
                          /\ callers[db'.rows[q].caller].epoch = db.epoch
      BY <3>1 DEF FetchIsAdmitted
    <3>3. q = r /\ db'.rows[q].caller = c
      BY <1>2, <2>1, <2>3, <3>2
    <3>4. callers[c].live /\ db.stop = "none" /\ (callers[c].kind = "coordinator" => db.item = "active")
      BY <1>3 DEF MaySend
    <3>5. callers[c].kind \in {"action", "coordinator"}
      BY <1>1 DEF Callers, Kind
    <3>6. callers[c].epoch = db.epoch /\ (callers[c].kind = "action" => db.item = "active")
      BY <3>4 DEF IInv, LiveIsCurrent
    <3>. QED
      BY <2>1, <3>3, <3>4, <3>5, <3>6
  <2>. QED
    BY <2>5, <2>6 DEF Good
<1>4. CASE ~MaySend(c)
  <2>1. db' = Settled(db, r, 0, FALSE) /\ sent' = sent /\ callers' = [callers EXCEPT ![c] = y]
    BY <1>4 DEF Callback, Phase
  <2>2. y \in Callers /\ y.kind = callers[c].kind /\ y.live = callers[c].live
        /\ y.epoch = callers[c].epoch /\ y.row = r /\ y.phase = "failed"
    BY <1>1, PhaseFacts
  <2>3. db' \in Database /\ Follows(db, db') /\ NothingReported(db, db')
        /\ Len(db'.rows) = Len(db.rows) /\ Budget(db')
    <3>1. r \in 0..Len(db.rows) /\ Budget(db)
      BY StateTypes
    <3>. HIDE DEF r
    <3>. QED
      BY <1>1, <2>1, <3>1, SettledFacts
  <2>. HIDE DEF y, r
  <2>. QED
    BY <1>1, <2>1, <2>2, <2>3, SilentStep, StateTypes DEF r
<1>. QED
  BY <1>3, <1>4

LEMMA AnswerStep ==
    ASSUME IInv, NEW c \in DOMAIN callers, Answer(c)
    PROVE  Good
<1>. DEFINE r == callers[c].row
            x == [callers[c] EXCEPT !.phase = "idle"]
<1>1. callers[c] \in Callers /\ callers[c].phase = "sent" /\ db \in Database
      /\ UNCHANGED <<up, adapter, view, used>> /\ callers' = [callers EXCEPT ![c] = x]
  BY StateTypes, CallersDomain DEF Answer, Phase
<1>2. r \in DOMAIN db.rows /\ db.rows[r].status # "reported" /\ r \in DOMAIN sent /\ r # 0
      /\ r \in 0..Len(db.rows)
  <2>1. r \in DOMAIN db.rows /\ db.rows[r].status # "reported"
    BY <1>1 DEF IInv, InFlight
  <2>. QED
    BY <1>1, <2>1, RowsDomain, StateTypes
<1>3. PICK usage \in {0} \cup Costs : /\ db' = Settled(db, r, usage, TRUE)
                                      /\ sent' = [sent EXCEPT ![r].told = usage]
  BY DEF Answer
<1>4. usage \in Nat
  BY BudgetAssumption DEF BudgetAssumption
<1>5. x \in Callers /\ x.kind = callers[c].kind /\ x.live = callers[c].live
      /\ x.epoch = callers[c].epoch /\ x.row = r /\ x.phase = "idle"
  BY <1>1, PhaseFacts
<1>6. /\ db' \in Database /\ Follows(db, db') /\ Budget(db')
      /\ Len(db'.rows) = Len(db.rows)
      /\ \A q \in DOMAIN db.rows \ {r} : db'.rows[q] = db.rows[q]
      /\ db'.rows[r].status = "reported" => db'.rows[r].charged = usage
  <2>1. Budget(db)
    BY StateTypes
  <2>. HIDE DEF r
  <2>. QED
    BY <1>1, <1>2, <1>3, <1>4, <2>1, SettledFacts
<1>7. /\ sent' \in Seq(Sent) /\ Len(sent') = Len(sent) /\ sent'[r].told = usage
      /\ sent'[r].times = sent[r].times
      /\ \A q \in DOMAIN sent \ {r} : sent'[q] = sent[q]
  <2>1. sent[r] \in Sent /\ sent \in Seq(Sent)
    BY <1>2, StateTypes
  <2>. DEFINE s == [sent[r] EXCEPT !.told = usage]
  <2>2. s \in Sent /\ s.told = usage /\ s.times = sent[r].times
    BY <1>4, <2>1 DEF Sent
  <2>3. sent' = [sent EXCEPT ![r] = s]
    BY <1>2, <1>3
  <2>. HIDE DEF r, s
  <2>. QED
    BY <1>2, <2>1, <2>2, <2>3
<1>. HIDE DEF x
<1>8. sent[r].times <= 1 /\ DOMAIN sent = DOMAIN db.rows
  BY <1>2, StateTypes
<1>9. IInv' /\ LedgerStep /\ StopNeedsUser
  <2>1. used \in [{"command", "fault"} -> Nat] /\ x.row \in {0, r} /\ (x.live => callers[c].live)
        /\ used' = used
    BY <1>1, <1>5, StateTypes
  <2>2. \A q \in DOMAIN db.rows : q # r \/ callers[c].phase \notin {"admitted", "sent"} =>
          /\ db.rows[q].status # "reported" => db'.rows[q].status # "reported"
          /\ sent'[q] = sent[q]
    BY <1>1, <1>6, <1>7, <1>8
  <2>3. /\ r \in DOMAIN sent =>
             /\ sent'[r].times <= 1
             /\ db'.rows[r].status = "reported" => db'.rows[r].charged = sent'[r].told
        /\ x.phase \notin {"admitted", "sent"}
    BY <1>5, <1>6, <1>7, <1>8
  <2>. QED
    BY <1>1, <1>5, <1>6, <1>7, <2>1, <2>2, <2>3, CallerStep
<1>10. FetchIsAdmitted
  <2>1. DOMAIN sent' = DOMAIN sent
    BY <1>3
  <2>. QED
    BY <1>7, <2>1, NoFetch
<1>. QED
  BY <1>9, <1>10 DEF Good

LEMMA BreakStep ==
    ASSUME IInv, NEW c \in DOMAIN callers, Break(c)
    PROVE  Good
<1>. DEFINE r == callers[c].row
            x == [callers[c] EXCEPT !.phase = "failed"]
<1>1. callers[c] \in Callers /\ db \in Database /\ r \in 0..Len(db.rows)
      /\ UNCHANGED <<up, adapter, view, sent, used>> /\ callers' = [callers EXCEPT ![c] = x]
  BY StateTypes, CallersDomain DEF Break, Phase
<1>2. PICK usage \in {0} \cup Costs : db' = Settled(db, r, usage, FALSE)
  BY DEF Break
<1>3. usage \in Nat
  BY BudgetAssumption DEF BudgetAssumption
<1>4. x \in Callers /\ x.kind = callers[c].kind /\ x.live = callers[c].live
      /\ x.epoch = callers[c].epoch /\ x.row = r /\ x.phase = "failed"
  BY <1>1, PhaseFacts
<1>5. db' \in Database /\ Follows(db, db') /\ NothingReported(db, db')
      /\ Len(db'.rows) = Len(db.rows) /\ Budget(db')
  BY <1>1, <1>2, <1>3, SettledFacts, StateTypes
<1>. HIDE DEF x, r
<1>. QED
  BY <1>1, <1>4, <1>5, SilentStep, StateTypes DEF r


LEMMA LeaveStep ==
    ASSUME IInv, NEW c \in DOMAIN callers, Leave(c),
           db' \in Database, Follows(db, db'), Budget(db'), db'.rows = db.rows,
           UNCHANGED <<up, adapter, view, sent, used>>
    PROVE  Good
<1>. DEFINE y == [callers[c] EXCEPT !.phase = "gone", !.live = FALSE, !.row = 0]
<1>1. callers[c] \in Callers /\ callers' = [callers EXCEPT ![c] = y]
  BY StateTypes, CallersDomain DEF Leave
<1>2. y \in Callers /\ y.kind = callers[c].kind /\ ~y.live
        /\ y.epoch = callers[c].epoch /\ y.row = 0 /\ y.phase = "gone"
  BY <1>1 DEF Callers
<1>3. NothingReported(db, db')
  BY DEF NothingReported
<1>. HIDE DEF y
<1>. QED
  BY <1>1, <1>2, <1>3, SilentStep, StateTypes

LEMMA EndRunStep ==
    ASSUME IInv, NEW c \in DOMAIN callers, EndRun(c)
    PROVE  Good
BY LeaveStep, StateTypes, FollowsItself DEF EndRun

LEMMA FailTurnStep ==
    ASSUME IInv, NEW c \in DOMAIN callers, FailTurn(c)
    PROVE  Good
<1>1. db' \in Database /\ Follows(db, db') /\ Budget(db') /\ db'.rows = db.rows
  BY FailedFacts, FollowsItself, StateTypes DEF FailTurn
<1>. QED
  BY <1>1, LeaveStep DEF FailTurn

LEMMA LoseStep ==
    ASSUME IInv, NEW c \in DOMAIN callers, Lose(c)
    PROVE  Good
<1>. DEFINE y == [callers[c] EXCEPT !.live = FALSE]
<1>1. callers[c] \in Callers /\ callers' = [callers EXCEPT ![c] = y]
      /\ UNCHANGED <<db, up, adapter, view, sent>>
  BY StateTypes, CallersDomain DEF Lose
<1>2. y \in Callers /\ y.kind = callers[c].kind /\ ~y.live
        /\ y.epoch = callers[c].epoch /\ y.row = callers[c].row /\ y.phase = callers[c].phase
  BY <1>1 DEF Callers
<1>3. used' \in [{"command", "fault"} -> Nat]
  BY StateTypes, BudgetAssumption DEF Lose, May, BudgetAssumption
<1>. HIDE DEF y
<1>. QED
  BY <1>1, <1>2, <1>3, SilentStep, StateTypes, FollowsItself

LEMMA SameBudget ==
    ASSUME NEW d \in Database, NEW e \in Database, Budget(d), e.rows = d.rows,
           e.limits = d.limits, e.failures = d.failures, e.stop = d.stop
    PROVE  Budget(e)
BY DEF Budget, Charged, Excess

\* A step of any callers that leaves the ledger and what was sent alone.
LEMMA StillStep ==
    ASSUME IInv, db' \in Database, Continues(db, db'), Budget(db'), db'.rows = db.rows,
           callers' \in Seq(Callers), Len(callers') = Len(callers),
           \A c \in DOMAIN callers :
               /\ callers'[c].kind = callers[c].kind /\ callers'[c].epoch = callers[c].epoch
               /\ callers'[c].row \in {0, callers[c].row}
               /\ callers'[c].live =>
                    callers[c].live /\ (callers[c].kind = "action" => db'.item = "active")
               /\ callers'[c].phase \in {"admitted", "sent"} =>
                    callers'[c].row = callers[c].row /\ callers'[c].phase = callers[c].phase,
           up' \in BOOLEAN, UNCHANGED <<adapter, view, sent>>,
           used' \in [{"command", "fault"} -> Nat]
    PROVE  Good
<1>1. /\ db \in Database /\ sent \in Seq(Sent) /\ DOMAIN sent = DOMAIN db.rows
      /\ \A r \in DOMAIN sent : sent[r].times <= 1
      /\ \A r \in DOMAIN db.rows :
           db.rows[r].status = "reported" => db.rows[r].charged = sent[r].told
  BY StateTypes
<1>2. \A c \in DOMAIN callers : callers[c].phase \in {"admitted", "sent"} =>
        db.rows[callers[c].row].status # "reported"
  BY DEF IInv, InFlight
<1>3. IInv' /\ LedgerStep /\ StopNeedsUser
  BY <1>1, <1>2, OrdinaryStep
<1>4. FetchIsAdmitted
  BY NoFetch
<1>. QED
  BY <1>3, <1>4 DEF Good

LEMMA WaitEndsStep ==
    ASSUME IInv, WaitEnds
    PROVE  Good
<1>. DEFINE e == [db EXCEPT !.waiting = FALSE]
<1>1. db \in Database /\ db' = e /\ UNCHANGED <<callers, up, adapter, view, sent, used>>
  BY StateTypes DEF WaitEnds
<1>2. e \in Database /\ e.rows = db.rows /\ e.limits = db.limits /\ e.stop = db.stop
      /\ e.failures = db.failures /\ e.extension = db.extension /\ e.epoch = db.epoch
      /\ e.revision = db.revision /\ e.item = db.item
  BY <1>1 DEF Database
<1>. HIDE DEF e
<1>3. Continues(db, e)
  BY <1>1, <1>2, FollowsItself DEF Follows, Continues
<1>4. Budget(e)
  BY <1>1, <1>2, SameBudget, StateTypes
<1>5. \A c \in DOMAIN callers : callers[c].live =>
        (callers[c].kind = "action" => db.item = "active")
  BY DEF IInv, LiveIsCurrent
<1>. QED
  BY <1>1, <1>2, <1>3, <1>4, <1>5, StillStep, StateTypes

LEMMA ItemStep ==
    ASSUME NEW item \in {"active", "done", "cancelled"}, db \in Database, Budget(db)
    PROVE  LET e == [db EXCEPT !.item = item] IN
           e \in Database /\ e.rows = db.rows /\ Continues(db, e) /\ Budget(e) /\ e.item = item
<1>. DEFINE e == [db EXCEPT !.item = item]
<1>1. e \in Database /\ e.rows = db.rows /\ e.limits = db.limits /\ e.stop = db.stop
      /\ e.failures = db.failures /\ e.extension = db.extension /\ e.epoch = db.epoch
      /\ e.revision = db.revision /\ e.item = item
  BY DEF Database
<1>. HIDE DEF e
<1>2. Continues(db, e)
  BY <1>1, FollowsItself DEF Follows, Continues
<1>3. Budget(e)
  BY <1>1, SameBudget
<1>. QED
  BY <1>1, <1>2, <1>3 DEF e

LEMMA DecideStep ==
    ASSUME IInv, NEW c \in DOMAIN callers, Decide(c)
    PROVE  Good
<1>1. db \in Database /\ Budget(db) /\ UNCHANGED <<up, adapter, view, sent, used>>
      /\ callers \in Seq(Callers) /\ up \in BOOLEAN /\ used \in [{"command", "fault"} -> Nat]
  BY StateTypes DEF Decide
<1>2. CASE db' = db
  BY <1>1, <1>2, LeaveStep, FollowsItself DEF Decide
<1>3. CASE NoneLive("action") /\ db' = [db EXCEPT !.item = "done"]
  <2>1. db' \in Database /\ db'.rows = db.rows /\ Continues(db, db') /\ Budget(db')
    BY <1>1, <1>3, ItemStep
  <2>. DEFINE y == [callers[c] EXCEPT !.phase = "gone", !.live = FALSE, !.row = 0]
  <2>2. callers[c] \in Callers /\ callers' = [callers EXCEPT ![c] = y]
    BY <1>1, CallersDomain DEF Leave, Decide
  <2>3. y \in Callers /\ y.kind = callers[c].kind /\ ~y.live
          /\ y.epoch = callers[c].epoch /\ y.row = 0 /\ y.phase = "gone"
    BY <2>2 DEF Callers
  <2>. HIDE DEF y
  <2>4. callers' \in Seq(Callers) /\ Len(callers') = Len(callers)
    BY <1>1, <2>2, <2>3
  <2>5. \A b \in DOMAIN callers : callers'[b] = IF b = c THEN y ELSE callers[b]
    BY <1>1, <2>2
  <2>6. ASSUME NEW b \in DOMAIN callers
        PROVE  /\ callers'[b].kind = callers[b].kind /\ callers'[b].epoch = callers[b].epoch
               /\ callers'[b].row \in {0, callers[b].row}
               /\ callers'[b].live =>
                    callers[b].live /\ (callers[b].kind = "action" => db'.item = "active")
               /\ callers'[b].phase \in {"admitted", "sent"} =>
                    callers'[b].row = callers[b].row /\ callers'[b].phase = callers[b].phase
    <3>1. callers[b].kind = "action" => ~callers[b].live
      BY <1>3 DEF NoneLive
    <3>2. CASE b = c
      <4>1. callers'[b] = y
        BY <2>5, <3>2
      <4>. QED
        BY <2>3, <3>2, <4>1
    <3>3. CASE b # c
      <4>1. callers'[b] = callers[b]
        BY <2>5, <3>3
      <4>. QED
        BY <3>1, <4>1
    <3>. QED
      BY <3>2, <3>3
  <2>. QED
    BY <1>1, <2>1, <2>4, <2>6, StillStep
<1>. QED
  BY <1>2, <1>3 DEF Decide

LEMMA LookStep ==
    ASSUME IInv, Look
    PROVE  Good
<1>1. db \in Database /\ view' = [revision |-> db.revision, stop |-> db.stop]
      /\ UNCHANGED <<db, callers, up, adapter, sent, used>>
  BY StateTypes DEF Look
<1>2. view' \in [revision : Nat, stop : Codes] /\ view'.revision = db.revision
      /\ view'.stop = db.stop /\ db.revision \in Nat
  BY <1>1 DEF Database
<1>3. TypeOK'
  <2>1. TypeOK
    BY StateTypes
  <2>. QED
    BY <1>1, <1>2, <2>1 DEF TypeOK
<1>4. NothingIsFree' /\ WithinLimits' /\ OvershootIsReported' /\ InFlight' /\ LiveIsCurrent'
  BY <1>1 DEF IInv, NothingIsFree, WithinLimits, OvershootIsReported, InFlight, LiveIsCurrent,
              Runs
<1>5. ViewWasTrue'
  BY <1>1, <1>2 DEF ViewWasTrue
<1>6. LedgerStep /\ StopNeedsUser /\ FetchIsAdmitted
  BY <1>1, FollowsItself, ContinuesKeeps, NoFetch DEF Follows
<1>. QED
  BY <1>3, <1>4, <1>5, <1>6 DEF Good, IInv

LEMMA CallersMapped ==
    ASSUME callers \in Seq(Callers), NEW new, new = [c \in DOMAIN callers |-> new[c]],
           \A c \in DOMAIN callers : new[c] \in Callers
    PROVE  new \in Seq(Callers) /\ Len(new) = Len(callers) /\ DOMAIN new = DOMAIN callers
<1>1. DOMAIN callers = 1..Len(callers) /\ Len(callers) \in Nat
  BY CallersDomain
<1>. QED
  BY <1>1

LEMMA CancelStep ==
    ASSUME IInv, Cancel
    PROVE  Good
<1>1. db \in Database /\ Budget(db) /\ UNCHANGED <<up, adapter, view, sent>>
      /\ callers \in Seq(Callers) /\ up \in BOOLEAN /\ used \in [{"command", "fault"} -> Nat]
      /\ db' = [db EXCEPT !.item = "cancelled"] /\ callers' = RunsRetired
  BY StateTypes DEF Cancel
<1>2. db' \in Database /\ db'.rows = db.rows /\ Continues(db, db') /\ Budget(db')
  BY <1>1, ItemStep
<1>3. used' \in [{"command", "fault"} -> Nat]
  BY <1>1, BudgetAssumption DEF Cancel, May, BudgetAssumption
<1>4. ASSUME NEW c \in DOMAIN callers
      PROVE  /\ callers'[c] \in Callers /\ callers'[c].kind = callers[c].kind
             /\ callers'[c].epoch = callers[c].epoch /\ callers'[c].row = callers[c].row
             /\ callers'[c].phase = callers[c].phase
             /\ callers'[c].live => callers[c].live /\ callers[c].kind # "action"
  <2>1. callers[c] \in Callers
    BY <1>1, CallersDomain
  <2>. DEFINE live == callers[c].live /\ callers[c].kind # "action"
  <2>2. callers'[c] = [callers[c] EXCEPT !.live = live]
    BY <1>1 DEF RunsRetired
  <2>3. live \in BOOLEAN /\ (live => callers[c].live /\ callers[c].kind # "action")
    BY <2>1 DEF Callers
  <2>. HIDE DEF live
  <2>. QED
    BY <2>1, <2>2, <2>3 DEF Callers
<1>5. callers' = [c \in DOMAIN callers |-> callers'[c]]
  BY <1>1 DEF RunsRetired
<1>6. callers' \in Seq(Callers) /\ Len(callers') = Len(callers)
  BY <1>1, <1>4, <1>5, CallersMapped
<1>. QED
  BY <1>1, <1>2, <1>3, <1>4, <1>6, StillStep

LEMMA CrashStep ==
    ASSUME IInv, Crash
    PROVE  Good
<1>1. db \in Database /\ Budget(db) /\ UNCHANGED <<db, adapter, view, sent>>
      /\ callers \in Seq(Callers) /\ used \in [{"command", "fault"} -> Nat] /\ up' \in BOOLEAN
  BY StateTypes DEF Crash
<1>2. used' \in [{"command", "fault"} -> Nat]
  BY <1>1, BudgetAssumption DEF Crash, May, BudgetAssumption
<1>3. ASSUME NEW c \in DOMAIN callers
      PROVE  /\ callers'[c] \in Callers /\ callers'[c].kind = callers[c].kind
             /\ callers'[c].epoch = callers[c].epoch /\ callers'[c].row = callers[c].row
             /\ callers'[c].phase \in {"lost", "gone"} /\ callers'[c].live = callers[c].live
  <2>1. callers[c] \in Callers
    BY <1>1, CallersDomain
  <2>2. PICK p \in {"lost", "gone"} : callers'[c] = IF callers[c].phase = "gone" THEN callers[c]
                                      ELSE [callers[c] EXCEPT !.phase = p]
    BY DEF Crash
  <2>. QED
    BY <2>1, <2>2 DEF Callers
<1>4. callers' = [c \in DOMAIN callers |-> callers'[c]]
  BY DEF Crash
<1>5. callers' \in Seq(Callers) /\ Len(callers') = Len(callers)
  BY <1>1, <1>3, <1>4, CallersMapped
<1>6. \A c \in DOMAIN callers : callers[c].live =>
        (callers[c].kind = "action" => db.item = "active")
  BY DEF IInv, LiveIsCurrent
<1>7. Continues(db, db')
  BY <1>1, FollowsItself DEF Follows
<1>. QED
  BY <1>1, <1>2, <1>3, <1>5, <1>6, <1>7, StillStep

LEMMA BootStep ==
    ASSUME IInv, Boot
    PROVE  Good
<1>1. db \in Database /\ Budget(db) /\ UNCHANGED <<adapter, view, sent, used>>
      /\ callers \in Seq(Callers) /\ used \in [{"command", "fault"} -> Nat] /\ up' \in BOOLEAN
      /\ (db' = db \/ db' = Failed(db))
  BY StateTypes DEF Boot
<1>2. db' \in Database /\ Follows(db, db') /\ Budget(db') /\ db'.rows = db.rows
  BY <1>1, FailedFacts, FollowsItself
<1>3. ASSUME NEW c \in DOMAIN callers
      PROVE  /\ callers'[c] \in Callers /\ callers'[c].kind = callers[c].kind
             /\ callers'[c].epoch = callers[c].epoch /\ callers'[c].row \in {0, callers[c].row}
             /\ callers'[c].live => callers[c].live
             /\ callers'[c].phase \in {"admitted", "sent"} => callers'[c] = callers[c]
  <2>1. callers[c] \in Callers
    BY <1>1, CallersDomain
  <2>. DEFINE x == [callers[c] EXCEPT !.phase = "idle"]
              y == [callers[c] EXCEPT !.live = FALSE, !.phase = "gone", !.row = 0]
  <2>2. callers'[c] = x \/ callers'[c] = y \/ callers'[c] = callers[c]
    BY DEF Boot
  <2>3. x \in Callers /\ x.kind = callers[c].kind /\ x.epoch = callers[c].epoch
        /\ x.row = callers[c].row /\ x.live = callers[c].live /\ x.phase = "idle"
    BY <2>1 DEF Callers
  <2>4. y \in Callers /\ y.kind = callers[c].kind /\ y.epoch = callers[c].epoch
        /\ y.row = 0 /\ ~y.live /\ y.phase = "gone"
    BY <2>1 DEF Callers
  <2>. HIDE DEF x, y
  <2>. QED
    BY <2>1, <2>2, <2>3, <2>4
<1>4. callers' = [c \in DOMAIN callers |-> callers'[c]]
  BY DEF Boot
<1>5. callers' \in Seq(Callers) /\ Len(callers') = Len(callers)
  BY <1>1, <1>3, <1>4, CallersMapped
<1>6. \A c \in DOMAIN callers : callers[c].live =>
        (callers[c].kind = "action" => db'.item = "active")
  BY <1>2 DEF IInv, LiveIsCurrent, Follows
<1>7. Continues(db, db')
  BY <1>2 DEF Follows
<1>. QED
  BY <1>1, <1>2, <1>3, <1>5, <1>6, <1>7, StillStep

LEMMA FiniteCounts ==
    ASSUME IInv
    PROVE  /\ IsFiniteSet(Runs) /\ Cardinality(Runs) \in Nat
           /\ \A c : IsFiniteSet(RequestsOf(db, c)) /\ Cardinality(RequestsOf(db, c)) \in Nat
<1>1. IsFiniteSet(DOMAIN db.rows) /\ IsFiniteSet(DOMAIN callers)
  <2>1. DOMAIN db.rows = 1..Len(db.rows) /\ DOMAIN callers = 1..Len(callers)
        /\ Len(db.rows) \in Nat /\ Len(callers) \in Nat
    BY StateTypes, RowsDomain, CallersDomain
  <2>. QED
    BY <2>1, FS_Interval
<1>2. IsFiniteSet(Runs)
  BY <1>1, FS_Subset DEF Runs
<1>3. \A c : IsFiniteSet(RequestsOf(db, c))
  BY <1>1, FS_Subset DEF RequestsOf
<1>. QED
  BY <1>2, <1>3, FS_CardinalityType

\* A new Run or turn.
LEMMA NewCallerStep ==
    ASSUME IInv, NEW kind \in Kind, callers' = Append(callers, Caller(kind)),
           kind = "action" => CanAttempt(db) /\ db.item = "active",
           UNCHANGED <<db, up, adapter, view, sent>>, used' \in [{"command", "fault"} -> Nat]
    PROVE  Good
<1>. DEFINE n == Len(callers)
            x == Caller(kind)
<1>1. TypeOK /\ db \in Database /\ callers \in Seq(Callers) /\ n \in Nat /\ DOMAIN callers = 1..n
      /\ Len(db.rows) \in Nat
  BY StateTypes, CallersDomain, RowsDomain
<1>2. x \in Callers /\ x.kind = kind /\ x.phase = "idle" /\ x.row = 0 /\ x.epoch = db.epoch
  BY <1>1 DEF Caller, Callers, Database
<1>. HIDE DEF x
<1>3. /\ callers' \in Seq(Callers) /\ DOMAIN callers' = 1..(n + 1)
      /\ callers'[n + 1] = x /\ \A c \in 1..n : callers'[c] = callers[c]
  <2>1. callers' = Append(callers, x)
    BY DEF x
  <2>. QED
    BY <1>1, <1>2, <2>1
<1>4. TypeOK'
  <2>1. \A c \in DOMAIN callers' : callers'[c].row <= Len(db'.rows)
    BY <1>1, <1>2, <1>3 DEF TypeOK
  <2>2. \A r \in DOMAIN db'.rows : db'.rows[r].caller \in DOMAIN callers'
    <3>1. DOMAIN callers \subseteq DOMAIN callers'
      BY <1>1, <1>3
    <3>. QED
      BY <1>1, <3>1 DEF TypeOK
  <2>. QED
    BY <1>1, <1>3, <2>1, <2>2 DEF TypeOK
<1>5. WithinLimits'
  <2>1. \A c \in Runs' : Cardinality(RequestsOf(db, c)) <= db.limits.runRequests
    <3>1. SUFFICES ASSUME NEW c \in Runs'
                   PROVE  Cardinality(RequestsOf(db, c)) <= db.limits.runRequests
      OBVIOUS
    <3>2. CASE c \in Runs
      BY <3>2 DEF IInv, WithinLimits
    <3>3. CASE c \notin Runs
      <4>1. c = n + 1
        <5>1. \A b \in 1..n : b \in Runs' => b \in Runs
          BY <1>1, <1>3 DEF Runs
        <5>2. c \in 1..(n + 1)
          BY <1>3 DEF Runs
        <5>3. c \notin 1..n
          BY <3>3, <5>1
        <5>4. n \in Nat
          BY <1>1
        <5>. HIDE DEF n
        <5>. QED
          BY <5>2, <5>3, <5>4
      <4>2. RequestsOf(db, c) = {}
        BY <1>1, <4>1 DEF RequestsOf, TypeOK
      <4>3. db.limits.runRequests \in Nat
        BY <1>1 DEF Database, Limit
      <4>. QED
        BY <4>2, <4>3, FS_EmptySet
    <3>. QED
      BY <3>2, <3>3
  <2>2. Cardinality(Runs') <= Attempts(db)
    <3>1. CASE kind = "action"
      <4>1. Runs' = Runs \cup {n + 1} /\ n + 1 \notin Runs
        BY <1>1, <1>2, <1>3, <3>1 DEF Runs
      <4>2. Cardinality(Runs) + 1 <= Attempts(db)
        <5>1. Attempts(db) \in Nat
          <6>1. db.extension \in Nat /\ db.limits.attempts \in Nat /\ OriginalAttempts \in Nat
            BY <1>1, BudgetAssumption DEF Database, Limit, BudgetAssumption
          <6>. QED
            BY <6>1 DEF Attempts
        <5>2. Cardinality(Runs) < Attempts(db) /\ Cardinality(Runs) \in Nat
          BY <3>1, FiniteCounts DEF CanAttempt
        <5>. QED
          BY <5>1, <5>2
      <4>. QED
        <5>1. IsFiniteSet(Runs)
          BY FiniteCounts
        <5>2. Cardinality(Runs \cup {n + 1}) = Cardinality(Runs) + 1
          BY <4>1, <5>1, FS_AddElement
        <5>. QED
          BY <4>1, <4>2, <5>2
    <3>2. CASE kind # "action"
      <4>1. Runs' = Runs
        BY <1>1, <1>2, <1>3, <3>2 DEF Runs
      <4>. QED
        BY <4>1 DEF IInv, WithinLimits
    <3>. QED
      BY <3>1, <3>2
  <2>. QED
    BY <2>1, <2>2 DEF IInv, WithinLimits
<1>6. InFlight'
  <2>1. \A c \in DOMAIN callers' : callers'[c].phase \in {"admitted", "sent"} =>
           c \in DOMAIN callers /\ callers'[c] = callers[c]
    BY <1>1, <1>2, <1>3
  <2>. QED
    BY <2>1 DEF IInv, InFlight
<1>7. LiveIsCurrent'
  BY <1>1, <1>2, <1>3 DEF IInv, LiveIsCurrent
<1>8. NothingIsFree' /\ OvershootIsReported' /\ ViewWasTrue'
  BY DEF IInv, NothingIsFree, OvershootIsReported, ViewWasTrue
<1>9. LedgerStep /\ StopNeedsUser /\ FetchIsAdmitted
  BY <1>1, FollowsItself, ContinuesKeeps, NoFetch DEF Follows
<1>. QED
  BY <1>4, <1>5, <1>6, <1>7, <1>8, <1>9 DEF Good, IInv

LEMMA ClaimRunStep ==
    ASSUME IInv, ClaimRun
    PROVE  Good
<1>1. CASE CanAttempt(db)
  BY <1>1, NewCallerStep, StateTypes DEF ClaimRun, Kind
<1>2. CASE ~CanAttempt(db)
  <2>1. db' = Stopped(db, "attempts") /\ UNCHANGED <<callers, up, adapter, view, sent, used>>
        /\ db.item = "active"
    BY <1>2 DEF ClaimRun
  <2>2. db' \in Database /\ Follows(db, db') /\ db'.rows = db.rows
    BY <2>1, StoppedFacts, StateTypes DEF Codes
  <2>3. Budget(db')
    BY <2>1, StoppedBudget, StateTypes DEF Codes, Budget
  <2>4. Continues(db, db') /\ db'.item = "active"
    BY <2>1, <2>2 DEF Follows
  <2>. QED
    BY <2>1, <2>2, <2>3, <2>4, StillStep, StateTypes
<1>. QED
  BY <1>1, <1>2

LEMMA BeginTurnStep ==
    ASSUME IInv, NEW byUser \in BOOLEAN, BeginTurn(byUser)
    PROVE  Good
<1>1. used' \in [{"command", "fault"} -> Nat]
  BY StateTypes, BudgetAssumption DEF BeginTurn, May, BudgetAssumption
<1>. QED
  BY <1>1, NewCallerStep DEF BeginTurn, Kind

\* A caller that is admitted gets an entry of its own.
LEMMA NewRowStep ==
    ASSUME IInv, NEW c \in DOMAIN callers, NEW x \in Callers,
           callers' = [callers EXCEPT ![c] = x],
           x.kind = callers[c].kind, x.epoch = callers[c].epoch, x.live = callers[c].live,
           x.row <= Len(db.rows) + 1,
           db' \in Database, Follows(db, db'), NothingReported(db, db'), Budget(db'),
           Len(db'.rows) = Len(db.rows) + 1, db'.rows[Len(db.rows) + 1].caller = c,
           ~RunExhausted(db, c),
           sent' \in Seq(Sent), Len(sent') = Len(db.rows) + 1,
           \A r \in DOMAIN sent : sent'[r] = sent[r],
           sent'[Len(db.rows) + 1].times <= 1,
           x.phase \in {"admitted", "sent"} => x.row = Len(db.rows) + 1,
           x.phase = "admitted" => sent'[Len(db.rows) + 1].times = 0,
           UNCHANGED <<up, adapter, view, used>>
    PROVE  IInv' /\ LedgerStep /\ StopNeedsUser
<1>. DEFINE n == Len(db.rows)
<1>1. /\ TypeOK /\ db \in Database /\ callers \in Seq(Callers) /\ sent \in Seq(Sent)
      /\ n \in Nat /\ DOMAIN db.rows = 1..n /\ DOMAIN sent = 1..n /\ DOMAIN db'.rows = 1..(n + 1)
      /\ DOMAIN sent' = 1..(n + 1)
      /\ \A r \in DOMAIN sent : sent[r].times <= 1
      /\ \A r \in DOMAIN db.rows :
           db.rows[r].status = "reported" => db.rows[r].charged = sent[r].told
  <2>1. /\ TypeOK /\ db \in Database /\ callers \in Seq(Callers) /\ sent \in Seq(Sent)
        /\ DOMAIN sent = DOMAIN db.rows
        /\ \A r \in DOMAIN sent : sent[r].times <= 1
        /\ \A r \in DOMAIN db.rows :
             db.rows[r].status = "reported" => db.rows[r].charged = sent[r].told
    BY StateTypes
  <2>. QED
    BY <2>1, RowsDomain
<1>2. /\ callers' \in Seq(Callers) /\ DOMAIN callers' = DOMAIN callers /\ callers'[c] = x
      /\ \A b \in DOMAIN callers \ {c} : callers'[b] = callers[b]
  BY <1>1
<1>. HIDE DEF n
<1>3. n + 1 \in 1..(n + 1) /\ n + 1 \notin 1..n /\ \A r \in 1..(n + 1) : r # n + 1 => r \in 1..n
  BY <1>1
<1>4. /\ Len(db'.rows) = n + 1 /\ db'.rows[n + 1].caller = c /\ Len(sent') = n + 1
      /\ sent'[n + 1].times <= 1 /\ db'.rows[n + 1].status # "reported"
      /\ x.phase \in {"admitted", "sent"} => x.row = n + 1
      /\ x.phase = "admitted" => sent'[n + 1].times = 0
      /\ x.row <= n + 1
  <2>1. db'.rows[n + 1].status # "reported"
    BY <1>1, <1>3 DEF NothingReported
  <2>. QED
    BY <2>1 DEF n
<1>5. \A r \in 1..n : db'.rows[r].caller = db.rows[r].caller
  BY <1>1 DEF Follows, Continues
<1>6. TypeOK'
  <2>1. \A r \in DOMAIN db'.rows : db'.rows[r].caller \in DOMAIN callers'
    <3>1. \A r \in 1..n : db.rows[r].caller \in DOMAIN callers
      BY <1>1 DEF TypeOK
    <3>. QED
      BY <1>1, <1>2, <1>3, <1>4, <1>5, <3>1
  <2>2. \A b \in DOMAIN callers' : callers'[b].row <= Len(db'.rows)
    <3>1. SUFFICES ASSUME NEW b \in DOMAIN callers, b # c
                   PROVE  callers[b].row <= n + 1
      BY <1>2, <1>4
    <3>2. callers[b].row \in Nat /\ callers[b].row <= n
      BY <1>1, CallersDomain DEF TypeOK, Callers, n
    <3>. QED
      BY <1>1, <3>2
  <2>3. up' \in BOOLEAN /\ adapter' \in Adapters /\ view' \in [revision : Nat, stop : Codes]
        /\ used' \in [{"command", "fault"} -> Nat]
    BY <1>1 DEF TypeOK
  <2>. QED
    BY <1>2, <1>4, <2>1, <2>2, <2>3 DEF TypeOK, Sent
<1>7. NothingIsFree'
  <2>1. SUFFICES ASSUME NEW r \in DOMAIN db'.rows
                 PROVE  /\ sent'[r].times <= 1
                        /\ IF db'.rows[r].status = "reported"
                           THEN db'.rows[r].charged = sent'[r].told
                           ELSE db'.rows[r].charged >= db'.rows[r].estimate
    BY DEF NothingIsFree
  <2>2. db'.rows[r].status # "reported" => db'.rows[r].charged >= db'.rows[r].estimate
    BY DEF Budget
  <2>3. CASE r = n + 1
    BY <1>4, <2>2, <2>3
  <2>4. CASE r # n + 1
    <3>1. r \in 1..n /\ sent'[r] = sent[r]
      BY <1>1, <1>3, <2>4
    <3>2. db'.rows[r].status = "reported" => db'.rows[r] = db.rows[r]
      BY DEF NothingReported
    <3>. QED
      BY <1>1, <2>2, <3>1, <3>2
  <2>. QED
    BY <2>3, <2>4
<1>8. WithinLimits' /\ OvershootIsReported'
  <2>1. Runs' = Runs
    BY <1>2 DEF Runs
  <2>2. Attempts(db') = Attempts(db) /\ db'.limits = db.limits
    BY DEF Attempts, Follows, Continues
  <2>3. \A b \in Runs' : Cardinality(RequestsOf(db', b)) <= db.limits.runRequests
    <3>1. SUFFICES ASSUME NEW b \in Runs
                   PROVE  Cardinality(RequestsOf(db', b)) <= db.limits.runRequests
      BY <2>1
    <3>2. CASE b = c
      <4>1. RequestsOf(db', b) = RequestsOf(db, b) \cup {n + 1} /\ n + 1 \notin RequestsOf(db, b)
        <5>1. /\ DOMAIN db.rows = 1..n /\ DOMAIN db'.rows = 1..(n + 1)
              /\ db'.rows[n + 1].caller = b
          BY <1>1, <1>4, <3>2
        <5>2. \A r \in 1..(n + 1) : db'.rows[r].caller = b <=>
                r = n + 1 \/ (r \in 1..n /\ db.rows[r].caller = b)
          BY <1>3, <1>5, <5>1
        <5>3. 1..n \subseteq 1..(n + 1)
          BY <1>1
        <5>. QED
          BY <1>3, <5>1, <5>2, <5>3 DEF RequestsOf
      <4>2. ~(Cardinality(RequestsOf(db, b)) >= db.limits.runRequests)
        BY <3>2 DEF RunExhausted, Runs
      <4>3. db.limits.runRequests \in Nat
        BY <1>1 DEF Database, Limit
      <4>4. IsFiniteSet(RequestsOf(db, b)) /\ Cardinality(RequestsOf(db, b)) \in Nat
        BY FiniteCounts
      <4>5. Cardinality(RequestsOf(db', b)) = Cardinality(RequestsOf(db, b)) + 1
        <5>. DEFINE S == RequestsOf(db, b)
        <5>1. n + 1 \notin S /\ IsFiniteSet(S) /\ RequestsOf(db', b) = S \cup {n + 1}
          BY <4>1, <4>4
        <5>. HIDE DEF S
        <5>2. Cardinality(S \cup {n + 1}) = Cardinality(S) + 1
          BY <5>1, FS_AddElement
        <5>. QED
          BY <5>1, <5>2 DEF S
      <4>. QED
        BY <4>2, <4>3, <4>4, <4>5
    <3>3. CASE b # c
      <4>1. RequestsOf(db', b) = RequestsOf(db, b)
        <5>1. /\ DOMAIN db.rows = 1..n /\ DOMAIN db'.rows = 1..(n + 1)
              /\ db'.rows[n + 1].caller # b
          BY <1>1, <1>4, <3>3
        <5>2. \A r \in 1..(n + 1) : db'.rows[r].caller = b <=>
                r \in 1..n /\ db.rows[r].caller = b
          BY <1>3, <1>5, <5>1
        <5>3. 1..n \subseteq 1..(n + 1)
          BY <1>1
        <5>. QED
          BY <5>1, <5>2, <5>3 DEF RequestsOf
      <4>. QED
        BY <4>1 DEF IInv, WithinLimits
    <3>. QED
      BY <3>2, <3>3
  <2>4. Cardinality(Runs') <= Attempts(db')
    BY <2>1, <2>2 DEF IInv, WithinLimits
  <2>. QED
    BY <2>2, <2>3, <2>4 DEF Budget, WithinLimits, OvershootIsReported
<1>9. InFlight'
  <2>1. SUFFICES ASSUME NEW b \in DOMAIN callers, callers'[b].phase \in {"admitted", "sent"}
                 PROVE  LET r == callers'[b].row IN
                        /\ r \in DOMAIN db'.rows /\ db'.rows[r].caller = b
                        /\ db'.rows[r].status # "reported"
                        /\ callers'[b].phase = "admitted" => sent'[r].times = 0
    BY <1>2 DEF InFlight
  <2>2. CASE b = c
    BY <1>1, <1>2, <1>3, <1>4, <2>1, <2>2
  <2>3. CASE b # c
    <3>. DEFINE q == callers[b].row
    <3>1. callers'[b] = callers[b]
      BY <1>2, <2>3
    <3>2. q \in DOMAIN db.rows /\ db.rows[q].caller = b /\ db.rows[q].status # "reported"
          /\ (callers[b].phase = "admitted" => sent[q].times = 0)
      BY <2>1, <3>1 DEF IInv, InFlight
    <3>3. q \in DOMAIN db'.rows /\ db'.rows[q].caller = b /\ sent'[q] = sent[q]
      <4>1. q \in 1..n /\ q \in 1..(n + 1) /\ q \in DOMAIN sent /\ DOMAIN db'.rows = 1..(n + 1)
        BY <1>1, <3>2
      <4>. QED
        BY <1>5, <3>2, <4>1
    <3>4. db'.rows[q].status # "reported"
      BY <3>2, <3>3 DEF NothingReported
    <3>. QED
      BY <3>1, <3>2, <3>3, <3>4
  <2>. QED
    BY <2>2, <2>3
<1>10. LiveIsCurrent'
  <2>1. \A b \in DOMAIN callers' : callers'[b].live = callers[b].live
          /\ callers'[b].epoch = callers[b].epoch /\ callers'[b].kind = callers[b].kind
    BY <1>2
  <2>. QED
    BY <1>2, <2>1 DEF IInv, LiveIsCurrent, Follows, Continues
<1>11. ViewWasTrue'
  BY <1>1, ViewKept DEF IInv, Follows
<1>12. LedgerStep /\ StopNeedsUser
  BY <1>1, ContinuesKeeps DEF Follows
<1>. QED
  BY <1>6, <1>7, <1>8, <1>9, <1>10, <1>11, <1>12 DEF IInv

LEMMA BeforeRetryFacts ==
    ASSUME IInv, NEW c \in DOMAIN callers, NEW partial \in Nat
    PROVE  LET e == BeforeRetry(c, partial) IN
           /\ e \in Database /\ Follows(db, e) /\ NothingReported(db, e)
           /\ Len(e.rows) = Len(db.rows) /\ Budget(e)
BY SettledFacts, FollowsItself, StateTypes DEF BeforeRetry

LEMMA BeginStep ==
    ASSUME IInv, NEW c \in DOMAIN callers, NEW partial \in Nat, NEW estimate \in Estimates,
           Begin(c, partial, estimate)
    PROVE  Good
<1>. DEFINE before == BeforeRetry(c, partial)
            after == Admitted(before, c, estimate)
            n == Len(db.rows)
            row == Len(after.rows)
            grown == Append(sent, [times |-> 0, told |-> 0])
            allowed == Denied(before, c, estimate) = "none"
            f == [callers[c] EXCEPT !.phase = "failed"]
<1>1. /\ db \in Database /\ callers \in Seq(Callers) /\ sent \in Seq(Sent) /\ n \in Nat
      /\ Len(sent) = n /\ DOMAIN sent = 1..n /\ DOMAIN db.rows = 1..n
      /\ callers[c] \in Callers /\ c \in Nat /\ callers[c].row \in 0..n
      /\ used \in [{"command", "fault"} -> Nat]
      /\ UNCHANGED <<up, adapter, view, used>>
  BY StateTypes, RowsDomain, CallersDomain DEF Begin
<1>2. /\ before \in Database /\ Follows(db, before) /\ NothingReported(db, before)
      /\ Len(before.rows) = n /\ Budget(before)
  BY BeforeRetryFacts
<1>. HIDE DEF before
<1>3. /\ after \in Database /\ Follows(before, after) /\ NothingReported(before, after)
      /\ Budget(after)
      /\ allowed =>
           /\ after.rows = Append(before.rows, [caller |-> c, estimate |-> estimate,
                                                charged |-> estimate, status |-> "reserved"])
           /\ after.stop = "none" /\ before.stop = "none" /\ before.item = "active"
           /\ ~RunExhausted(before, c)
      /\ ~allowed => after.rows = before.rows
  <2>1. after = [before EXCEPT !.rows = after.rows] => after.stop = before.stop
    BY <1>2 DEF Database
  <2>. HIDE DEF after
  <2>. QED
    BY <1>1, <1>2, <2>1, ReservedFacts DEF Admitted, after
<1>. HIDE DEF after
<1>4. Follows(db, after) /\ NothingReported(db, after)
  BY <1>1, <1>2, <1>3, FollowsTransitive, NothingReportedTransitive
<1>5. f \in Callers /\ f.kind = callers[c].kind /\ f.live = callers[c].live
        /\ f.epoch = callers[c].epoch /\ f.row = callers[c].row /\ f.phase = "failed"
  BY <1>1, PhaseFacts
<1>6. ASSUME allowed
      PROVE  /\ row = n + 1 /\ after.rows[n + 1].caller = c
             /\ after.rows[n + 1].status = "reserved"
             /\ ~RunExhausted(db, c) /\ db.item = "active"
  <2>1. before.rows \in Seq(Rows)
    BY <1>2, RowsDomain
  <2>2. row = n + 1 /\ after.rows[n + 1].caller = c /\ after.rows[n + 1].status = "reserved"
    <3>. DEFINE new == [caller |-> c, estimate |-> estimate, charged |-> estimate,
                        status |-> "reserved"]
    <3>1. new.caller = c /\ new.status = "reserved" /\ after.rows = Append(before.rows, new)
      BY <1>3, <1>6
    <3>2. new \in Rows
      BY <1>1, BudgetAssumption DEF BudgetAssumption, Rows
    <3>. HIDE DEF new
    <3>. QED
      BY <1>1, <1>2, <2>1, <3>1, <3>2
  <2>3. RequestsOf(before, c) = RequestsOf(db, c) /\ before.limits = db.limits
    <3>1. DOMAIN before.rows = DOMAIN db.rows
      BY <1>1, <1>2, RowsDomain
    <3>. QED
      BY <1>2, <3>1 DEF RequestsOf, Follows, Continues
  <2>4. ~RunExhausted(db, c)
    BY <1>3, <1>6, <2>3 DEF RunExhausted
  <2>5. db.item = "active"
    BY <1>2, <1>3, <1>6 DEF Follows
  <2>. QED
    BY <2>2, <2>4, <2>5
<1>7. /\ grown \in Seq(Sent) /\ Len(grown) = n + 1 /\ DOMAIN grown = 1..(n + 1)
      /\ \A r \in DOMAIN sent : grown[r] = sent[r]
      /\ grown[n + 1].times = 0
  <2>. DEFINE s == [times |-> 0, told |-> 0]
  <2>1. s \in Sent /\ s.times = 0
    BY DEF Sent
  <2>. HIDE DEF s
  <2>2. Append(sent, s) \in Seq(Sent) /\ Len(Append(sent, s)) = n + 1
        /\ DOMAIN Append(sent, s) = 1..(n + 1)
        /\ \A r \in DOMAIN sent : Append(sent, s)[r] = sent[r]
        /\ Append(sent, s)[n + 1] = s
    BY <1>1, <2>1
  <2>. QED
    BY <2>1, <2>2 DEF s
<1>. HIDE DEF grown
<1>8. CASE callers[c].kind = "coordinator" /\ ~callers[c].live /\ Phase(c, "failed")
           /\ UNCHANGED <<db, sent>>
  <2>1. callers' = [callers EXCEPT ![c] = f]
    BY <1>8 DEF Phase
  <2>. HIDE DEF f
  <2>. QED
    BY <1>1, <1>5, <1>8, <2>1, SilentStep, FollowsItself, StateTypes
<1>9. CASE ~allowed /\ db' = after /\ Phase(c, "failed") /\ UNCHANGED sent
  <2>1. callers' = [callers EXCEPT ![c] = f]
    BY <1>9 DEF Phase
  <2>2. Len(db'.rows) = n
    BY <1>2, <1>3, <1>9
  <2>. HIDE DEF f
  <2>. QED
    BY <1>1, <1>3, <1>4, <1>5, <1>9, <2>1, <2>2, SilentStep
<1>10. CASE allowed /\ db' = Settled(after, row, 0, FALSE) /\ sent' = grown /\ Phase(c, "failed")
  <2>1. callers' = [callers EXCEPT ![c] = f]
    BY <1>10 DEF Phase
  <2>2. row \in 0..row /\ row = n + 1
    BY <1>1, <1>6, <1>10
  <2>3. /\ db' \in Database /\ Follows(after, db') /\ NothingReported(after, db') /\ Budget(db')
        /\ Len(db'.rows) = n + 1
    BY <1>3, <1>10, <2>2, SettledFacts
  <2>4. Follows(db, db') /\ NothingReported(db, db')
    BY <1>1, <1>3, <1>4, <2>3, FollowsTransitive, NothingReportedTransitive
  <2>5. db'.rows[n + 1].caller = c
    <3>1. n + 1 \in DOMAIN after.rows
      BY <1>1, <1>3, <2>2, RowsDomain
    <3>. QED
      BY <1>6, <1>10, <2>3, <3>1 DEF Follows, Continues
  <2>6. f.row <= n + 1
    BY <1>1, <1>5
  <2>. HIDE DEF f, n
  <2>7. IInv' /\ LedgerStep /\ StopNeedsUser
    <3>1. /\ ~RunExhausted(db, c) /\ sent' = grown /\ f.phase \notin {"admitted", "sent"}
          /\ grown[n + 1].times <= 1
      BY <1>5, <1>6, <1>7, <1>10
    <3>2. /\ f \in Callers /\ f.kind = callers[c].kind /\ f.epoch = callers[c].epoch
          /\ f.live = callers[c].live /\ UNCHANGED <<up, adapter, view, used>>
          /\ sent' \in Seq(Sent) /\ Len(sent') = n + 1
          /\ \A r \in DOMAIN sent : sent'[r] = sent[r]
      BY <1>1, <1>5, <1>7, <3>1
    <3>. QED
      BY <2>1, <2>3, <2>4, <2>5, <2>6, <3>1, <3>2, NewRowStep DEF n
  <2>8. FetchIsAdmitted
    <3>1. \A r \in 1..(n + 1) : r = n + 1 \/ r \in 1..n
      BY <1>1
    <3>. QED
      BY <1>1, <1>7, <1>10, <3>1 DEF FetchIsAdmitted
  <2>. QED
    BY <2>7, <2>8 DEF Good
<1>. DEFINE known == IF callers[c].kind = "coordinator" THEN EarlierUnknown(after, c, row) ELSE after
<1>11. CASE /\ callers[c].live /\ allowed /\ db' = known
            /\ IF adapter[callers[c].kind] = "native"
               THEN /\ Fetch(row, grown)
                    /\ callers' = [callers EXCEPT ![c].phase = "sent", ![c].row = row]
               ELSE /\ sent' = grown
                    /\ callers' = [callers EXCEPT ![c].phase = "admitted", ![c].row = row]
  <2>1. row = n + 1 /\ after.rows[n + 1].caller = c /\ ~RunExhausted(db, c) /\ db.item = "active"
        /\ n + 1 \in DOMAIN after.rows
    BY <1>1, <1>3, <1>6, <1>11, RowsDomain
  <2>2. /\ db' \in Database /\ Follows(after, db') /\ NothingReported(after, db') /\ Budget(db')
        /\ Len(db'.rows) = n + 1 /\ db'.rows[n + 1] = after.rows[n + 1] /\ db'.stop = after.stop
    <3>1. CASE callers[c].kind = "coordinator"
      <4>1. db' = EarlierUnknown(after, c, row)
        BY <1>11, <3>1
      <4>2. /\ db' \in Database /\ Follows(after, db') /\ NothingReported(after, db') /\ Budget(db')
            /\ Len(db'.rows) = n + 1 /\ db'.rows[n + 1] = after.rows[n + 1]
            /\ db' = [after EXCEPT !.rows = db'.rows]
        BY <1>3, <2>1, <4>1, EarlierUnknownFacts
      <4>3. db'.stop = after.stop
        BY <1>3, <4>2 DEF Database
      <4>. QED
        BY <4>2, <4>3
    <3>2. CASE callers[c].kind # "coordinator"
      BY <1>3, <1>11, <2>1, <3>2, FollowsItself
    <3>. QED
      BY <3>1, <3>2
  <2>3. Follows(db, db') /\ NothingReported(db, db')
    BY <1>1, <1>3, <1>4, <2>2, FollowsTransitive, NothingReportedTransitive
  <2>4. PICK p \in {"sent", "admitted"} :
          /\ callers' = [callers EXCEPT ![c].phase = p, ![c].row = row]
          /\ p = "sent" => sent' = [grown EXCEPT ![n + 1].times = @ + 1]
          /\ p = "admitted" => sent' = grown
    <3>. HIDE DEF known
    <3>. QED
      BY <1>11, <2>1 DEF Fetch
  <2>. DEFINE x == [callers[c] EXCEPT !.phase = p, !.row = n + 1]
  <2>5. x \in Callers /\ x.kind = callers[c].kind /\ x.live = callers[c].live
        /\ x.epoch = callers[c].epoch /\ x.row = n + 1 /\ x.phase = p
        /\ callers' = [callers EXCEPT ![c] = x]
    <3>1. callers' = [callers EXCEPT ![c].phase = p, ![c].row = n + 1] /\ n + 1 \in Nat
      BY <1>1, <2>1, <2>4
    <3>. HIDE DEF n
    <3>2. callers' = [callers EXCEPT ![c] = x]
      BY <1>1, <3>1
    <3>3. x \in Callers /\ x.kind = callers[c].kind /\ x.live = callers[c].live
          /\ x.epoch = callers[c].epoch /\ x.row = n + 1 /\ x.phase = p
      BY <1>1, <3>1 DEF Callers
    <3>. QED
      BY <3>2, <3>3
  <2>6. /\ sent' \in Seq(Sent) /\ Len(sent') = n + 1 /\ DOMAIN sent' = 1..(n + 1)
        /\ \A r \in DOMAIN sent : sent'[r] = sent[r]
        /\ sent'[n + 1].times <= 1 /\ (p = "admitted" => sent'[n + 1].times = 0)
    <3>1. CASE p = "admitted"
      BY <1>1, <1>7, <2>4, <3>1
    <3>2. CASE p = "sent"
      <4>. DEFINE s == [grown[n + 1] EXCEPT !.times = 1]
      <4>1. n + 1 \in DOMAIN grown /\ n + 1 \notin DOMAIN sent /\ grown[n + 1] \in Sent
        BY <1>1, <1>7
      <4>2. s \in Sent /\ s.times = 1
        BY <4>1 DEF Sent
      <4>3. sent' = [grown EXCEPT ![n + 1] = s]
        BY <1>7, <2>4, <3>2, <4>1
      <4>. HIDE DEF s, n
      <4>. QED
        BY <1>1, <1>7, <3>2, <4>1, <4>2, <4>3
    <3>. QED
      BY <3>1, <3>2
  <2>. HIDE DEF x, n, known
  <2>7. IInv' /\ LedgerStep /\ StopNeedsUser
    <3>1. x.row <= n + 1 /\ db'.rows[n + 1].caller = c
      BY <1>1, <2>1, <2>2, <2>5
    <3>. QED
      BY <1>1, <2>1, <2>2, <2>3, <2>5, <2>6, <3>1, NewRowStep DEF n
  <2>8. FetchIsAdmitted
    <3>1. SUFFICES ASSUME NEW r \in 1..(n + 1), r \in DOMAIN sent => sent[r].times # sent'[r].times
                   PROVE  /\ db'.stop = "none" /\ db.item = "active"
                          /\ callers[db'.rows[r].caller].live
                          /\ callers[db'.rows[r].caller].epoch = db.epoch
      BY <2>6 DEF FetchIsAdmitted
    <3>2. r = n + 1
      BY <1>1, <2>6, <3>1
    <3>3. callers[c].live /\ callers[c].epoch = db.epoch
      BY <1>11 DEF IInv, LiveIsCurrent
    <3>. QED
      BY <1>3, <1>11, <2>1, <2>2, <3>2, <3>3
  <2>. QED
    BY <2>7, <2>8 DEF Good
<1>12. Len(after.rows) > Len(db.rows) => allowed
  BY <1>1, <1>2, <1>3
<1>13. allowed => Len(after.rows) > Len(db.rows)
  BY <1>1, <1>6
<1>. QED
  BY <1>8, <1>9, <1>10, <1>11, <1>13 DEF Begin, before, after, grown

\* A command of the user that leaves the ledger alone and shows its result.
LEMMA CommandStep ==
    ASSUME IInv, db' \in Database, Budget(db'), db'.rows = db.rows,
           db'.limits.runRequests >= db.limits.runRequests, Attempts(db') >= Attempts(db),
           callers' \in Seq(Callers), DOMAIN callers' = DOMAIN callers,
           \A c \in DOMAIN callers :
               /\ callers'[c].kind = callers[c].kind /\ callers'[c].row = callers[c].row
               /\ callers'[c].phase = callers[c].phase
               /\ callers'[c].live => /\ callers'[c].epoch = db'.epoch
                                      /\ callers[c].kind = "action" => db'.item = "active",
           view' = [revision |-> db'.revision, stop |-> db'.stop],
           UNCHANGED <<up, adapter, sent>>, used' \in [{"command", "fault"} -> Nat]
    PROVE  IInv' /\ LedgerStep /\ FetchIsAdmitted
<1>1. TypeOK /\ db \in Database
  BY StateTypes
<1>2. view' \in [revision : Nat, stop : Codes] /\ view'.revision = db'.revision
      /\ view'.stop = db'.stop /\ db'.revision \in Nat
  BY DEF Database
<1>3. TypeOK'
  BY <1>1, <1>2 DEF TypeOK
<1>4. NothingIsFree'
  BY DEF IInv, NothingIsFree
<1>5. WithinLimits' /\ OvershootIsReported'
  <2>1. Runs' = Runs /\ \A c : RequestsOf(db', c) = RequestsOf(db, c)
    BY DEF Runs, RequestsOf
  <2>2. /\ \A c \in Runs : Cardinality(RequestsOf(db, c)) <= db.limits.runRequests
        /\ Cardinality(Runs) <= Attempts(db)
    BY DEF IInv, WithinLimits
  <2>3. /\ \A c : Cardinality(RequestsOf(db, c)) \in Nat
        /\ Cardinality(Runs) \in Nat
    BY FiniteCounts
  <2>4. db.limits.runRequests \in Nat /\ db'.limits.runRequests \in Nat
        /\ Attempts(db) \in Nat \cup {OriginalAttempts + db.extension}
        /\ Attempts(db') \in Nat \cup {OriginalAttempts + db'.extension}
        /\ db.extension \in Nat /\ db'.extension \in Nat /\ OriginalAttempts \in Nat
    BY <1>1, BudgetAssumption DEF Database, Limit, Attempts, BudgetAssumption
  <2>5. \A c \in Runs' : Cardinality(RequestsOf(db', c)) <= db'.limits.runRequests
    <3>1. SUFFICES ASSUME NEW c \in Runs
                   PROVE  Cardinality(RequestsOf(db, c)) <= db'.limits.runRequests
      BY <2>1
    <3>2. PICK n \in Nat, a \in Nat, b \in Nat :
             n = Cardinality(RequestsOf(db, c)) /\ a = db.limits.runRequests
             /\ b = db'.limits.runRequests
      BY <2>3, <2>4
    <3>3. n <= a /\ a <= b
      BY <2>2, <3>2
    <3>4. n <= b
      BY <3>3
    <3>. QED
      BY <3>2, <3>4
  <2>6. Cardinality(Runs') <= Attempts(db')
    <3>1. Attempts(db) \in Nat /\ Attempts(db') \in Nat
      BY <2>4
    <3>2. PICK a \in Nat, b \in Nat, n \in Nat :
             a = Attempts(db) /\ b = Attempts(db') /\ n = Cardinality(Runs)
      BY <2>3, <3>1
    <3>3. n <= a /\ a <= b
      BY <2>2, <3>2
    <3>4. n <= b
      BY <3>3
    <3>. QED
      BY <2>1, <3>2, <3>4
  <2>. QED
    BY <2>5, <2>6 DEF Budget, WithinLimits, OvershootIsReported
<1>6. InFlight'
  BY DEF IInv, InFlight
<1>7. LiveIsCurrent'
  BY DEF LiveIsCurrent
<1>8. ViewWasTrue'
  BY <1>2 DEF ViewWasTrue
<1>9. LedgerStep /\ FetchIsAdmitted
  BY <1>1, RowsDomain, NoFetch DEF LedgerStep, Database
<1>. QED
  BY <1>3, <1>4, <1>5, <1>6, <1>7, <1>8, <1>9 DEF IInv

LEMMA ExtendStep ==
    ASSUME IInv, Extend
    PROVE  Good
<1>1. PICK add \in Additions :
        db' = [db EXCEPT !.limits = [l \in Limit |-> @[l] + add[l]],
                         !.extension = @ + add.attempts, !.revision = @ + 1]
  BY DEF Extend
<1>. DEFINE limits == [l \in Limit |-> db.limits[l] + add[l]]
            extension == db.extension + add.attempts
            revision == db.revision + 1
<1>2. db \in Database /\ callers \in Seq(Callers) /\ Budget(db)
  BY StateTypes
<1>3. add \in [Limit -> Nat] /\ db.limits \in [Limit -> Nat] /\ OriginalAttempts \in Nat
      /\ db.extension \in Nat /\ db.revision \in Nat \ {0}
  BY <1>2, BudgetAssumption DEF BudgetAssumption, Database
<1>4. /\ limits \in [Limit -> Nat] /\ \A l \in Limit : limits[l] >= db.limits[l]
      /\ extension \in Nat /\ extension >= db.extension /\ revision \in Nat \ {0}
  BY <1>3 DEF Limit
<1>5. db' = [db EXCEPT !.limits = limits, !.extension = extension, !.revision = revision]
  <2>1. db' = [db EXCEPT !.limits = [l \in Limit |-> db.limits[l] + add[l]],
                         !.extension = db.extension + add.attempts,
                         !.revision = db.revision + 1]
    BY <1>1, <1>2 DEF Database
  <2>. QED
    BY <2>1
<1>. HIDE DEF limits, extension, revision
<1>6. /\ db' \in Database /\ db'.rows = db.rows /\ db'.limits = limits /\ db'.extension = extension
      /\ db'.failures = db.failures /\ db'.stop = db.stop /\ db'.epoch = db.epoch
      /\ db'.item = db.item
  BY <1>2, <1>4, <1>5 DEF Database
<1>7. /\ limits.requests \in Nat /\ limits.tokens \in Nat /\ limits.failures \in Nat
      /\ limits.attempts \in Nat /\ limits.runRequests \in Nat
      /\ db.limits.requests \in Nat /\ db.limits.tokens \in Nat /\ db.limits.failures \in Nat
      /\ db.limits.attempts \in Nat /\ db.limits.runRequests \in Nat
      /\ limits.requests >= db.limits.requests /\ limits.tokens >= db.limits.tokens
      /\ limits.failures >= db.limits.failures /\ limits.attempts >= db.limits.attempts
      /\ limits.runRequests >= db.limits.runRequests
  BY <1>3, <1>4 DEF Limit
<1>8. Budget(db')
  <2>1. Charged(db') = Charged(db) /\ Excess(db') = Excess(db) /\ Charged(db) \in Nat
        /\ Excess(db) \in Nat /\ db.failures \in Nat /\ Len(db.rows) \in Nat
    BY <1>2, <1>6, Amounts, RowsDomain DEF Charged, Excess, Database
  <2>2. PICK a \in Nat, b \in Nat, t \in Nat, u \in Nat :
           a = Charged(db) /\ b = Excess(db) /\ t = db.limits.tokens /\ u = limits.tokens
    BY <1>7, <2>1
  <2>3. a <= t + b /\ u >= t /\ (a > t => db.stop # "none")
    BY <1>2, <1>7, <2>2 DEF Budget
  <2>4. a <= u + b /\ (a > u => db.stop # "none")
    BY <2>3
  <2>5. db.failures >= limits.failures => db.stop # "none"
    <3>1. PICK a1 \in Nat, l1 \in Nat, l2 \in Nat :
             a1 = db.failures /\ l1 = db.limits.failures /\ l2 = limits.failures
      BY <1>7, <2>1
    <3>2. l1 <= l2 /\ (a1 >= l1 => db.stop # "none")
      BY <1>2, <1>7, <3>1 DEF Budget
    <3>3. a1 >= l2 => db.stop # "none"
      BY <3>2
    <3>. QED
      BY <3>1, <3>3
  <2>6. Len(db.rows) <= limits.requests
    <3>1. PICK a1 \in Nat, l1 \in Nat, l2 \in Nat :
             a1 = Len(db.rows) /\ l1 = db.limits.requests /\ l2 = limits.requests
      BY <1>7, <2>1
    <3>2. a1 <= l1 /\ l1 <= l2
      BY <1>2, <1>7, <3>1 DEF Budget
    <3>3. a1 <= l2
      BY <3>2
    <3>. QED
      BY <3>1, <3>3
  <2>. QED
    BY <1>2, <1>6, <2>1, <2>2, <2>4, <2>5, <2>6 DEF Budget
<1>9. Attempts(db') >= Attempts(db)
  BY <1>3, <1>4, <1>6, <1>7 DEF Attempts
<1>10. used' \in [{"command", "fault"} -> Nat]
  BY StateTypes, BudgetAssumption DEF Extend, May, BudgetAssumption
<1>11. /\ UNCHANGED <<callers, up, adapter, sent>>
       /\ view' = [revision |-> db'.revision, stop |-> db'.stop]
  BY DEF Extend
<1>12. \A c \in DOMAIN callers : callers[c].live =>
         callers[c].epoch = db.epoch /\ (callers[c].kind = "action" => db.item = "active")
  BY DEF IInv, LiveIsCurrent
<1>13. IInv' /\ LedgerStep /\ FetchIsAdmitted
  BY <1>2, <1>6, <1>7, <1>8, <1>9, <1>10, <1>11, <1>12, CommandStep
<1>. QED
  BY <1>6, <1>13 DEF Good, StopNeedsUser

LEMMA ResumeStep ==
    ASSUME IInv, Resume
    PROVE  Good
<1>. DEFINE revision == db.revision + 1
            epoch == db.epoch + 1
<1>1. db \in Database /\ callers \in Seq(Callers) /\ Budget(db)
  BY StateTypes
<1>2. revision \in Nat \ {0} /\ epoch \in Nat \ {0}
  BY <1>1 DEF Database
<1>3. db' = [db EXCEPT !.stop = "none", !.waiting = FALSE, !.revision = revision,
                       !.item = "active", !.epoch = epoch]
  BY <1>1 DEF Resume, Database
<1>. HIDE DEF revision, epoch
<1>4. /\ db' \in Database /\ db'.rows = db.rows /\ db'.limits = db.limits
      /\ db'.extension = db.extension /\ db'.failures = db.failures /\ db'.item = "active"
      /\ db'.stop = "none"
  BY <1>1, <1>2, <1>3 DEF Database, Codes
<1>5. CanResume /\ callers' = Retired /\ UNCHANGED <<up, adapter, sent>>
      /\ view' = [revision |-> db'.revision, stop |-> db'.stop] /\ Current
  BY <1>4 DEF Resume
<1>6. Budget(db')
  <2>1. Charged(db') = Charged(db) /\ Excess(db') = Excess(db) /\ Charged(db) \in Nat
        /\ db.failures \in Nat /\ db.limits.failures \in Nat /\ db.limits.tokens \in Nat
    BY <1>1, <1>4, Amounts DEF Charged, Excess, Database, Limit
  <2>2. ~(Charged(db) > db.limits.tokens) /\ ~(db.failures >= db.limits.failures)
    BY <1>5, <2>1 DEF CanResume
  <2>. QED
    BY <1>1, <1>4, <2>1, <2>2 DEF Budget
<1>7. Attempts(db') = Attempts(db)
  BY <1>4 DEF Attempts
<1>8. db.limits.runRequests \in Nat /\ Attempts(db) \in Nat
  <2>1. db.extension \in Nat /\ db.limits.attempts \in Nat /\ OriginalAttempts \in Nat
        /\ db.limits.runRequests \in Nat
    BY <1>1, BudgetAssumption DEF Database, Limit, BudgetAssumption
  <2>. QED
    BY <2>1 DEF Attempts
<1>9. ASSUME NEW c \in DOMAIN callers
      PROVE  /\ callers'[c] \in Callers /\ callers'[c].kind = callers[c].kind
             /\ callers'[c].row = callers[c].row
             /\ callers'[c].phase = callers[c].phase /\ ~callers'[c].live
  <2>1. callers[c] \in Callers /\ callers'[c] = [callers[c] EXCEPT !.live = FALSE]
    BY <1>1, <1>5, CallersDomain DEF Retired
  <2>. QED
    BY <2>1 DEF Callers
<1>10. callers' = [c \in DOMAIN callers |-> callers'[c]]
  BY <1>5 DEF Retired
<1>11. callers' \in Seq(Callers) /\ DOMAIN callers' = DOMAIN callers
  BY <1>1, <1>9, <1>10, CallersMapped
<1>12. used' \in [{"command", "fault"} -> Nat]
  BY StateTypes, BudgetAssumption DEF Resume, May, BudgetAssumption
<1>13. IInv' /\ LedgerStep /\ FetchIsAdmitted
  <2>1. db'.limits.runRequests >= db.limits.runRequests /\ Attempts(db') >= Attempts(db)
    BY <1>4, <1>7, <1>8
  <2>. QED
    BY <1>4, <1>5, <1>6, <1>9, <1>11, <1>12, <2>1, CommandStep
<1>14. StopNeedsUser
  <2>1. view \in [revision : Nat, stop : Codes]
    BY StateTypes DEF TypeOK
  <2>2. view.revision = db.revision /\ view.stop = db.stop
    BY <1>5 DEF Current, IInv, ViewWasTrue
  <2>3. view = [revision |-> view.revision, stop |-> view.stop]
    BY <2>1
  <2>. QED
    BY <2>2, <2>3 DEF StopNeedsUser
<1>. QED
  BY <1>13, <1>14 DEF Good

-----------------------------------------------------------------------------
(* The theorems *)

LEMMA InitHolds == Init => IInv
<1>. SUFFICES ASSUME Init PROVE IInv
  OBVIOUS
<1>1. db \in Database /\ db.rows = <<>> /\ db.failures = 0 /\ db.limits = Limits
      /\ db.extension = 0 /\ db.revision = 1 /\ db.stop = "none" /\ db.item = "active"
  BY BudgetAssumption DEF Init, BudgetAssumption, Database, Codes
<1>2. callers = <<>> /\ sent = <<>> /\ Runs = {} /\ callers \in Seq(Callers) /\ sent \in Seq(Sent)
      /\ DOMAIN db.rows = {} /\ DOMAIN callers = {} /\ Len(db.rows) = 0 /\ Len(sent) = 0
  BY <1>1 DEF Init, Runs
<1>3. Charged(db) = 0 /\ Excess(db) = 0
  <2>1. [r \in DOMAIN db.rows |-> db.rows[r].charged] \in [1..0 -> Nat]
        /\ [r \in DOMAIN db.rows |-> Larger(0, db.rows[r].charged - db.rows[r].estimate)]
             \in [1..0 -> Nat]
    BY <1>1, <1>2, Amounts
  <2>. QED
    BY <1>2, <2>1, TotalEmpty DEF Charged, Excess
<1>4. TypeOK
  BY <1>1, <1>2, BudgetAssumption DEF Init, TypeOK, Sent, Codes, BudgetAssumption
<1>5. WithinLimits /\ OvershootIsReported
  <2>1. \A l \in Limit : db.limits[l] \in Nat \ {0}
    BY <1>1, BudgetAssumption DEF BudgetAssumption
  <2>2. db.limits.requests \in Nat \ {0} /\ db.limits.tokens \in Nat \ {0}
        /\ db.limits.failures \in Nat \ {0} /\ db.limits.attempts \in Nat \ {0}
    BY <2>1 DEF Limit
  <2>3. Cardinality(Runs) = 0
    BY <1>2, FS_EmptySet
  <2>4. Attempts(db) \in Nat
    <3>1. db.extension \in Nat /\ OriginalAttempts \in Nat
      BY <1>1, BudgetAssumption DEF BudgetAssumption
    <3>. QED
      BY <2>2, <3>1 DEF Attempts
  <2>. QED
    BY <1>1, <1>2, <1>3, <2>2, <2>3, <2>4 DEF WithinLimits, OvershootIsReported
<1>. QED
  BY <1>1, <1>2, <1>4, <1>5
     DEF IInv, NothingIsFree, InFlight, LiveIsCurrent, ViewWasTrue, Init

LEMMA NextStep == IInv /\ [Next]_vars => Good \/ UNCHANGED vars
<1>. SUFFICES ASSUME IInv, Next
              PROVE  Good
  OBVIOUS
<1>1. ASSUME NEW c \in DOMAIN callers, Request(c)
      PROVE  Good
  BY <1>1, BeginStep DEF Request
<1>2. ASSUME NEW c \in DOMAIN callers, Retry(c)
      PROVE  Good
  <2>1. {0} \cup Costs \subseteq Nat
    BY BudgetAssumption DEF BudgetAssumption
  <2>. QED
    BY <1>2, <2>1, BeginStep DEF Retry
<1>. QED
  BY <1>1, <1>2, CallbackStep, AnswerStep, BreakStep, EndRunStep, DecideStep, FailTurnStep,
     LoseStep, ClaimRunStep, BeginTurnStep, WaitEndsStep, CrashStep, BootStep, LookStep,
     ExtendStep, ResumeStep, CancelStep DEF Next

LEMMA Stutters == IInv /\ UNCHANGED vars => IInv' /\ LedgerStep
<1>. SUFFICES ASSUME IInv, UNCHANGED vars
              PROVE  IInv' /\ LedgerStep
  OBVIOUS
<1>1. UNCHANGED <<db, callers, up, adapter, view, sent, used>>
  BY DEF vars
<1>2. TypeOK' /\ NothingIsFree'
  BY <1>1 DEF IInv, TypeOK, NothingIsFree
<1>3. WithinLimits' /\ OvershootIsReported'
  BY <1>1 DEF IInv, WithinLimits, OvershootIsReported, Runs
<1>4. InFlight' /\ LiveIsCurrent' /\ ViewWasTrue'
  BY <1>1 DEF IInv, InFlight, LiveIsCurrent, ViewWasTrue
<1>5. LedgerStep
  BY <1>1 DEF LedgerStep
<1>. QED
  BY <1>2, <1>3, <1>4, <1>5 DEF IInv

\* The invariant is inductive.
THEOREM Inductive == Spec => []IInv
<1>1. IInv /\ [Next]_vars => IInv'
  BY NextStep, Stutters DEF Good
<1>. QED
  BY InitHolds, <1>1, PTL DEF Spec

\* Every request that reached a provider has an entry of its own, charged with
\* its cost or at least with its estimate, whatever is retried, lost or late
\* (reserve and settle).
THEOREM Charges == Spec => []NothingIsFree
<1>1. IInv => NothingIsFree
  BY DEF IInv
<1>. QED
  BY Inductive, <1>1, PTL

\* Requests, attempts, failures and tokens stay within what the user allowed,
\* or the WorkItem is stopped; tokens exceed the limit only by what answers cost
\* beyond their estimates (reserve, settle, canAttempt, coordinatorFailed).
THEOREM StaysInBudget == Spec => []BudgetInv
<1>1. IInv => BudgetInv
  BY DEF IInv, BudgetInv
<1>. QED
  BY Inductive, <1>1, PTL

\* No step removes an entry of the ledger or changes a reported one.
THEOREM KeepsLedger == Spec => LedgerIsKept
<1>1. IInv /\ [Next]_vars => [LedgerStep]_vars
  BY NextStep DEF Good
<1>. QED
  BY Inductive, <1>1, PTL DEF Spec, LedgerIsKept, LedgerStep

\* Nothing is sent for a stopped WorkItem or by a caller of before a resume,
\* and only the user who was shown a stop lifts it (the guards next to fetch,
\* resume and its revision).
THEOREM StopsHold == Spec => StopHolds
<1>1. IInv /\ [Next]_vars => [FetchIsAdmitted /\ StopNeedsUser]_vars
  BY NextStep DEF Good
<1>. QED
  BY Inductive, <1>1, PTL DEF Spec, StopHolds

=============================================================================
