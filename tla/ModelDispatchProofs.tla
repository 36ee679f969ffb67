-------------------------- MODULE ModelDispatchProofs --------------------------
(***************************************************************************)
(* What governed model calls promise, for any requests, budgets, workers   *)
(* and faults.                                                             *)
(*                                                                         *)
(* DispatchInv is inductive.  The books balance: what the ledger holds and *)
(* has charged is the sum over the rows, and the rows fit the budgets.     *)
(* Whoever calls has marked its hold first, and alone, and a marked row    *)
(* never loses its mark, so only a measurement or evidence charges it.  A  *)
(* reading of the circuit at its present revision is the circuit, and a    *)
(* probe with time left is the one it waits for.  The ledger only ever     *)
(* changes by differences, so its lemmas are about sums: how a total       *)
(* changes when one row does, or a set of rows.                            *)
(*                                                                         *)
(* Last, every step is a step of the bill (PaidCalls) or none of it.       *)
(***************************************************************************)
EXTENDS ModelDispatch, TLAPS, FiniteSetTheorems

-----------------------------------------------------------------------------
(* Totals.                                                                   *)
Pair(f, r) == {r} \X (1 .. f[r])

LEMMA UnitsAre ==
  ASSUME NEW f, NEW R
  PROVE  \A x : x \in Units(f, R) <=> \E r \in R : x \in Pair(f, r)
BY DEF Units, Pair

LEMMA PairCount ==
  ASSUME NEW f, NEW r, f[r] \in Nat
  PROVE  IsFiniteSet(Pair(f, r)) /\ Cardinality(Pair(f, r)) = f[r]
<1>1. IsFiniteSet(1 .. f[r]) /\ Cardinality(1 .. f[r]) = f[r]
  <2>1. 1 \in Int /\ f[r] \in Int
    OBVIOUS
  <2>2. IsFiniteSet(1 .. f[r]) /\ Cardinality(1 .. f[r]) = IF 1 > f[r] THEN 0 ELSE f[r] - 1 + 1
    BY <2>1, FS_Interval
  <2>3. f[r] = 0 => 1 .. f[r] = {}
    OBVIOUS
  <2> QED BY <2>2, <2>3
<1>2. IsFiniteSet({r}) /\ Cardinality({r}) = 1
  BY FS_Singleton
<1>3. IsFiniteSet(Pair(f, r)) /\ Cardinality(Pair(f, r)) = 1 * f[r]
  BY <1>1, <1>2, FS_Product DEF Pair
<1> QED BY <1>3

LEMMA TotalType ==
  ASSUME NEW R, IsFiniteSet(R), NEW f, \A r \in R : f[r] \in Nat
  PROVE  IsFiniteSet(Units(f, R)) /\ Total(f, R) \in Nat
<1> DEFINE g == [r \in R |-> Pair(f, r)]
           T == {Pair(f, r) : r \in R}
<1>1. g \in Surjection(R, T)
  BY DEF Surjection
<1>2. IsFiniteSet(T)
  BY <1>1, FS_Surjection
<1>3. \A S \in T : IsFiniteSet(S)
  BY PairCount
<1>4. IsFiniteSet(UNION T)
  <2> HIDE DEF T
  <2> QED BY <1>2, <1>3, FS_UNION
<1>5. Units(f, R) = UNION T
  BY DEF Units, Pair
<1> QED BY <1>4, <1>5, FS_CardinalityType DEF Total

(* Requests apart add up, and no request adds less than nothing.             *)
LEMMA TotalSplit ==
  ASSUME NEW R, IsFiniteSet(R), NEW f, \A r \in R : f[r] \in Nat,
         NEW A, NEW B, A \union B = R, A \cap B = {}
  PROVE  Total(f, R) = Total(f, A) + Total(f, B)
<1>1. IsFiniteSet(A) /\ IsFiniteSet(B)
  BY FS_Subset
<1>2. IsFiniteSet(Units(f, A)) /\ IsFiniteSet(Units(f, B)) /\ Total(f, A) \in Nat /\ Total(f, B) \in Nat
  BY <1>1, TotalType
<1>3. Units(f, R) = Units(f, A) \union Units(f, B)
  BY UnitsAre
<1>4. Units(f, A) \cap Units(f, B) = {}
  <2> SUFFICES ASSUME NEW x, x \in Units(f, A), x \in Units(f, B) PROVE FALSE
    OBVIOUS
  <2>1. PICK a \in A : x \in Pair(f, a)
    BY UnitsAre
  <2>2. PICK b \in B : x \in Pair(f, b)
    BY UnitsAre
  <2>3. x[1] = a /\ x[1] = b
    BY <2>1, <2>2 DEF Pair
  <2> QED BY <2>3
<1>5. Cardinality({}) = 0
  BY FS_EmptySet
<1>6. Cardinality(Units(f, A) \union Units(f, B)) =
        Cardinality(Units(f, A)) + Cardinality(Units(f, B)) - Cardinality(Units(f, A) \cap Units(f, B))
  BY <1>2, FS_Union
<1>7. Cardinality(Units(f, A) \cap Units(f, B)) = 0
  BY <1>4, <1>5
<1>8. /\ Total(f, R) = Cardinality(Units(f, A) \union Units(f, B))
      /\ Total(f, A) = Cardinality(Units(f, A)) /\ Total(f, B) = Cardinality(Units(f, B))
  BY <1>3 DEF Total
<1> QED BY <1>2, <1>6, <1>7, <1>8

LEMMA TotalOne ==
  ASSUME NEW f, NEW r, f[r] \in Nat
  PROVE  Total(f, {r}) = f[r]
<1>1. Units(f, {r}) = Pair(f, r)
  <2>1. \A x : x \in Units(f, {r}) <=> \E q \in {r} : x \in Pair(f, q)
    BY UnitsAre
  <2>2. \A x : x \in Units(f, {r}) <=> x \in Pair(f, r)
    BY <2>1
  <2> QED BY <2>2
<1> QED BY <1>1, PairCount DEF Total

LEMMA TotalEqual ==
  ASSUME NEW R, NEW f, NEW g, \A r \in R : f[r] = g[r]
  PROVE  Total(f, R) = Total(g, R)
BY DEF Total, Units

LEMMA TotalMonotone ==
  ASSUME NEW R, IsFiniteSet(R), NEW f, NEW g,
         \A r \in R : f[r] \in Nat /\ g[r] \in Nat /\ f[r] <= g[r]
  PROVE  Total(f, R) <= Total(g, R)
<1>1. Units(f, R) \subseteq Units(g, R)
  <2> SUFFICES ASSUME NEW x, x \in Units(f, R) PROVE x \in Units(g, R)
    OBVIOUS
  <2>1. PICK r \in R : x \in Pair(f, r)
    BY UnitsAre
  <2>2. 1 .. f[r] \subseteq 1 .. g[r]
    OBVIOUS
  <2>3. x \in Pair(g, r)
    BY <2>1, <2>2 DEF Pair
  <2> QED BY <2>3, UnitsAre
<1>2. IsFiniteSet(Units(g, R))
  BY TotalType
<1> QED BY <1>1, <1>2, FS_Subset DEF Total

LEMMA TotalZero ==
  ASSUME NEW R, NEW f, \A r \in R : f[r] = 0
  PROVE  Total(f, R) = 0
<1>1. Units(f, R) = {}
  BY UnitsAre DEF Pair
<1> QED BY <1>1, FS_EmptySet DEF Total

(* Two amounts of which each request has at most one.                        *)
LEMMA TotalSum ==
  ASSUME NEW R, IsFiniteSet(R), NEW f, NEW g, NEW h,
         \A r \in R : /\ f[r] \in Nat /\ g[r] \in Nat /\ h[r] = f[r] + g[r]
                      /\ f[r] = 0 \/ g[r] = 0
  PROVE  Total(h, R) = Total(f, R) + Total(g, R)
<1> DEFINE A == {r \in R : g[r] = 0}
           B == R \ A
<1>0. \A r \in R : h[r] \in Nat
  OBVIOUS
<1>1. Total(h, R) = Total(h, A) + Total(h, B)
  BY <1>0, TotalSplit
<1>2. Total(f, R) = Total(f, A) + Total(f, B)
  BY TotalSplit
<1>3. Total(g, R) = Total(g, A) + Total(g, B)
  BY TotalSplit
<1>4. Total(h, A) = Total(f, A)
  BY TotalEqual
<1>5. Total(h, B) = Total(g, B)
  BY TotalEqual
<1>6. \A r \in A : g[r] = 0
  OBVIOUS
<1>7. \A r \in B : f[r] = 0
  OBVIOUS
<1>9. Total(g, A) = 0 /\ Total(f, B) = 0
  BY <1>6, <1>7, TotalZero
<1>10. IsFiniteSet(A) /\ IsFiniteSet(B)
  BY FS_Subset
<1>11. Total(f, A) \in Nat /\ Total(g, B) \in Nat
  BY <1>10, TotalType
<1> HIDE DEF A, B
<1> QED BY <1>1, <1>2, <1>3, <1>4, <1>5, <1>9, <1>11

(* Changing one request's amount.                                            *)
LEMMA TotalChange ==
  ASSUME NEW R, IsFiniteSet(R), NEW r \in R, NEW f, NEW g,
         \A q \in R : /\ f[q] \in Nat /\ g[q] \in Nat
                      /\ q # r => g[q] = f[q]
  PROVE  Total(g, R) = Total(f, R) - f[r] + g[r]
<1> DEFINE B == R \ {r}
<1>1. Total(f, R) = Total(f, {r}) + Total(f, B)
  BY TotalSplit
<1>2. Total(g, R) = Total(g, {r}) + Total(g, B)
  BY TotalSplit
<1>3. Total(f, {r}) = f[r] /\ Total(g, {r}) = g[r]
  BY TotalOne
<1>4. Total(f, B) = Total(g, B)
  BY TotalEqual
<1>5. IsFiniteSet(B)
  BY FS_Subset
<1>6. Total(f, B) \in Nat
  BY <1>5, TotalType
<1> HIDE DEF B
<1> QED BY <1>1, <1>2, <1>3, <1>4, <1>6

-----------------------------------------------------------------------------
(* The ledger holds what open reservations hold and has charged what settled *)
(* ones cost, and no budget is exceeded.  A marked row was called, or may    *)
(* have been: it leaves "reserved" only for a measured settlement or for     *)
(* evidence.                                                                 *)
HeldOf(x, r) == IF x.state = "reserved" THEN Reserved[r] ELSE 0
ChargedOf(x) == IF x.state = "settled" THEN x.actual ELSE 0

HeldBy(rows) == [r \in Requests |-> HeldOf(rows[r], r)]
ChargedBy(rows) == [r \in Requests |-> ChargedOf(rows[r])]

IsSound(x) ==
  /\ x.marked => x.state \in {"reserved", "settled"} \/ x.resolved
  /\ x.resolved => x.state \in {"settled", "released"}
  /\ x.pending => x.state = "reserved" /\ ~x.lapsed

WithinBudgets(rows) ==
  /\ Total(Commitment(rows), Requests) <= Budget
  /\ \A t \in Tenants : Total(Commitment(rows), OfTenant(t)) <= TenantBudget

BooksBalance(rows, h, s) ==
  /\ rows \in [Requests -> Row]
  /\ \A r \in Requests : IsSound(rows[r])
  /\ h = Total(HeldBy(rows), Requests)
  /\ s = Total(ChargedBy(rows), Requests)
  /\ WithinBudgets(rows)

SpendInv == turn \in [Tenants -> Nat] /\ BooksBalance(row, held, spent)

LEMMA Amounts ==
  ASSUME NEW rows \in [Requests -> Row]
  PROVE  /\ \A r \in Requests : /\ HeldBy(rows)[r] = HeldOf(rows[r], r)
                                /\ ChargedBy(rows)[r] = ChargedOf(rows[r])
                                /\ HeldOf(rows[r], r) \in Nat /\ ChargedOf(rows[r]) \in Nat
                                /\ HeldOf(rows[r], r) = 0 \/ ChargedOf(rows[r]) = 0
                                /\ Commitment(rows)[r] = HeldOf(rows[r], r) + ChargedOf(rows[r])
         /\ IsFiniteSet(Requests) /\ \A t : IsFiniteSet(OfTenant(t))
<1>1. ASSUME NEW r \in Requests
      PROVE  /\ HeldBy(rows)[r] = HeldOf(rows[r], r)
             /\ ChargedBy(rows)[r] = ChargedOf(rows[r])
             /\ HeldOf(rows[r], r) \in Nat /\ ChargedOf(rows[r]) \in Nat
             /\ HeldOf(rows[r], r) = 0 \/ ChargedOf(rows[r]) = 0
             /\ Commitment(rows)[r] = HeldOf(rows[r], r) + ChargedOf(rows[r])
  <2>1. rows[r].actual \in Nat /\ Reserved[r] \in Nat
    BY SpendAssumption DEF Row
  <2>2. HeldBy(rows)[r] = HeldOf(rows[r], r) /\ ChargedBy(rows)[r] = ChargedOf(rows[r])
    BY DEF HeldBy, ChargedBy
  <2>3. /\ HeldOf(rows[r], r) \in Nat /\ ChargedOf(rows[r]) \in Nat
        /\ HeldOf(rows[r], r) = 0 \/ ChargedOf(rows[r]) = 0
    BY <2>1 DEF HeldOf, ChargedOf
  <2>4. Commitment(rows)[r] = HeldOf(rows[r], r) + ChargedOf(rows[r])
    BY <2>1 DEF Commitment, HeldOf, ChargedOf
  <2> QED BY <2>2, <2>3, <2>4
<1>2. IsFiniteSet(Requests)
  BY SpendAssumption
<1>3. \A t : IsFiniteSet(OfTenant(t))
  <2> SUFFICES ASSUME NEW t PROVE IsFiniteSet(OfTenant(t))
    OBVIOUS
  <2>1. OfTenant(t) \subseteq Requests
    BY DEF OfTenant
  <2> QED BY <1>2, <2>1, FS_Subset
<1> QED BY <1>1, <1>2, <1>3

(* What the ledger holds and has charged is what the rows commit.            *)
LEMMA BooksAddUp ==
  ASSUME NEW rows, NEW h, NEW s, BooksBalance(rows, h, s)
  PROVE  h \in Nat /\ s \in Nat /\ h + s <= Budget
<1>1. rows \in [Requests -> Row]
  BY DEF BooksBalance
<1>2. \A r \in Requests :
        /\ HeldBy(rows)[r] \in Nat /\ ChargedBy(rows)[r] \in Nat
        /\ Commitment(rows)[r] = HeldBy(rows)[r] + ChargedBy(rows)[r]
        /\ HeldBy(rows)[r] = 0 \/ ChargedBy(rows)[r] = 0
  BY <1>1, Amounts
<1>3. IsFiniteSet(Requests)
  BY SpendAssumption
<1>4. Total(Commitment(rows), Requests) = Total(HeldBy(rows), Requests) + Total(ChargedBy(rows), Requests)
  BY <1>2, <1>3, TotalSum
<1>5. Total(HeldBy(rows), Requests) \in Nat /\ Total(ChargedBy(rows), Requests) \in Nat
  BY <1>2, <1>3, TotalType
<1> QED BY <1>4, <1>5 DEF BooksBalance, WithinBudgets

(* Rows that commit no more than others fit where those fit.                 *)
LEMMA NoMoreFits ==
  ASSUME NEW old \in [Requests -> Row], NEW new \in [Requests -> Row], WithinBudgets(old),
         \A r \in Requests : HeldOf(new[r], r) + ChargedOf(new[r]) <= HeldOf(old[r], r) + ChargedOf(old[r])
  PROVE  WithinBudgets(new)
<1>1. \A r \in Requests : /\ Commitment(new)[r] \in Nat /\ Commitment(old)[r] \in Nat
                          /\ Commitment(new)[r] <= Commitment(old)[r]
  <2>1. \A r \in Requests : /\ Commitment(new)[r] = HeldOf(new[r], r) + ChargedOf(new[r])
                            /\ HeldOf(new[r], r) \in Nat /\ ChargedOf(new[r]) \in Nat
    BY Amounts
  <2>2. \A r \in Requests : /\ Commitment(old)[r] = HeldOf(old[r], r) + ChargedOf(old[r])
                            /\ HeldOf(old[r], r) \in Nat /\ ChargedOf(old[r]) \in Nat
    BY Amounts
  <2> QED BY <2>1, <2>2
<1>2. IsFiniteSet(Requests) /\ \A t : IsFiniteSet(OfTenant(t)) /\ OfTenant(t) \subseteq Requests
  BY Amounts DEF OfTenant
<1>3. Total(Commitment(new), Requests) <= Total(Commitment(old), Requests)
  BY <1>1, <1>2, TotalMonotone
<1>4. \A t : Total(Commitment(new), OfTenant(t)) <= Total(Commitment(old), OfTenant(t))
  BY <1>1, <1>2, TotalMonotone
<1>5. /\ Total(Commitment(new), Requests) \in Nat /\ Total(Commitment(old), Requests) \in Nat
      /\ \A t : /\ Total(Commitment(new), OfTenant(t)) \in Nat
                /\ Total(Commitment(old), OfTenant(t)) \in Nat
  BY <1>1, <1>2, TotalType
<1> QED BY <1>3, <1>4, <1>5, SpendAssumption DEF WithinBudgets

(* One row changes, and the ledger with it.                                  *)
LEMMA OneRowChanges ==
  ASSUME NEW rows, NEW h, NEW s, BooksBalance(rows, h, s),
         NEW r \in Requests, NEW x \in Row, IsSound(x), WithinBudgets([rows EXCEPT ![r] = x])
  PROVE  BooksBalance([rows EXCEPT ![r] = x], h - HeldOf(rows[r], r) + HeldOf(x, r),
                      s - ChargedOf(rows[r]) + ChargedOf(x))
<1> DEFINE new == [rows EXCEPT ![r] = x]
<1>1. rows \in [Requests -> Row] /\ h = Total(HeldBy(rows), Requests)
      /\ s = Total(ChargedBy(rows), Requests) /\ IsFiniteSet(Requests)
  BY SpendAssumption DEF BooksBalance
<1>2. new \in [Requests -> Row] /\ new[r] = x /\ \A q \in Requests : q # r => new[q] = rows[q]
  BY <1>1
<1>3. \A q \in Requests : IsSound(new[q])
  BY <1>2 DEF BooksBalance
<1> HIDE DEF new
<1>4. \A q \in Requests : /\ HeldBy(new)[q] \in Nat /\ HeldBy(rows)[q] \in Nat
                          /\ ChargedBy(new)[q] \in Nat /\ ChargedBy(rows)[q] \in Nat
                          /\ q # r => HeldBy(new)[q] = HeldBy(rows)[q] /\ ChargedBy(new)[q] = ChargedBy(rows)[q]
  <2>1. \A q \in Requests : /\ HeldBy(new)[q] \in Nat /\ HeldBy(new)[q] = HeldOf(new[q], q)
                            /\ ChargedBy(new)[q] \in Nat /\ ChargedBy(new)[q] = ChargedOf(new[q])
    BY <1>2, Amounts
  <2>2. \A q \in Requests : /\ HeldBy(rows)[q] \in Nat /\ HeldBy(rows)[q] = HeldOf(rows[q], q)
                            /\ ChargedBy(rows)[q] \in Nat /\ ChargedBy(rows)[q] = ChargedOf(rows[q])
    BY <1>1, Amounts
  <2> QED BY <1>2, <2>1, <2>2
<1>5. /\ Total(HeldBy(new), Requests) = Total(HeldBy(rows), Requests) - HeldBy(rows)[r] + HeldBy(new)[r]
      /\ Total(ChargedBy(new), Requests) =
           Total(ChargedBy(rows), Requests) - ChargedBy(rows)[r] + ChargedBy(new)[r]
  BY <1>1, <1>4, TotalChange
<1>6. /\ HeldBy(rows)[r] = HeldOf(rows[r], r) /\ HeldBy(new)[r] = HeldOf(x, r)
      /\ ChargedBy(rows)[r] = ChargedOf(rows[r]) /\ ChargedBy(new)[r] = ChargedOf(x)
  BY <1>1, <1>2, Amounts
<1>7. WithinBudgets(new)
  BY DEF new
<1>8. BooksBalance(new, h - HeldOf(rows[r], r) + HeldOf(x, r), s - ChargedOf(rows[r]) + ChargedOf(x))
  BY <1>1, <1>2, <1>3, <1>5, <1>6, <1>7 DEF BooksBalance
<1> QED BY <1>8 DEF new

LEMMA OneRowShrinks ==
  ASSUME NEW rows, NEW h, NEW s, BooksBalance(rows, h, s),
         NEW r \in Requests, NEW x \in Row, IsSound(x),
         HeldOf(x, r) + ChargedOf(x) <= HeldOf(rows[r], r) + ChargedOf(rows[r])
  PROVE  BooksBalance([rows EXCEPT ![r] = x], h - HeldOf(rows[r], r) + HeldOf(x, r),
                      s - ChargedOf(rows[r]) + ChargedOf(x))
<1>1. rows \in [Requests -> Row] /\ WithinBudgets(rows)
  BY DEF BooksBalance
<1>2. PICK new : new = [rows EXCEPT ![r] = x]
  OBVIOUS
<1>3. new \in [Requests -> Row] /\ new[r] = x /\ \A q \in Requests : q # r => new[q] = rows[q]
  BY <1>1, <1>2
<1>4. \A q \in Requests : HeldOf(new[q], q) + ChargedOf(new[q]) <= HeldOf(rows[q], q) + ChargedOf(rows[q])
  <2>1. \A q \in Requests : HeldOf(rows[q], q) \in Nat /\ ChargedOf(rows[q]) \in Nat
    BY <1>1, Amounts
  <2> QED BY <1>3, <2>1
<1>5. WithinBudgets(new)
  BY <1>1, <1>3, <1>4, NoMoreFits
<1> QED BY <1>2, <1>5, OneRowChanges

-----------------------------------------------------------------------------
(* What each function does to the books.                                     *)
(* A row that is not settled, or settled on evidence, stays so, as does what *)
(* was charged for a measured one; and nobody may call who might not before. *)
Keeps(x, y) ==
  /\ y.marked = x.marked
  /\ (y.state = "settled" /\ ~y.resolved) <=> (x.state = "settled" /\ ~x.resolved)
  /\ x.state = "settled" /\ ~x.resolved => y.actual = x.actual

LEMMA SweptRow ==
  ASSUME SpendInv, NEW r \in Requests
  PROVE  /\ Swept[r] \in Row /\ IsSound(Swept[r]) /\ Keeps(row[r], Swept[r])
         /\ ChargedOf(Swept[r]) = ChargedOf(row[r])
         /\ HeldOf(row[r], r) = HeldOf(Swept[r], r) + (IF r \in Refunded THEN Reserved[r] ELSE 0)
         /\ r \in Refunded => HeldOf(Swept[r], r) = 0
         /\ Swept[r].state = "queued" => row[r].state = "queued" /\ Swept[r] = row[r]
<1>1. row[r] \in Row /\ IsSound(row[r]) /\ Reserved[r] \in Nat
  BY SpendAssumption DEF SpendInv, BooksBalance
<1>2. Swept[r] = IF r \in Parked THEN [row[r] EXCEPT !.pending = TRUE, !.lapsed = FALSE]
                 ELSE IF r \in Refunded THEN [row[r] EXCEPT !.state = "expired", !.lapsed = FALSE]
                 ELSE IF r \in Overdue THEN [row[r] EXCEPT !.state = "queue_expired", !.lapsed = FALSE]
                 ELSE row[r]
  BY DEF Swept
<1>3. CASE r \in Parked
  <2>1. Swept[r] = [row[r] EXCEPT !.pending = TRUE, !.lapsed = FALSE]
        /\ row[r].state = "reserved" /\ r \notin Refunded
    BY <1>2, <1>3 DEF Parked, Late
  <2>2. /\ Swept[r] \in Row /\ Swept[r].state = "reserved" /\ Swept[r].marked = row[r].marked
        /\ Swept[r].resolved = row[r].resolved /\ Swept[r].actual = row[r].actual
    BY <1>1, <2>1 DEF Row
  <2>3. Swept[r].lapsed = FALSE
    BY <1>1, <2>1 DEF Row
  <2> QED BY <1>1, <2>1, <2>2, <2>3 DEF IsSound, Keeps, ChargedOf, HeldOf
<1>4. CASE r \in Refunded
  <2>1. Swept[r] = [row[r] EXCEPT !.state = "expired", !.lapsed = FALSE]
        /\ row[r].state = "reserved" /\ ~row[r].marked /\ row[r].lapsed
    BY <1>2, <1>4 DEF Refunded, Parked, Late
  <2>2. /\ Swept[r] \in Row /\ Swept[r].state = "expired" /\ Swept[r].marked = row[r].marked
        /\ Swept[r].resolved = row[r].resolved /\ Swept[r].actual = row[r].actual
        /\ Swept[r].pending = row[r].pending
    BY <1>1, <2>1 DEF Row, States
  <2> QED BY <1>1, <1>4, <2>1, <2>2 DEF IsSound, Keeps, ChargedOf, HeldOf
<1>5. CASE r \in Overdue /\ r \notin Parked /\ r \notin Refunded
  <2>1. Swept[r] = [row[r] EXCEPT !.state = "queue_expired", !.lapsed = FALSE]
        /\ row[r].state = "queued"
    BY <1>2, <1>5 DEF Overdue
  <2>2. /\ Swept[r] \in Row /\ Swept[r].state = "queue_expired" /\ Swept[r].marked = row[r].marked
        /\ Swept[r].resolved = row[r].resolved /\ Swept[r].actual = row[r].actual
        /\ Swept[r].pending = row[r].pending
    BY <1>1, <2>1 DEF Row, States
  <2> QED BY <1>1, <1>5, <2>1, <2>2 DEF IsSound, Keeps, ChargedOf, HeldOf
<1>6. CASE r \notin Overdue /\ r \notin Parked /\ r \notin Refunded
  <2>1. Swept[r] = row[r]
    BY <1>2, <1>6
  <2>2. HeldOf(row[r], r) \in Nat
    BY <1>1 DEF HeldOf
  <2> QED BY <1>1, <1>6, <2>1, <2>2 DEF Keeps
<1> QED BY <1>3, <1>4, <1>5, <1>6

LEMMA SweepKeeps ==
  ASSUME SpendInv
  PROVE  BooksBalance(Swept, HeldAfterSweep, spent)
<1>1. /\ row \in [Requests -> Row] /\ IsFiniteSet(Requests) /\ WithinBudgets(row)
      /\ held = Total(HeldBy(row), Requests) /\ spent = Total(ChargedBy(row), Requests)
  BY SpendAssumption DEF SpendInv, BooksBalance
<1>2. Swept \in [Requests -> Row] /\ \A r \in Requests : IsSound(Swept[r])
  <2>1. \A r \in Requests : Swept[r] \in Row /\ IsSound(Swept[r])
    BY SweptRow
  <2>2. Swept = [r \in Requests |-> Swept[r]]
    BY DEF Swept
  <2> QED BY <2>1, <2>2
<1> DEFINE g == [r \in Requests |-> IF r \in Refunded THEN Reserved[r] ELSE 0]
<1>3. Refunded \subseteq Requests /\ \A r \in Requests : Reserved[r] \in Nat
  BY SpendAssumption DEF Refunded
<1>4. Total(g, Requests) = Total(Reserved, Refunded)
  <2>1. \A r \in Requests : g[r] \in Nat
    BY <1>3
  <2>2. Total(g, Requests) = Total(g, Refunded) + Total(g, Requests \ Refunded)
    BY <1>1, <1>3, <2>1, TotalSplit
  <2>3. Total(g, Refunded) = Total(Reserved, Refunded)
    BY <1>3, TotalEqual
  <2>4. Total(g, Requests \ Refunded) = 0
    BY TotalZero
  <2>5. Total(Reserved, Refunded) \in Nat
    BY <1>1, <1>3, FS_Subset, TotalType
  <2> HIDE DEF g
  <2> QED BY <2>2, <2>3, <2>4, <2>5
<1>5. Total(HeldBy(row), Requests) = Total(HeldBy(Swept), Requests) + Total(g, Requests)
  <2>1. \A r \in Requests : /\ HeldBy(Swept)[r] \in Nat /\ HeldBy(Swept)[r] = HeldOf(Swept[r], r)
                            /\ HeldBy(row)[r] = HeldOf(row[r], r)
    BY <1>1, <1>2, Amounts
  <2>2. \A r \in Requests : /\ g[r] \in Nat /\ HeldOf(row[r], r) = HeldOf(Swept[r], r) + g[r]
                            /\ HeldOf(Swept[r], r) = 0 \/ g[r] = 0
    BY <1>3, SweptRow
  <2> HIDE DEF g
  <2> QED BY <1>1, <2>1, <2>2, TotalSum
<1>6. Total(ChargedBy(Swept), Requests) = Total(ChargedBy(row), Requests)
  <2>1. \A r \in Requests : ChargedBy(Swept)[r] = ChargedBy(row)[r]
    BY <1>1, <1>2, SweptRow, Amounts
  <2> QED BY <2>1, TotalEqual
<1>7. WithinBudgets(Swept)
  <2>1. \A r \in Requests : HeldOf(Swept[r], r) + ChargedOf(Swept[r]) <= HeldOf(row[r], r) + ChargedOf(row[r])
    <3> SUFFICES ASSUME NEW r \in Requests
                 PROVE  HeldOf(Swept[r], r) + ChargedOf(Swept[r]) <= HeldOf(row[r], r) + ChargedOf(row[r])
      OBVIOUS
    <3>1. HeldOf(Swept[r], r) \in Nat /\ ChargedOf(Swept[r]) \in Nat
      BY <1>2, Amounts
    <3> QED BY <1>3, <3>1, SweptRow
  <2> QED BY <1>1, <1>2, <2>1, NoMoreFits
<1>8. Total(HeldBy(Swept), Requests) \in Nat /\ Total(Reserved, Refunded) \in Nat
  <2>1. \A r \in Requests : HeldBy(Swept)[r] \in Nat
    BY <1>2, Amounts
  <2> QED BY <1>1, <1>3, <2>1, FS_Subset, TotalType
<1>9. HeldAfterSweep = Total(HeldBy(Swept), Requests)
  <2> HIDE DEF g
  <2> QED BY <1>1, <1>4, <1>5, <1>8 DEF HeldAfterSweep
<1> QED BY <1>1, <1>2, <1>6, <1>7, <1>9 DEF BooksBalance

AllKeep == \A q \in Requests : Keeps(row[q], row'[q])

(* A request that has not been admitted, put in the queue.                   *)
LEMMA QueuedRow ==
  ASSUME SpendInv, NEW r \in Requests, Unqueued(r)
  PROVE  /\ Swept \in [Requests -> Row] /\ Swept[r].state \in {"none", "queued"}
         /\ \E x \in Row :
              /\ x.state = "queued" /\ x.marked = FALSE /\ x.resolved = FALSE
              /\ x.pending = FALSE
              /\ Waiting(r) = [Swept EXCEPT ![r] = x]
<1>1. Swept \in [Requests -> Row] /\ Swept[r] \in Row /\ IsSound(Swept[r])
  BY SweepKeeps DEF BooksBalance
<1>2. Swept[r].state \in {"none", "queued"}
  BY DEF Unqueued
<1>3. ~Swept[r].marked /\ ~Swept[r].resolved /\ ~Swept[r].pending
  BY <1>1, <1>2 DEF IsSound
<1>4. Cardinality({q \in Requests : row[q].place # 0}) \in Nat
  BY SpendAssumption, FS_Subset, FS_CardinalityType
<1>5. PICK n \in Nat : n = IF Swept[r].place = 0
                           THEN 1 + Cardinality({q \in Requests : row[q].place # 0})
                           ELSE Swept[r].place
  <2>1. Swept[r].place \in Nat
    BY <1>1 DEF Row
  <2>2. 1 + Cardinality({q \in Requests : row[q].place # 0}) \in Nat
    BY <1>4
  <2> QED BY <2>1, <2>2
<1> DEFINE x == [Swept[r] EXCEPT !.state = "queued", !.place = n]
<1>6. /\ x \in Row /\ x.state = "queued" /\ x.marked = Swept[r].marked
      /\ x.resolved = Swept[r].resolved /\ x.pending = Swept[r].pending
  BY <1>1, <1>5 DEF Row, States
<1>7. Waiting(r) = [Swept EXCEPT ![r] = x]
  BY <1>1, <1>5 DEF Waiting
<1>8. x.marked = FALSE /\ x.resolved = FALSE /\ x.pending = FALSE
  BY <1>1, <1>3, <1>6 DEF Row
<1> HIDE DEF x
<1> QED BY <1>1, <1>2, <1>6, <1>7, <1>8

(* One row after the sweep.                                                  *)
LEMMA SweepAndOne ==
  ASSUME SpendInv, NEW r \in Requests, NEW x \in Row, Unqueued(r),
         x.marked = FALSE, x.resolved = FALSE, x.pending = FALSE,
         x.state \in {"queued", "rejected", "reserved"},
         WithinBudgets([Swept EXCEPT ![r] = x])
  PROVE  /\ BooksBalance([Swept EXCEPT ![r] = x], HeldAfterSweep + HeldOf(x, r), spent)
         /\ \A q \in Requests : Keeps(row[q], [Swept EXCEPT ![r] = x][q])
<1>1. /\ Swept \in [Requests -> Row] /\ Swept[r] \in Row /\ IsSound(Swept[r])
      /\ BooksBalance(Swept, HeldAfterSweep, spent)
  BY SweepKeeps DEF BooksBalance
<1>2. HeldOf(Swept[r], r) = 0 /\ ChargedOf(Swept[r]) = 0 /\ ChargedOf(x) = 0 /\ IsSound(x)
  BY DEF Unqueued, HeldOf, ChargedOf, IsSound
<1>3. HeldAfterSweep \in Nat /\ spent \in Nat /\ HeldOf(x, r) \in Nat
  BY <1>1, BooksAddUp, SpendAssumption DEF HeldOf
<1>4. BooksBalance([Swept EXCEPT ![r] = x], HeldAfterSweep - HeldOf(Swept[r], r) + HeldOf(x, r),
                   spent - ChargedOf(Swept[r]) + ChargedOf(x))
  BY <1>1, <1>2, OneRowChanges
<1>5. /\ HeldAfterSweep - HeldOf(Swept[r], r) + HeldOf(x, r) = HeldAfterSweep + HeldOf(x, r)
      /\ spent - ChargedOf(Swept[r]) + ChargedOf(x) = spent
  BY <1>2, <1>3
<1>6. Keeps(row[r], x)
  <2>1. ~Swept[r].marked /\ Swept[r].state # "settled"
    BY <1>1 DEF Unqueued, IsSound
  <2>2. Keeps(row[r], Swept[r]) /\ row[r] \in Row
    BY SweptRow DEF SpendInv, BooksBalance
  <2>3. row[r].marked = FALSE
    BY <1>1, <2>1, <2>2 DEF Keeps, Row
  <2> QED BY <2>1, <2>2, <2>3 DEF Keeps
<1>7. \A q \in Requests : Keeps(row[q], [Swept EXCEPT ![r] = x][q])
  BY <1>1, <1>6, SweptRow
<1> QED BY <1>4, <1>5, <1>7

LEMMA AdmittedFits ==
  ASSUME SpendInv, NEW r \in Requests, NEW x \in Row, Unqueued(r), x.state = "reserved", Fits(r)
  PROVE  WithinBudgets([Swept EXCEPT ![r] = x])
<1> DEFINE new == [Swept EXCEPT ![r] = x]
<1>1. Swept \in [Requests -> Row] /\ WithinBudgets(Swept)
  BY SweepKeeps DEF BooksBalance
<1>2. new \in [Requests -> Row] /\ new[r] = x /\ \A q \in Requests : q # r => new[q] = Swept[q]
  BY <1>1
<1> HIDE DEF new
<1>3. \A q \in Requests : /\ Commitment(new)[q] \in Nat /\ Commitment(Swept)[q] \in Nat
                          /\ q # r => Commitment(new)[q] = Commitment(Swept)[q]
  <2>1. \A q \in Requests : /\ Commitment(new)[q] = HeldOf(new[q], q) + ChargedOf(new[q])
                            /\ HeldOf(new[q], q) \in Nat /\ ChargedOf(new[q]) \in Nat
    BY <1>2, Amounts
  <2>2. \A q \in Requests : /\ Commitment(Swept)[q] = HeldOf(Swept[q], q) + ChargedOf(Swept[q])
                            /\ HeldOf(Swept[q], q) \in Nat /\ ChargedOf(Swept[q]) \in Nat
    BY <1>1, Amounts
  <2> QED BY <1>2, <2>1, <2>2
<1>4. Commitment(Swept)[r] = 0 /\ Commitment(new)[r] = Reserved[r]
  BY <1>2 DEF Commitment, Unqueued
<1>5. IsFiniteSet(Requests) /\ \A t : IsFiniteSet(OfTenant(t)) /\ OfTenant(t) \subseteq Requests
  BY Amounts, <1>1 DEF OfTenant
<1>6. ASSUME NEW R, R \subseteq Requests, IsFiniteSet(R), r \in R
      PROVE  Total(Commitment(new), R) = Total(Commitment(Swept), R) + Reserved[r]
  <2>1. Total(Commitment(new), R) =
          Total(Commitment(Swept), R) - Commitment(Swept)[r] + Commitment(new)[r]
    BY <1>3, <1>6, TotalChange
  <2>2. Total(Commitment(Swept), R) \in Nat /\ Reserved[r] \in Nat
    BY <1>3, <1>6, TotalType, SpendAssumption
  <2> QED BY <1>4, <2>1, <2>2
<1>7. Total(Commitment(new), Requests) <= Budget
  BY <1>5, <1>6 DEF Fits
<1>8. ASSUME NEW t \in Tenants PROVE Total(Commitment(new), OfTenant(t)) <= TenantBudget
  <2>1. CASE t = TenantOf[r]
    <3>1. r \in OfTenant(t)
      BY <2>1 DEF OfTenant
    <3> QED BY <1>5, <1>6, <2>1, <3>1 DEF Fits
  <2>2. CASE t # TenantOf[r]
    <3>1. \A q \in OfTenant(t) : Commitment(new)[q] = Commitment(Swept)[q]
      BY <1>3, <2>2 DEF OfTenant
    <3>2. Total(Commitment(new), OfTenant(t)) = Total(Commitment(Swept), OfTenant(t))
      BY <3>1, TotalEqual
    <3> QED BY <1>1, <3>2 DEF WithinBudgets
  <2> QED BY <2>1, <2>2
<1>9. WithinBudgets(new)
  BY <1>7, <1>8 DEF WithinBudgets
<1> QED BY <1>9 DEF new

LEMMA ReserveKeeps ==
  ASSUME SpendInv, NEW r \in Requests, Reserve(r)
  PROVE  SpendInv' /\ AllKeep
<1>1. BooksBalance(Swept, HeldAfterSweep, spent) /\ Swept \in [Requests -> Row]
      /\ WithinBudgets(Swept) /\ HeldAfterSweep \in Nat
  BY SweepKeeps, BooksAddUp DEF BooksBalance
<1>2. CASE ReserveKnown(r)
  <2>1. row' = Swept /\ held' = HeldAfterSweep /\ UNCHANGED <<turn, spent>>
    BY <1>2 DEF ReserveKnown
  <2> QED BY <1>1, <2>1, SweptRow DEF SpendInv, AllKeep
<1>3. ASSUME Unqueued(r), NEW x \in Row, x.marked = FALSE, x.resolved = FALSE,
             x.state \in {"queued", "rejected"}
      PROVE  WithinBudgets([Swept EXCEPT ![r] = x]) /\ HeldOf(x, r) = 0
  <2>1. PICK new : new = [Swept EXCEPT ![r] = x]
    OBVIOUS
  <2>2. new \in [Requests -> Row] /\ new[r] = x /\ \A q \in Requests : q # r => new[q] = Swept[q]
    BY <1>1, <2>1
  <2>3. HeldOf(x, r) = 0 /\ ChargedOf(x) = 0
    BY <1>3 DEF HeldOf, ChargedOf
  <2>4. \A q \in Requests : HeldOf(Swept[q], q) \in Nat /\ ChargedOf(Swept[q]) \in Nat
    BY <1>1, Amounts
  <2>5. \A q \in Requests : HeldOf(new[q], q) + ChargedOf(new[q]) <= HeldOf(Swept[q], q) + ChargedOf(Swept[q])
    BY <2>2, <2>3, <2>4
  <2> QED BY <1>1, <2>1, <2>2, <2>3, <2>5, NoMoreFits
<1>4. CASE ReserveWaits(r)
  <2>1. Unqueued(r) /\ row' = Waiting(r) /\ held' = HeldAfterSweep /\ UNCHANGED <<turn, spent>>
    BY <1>4 DEF ReserveWaits
  <2>2. PICK x \in Row : /\ x.state = "queued" /\ x.marked = FALSE /\ x.resolved = FALSE
                         /\ x.pending = FALSE /\ Waiting(r) = [Swept EXCEPT ![r] = x]
    BY <2>1, QueuedRow
  <2>3. WithinBudgets([Swept EXCEPT ![r] = x]) /\ HeldOf(x, r) = 0
    BY <1>3, <2>1, <2>2
  <2>4. /\ BooksBalance([Swept EXCEPT ![r] = x], HeldAfterSweep + HeldOf(x, r), spent)
        /\ \A q \in Requests : Keeps(row[q], [Swept EXCEPT ![r] = x][q])
    BY <2>1, <2>2, <2>3, SweepAndOne
  <2>5. HeldAfterSweep + HeldOf(x, r) = HeldAfterSweep
    BY <1>1, <2>3
  <2>6. BooksBalance(row', held', spent')
    BY <2>1, <2>2, <2>4, <2>5
  <2> QED BY <2>1, <2>2, <2>4, <2>6 DEF SpendInv, AllKeep
<1>5. CASE ReserveRejected(r)
  <2>1. Unqueued(r) /\ row' = [Swept EXCEPT ![r].state = "rejected"] /\ held' = HeldAfterSweep
        /\ UNCHANGED <<turn, spent>>
    BY <1>5 DEF ReserveRejected, Unqueued
  <2>2. PICK x : x = [Swept[r] EXCEPT !.state = "rejected"]
    OBVIOUS
  <2>3. row' = [Swept EXCEPT ![r] = x]
    BY <1>1, <2>1, <2>2
  <2>4. /\ x \in Row /\ x.state = "rejected" /\ x.marked = Swept[r].marked
        /\ x.resolved = Swept[r].resolved /\ x.pending = Swept[r].pending
    BY <1>1, <2>2 DEF Row, States
  <2>5. x.marked = FALSE /\ x.resolved = FALSE /\ x.pending = FALSE
    <3>1. ~Swept[r].marked /\ ~Swept[r].resolved /\ ~Swept[r].pending
      BY <1>1, <2>1 DEF BooksBalance, IsSound, Unqueued
    <3> QED BY <1>1, <2>4, <3>1 DEF Row
  <2>6. WithinBudgets([Swept EXCEPT ![r] = x]) /\ HeldOf(x, r) = 0
    BY <1>3, <2>1, <2>4, <2>5
  <2>7. /\ BooksBalance([Swept EXCEPT ![r] = x], HeldAfterSweep + HeldOf(x, r), spent)
        /\ \A q \in Requests : Keeps(row[q], [Swept EXCEPT ![r] = x][q])
    BY <2>1, <2>4, <2>5, <2>6, SweepAndOne
  <2>8. HeldAfterSweep + HeldOf(x, r) = HeldAfterSweep
    BY <1>1, <2>6
  <2>9. BooksBalance(row', held', spent')
    BY <2>1, <2>3, <2>7, <2>8
  <2> QED BY <2>1, <2>3, <2>7, <2>9 DEF SpendInv, AllKeep
<1>6. CASE ReserveAdmitted(r)
  <2>1. /\ Unqueued(r) /\ Fits(r) /\ UNCHANGED spent
        /\ row' = [Waiting(r) EXCEPT ![r].state = "reserved", ![r].lapsed = FALSE]
        /\ held' = HeldAfterSweep + Reserved[r]
        /\ turn' = [turn EXCEPT ![TenantOf[r]] = 1 + Cardinality(Admitted)]
    BY <1>6 DEF ReserveAdmitted
  <2>2. PICK x \in Row : /\ x.state = "queued" /\ x.marked = FALSE /\ x.resolved = FALSE
                         /\ x.pending = FALSE /\ Waiting(r) = [Swept EXCEPT ![r] = x]
    BY <2>1, QueuedRow
  <2>3. PICK y : y = [x EXCEPT !.state = "reserved", !.lapsed = FALSE]
    OBVIOUS
  <2>4. y \in Row /\ y.state = "reserved" /\ y.marked = FALSE /\ y.resolved = FALSE /\ y.pending = FALSE
    BY <2>2, <2>3 DEF Row, States
  <2>5. row' = [Swept EXCEPT ![r] = y]
    BY <1>1, <2>1, <2>2, <2>3
  <2>6. WithinBudgets([Swept EXCEPT ![r] = y])
    BY <2>1, <2>4, AdmittedFits
  <2>7. /\ BooksBalance([Swept EXCEPT ![r] = y], HeldAfterSweep + HeldOf(y, r), spent)
        /\ \A q \in Requests : Keeps(row[q], [Swept EXCEPT ![r] = y][q])
    BY <2>1, <2>4, <2>6, SweepAndOne
  <2>8. HeldOf(y, r) = Reserved[r]
    BY <2>4 DEF HeldOf
  <2>9. BooksBalance(row', held', spent')
    BY <2>1, <2>5, <2>7, <2>8
  <2>10. turn' \in [Tenants -> Nat]
    <3>1. Cardinality(Admitted) \in Nat
      BY SpendAssumption, FS_Subset, FS_CardinalityType DEF Admitted
    <3>2. 1 + Cardinality(Admitted) \in Nat
      BY <3>1
    <3>3. turn \in [Tenants -> Nat]
      BY DEF SpendInv
    <3> QED BY <2>1, <3>2, <3>3
  <2> QED BY <2>5, <2>7, <2>9, <2>10 DEF SpendInv, AllKeep
<1> QED BY <1>2, <1>4, <1>5, <1>6 DEF Reserve

(* A row that changes without committing more, the ledger with it.           *)
LEMMA RowStep ==
  ASSUME SpendInv, NEW r \in Requests, NEW x \in Row, IsSound(x), UNCHANGED turn,
         row' = [row EXCEPT ![r] = x],
         held' = held - HeldOf(row[r], r) + HeldOf(x, r),
         spent' = spent - ChargedOf(row[r]) + ChargedOf(x),
         HeldOf(x, r) + ChargedOf(x) <= HeldOf(row[r], r) + ChargedOf(row[r])
  PROVE  SpendInv' /\ row'[r] = x /\ \A q \in Requests : q # r => Keeps(row[q], row'[q])
<1>1. BooksBalance(row', held', spent')
  BY OneRowShrinks DEF SpendInv
<1>2. row \in [Requests -> Row]
  BY DEF SpendInv, BooksBalance
<1>3. row'[r] = x /\ \A q \in Requests : q # r => row'[q] = row[q]
  BY <1>2
<1> QED BY <1>1, <1>3 DEF SpendInv, Keeps

LEMMA RowFacts ==
  ASSUME SpendInv, NEW r \in Requests
  PROVE  /\ row \in [Requests -> Row] /\ row[r] \in Row /\ IsSound(row[r])
         /\ Reserved[r] \in Nat /\ held \in Nat /\ spent \in Nat
BY BooksAddUp, SpendAssumption DEF SpendInv, BooksBalance

LEMMA MarkStartedKeeps ==
  ASSUME SpendInv, NEW r \in Requests, MarkStarted(r)
  PROVE  /\ SpendInv' /\ \A q \in Requests : q # r => Keeps(row[q], row'[q])
         /\ row'[r].marked /\ row'[r].state = "reserved" /\ row[r].state = "reserved"
         /\ ~row[r].marked
         /\ row' = [row EXCEPT ![r] = row'[r]] /\ row'[r].pending = row[r].pending
<1>1. /\ row[r].state = "reserved" /\ ~row[r].marked /\ ~row[r].pending
      /\ row' = [row EXCEPT ![r].marked = TRUE] /\ UNCHANGED <<turn, held, spent>>
  BY DEF MarkStarted
<1>2. row \in [Requests -> Row] /\ row[r] \in Row /\ IsSound(row[r]) /\ held \in Nat /\ spent \in Nat
      /\ Reserved[r] \in Nat
  BY RowFacts
<1>3. PICK x : x = [row[r] EXCEPT !.marked = TRUE]
  OBVIOUS
<1>4. /\ x \in Row /\ x.state = "reserved" /\ x.marked = TRUE /\ x.resolved = row[r].resolved
      /\ x.pending = row[r].pending
  BY <1>1, <1>2, <1>3 DEF Row
<1>5. IsSound(x)
  BY <1>1, <1>2, <1>4 DEF IsSound
<1>6. /\ HeldOf(x, r) = Reserved[r] /\ ChargedOf(x) = 0
      /\ HeldOf(row[r], r) = Reserved[r] /\ ChargedOf(row[r]) = 0
  BY <1>1, <1>4 DEF HeldOf, ChargedOf
<1>7. row' = [row EXCEPT ![r] = x]
  BY <1>1, <1>2, <1>3
<1>8. /\ held' = held - HeldOf(row[r], r) + HeldOf(x, r)
      /\ spent' = spent - ChargedOf(row[r]) + ChargedOf(x)
      /\ HeldOf(x, r) + ChargedOf(x) <= HeldOf(row[r], r) + ChargedOf(row[r])
      /\ UNCHANGED turn
  BY <1>1, <1>2, <1>6
<1>9. SpendInv' /\ row'[r] = x /\ \A q \in Requests : q # r => Keeps(row[q], row'[q])
  BY <1>4, <1>5, <1>7, <1>8, RowStep
<1> QED BY <1>1, <1>4, <1>7, <1>9

LEMMA ReleaseKeeps ==
  ASSUME SpendInv, NEW r \in Requests, Settle(r, "released", 0)
  PROVE  /\ SpendInv' /\ AllKeep
         /\ row[r].state = "reserved" /\ ~row[r].marked /\ ~row[r].pending
         /\ row' = [row EXCEPT ![r] = row'[r]] /\ row'[r].state \in {"released", "expired"}
         /\ row'[r].resolved = row[r].resolved
<1>1. PICK state \in {"released", "expired"} :
        /\ row[r].state = "reserved" /\ ~row[r].marked /\ ~row[r].pending
        /\ row' = [row EXCEPT ![r].state = state, ![r].actual = 0, ![r].lapsed = FALSE]
        /\ spent' = spent + 0 /\ held' = held - Reserved[r] /\ UNCHANGED turn
  BY DEF Settle, Open
<1>2. row \in [Requests -> Row] /\ row[r] \in Row /\ IsSound(row[r]) /\ held \in Nat /\ spent \in Nat
      /\ Reserved[r] \in Nat
  BY RowFacts
<1>3. PICK x : x = [row[r] EXCEPT !.state = state, !.actual = 0, !.lapsed = FALSE]
  OBVIOUS
<1>4. /\ x \in Row /\ x.state = state /\ x.marked = row[r].marked /\ x.resolved = row[r].resolved
      /\ x.pending = row[r].pending
  BY <1>1, <1>2, <1>3 DEF Row, States
<1>5. IsSound(x) /\ Keeps(row[r], x)
  BY <1>1, <1>2, <1>4 DEF IsSound, Keeps
<1>6. /\ HeldOf(x, r) = 0 /\ ChargedOf(x) = 0
      /\ HeldOf(row[r], r) = Reserved[r] /\ ChargedOf(row[r]) = 0
  BY <1>1, <1>4 DEF HeldOf, ChargedOf
<1>7. row' = [row EXCEPT ![r] = x]
  BY <1>1, <1>2, <1>3
<1>8. /\ held' = held - HeldOf(row[r], r) + HeldOf(x, r)
      /\ spent' = spent - ChargedOf(row[r]) + ChargedOf(x)
      /\ HeldOf(x, r) + ChargedOf(x) <= HeldOf(row[r], r) + ChargedOf(row[r])
      /\ UNCHANGED turn
  BY <1>1, <1>2, <1>6
<1>9. SpendInv' /\ row'[r] = x /\ \A q \in Requests : q # r => Keeps(row[q], row'[q])
  BY <1>4, <1>5, <1>7, <1>8, RowStep
<1> QED BY <1>1, <1>4, <1>5, <1>7, <1>9 DEF AllKeep

LEMMA SettleKeeps ==
  ASSUME SpendInv, NEW r \in Requests, NEW units \in Nat, row[r].marked, Settle(r, "settled", units)
  PROVE  /\ SpendInv' /\ \A q \in Requests : q # r => Keeps(row[q], row'[q])
         /\ row'[r].marked = row[r].marked /\ row'[r].actual = units
         /\ row[r].state = "reserved" /\ ~row[r].pending
         /\ row' = [row EXCEPT ![r] = row'[r]] /\ row'[r].state = "settled"
         /\ row'[r].resolved = row[r].resolved
<1>1. /\ row[r].state = "reserved" /\ units <= Reserved[r] /\ ~row[r].pending
      /\ row' = [row EXCEPT ![r].state = "settled", ![r].actual = units, ![r].lapsed = FALSE]
      /\ spent' = spent + units /\ held' = held - Reserved[r] /\ UNCHANGED turn
  BY DEF Settle, Open
<1>2. row \in [Requests -> Row] /\ row[r] \in Row /\ IsSound(row[r]) /\ held \in Nat /\ spent \in Nat
      /\ Reserved[r] \in Nat
  BY RowFacts
<1>3. PICK x : x = [row[r] EXCEPT !.state = "settled", !.actual = units, !.lapsed = FALSE]
  OBVIOUS
<1>4. x \in Row /\ x.state = "settled" /\ x.marked = row[r].marked /\ x.resolved = row[r].resolved
      /\ x.actual = units /\ x.pending = row[r].pending
  BY <1>1, <1>2, <1>3 DEF Row, States
<1>5. IsSound(x)
  BY <1>1, <1>2, <1>4 DEF IsSound
<1>6. /\ HeldOf(x, r) = 0 /\ ChargedOf(x) = units
      /\ HeldOf(row[r], r) = Reserved[r] /\ ChargedOf(row[r]) = 0
  BY <1>1, <1>4 DEF HeldOf, ChargedOf
<1>7. row' = [row EXCEPT ![r] = x]
  BY <1>1, <1>2, <1>3
<1>8. /\ held' = held - HeldOf(row[r], r) + HeldOf(x, r)
      /\ spent' = spent - ChargedOf(row[r]) + ChargedOf(x)
      /\ HeldOf(x, r) + ChargedOf(x) <= HeldOf(row[r], r) + ChargedOf(row[r])
      /\ UNCHANGED turn
  BY <1>1, <1>2, <1>6
<1>9. SpendInv' /\ row'[r] = x /\ \A q \in Requests : q # r => Keeps(row[q], row'[q])
  BY <1>4, <1>5, <1>7, <1>8, RowStep
<1> QED BY <1>1, <1>4, <1>7, <1>9

LEMMA MarkIndeterminateKeeps ==
  ASSUME SpendInv, NEW r \in Requests, row[r].marked, MarkIndeterminate(r)
  PROVE  /\ SpendInv' /\ AllKeep
         /\ row[r].state = "reserved" /\ ~row[r].pending
         /\ row' = [row EXCEPT ![r] = row'[r]] /\ row'[r].state = "reserved" /\ row'[r].pending
<1>1. row \in [Requests -> Row] /\ row[r] \in Row /\ IsSound(row[r]) /\ held \in Nat /\ spent \in Nat
      /\ Reserved[r] \in Nat
  BY RowFacts
<1>2. /\ row[r].state = "reserved" /\ ~row[r].pending /\ UNCHANGED <<turn, held, spent>>
      /\ row' = [row EXCEPT ![r].state = "reserved", ![r].pending = TRUE, ![r].lapsed = FALSE]
  BY <1>1 DEF MarkIndeterminate, IsSound
<1>3. PICK x : x = [row[r] EXCEPT !.state = "reserved", !.pending = TRUE, !.lapsed = FALSE]
  OBVIOUS
<1>4. /\ x \in Row /\ x.state = "reserved" /\ x.marked = row[r].marked /\ x.resolved = row[r].resolved
      /\ x.lapsed = FALSE /\ x.pending = TRUE
  BY <1>1, <1>3 DEF Row, States
<1>5. IsSound(x) /\ Keeps(row[r], x)
  BY <1>1, <1>2, <1>4 DEF IsSound, Keeps
<1>6. /\ HeldOf(x, r) = Reserved[r] /\ ChargedOf(x) = 0
      /\ HeldOf(row[r], r) = Reserved[r] /\ ChargedOf(row[r]) = 0
  BY <1>2, <1>4 DEF HeldOf, ChargedOf
<1>7. row' = [row EXCEPT ![r] = x]
  BY <1>1, <1>2, <1>3
<1>8. /\ held' = held - HeldOf(row[r], r) + HeldOf(x, r)
      /\ spent' = spent - ChargedOf(row[r]) + ChargedOf(x)
      /\ HeldOf(x, r) + ChargedOf(x) <= HeldOf(row[r], r) + ChargedOf(row[r])
      /\ UNCHANGED turn
  BY <1>1, <1>2, <1>6
<1>9. SpendInv' /\ row'[r] = x /\ \A q \in Requests : q # r => Keeps(row[q], row'[q])
  BY <1>4, <1>5, <1>7, <1>8, RowStep
<1> QED BY <1>2, <1>4, <1>5, <1>7, <1>9 DEF AllKeep

LEMMA ReconcileKeeps ==
  ASSUME SpendInv, NEW r \in Requests, NEW outcome \in {"settled", "released"}, NEW units \in Nat,
         Reconcile(r, outcome, units)
  PROVE  /\ SpendInv' /\ AllKeep
         /\ row[r].state = "reserved" /\ row[r].pending
         /\ row' = [row EXCEPT ![r] = row'[r]] /\ row'[r].resolved
         /\ ChargedOf(row'[r]) \in 0 .. Reserved[r]
<1>1. /\ row[r].state = "reserved" /\ row[r].pending /\ units <= Reserved[r] /\ (outcome = "released" => units = 0)
      /\ row' = [row EXCEPT ![r].state = outcome, ![r].actual = units,
                            ![r].pending = FALSE, ![r].resolved = TRUE]
      /\ spent' = spent + units /\ held' = held - Reserved[r] /\ UNCHANGED turn
  BY DEF Reconcile
<1>2. row \in [Requests -> Row] /\ row[r] \in Row /\ IsSound(row[r]) /\ held \in Nat /\ spent \in Nat
      /\ Reserved[r] \in Nat
  BY RowFacts
<1>3. PICK x : x = [row[r] EXCEPT !.state = outcome, !.actual = units, !.pending = FALSE,
                                  !.resolved = TRUE]
  OBVIOUS
<1>4. x \in Row /\ x.state = outcome /\ x.marked = row[r].marked /\ x.resolved = TRUE
      /\ x.actual = units /\ x.pending = FALSE
  BY <1>1, <1>2, <1>3 DEF Row, States
<1>5. IsSound(x) /\ Keeps(row[r], x)
  BY <1>1, <1>2, <1>4 DEF IsSound, Keeps
<1>6. /\ HeldOf(x, r) = 0 /\ ChargedOf(x) = units
      /\ HeldOf(row[r], r) = Reserved[r] /\ ChargedOf(row[r]) = 0
  BY <1>1, <1>4 DEF HeldOf, ChargedOf
<1>7. row' = [row EXCEPT ![r] = x]
  BY <1>1, <1>2, <1>3
<1>8. /\ held' = held - HeldOf(row[r], r) + HeldOf(x, r)
      /\ spent' = spent - ChargedOf(row[r]) + ChargedOf(x)
      /\ HeldOf(x, r) + ChargedOf(x) <= HeldOf(row[r], r) + ChargedOf(row[r])
      /\ UNCHANGED turn
  BY <1>1, <1>2, <1>6
<1>9. SpendInv' /\ row'[r] = x /\ \A q \in Requests : q # r => Keeps(row[q], row'[q])
  BY <1>4, <1>5, <1>7, <1>8, RowStep
<1>10. ChargedOf(x) \in 0 .. Reserved[r]
  BY <1>1, <1>2, <1>6
<1>11. AllKeep
  BY <1>5, <1>9 DEF AllKeep
<1> QED BY <1>1, <1>4, <1>7, <1>9, <1>10, <1>11

LEMMA RowLapsesKeeps ==
  ASSUME SpendInv, NEW r \in Requests, RowLapses(r)
  PROVE  /\ SpendInv' /\ AllKeep
         /\ row' = [row EXCEPT ![r] = row'[r]] /\ row'[r].state = row[r].state
         /\ row'[r].pending = row[r].pending /\ row'[r].resolved = row[r].resolved
         /\ row'[r].actual = row[r].actual
<1>1. /\ row' = [row EXCEPT ![r].lapsed = TRUE] /\ UNCHANGED <<turn, held, spent>>
      /\ ~row[r].pending
  BY RowFacts DEF RowLapses, Open, IsSound
<1>2. row \in [Requests -> Row] /\ row[r] \in Row /\ IsSound(row[r]) /\ held \in Nat /\ spent \in Nat
      /\ Reserved[r] \in Nat
  BY RowFacts
<1>3. PICK x : x = [row[r] EXCEPT !.lapsed = TRUE]
  OBVIOUS
<1>4. x \in Row /\ x.state = row[r].state /\ x.marked = row[r].marked
      /\ x.resolved = row[r].resolved /\ x.actual = row[r].actual /\ x.pending = row[r].pending
  BY <1>2, <1>3 DEF Row
<1>5. IsSound(x) /\ Keeps(row[r], x) /\ HeldOf(x, r) = HeldOf(row[r], r) /\ ChargedOf(x) = ChargedOf(row[r])
  BY <1>1, <1>2, <1>4 DEF IsSound, Keeps, HeldOf, ChargedOf
<1>6. HeldOf(row[r], r) \in Nat /\ ChargedOf(row[r]) \in Nat
  BY <1>2, Amounts
<1>7. row' = [row EXCEPT ![r] = x]
  BY <1>1, <1>2, <1>3
<1>8. /\ held' = held - HeldOf(row[r], r) + HeldOf(x, r)
      /\ spent' = spent - ChargedOf(row[r]) + ChargedOf(x)
      /\ HeldOf(x, r) + ChargedOf(x) <= HeldOf(row[r], r) + ChargedOf(row[r])
      /\ UNCHANGED turn
  BY <1>1, <1>2, <1>5, <1>6
<1>9. SpendInv' /\ row'[r] = x /\ \A q \in Requests : q # r => Keeps(row[q], row'[q])
  BY <1>4, <1>5, <1>7, <1>8, RowStep
<1> QED BY <1>4, <1>5, <1>7, <1>9 DEF AllKeep

-----------------------------------------------------------------------------
(* The rest of the state.                                                    *)
TypesInv ==
  /\ circuit \in Circuit /\ due \in BOOLEAN
  /\ worker \in [Workers -> {Idle} \union Turn]
  /\ calls \in [Requests -> Nat] /\ used \in [Requests -> Nat]
  /\ faults \in 0 .. MaxFaults

(* Whoever calls, or has called, marked its hold first, and alone; what was  *)
(* charged without evidence was measured.                                    *)
InCall == {"marked", "settling", "doubting"}
Measured(x) == x.state = "settled" /\ ~x.resolved

CallsInv ==
  /\ \A w \in Workers : worker[w].phase \in InCall => row[worker[w].request].marked
  /\ \A w \in Workers : worker[w].phase = "marked" => calls[worker[w].request] = 0
  /\ \A w \in Workers : worker[w].phase = "settling" =>
       calls[worker[w].request] = 1 /\ used[worker[w].request] = worker[w].units
  /\ \A v, w \in Workers :
       (/\ worker[v].phase = "marked" /\ worker[w].phase = "marked"
        /\ worker[v].request = worker[w].request) => v = w
  /\ \A r \in Requests : calls[r] \in 0 .. 1 /\ (calls[r] = 1 => row[r].marked)
  /\ \A r \in Requests : Measured(row[r]) => calls[r] = 1 /\ row[r].actual = used[r]
  /\ \A r \in Requests : calls[r] = 0 => used[r] = 0

(* A reading of the circuit's present revision is the circuit; a probe with  *)
(* time left is the one the circuit waits for, and no two are the same.      *)
TurnFits(x) ==
  /\ x.seen.revision <= circuit.revision
  /\ x.seen.revision = circuit.revision => x.seen = circuit
  /\ x.probe <= circuit.revision
  /\ x.probe # 0 /\ ~x.late => circuit.phase = "half_open" /\ circuit.probe = x.probe /\ ~due
  /\ x.phase = "closing" /\ x.probe # 0 => x.seen.phase = "half_open" /\ x.seen.probe = x.probe

CircuitInv ==
  /\ circuit.revision = 0 => circuit = Closed
  /\ \A w \in Workers : worker[w] # Idle => TurnFits(worker[w])
  /\ \A v, w \in Workers :
       (/\ worker[v] # Idle /\ worker[w] # Idle
        /\ worker[v].probe = worker[w].probe /\ worker[v].probe # 0) => v = w

DispatchInv == SpendInv /\ TypesInv /\ CallsInv /\ CircuitInv

LEMMA Awake ==
  ASSUME NEW w \in Workers, worker[w].phase # "idle"
  PROVE  worker[w] # Idle
BY DEF Idle

LEMMA Turns ==
  ASSUME TypesInv, NEW w \in Workers, worker[w] # Idle
  PROVE  /\ worker[w] \in Turn /\ worker[w].request \in Requests
         /\ worker[w].seen \in Circuit /\ worker[w].seen.revision \in 0 .. MaxRevision
         /\ worker[w].probe \in 0 .. MaxRevision /\ circuit.revision \in 0 .. MaxRevision
         /\ worker[w].units \in Nat /\ MaxRevision \in Nat
         /\ worker[w].late \in BOOLEAN
BY DispatchAssumption DEF TypesInv, Turn, Circuit

(* Rows go on: a mark stays, and a measured charge is old or is what the     *)
(* last answer measured.                                                     *)
RowsGoOn ==
  \A q \in Requests :
    /\ row[q].marked => row'[q].marked
    /\ Measured(row'[q]) =>
         \/ Measured(row[q]) /\ row'[q].actual = row[q].actual
         \/ calls[q] = 1 /\ row'[q].actual = used[q]

LEMMA KeptGoOn ==
  ASSUME NEW q, Keeps(row[q], row'[q])
  PROVE  /\ row[q].marked => row'[q].marked
         /\ Measured(row'[q]) => Measured(row[q]) /\ row'[q].actual = row[q].actual
BY DEF Keeps, Measured

LEMMA CallsFrame ==
  ASSUME CallsInv, TypesInv, RowsGoOn, UNCHANGED <<calls, used>>,
         \A v \in Workers : worker'[v].phase \in InCall =>
           /\ worker[v].phase \in InCall /\ worker'[v].request = worker[v].request
           /\ worker'[v].phase = "marked" => worker[v].phase = "marked"
           /\ worker'[v].phase = "settling" =>
                worker[v].phase = "settling" /\ worker'[v].units = worker[v].units
  PROVE  CallsInv'
<1>1. \A v \in Workers : worker[v].phase \in InCall => worker[v].request \in Requests
  BY Awake, Turns DEF InCall
<1>2. "marked" \in InCall /\ "settling" \in InCall
  BY DEF InCall
<1>3. \A w \in Workers : worker'[w].phase \in InCall => row'[worker'[w].request].marked
  BY <1>1 DEF CallsInv, RowsGoOn
<1>4. /\ \A w \in Workers : worker'[w].phase = "marked" => calls'[worker'[w].request] = 0
      /\ \A w \in Workers : worker'[w].phase = "settling" =>
           calls'[worker'[w].request] = 1 /\ used'[worker'[w].request] = worker'[w].units
  BY <1>2 DEF CallsInv
<1>5. \A v, w \in Workers :
        (/\ worker'[v].phase = "marked" /\ worker'[w].phase = "marked"
         /\ worker'[v].request = worker'[w].request) => v = w
  BY <1>2 DEF CallsInv
<1>6. \A r \in Requests : calls'[r] \in 0 .. 1 /\ (calls'[r] = 1 => row'[r].marked)
  BY DEF CallsInv, RowsGoOn
<1>7. /\ \A r \in Requests : Measured(row'[r]) => calls'[r] = 1 /\ row'[r].actual = used'[r]
      /\ \A r \in Requests : calls'[r] = 0 => used'[r] = 0
  BY DEF CallsInv, RowsGoOn
<1> QED BY <1>3, <1>4, <1>5, <1>6, <1>7 DEF CallsInv, InCall, Measured

LEMMA CircuitFrame ==
  ASSUME CircuitInv, TypesInv, UNCHANGED <<circuit, due>>,
         \A v \in Workers : worker'[v] # Idle =>
           /\ worker[v] # Idle /\ worker'[v].probe = worker[v].probe
           /\ ~worker'[v].late => ~worker[v].late
           /\ worker'[v].seen \in {worker[v].seen, Closed}
           /\ worker'[v].phase = "closing" =>
                worker[v].phase = "closing" /\ worker'[v].seen = worker[v].seen
  PROVE  CircuitInv'
<1>1. circuit.revision \in Nat /\ Closed.revision = 0
  BY DispatchAssumption DEF TypesInv, Circuit, Closed
<1>2. ASSUME NEW v \in Workers, worker'[v] # Idle PROVE TurnFits(worker'[v])
  <2>1. TurnFits(worker[v])
    BY <1>2 DEF CircuitInv
  <2>2. CASE worker'[v].seen = worker[v].seen
    BY <1>2, <2>1, <2>2 DEF TurnFits
  <2>3. CASE worker'[v].seen = Closed
    BY <1>1, <1>2, <2>1, <2>3 DEF TurnFits, CircuitInv
  <2> QED BY <1>2, <2>2, <2>3
<1>3. \A v \in Workers : worker'[v] # Idle => TurnFits(worker[v])'
  BY <1>2 DEF TurnFits
<1> QED BY <1>3 DEF CircuitInv

(* One turn moves on without a call or a change of the circuit.              *)
LEMMA Moves ==
  ASSUME DispatchInv, SpendInv', RowsGoOn, UNCHANGED <<circuit, due, calls, used>>,
         faults' \in 0 .. MaxFaults,
         NEW w \in Workers, NEW x \in {Idle} \union Turn, worker' = [worker EXCEPT ![w] = x],
         x # Idle =>
           /\ worker[w] # Idle /\ x.request = worker[w].request /\ x.probe = worker[w].probe
           /\ ~x.late => ~worker[w].late
           /\ x.seen \in {worker[w].seen, Closed}
           /\ x.phase \notin {"marked", "settling", "closing"}
           /\ x.phase = "doubting" => worker[w].phase \in InCall
  PROVE  DispatchInv'
<1>1. worker \in [Workers -> {Idle} \union Turn]
  BY DEF DispatchInv, TypesInv
<1>2. worker'[w] = x /\ \A v \in Workers : v # w => worker'[v] = worker[v]
  BY <1>1
<1>3. TypesInv'
  BY <1>1 DEF DispatchInv, TypesInv
<1>4. CallsInv'
  <2>1. \A v \in Workers : worker'[v].phase \in InCall =>
           /\ worker[v].phase \in InCall /\ worker'[v].request = worker[v].request
           /\ worker'[v].phase = "marked" => worker[v].phase = "marked"
           /\ worker'[v].phase = "settling" =>
                worker[v].phase = "settling" /\ worker'[v].units = worker[v].units
    <3>1. Idle.phase \notin InCall
      BY DEF Idle, InCall
    <3>2. x.phase \in InCall => x # Idle /\ x.phase = "doubting"
      BY <3>1 DEF InCall
    <3> QED BY <1>2, <3>2
  <2> QED BY <2>1, CallsFrame DEF DispatchInv
<1>5. CircuitInv'
  BY <1>2, CircuitFrame DEF DispatchInv
<1> QED BY <1>3, <1>4, <1>5 DEF DispatchInv

LEMMA SpendStays ==
  ASSUME SpendInv, UNCHANGED spendVars
  PROVE  SpendInv' /\ RowsGoOn
<1>1. row' = row /\ turn' = turn /\ held' = held /\ spent' = spent
  BY DEF spendVars
<1> QED BY <1>1 DEF SpendInv, RowsGoOn, Measured

LEMMA KeepingGoesOn ==
  ASSUME AllKeep
  PROVE  RowsGoOn
BY KeptGoOn DEF AllKeep, RowsGoOn

LEMMA MarkingGoesOn ==
  ASSUME SpendInv, NEW r \in Requests, MarkStarted(r)
  PROVE  SpendInv' /\ RowsGoOn
<1>1. /\ SpendInv' /\ \A q \in Requests : q # r => Keeps(row[q], row'[q])
      /\ row'[r].marked /\ row'[r].state = "reserved"
  BY MarkStartedKeeps
<1>2. \A q \in Requests : q # r =>
        /\ row[q].marked => row'[q].marked
        /\ Measured(row'[q]) => Measured(row[q]) /\ row'[q].actual = row[q].actual
  BY <1>1, KeptGoOn
<1>3. ~Measured(row'[r])
  BY <1>1 DEF Measured
<1> QED BY <1>1, <1>2, <1>3 DEF RowsGoOn

Phases == {"read", "held", "admitted", "releasing", "marked", "settling", "doubting",
           "reporting", "closing"}

LEMMA PhaseMove ==
  ASSUME TypesInv, NEW w \in Workers, worker[w] # Idle, NEW p \in Phases
  PROVE  \E x \in Turn :
           /\ [worker EXCEPT ![w].phase = p] = [worker EXCEPT ![w] = x]
           /\ x.phase = p /\ x.request = worker[w].request /\ x.probe = worker[w].probe
           /\ x.late = worker[w].late /\ x.seen = worker[w].seen /\ x.units = worker[w].units
<1>1. worker[w] \in Turn /\ worker \in [Workers -> {Idle} \union Turn]
  BY Turns DEF TypesInv
<1>2. PICK x : x = [worker[w] EXCEPT !.phase = p]
  OBVIOUS
<1>3. /\ x \in Turn /\ x.phase = p /\ x.request = worker[w].request /\ x.probe = worker[w].probe
      /\ x.late = worker[w].late /\ x.seen = worker[w].seen /\ x.units = worker[w].units
  BY <1>1, <1>2 DEF Turn, Phases
<1>4. [worker EXCEPT ![w].phase = p] = [worker EXCEPT ![w] = x]
  BY <1>1, <1>2
<1> QED BY <1>3, <1>4

LEMMA GoKeeps ==
  ASSUME DispatchInv, SpendInv', RowsGoOn, UNCHANGED <<circuit, due, calls, used>>,
         faults' \in 0 .. MaxFaults,
         NEW w \in Workers, worker[w] # Idle,
         NEW p \in Phases \ {"marked", "settling", "closing", "doubting"}, Go(w, p)
  PROVE  DispatchInv'
<1>1. p \in Phases /\ p \notin {"marked", "settling", "closing", "doubting"}
  OBVIOUS
<1>2. PICK x \in Turn :
        /\ [worker EXCEPT ![w].phase = p] = [worker EXCEPT ![w] = x]
        /\ x.phase = p /\ x.request = worker[w].request /\ x.probe = worker[w].probe
        /\ x.late = worker[w].late /\ x.seen = worker[w].seen /\ x.units = worker[w].units
  BY <1>1, PhaseMove DEF DispatchInv
<1>3. worker' = [worker EXCEPT ![w] = x]
  BY <1>2 DEF Go
<1>4. x # Idle =>
        /\ worker[w] # Idle /\ x.request = worker[w].request /\ x.probe = worker[w].probe
        /\ ~x.late => ~worker[w].late
        /\ x.seen \in {worker[w].seen, Closed}
        /\ x.phase \notin {"marked", "settling", "closing"}
        /\ x.phase = "doubting" => worker[w].phase \in InCall
  BY <1>1, <1>2
<1>5. x \in {Idle} \union Turn
  OBVIOUS
<1> QED BY <1>3, <1>4, <1>5, Moves

LEMMA EndKeeps ==
  ASSUME DispatchInv, SpendInv', RowsGoOn, UNCHANGED <<circuit, due, calls, used>>,
         faults' \in 0 .. MaxFaults, NEW w \in Workers, End(w)
  PROVE  DispatchInv'
<1>1. worker' = [worker EXCEPT ![w] = Idle]
  BY DEF End
<1> QED BY <1>1, Moves

LEMMA FaultTypes ==
  ASSUME DispatchInv, UNCHANGED faults \/ (faults > 0 /\ faults' = faults - 1)
  PROVE  faults' \in 0 .. MaxFaults
BY DispatchAssumption DEF DispatchInv, TypesInv

LEMMA TakeHoldKeeps ==
  ASSUME DispatchInv, NEW w \in Workers, TakeHold(w)
  PROVE  DispatchInv'
<1>1. /\ worker[w].phase = "read" /\ UNCHANGED <<circuit, due, calls, used>>
      /\ Reserve(Request(w)) \/ UNCHANGED spendVars
      /\ Go(w, "held") \/ End(w)
      /\ UNCHANGED faults \/ (faults > 0 /\ faults' = faults - 1)
  BY DEF TakeHold, Lost, At
<1>2. worker[w] # Idle /\ Request(w) \in Requests
  BY <1>1, Awake, Turns DEF DispatchInv, Request
<1>3. SpendInv' /\ RowsGoOn
  BY <1>1, <1>2, ReserveKeeps, KeepingGoesOn, SpendStays DEF DispatchInv
<1>4. faults' \in 0 .. MaxFaults
  BY <1>1, FaultTypes
<1>5. "held" \in Phases \ {"marked", "settling", "closing", "doubting"}
  BY DEF Phases
<1> QED BY <1>1, <1>2, <1>3, <1>4, <1>5, GoKeeps, EndKeeps

LEMMA ReleaseHoldKeeps ==
  ASSUME DispatchInv, NEW w \in Workers, ReleaseHold(w)
  PROVE  DispatchInv'
<1>1. /\ worker[w].phase = "releasing" /\ UNCHANGED <<circuit, due, calls, used>>
      /\ Settle(Request(w), "released", 0) \/ UNCHANGED spendVars
      /\ Go(w, "reporting") \/ End(w)
      /\ UNCHANGED faults \/ (faults > 0 /\ faults' = faults - 1)
  BY DEF ReleaseHold, Lost, At
<1>2. worker[w] # Idle /\ Request(w) \in Requests
  BY <1>1, Awake, Turns DEF DispatchInv, Request
<1>3. SpendInv' /\ RowsGoOn
  BY <1>1, <1>2, ReleaseKeeps, KeepingGoesOn, SpendStays DEF DispatchInv
<1>4. faults' \in 0 .. MaxFaults
  BY <1>1, FaultTypes
<1>5. "reporting" \in Phases \ {"marked", "settling", "closing", "doubting"}
  BY DEF Phases
<1> QED BY <1>1, <1>2, <1>3, <1>4, <1>5, GoKeeps, EndKeeps

LEMMA QuietStepsKeep ==
  ASSUME DispatchInv, NEW w \in Workers, HoldRefused(w) \/ AttemptUnrecorded(w) \/ Dies(w)
  PROVE  DispatchInv'
<1>1. /\ UNCHANGED rest
      /\ (worker[w].phase = "admitted" /\ Go(w, "releasing")) \/ End(w)
      /\ UNCHANGED faults \/ (faults > 0 /\ faults' = faults - 1)
  BY DEF HoldRefused, AttemptUnrecorded, Dies, At
<1>2. UNCHANGED <<circuit, due, calls, used>> /\ SpendInv' /\ RowsGoOn
  BY <1>1, SpendStays DEF rest, DispatchInv
<1>3. faults' \in 0 .. MaxFaults
  BY <1>1, FaultTypes
<1>4. "releasing" \in Phases \ {"marked", "settling", "closing", "doubting"}
  BY DEF Phases
<1> QED BY <1>1, <1>2, <1>3, <1>4, Awake, GoKeeps, EndKeeps

LEMMA DoubtKeeps ==
  ASSUME DispatchInv, NEW w \in Workers, Doubt(w)
  PROVE  DispatchInv'
<1>1. /\ worker[w].phase = "doubting" /\ UNCHANGED <<circuit, due, calls, used>>
      /\ MarkIndeterminate(Request(w)) \/ UNCHANGED spendVars
      /\ Go(w, "reporting")
      /\ UNCHANGED faults \/ (faults > 0 /\ faults' = faults - 1)
  BY DEF Doubt, Lost, At
<1>2. worker[w] # Idle /\ Request(w) \in Requests /\ row[Request(w)].marked
  BY <1>1, Awake, Turns DEF DispatchInv, Request, CallsInv, InCall
<1>3. SpendInv' /\ RowsGoOn
  BY <1>1, <1>2, MarkIndeterminateKeeps, KeepingGoesOn, SpendStays DEF DispatchInv
<1>4. faults' \in 0 .. MaxFaults
  BY <1>1, FaultTypes
<1>5. "reporting" \in Phases \ {"marked", "settling", "closing", "doubting"}
  BY DEF Phases
<1> QED BY <1>1, <1>2, <1>3, <1>4, <1>5, GoKeeps

LEMMA SettleCallKeeps ==
  ASSUME DispatchInv, NEW w \in Workers, SettleCall(w)
  PROVE  DispatchInv'
<1>1. PICK next \in {"reporting", "doubting"} :
        /\ worker[w].phase = "settling" /\ UNCHANGED <<circuit, due, calls, used>>
        /\ worker' = [worker EXCEPT ![w].phase = next, ![w].units = 0]
        /\ Settle(Request(w), "settled", worker[w].units) \/ UNCHANGED spendVars
        /\ UNCHANGED faults \/ (faults > 0 /\ faults' = faults - 1)
  BY DEF SettleCall, Lost, At
<1>2. /\ worker[w] # Idle /\ Request(w) \in Requests /\ worker[w].units \in Nat
      /\ worker[w] \in Turn /\ worker \in [Workers -> {Idle} \union Turn]
  BY <1>1, Awake, Turns DEF DispatchInv, Request, TypesInv
<1>3. row[Request(w)].marked /\ calls[Request(w)] = 1 /\ used[Request(w)] = worker[w].units
  BY <1>1 DEF DispatchInv, CallsInv, InCall, Request
<1>4. SpendInv' /\ RowsGoOn
  <2>1. CASE UNCHANGED spendVars
    BY <2>1, SpendStays DEF DispatchInv
  <2>2. CASE Settle(Request(w), "settled", worker[w].units)
    <3>1. /\ SpendInv' /\ \A q \in Requests : q # Request(w) => Keeps(row[q], row'[q])
          /\ row'[Request(w)].marked = row[Request(w)].marked
          /\ row'[Request(w)].actual = worker[w].units
      BY <1>2, <1>3, <2>2, SettleKeeps DEF DispatchInv
    <3>2. \A q \in Requests : q # Request(w) =>
            /\ row[q].marked => row'[q].marked
            /\ Measured(row'[q]) => Measured(row[q]) /\ row'[q].actual = row[q].actual
      BY <3>1, KeptGoOn
    <3> QED BY <1>3, <3>1, <3>2 DEF RowsGoOn
  <2> QED BY <1>1, <2>1, <2>2
<1>5. faults' \in 0 .. MaxFaults
  BY <1>1, FaultTypes
<1>6. PICK x : x = [worker[w] EXCEPT !.phase = next, !.units = 0]
  OBVIOUS
<1>7. /\ x \in Turn /\ x.phase = next /\ x.request = worker[w].request /\ x.probe = worker[w].probe
      /\ x.late = worker[w].late /\ x.seen = worker[w].seen
  BY <1>2, <1>6 DEF Turn
<1>8. worker' = [worker EXCEPT ![w] = x]
  BY <1>1, <1>2, <1>6
<1>9. x # Idle =>
        /\ worker[w] # Idle /\ x.request = worker[w].request /\ x.probe = worker[w].probe
        /\ ~x.late => ~worker[w].late
        /\ x.seen \in {worker[w].seen, Closed}
        /\ x.phase \notin {"marked", "settling", "closing"}
        /\ x.phase = "doubting" => worker[w].phase \in InCall
  BY <1>1, <1>2, <1>7 DEF InCall
<1>10. x \in {Idle} \union Turn
  BY <1>7
<1> QED BY <1>1, <1>4, <1>5, <1>8, <1>9, <1>10, Moves

LEMMA StartDispatchKeeps ==
  ASSUME DispatchInv, NEW w \in Workers, StartDispatch(w)
  PROVE  DispatchInv'
<1>1. /\ worker[w].phase = "admitted" /\ UNCHANGED <<circuit, due, calls, used>>
      /\ \/ MarkStarted(Request(w)) /\ Go(w, "marked")
         \/ (MarkStarted(Request(w)) \/ UNCHANGED spendVars) /\ Go(w, "reporting")
      /\ UNCHANGED faults \/ (faults > 0 /\ faults' = faults - 1)
  BY DEF StartDispatch, Lost, At
<1>2. worker[w] # Idle /\ Request(w) \in Requests /\ Request(w) = worker[w].request
  BY <1>1, Awake, Turns DEF DispatchInv, Request
<1>3. faults' \in 0 .. MaxFaults
  BY <1>1, FaultTypes
<1>4. CASE (MarkStarted(Request(w)) \/ UNCHANGED spendVars) /\ Go(w, "reporting")
  <2>1. SpendInv' /\ RowsGoOn
    BY <1>2, <1>4, MarkingGoesOn, SpendStays DEF DispatchInv
  <2>2. "reporting" \in Phases \ {"marked", "settling", "closing", "doubting"}
    BY DEF Phases
  <2> QED BY <1>1, <1>2, <1>3, <1>4, <2>1, <2>2, GoKeeps
<1>5. CASE MarkStarted(Request(w)) /\ Go(w, "marked")
  <2>1. SpendInv' /\ RowsGoOn /\ row'[Request(w)].marked /\ ~row[Request(w)].marked
    BY <1>2, <1>5, MarkingGoesOn, MarkStartedKeeps DEF DispatchInv
  <2>2. PICK x \in Turn :
          /\ worker' = [worker EXCEPT ![w] = x]
          /\ x.phase = "marked" /\ x.request = worker[w].request /\ x.probe = worker[w].probe
          /\ x.late = worker[w].late /\ x.seen = worker[w].seen
    <3>1. "marked" \in Phases
      BY DEF Phases
    <3> QED BY <1>2, <1>5, <3>1, PhaseMove DEF Go, DispatchInv
  <2>3. worker \in [Workers -> {Idle} \union Turn]
    BY DEF DispatchInv, TypesInv
  <2>4. worker'[w] = x /\ \A v \in Workers : v # w => worker'[v] = worker[v]
    BY <2>2, <2>3
  <2>5. TypesInv'
    BY <1>1, <1>3, <2>2, <2>3 DEF DispatchInv, TypesInv
  <2>6. CircuitInv'
    BY <1>1, <1>2, <2>2, <2>4, CircuitFrame DEF DispatchInv
  <2>7. CallsInv'
    <3>1. \A v \in Workers : worker[v].phase \in InCall => worker[v].request \in Requests
      BY Awake, Turns DEF InCall, DispatchInv
    <3>2. \A v \in Workers : worker[v].phase \in InCall =>
            row'[worker[v].request].marked /\ worker[v].request # Request(w)
      BY <2>1, <3>1 DEF DispatchInv, CallsInv, RowsGoOn
    <3>3. \A v \in Workers : worker'[v].phase \in InCall => row'[worker'[v].request].marked
      BY <1>2, <2>1, <2>2, <2>4, <3>2
    <3>4. calls[Request(w)] = 0
      BY <1>2, <2>1 DEF DispatchInv, CallsInv
    <3>5. \A v \in Workers : worker'[v].phase = "marked" => calls'[worker'[v].request] = 0
      BY <1>1, <1>2, <2>2, <2>4, <3>4 DEF DispatchInv, CallsInv
    <3>6. \A v \in Workers : worker'[v].phase = "settling" =>
             calls'[worker'[v].request] = 1 /\ used'[worker'[v].request] = worker'[v].units
      BY <1>1, <2>2, <2>4 DEF DispatchInv, CallsInv
    <3>7. \A u, v \in Workers :
            (/\ worker'[u].phase = "marked" /\ worker'[v].phase = "marked"
             /\ worker'[u].request = worker'[v].request) => u = v
      <4>1. \A v \in Workers : v # w /\ worker'[v].phase = "marked" =>
              worker'[v] = worker[v] /\ worker'[v].request # Request(w)
        BY <2>4, <3>2 DEF InCall
      <4> QED BY <1>2, <2>2, <2>4, <4>1 DEF DispatchInv, CallsInv
    <3>8. \A r \in Requests : calls'[r] \in 0 .. 1 /\ (calls'[r] = 1 => row'[r].marked)
      BY <1>1, <2>1 DEF DispatchInv, CallsInv, RowsGoOn
    <3>9. /\ \A r \in Requests : Measured(row'[r]) => calls'[r] = 1 /\ row'[r].actual = used'[r]
          /\ \A r \in Requests : calls'[r] = 0 => used'[r] = 0
      BY <1>1, <2>1 DEF DispatchInv, CallsInv, RowsGoOn
    <3> QED BY <3>3, <3>5, <3>6, <3>7, <3>8, <3>9 DEF CallsInv, InCall, Measured
  <2> QED BY <2>1, <2>5, <2>6, <2>7 DEF DispatchInv
<1> QED BY <1>1, <1>4, <1>5

LEMMA CallProviderKeeps ==
  ASSUME DispatchInv, NEW w \in Workers, CallProvider(w)
  PROVE  DispatchInv'
<1>1. /\ worker[w].phase = "marked" /\ UNCHANGED <<spendVars, circuit, due, faults>>
      /\ calls' = [calls EXCEPT ![Request(w)] = @ + 1]
  BY DEF CallProvider, At
<1>2. /\ worker[w] # Idle /\ Request(w) \in Requests /\ Request(w) = worker[w].request
      /\ worker[w] \in Turn /\ worker \in [Workers -> {Idle} \union Turn]
      /\ calls \in [Requests -> Nat] /\ used \in [Requests -> Nat] /\ Reserved[Request(w)] \in Nat
  BY <1>1, Awake, Turns, SpendAssumption DEF DispatchInv, Request, TypesInv
<1>3. calls[Request(w)] = 0 /\ row[Request(w)].marked
  BY <1>1 DEF DispatchInv, CallsInv, InCall, Request
<1>4. calls'[Request(w)] = 1 /\ \A r \in Requests : r # Request(w) => calls'[r] = calls[r]
  BY <1>1, <1>2, <1>3
<1>5. calls' \in [Requests -> Nat]
  BY <1>1, <1>2, <1>3
<1>6. PICK x \in Turn, n \in Nat :
        /\ worker' = [worker EXCEPT ![w] = x] /\ x.request = worker[w].request
        /\ x.probe = worker[w].probe /\ x.late = worker[w].late /\ x.seen = worker[w].seen
        /\ used' = [used EXCEPT ![Request(w)] = n]
        /\ \/ x.phase = "settling" /\ x.units = n
           \/ x.phase = "doubting"
  <2>1. CASE /\ worker' = [worker EXCEPT ![w].phase = "doubting", ![w].result = "operational"]
             /\ UNCHANGED used
    <3>1. PICK x : x = [worker[w] EXCEPT !.phase = "doubting", !.result = "operational"]
      OBVIOUS
    <3>2. /\ x \in Turn /\ x.phase = "doubting" /\ x.request = worker[w].request
          /\ x.probe = worker[w].probe /\ x.late = worker[w].late /\ x.seen = worker[w].seen
      BY <1>2, <3>1 DEF Turn, Results
    <3>3. worker' = [worker EXCEPT ![w] = x]
      BY <1>2, <2>1, <3>1
    <3>4. used[Request(w)] \in Nat /\ used' = [used EXCEPT ![Request(w)] = used[Request(w)]]
      BY <1>2, <2>1
    <3> QED BY <3>2, <3>3, <3>4
  <2>2. ASSUME NEW result \in Results, NEW units \in 0 .. Reserved[Request(w)],
               worker' = [worker EXCEPT ![w].phase = "settling", ![w].result = result, ![w].units = units],
               used' = [used EXCEPT ![Request(w)] = units]
        PROVE  \E x \in Turn, n \in Nat :
                 /\ worker' = [worker EXCEPT ![w] = x] /\ x.request = worker[w].request
                 /\ x.probe = worker[w].probe /\ x.late = worker[w].late /\ x.seen = worker[w].seen
                 /\ used' = [used EXCEPT ![Request(w)] = n]
                 /\ \/ x.phase = "settling" /\ x.units = n
                    \/ x.phase = "doubting"
    <3>0. units \in Nat
      BY <1>2
    <3>1. PICK x : x = [worker[w] EXCEPT !.phase = "settling", !.result = result, !.units = units]
      OBVIOUS
    <3>2. /\ x \in Turn /\ x.phase = "settling" /\ x.request = worker[w].request /\ x.units = units
          /\ x.probe = worker[w].probe /\ x.late = worker[w].late /\ x.seen = worker[w].seen
      BY <1>2, <3>0, <3>1 DEF Turn
    <3>3. worker' = [worker EXCEPT ![w] = x]
      BY <1>2, <2>2, <3>1
    <3> QED BY <2>2, <3>0, <3>2, <3>3
  <2> QED BY <2>1, <2>2 DEF CallProvider
<1>7. /\ worker'[w] = x /\ \A v \in Workers : v # w => worker'[v] = worker[v]
      /\ used'[Request(w)] = n /\ \A r \in Requests : r # Request(w) => used'[r] = used[r]
  BY <1>2, <1>6
<1>8. SpendInv' /\ row' = row
  BY <1>1, SpendStays DEF DispatchInv, spendVars
<1>9. TypesInv'
  <2>1. used' \in [Requests -> Nat] /\ worker' \in [Workers -> {Idle} \union Turn]
    BY <1>2, <1>6
  <2> QED BY <1>1, <1>5, <2>1 DEF DispatchInv, TypesInv
<1>10. CircuitInv'
  BY <1>1, <1>2, <1>6, <1>7, CircuitFrame DEF DispatchInv
<1>11. CallsInv'
  <2>1. \A v \in Workers : v # w /\ worker[v].phase = "marked" =>
          worker[v].request \in Requests /\ worker[v].request # Request(w)
    BY <1>1, <1>2, Awake, Turns DEF DispatchInv, CallsInv
  <2>2. \A v \in Workers : worker[v].phase = "settling" =>
          worker[v].request \in Requests /\ worker[v].request # Request(w)
    BY <1>3, Awake, Turns DEF DispatchInv, CallsInv
  <2>3. \A v \in Workers : worker'[v].phase \in InCall => row'[worker'[v].request].marked
    BY <1>2, <1>3, <1>6, <1>7, <1>8 DEF DispatchInv, CallsInv
  <2>4. \A v \in Workers : worker'[v].phase = "marked" =>
          v # w /\ calls'[worker'[v].request] = 0
    BY <1>4, <1>6, <1>7, <2>1 DEF DispatchInv, CallsInv
  <2>5. ASSUME NEW v \in Workers, worker'[v].phase = "settling"
        PROVE  calls'[worker'[v].request] = 1 /\ used'[worker'[v].request] = worker'[v].units
    <3>1. CASE v = w
      BY <1>2, <1>4, <1>6, <1>7, <2>5, <3>1
    <3>2. CASE v # w
      BY <1>4, <1>7, <2>2, <2>5, <3>2 DEF DispatchInv, CallsInv
    <3> QED BY <3>1, <3>2
  <2>6. \A u, v \in Workers :
          (/\ worker'[u].phase = "marked" /\ worker'[v].phase = "marked"
           /\ worker'[u].request = worker'[v].request) => u = v
    BY <1>7, <2>4 DEF DispatchInv, CallsInv
  <2>7. \A r \in Requests : calls'[r] \in 0 .. 1 /\ (calls'[r] = 1 => row'[r].marked)
    BY <1>3, <1>4, <1>8 DEF DispatchInv, CallsInv
  <2>8. ~Measured(row[Request(w)])
    BY <1>2, <1>3 DEF DispatchInv, CallsInv
  <2>9. /\ \A r \in Requests : Measured(row'[r]) => calls'[r] = 1 /\ row'[r].actual = used'[r]
        /\ \A r \in Requests : calls'[r] = 0 => used'[r] = 0
    BY <1>4, <1>7, <1>8, <2>8 DEF DispatchInv, CallsInv
  <2> QED BY <2>3, <2>4, <2>5, <2>6, <2>7, <2>9 DEF CallsInv, InCall, Measured
<1> QED BY <1>8, <1>9, <1>10, <1>11 DEF DispatchInv

-----------------------------------------------------------------------------
(* Steps of the circuit.                                                     *)
LEMMA CallsStay ==
  ASSUME DispatchInv, UNCHANGED <<spendVars, calls, used>>,
         \A v \in Workers : worker'[v].phase \in InCall => worker'[v] = worker[v]
  PROVE  SpendInv' /\ CallsInv'
<1>1. SpendInv' /\ RowsGoOn
  BY SpendStays DEF DispatchInv
<1>2. \A v \in Workers : worker'[v].phase \in InCall =>
        /\ worker[v].phase \in InCall /\ worker'[v].request = worker[v].request
        /\ worker'[v].phase = "marked" => worker[v].phase = "marked"
        /\ worker'[v].phase = "settling" =>
             worker[v].phase = "settling" /\ worker'[v].units = worker[v].units
  OBVIOUS
<1> QED BY <1>1, <1>2, CallsFrame DEF DispatchInv

LEMMA ReadCircuitKeeps ==
  ASSUME DispatchInv, NEW w \in Workers, NEW r \in Requests, ReadCircuit(w, r)
  PROVE  DispatchInv'
<1> DEFINE x == [phase |-> "read", request |-> r, seen |-> circuit, admitted |-> FALSE,
                 probe |-> 0, late |-> FALSE, result |-> "semantic", units |-> 0]
<1>1. worker' = [worker EXCEPT ![w] = x] /\ UNCHANGED <<rest, faults>>
  BY DEF ReadCircuit
<1>2. /\ worker \in [Workers -> {Idle} \union Turn] /\ circuit \in Circuit /\ MaxRevision \in Nat
      /\ circuit.revision \in Nat
  BY DispatchAssumption DEF DispatchInv, TypesInv, Circuit
<1>3. worker'[w] = x /\ \A v \in Workers : v # w => worker'[v] = worker[v]
  BY <1>1, <1>2
<1>4. x \in Turn
  BY <1>2 DEF Turn, Results
<1>5. x.phase = "read" /\ x.seen = circuit /\ x.probe = 0
  OBVIOUS
<1> HIDE DEF x
<1>6. SpendInv' /\ CallsInv'
  <2>1. \A v \in Workers : worker'[v].phase \in InCall => worker'[v] = worker[v]
    BY <1>3, <1>5 DEF InCall
  <2> QED BY <1>1, <2>1, CallsStay DEF rest
<1>7. TypesInv'
  BY <1>1, <1>2, <1>4 DEF DispatchInv, TypesInv, rest
<1>8. CircuitInv'
  <2>1. circuit' = circuit /\ due' = due
    BY <1>1 DEF rest
  <2>2. TurnFits(x)
    BY <1>2, <1>5 DEF TurnFits
  <2>3. \A v \in Workers : worker'[v] # Idle => TurnFits(worker'[v])
    BY <1>3, <2>2 DEF DispatchInv, CircuitInv
  <2>4. \A v \in Workers : worker'[v] # Idle => TurnFits(worker[v])'
    BY <2>1, <2>3 DEF TurnFits
  <2> QED BY <1>3, <1>5, <2>1, <2>4 DEF DispatchInv, CircuitInv
<1> QED BY <1>6, <1>7, <1>8 DEF DispatchInv

LEMMA AdmissionCommits ==
  ASSUME DispatchInv, NEW w \in Workers, worker[w] # Idle, Admissible(w), CommitAdmission(w)
  PROVE  /\ circuit' \in Circuit /\ circuit'.revision = circuit.revision + 1 /\ due' = FALSE
         /\ \A v \in Workers : worker[v] # Idle => worker[v].probe = 0 \/ worker[v].late
         /\ AsProbe(w) => circuit'.phase = "half_open" /\ circuit'.probe = circuit'.revision
         /\ circuit'.phase = "closed" => circuit.phase = "closed"
<1>1. /\ circuit.revision < MaxRevision /\ circuit.revision = worker[w].seen.revision
      /\ circuit' = [AfterAdmission(w) EXCEPT !.revision = circuit.revision + 1] /\ due' = FALSE
  BY DEF CommitAdmission, Commit
<1>2. worker[w].seen = circuit /\ circuit \in Circuit /\ circuit.revision \in 0 .. MaxRevision
      /\ MaxRevision \in Nat
  BY <1>1, Turns DEF DispatchInv, CircuitInv, TurnFits, TypesInv, Circuit
<1>3. PICK n \in 0 .. MaxRevision : n = circuit.revision + 1
  BY <1>1, <1>2
<1>4. \A v \in Workers : worker[v] # Idle =>
        \/ worker[v].probe = 0 \/ worker[v].late
        \/ circuit.phase = "half_open" /\ ~due
  BY DEF DispatchInv, CircuitInv, TurnFits
<1>5. CASE AsProbe(w)
  <2>1. due
    BY <1>5 DEF Admissible
  <2>2. circuit' = [[circuit EXCEPT !.phase = "half_open", !.probe = n] EXCEPT !.revision = n]
    BY <1>1, <1>2, <1>3, <1>5 DEF AfterAdmission
  <2>3. PICK y : y = [circuit EXCEPT !.phase = "half_open", !.probe = n]
    OBVIOUS
  <2>4. y \in Circuit /\ y.phase = "half_open" /\ y.probe = n
    BY <1>2, <2>3 DEF Circuit
  <2>5. circuit' = [y EXCEPT !.revision = n]
    BY <2>2, <2>3
  <2>6. circuit' \in Circuit /\ circuit'.phase = "half_open" /\ circuit'.probe = n /\ circuit'.revision = n
    BY <2>4, <2>5 DEF Circuit
  <2> QED BY <1>1, <1>3, <1>4, <2>1, <2>6
<1>6. CASE ~AsProbe(w)
  <2>1. circuit.phase = "closed"
    BY <1>2, <1>6 DEF AsProbe
  <2>2. circuit' = [circuit EXCEPT !.revision = n]
    BY <1>1, <1>2, <1>3, <1>6 DEF AfterAdmission
  <2>3. circuit' \in Circuit /\ circuit'.revision = n
    BY <1>2, <2>2 DEF Circuit
  <2> QED BY <1>1, <1>3, <1>4, <1>6, <2>1, <2>3
<1> QED BY <1>5, <1>6

LEMMA EnterCircuitKeeps ==
  ASSUME DispatchInv, NEW w \in Workers, EnterCircuit(w)
  PROVE  DispatchInv'
<1>1. /\ worker[w].phase = "held" /\ UNCHANGED <<spendVars, calls, used>>
      /\ UNCHANGED faults \/ (faults > 0 /\ faults' = faults - 1)
  BY DEF EnterCircuit, At, Lost
<1>2. /\ worker[w] # Idle /\ worker[w] \in Turn /\ worker \in [Workers -> {Idle} \union Turn]
      /\ circuit.revision \in 0 .. MaxRevision /\ worker[w].probe \in 0 .. MaxRevision
      /\ MaxRevision \in Nat
  BY <1>1, Awake, Turns DEF DispatchInv, TypesInv
<1>3. faults' \in 0 .. MaxFaults
  BY <1>1, FaultTypes
<1>4. Closed \in Circuit /\ Closed.revision = 0
  BY <1>2, DispatchAssumption DEF Closed, Circuit
<1>5. CASE /\ UNCHANGED <<circuit, due>>
           /\ worker' = [worker EXCEPT ![w].phase = "releasing", ![w].seen = Closed]
  <2>1. PICK x : x = [worker[w] EXCEPT !.phase = "releasing", !.seen = Closed]
    OBVIOUS
  <2>2. /\ x \in Turn /\ x.phase = "releasing" /\ x.seen = Closed /\ x.request = worker[w].request
        /\ x.probe = worker[w].probe /\ x.late = worker[w].late
    BY <1>2, <1>4, <2>1 DEF Turn
  <2>3. worker' = [worker EXCEPT ![w] = x]
    BY <1>2, <1>5, <2>1
  <2>4. SpendInv' /\ RowsGoOn
    BY <1>1, SpendStays DEF DispatchInv
  <2>5. x # Idle =>
          /\ worker[w] # Idle /\ x.request = worker[w].request /\ x.probe = worker[w].probe
          /\ ~x.late => ~worker[w].late
          /\ x.seen \in {worker[w].seen, Closed}
          /\ x.phase \notin {"marked", "settling", "closing"}
          /\ x.phase = "doubting" => worker[w].phase \in InCall
    BY <1>2, <2>2
  <2>6. x \in {Idle} \union Turn
    BY <2>2
  <2> QED BY <1>1, <1>3, <1>5, <2>3, <2>4, <2>5, <2>6, Moves
(* The admission is committed, and w knows it or does not. *)
<1>6. ASSUME Admissible(w), CommitAdmission(w),
             NEW x \in Turn, worker' = [worker EXCEPT ![w] = x], x.seen = Closed,
             x.phase \in {"admitted", "releasing"}, x.late = worker[w].late,
             \/ x.probe = worker[w].probe
             \/ x.probe = 0
             \/ AsProbe(w) /\ x.probe = circuit'.revision
      PROVE  DispatchInv'
  <2>1. /\ circuit' \in Circuit /\ circuit'.revision = circuit.revision + 1 /\ due' = FALSE
        /\ \A v \in Workers : worker[v] # Idle => worker[v].probe = 0 \/ worker[v].late
        /\ AsProbe(w) => circuit'.phase = "half_open" /\ circuit'.probe = circuit'.revision
    BY <1>2, <1>6, AdmissionCommits
  <2>2. worker'[w] = x /\ \A v \in Workers : v # w => worker'[v] = worker[v]
    BY <1>2, <1>6
  <2>3. TypesInv'
    BY <1>1, <1>2, <1>3, <1>6, <2>1 DEF DispatchInv, TypesInv
  <2>4. SpendInv' /\ CallsInv'
    <3>1. \A v \in Workers : worker'[v].phase \in InCall => worker'[v] = worker[v]
      BY <1>6, <2>2 DEF InCall
    <3> QED BY <1>1, <3>1, CallsStay
  <2>5. CircuitInv'
    <3>1. circuit'.revision # 0
      BY <1>2, <2>1
    <3>2. ASSUME NEW v \in Workers, v # w, worker[v] # Idle
          PROVE  /\ worker[v].seen.revision < circuit'.revision
                 /\ worker[v].probe < circuit'.revision
                 /\ worker[v].probe = 0 \/ worker[v].late
                 /\ worker[v].phase = "closing" /\ worker[v].probe # 0 =>
                      worker[v].seen.phase = "half_open" /\ worker[v].seen.probe = worker[v].probe
      <4>1. TurnFits(worker[v])
        BY <3>2 DEF DispatchInv, CircuitInv
      <4>2. /\ worker[v].seen.revision \in 0 .. MaxRevision /\ worker[v].probe \in 0 .. MaxRevision
        BY <3>2, Turns DEF DispatchInv
      <4> QED BY <1>2, <2>1, <3>2, <4>1, <4>2 DEF TurnFits
    <3>3. ASSUME NEW v \in Workers, v # w, worker[v] # Idle PROVE TurnFits(worker[v])'
      <4>1. worker[v].seen.revision \in 0 .. MaxRevision /\ worker[v].probe \in 0 .. MaxRevision
        BY <3>3, Turns DEF DispatchInv
      <4> QED BY <1>2, <2>1, <2>2, <3>2, <3>3, <4>1 DEF TurnFits
    <3>4. x.probe <= circuit'.revision /\ x.probe \in Nat
      <4>1. worker[w].probe <= circuit.revision
        BY <1>2 DEF DispatchInv, CircuitInv, TurnFits
      <4> QED BY <1>2, <1>6, <2>1, <4>1
    <3>5. TurnFits(worker[w])'
      BY <1>2, <1>4, <1>6, <2>1, <2>2, <3>1, <3>4 DEF TurnFits
    <3>6. \A u, v \in Workers :
            (/\ worker'[u] # Idle /\ worker'[v] # Idle
             /\ worker'[u].probe = worker'[v].probe /\ worker'[u].probe # 0) => u = v
      <4>1. \A v \in Workers : v # w /\ worker'[v] # Idle /\ worker'[v].probe # 0 =>
              worker'[v].probe # x.probe
        <5> SUFFICES ASSUME NEW v \in Workers, v # w, worker'[v] # Idle, worker'[v].probe # 0
                     PROVE  worker'[v].probe # x.probe
          OBVIOUS
        <5>1. worker'[v] = worker[v] /\ worker[v].probe < circuit'.revision
              /\ worker[v].probe \in 0 .. MaxRevision
          BY <2>2, <3>2, Turns DEF DispatchInv
        <5>2. worker[v].probe # worker[w].probe
          BY <1>2, <5>1 DEF DispatchInv, CircuitInv
        <5> QED BY <1>2, <1>6, <2>1, <5>1, <5>2
      <4> QED BY <2>2, <4>1 DEF DispatchInv, CircuitInv
    <3> QED BY <2>2, <3>1, <3>3, <3>5, <3>6 DEF CircuitInv
  <2> QED BY <2>3, <2>4, <2>5 DEF DispatchInv
<1>7. CASE /\ Admissible(w) /\ CommitAdmission(w)
           /\ worker' = [worker EXCEPT ![w].phase = "releasing", ![w].seen = Closed]
  <2>1. PICK x : x = [worker[w] EXCEPT !.phase = "releasing", !.seen = Closed]
    OBVIOUS
  <2>2. /\ x \in Turn /\ x.phase = "releasing" /\ x.seen = Closed
        /\ x.probe = worker[w].probe /\ x.late = worker[w].late
    BY <1>2, <1>4, <2>1 DEF Turn
  <2>3. worker' = [worker EXCEPT ![w] = x]
    BY <1>2, <1>7, <2>1
  <2> QED BY <1>6, <1>7, <2>2, <2>3
<1>8. CASE /\ Admissible(w) /\ CommitAdmission(w)
           /\ worker' = [worker EXCEPT ![w].phase = "admitted", ![w].admitted = TRUE,
                                       ![w].probe = IF AsProbe(w) THEN circuit'.revision ELSE 0,
                                       ![w].seen = Closed]
  <2>1. circuit'.revision \in 0 .. MaxRevision
    BY <1>2, <1>8, AdmissionCommits DEF Circuit
  <2>2. PICK n \in 0 .. MaxRevision : n = IF AsProbe(w) THEN circuit'.revision ELSE 0
    BY <1>2, <2>1
  <2>3. PICK x : x = [worker[w] EXCEPT !.phase = "admitted", !.admitted = TRUE, !.probe = n,
                                       !.seen = Closed]
    OBVIOUS
  <2>4. x \in Turn /\ x.phase = "admitted" /\ x.seen = Closed /\ x.probe = n /\ x.late = worker[w].late
    BY <1>2, <1>4, <2>3 DEF Turn
  <2>5. worker' = [worker EXCEPT ![w] = x]
    BY <1>2, <1>8, <2>2, <2>3
  <2> QED BY <1>6, <1>8, <2>2, <2>4, <2>5
<1> QED BY <1>5, <1>7, <1>8 DEF EnterCircuit, Lost

LEMMA ReadForOutcomeKeeps ==
  ASSUME DispatchInv, NEW w \in Workers, ReadForOutcome(w)
  PROVE  DispatchInv'
<1>1. worker[w].phase = "reporting" /\ UNCHANGED <<rest, faults>>
  BY DEF ReadForOutcome, At
<1>2. /\ worker[w] # Idle /\ worker[w] \in Turn /\ worker \in [Workers -> {Idle} \union Turn]
      /\ circuit \in Circuit /\ circuit.revision \in Nat
      /\ worker[w].probe \in Nat
  BY <1>1, Awake, Turns DEF DispatchInv, TypesInv, Circuit
<1>3. SpendInv' /\ RowsGoOn /\ faults' \in 0 .. MaxFaults /\ UNCHANGED <<circuit, due, calls, used>>
  BY <1>1, SpendStays, FaultTypes DEF DispatchInv, rest
<1>4. CASE End(w)
  BY <1>3, <1>4, EndKeeps
<1>5. CASE /\ ~(worker[w].late \/ StaleProbe(w))
           /\ worker' = [worker EXCEPT ![w].phase = "closing", ![w].seen = circuit]
  <2>1. PICK x : x = [worker[w] EXCEPT !.phase = "closing", !.seen = circuit]
    OBVIOUS
  <2>2. /\ x \in Turn /\ x.phase = "closing" /\ x.seen = circuit /\ x.probe = worker[w].probe
        /\ x.late = worker[w].late
    BY <1>2, <2>1 DEF Turn
  <2>3. worker' = [worker EXCEPT ![w] = x]
    BY <1>2, <1>5, <2>1
  <2>4. worker'[w] = x /\ \A v \in Workers : v # w => worker'[v] = worker[v]
    BY <1>2, <2>3
  <2>5. TypesInv'
    BY <1>2, <1>3, <2>2, <2>3 DEF DispatchInv, TypesInv
  <2>6. CallsInv'
    <3>1. \A v \in Workers : worker'[v].phase \in InCall => worker'[v] = worker[v]
      BY <2>2, <2>4 DEF InCall
    <3>2. UNCHANGED <<spendVars, calls, used>>
      BY <1>1 DEF rest
    <3> QED BY <3>1, <3>2, CallsStay
  <2>7. CircuitInv'
    <3>1. TurnFits(worker[w])
      BY <1>2 DEF DispatchInv, CircuitInv
    <3>2. x.probe # 0 => circuit.phase = "half_open" /\ circuit.probe = x.probe
      BY <1>5, <2>2 DEF StaleProbe
    <3>3. TurnFits(x)
      BY <1>2, <2>2, <3>1, <3>2 DEF TurnFits
    <3>4. \A v \in Workers : worker'[v] # Idle => TurnFits(worker'[v])
      BY <2>4, <3>3 DEF DispatchInv, CircuitInv
    <3>5. \A v \in Workers : worker'[v] # Idle => TurnFits(worker[v])'
      BY <1>3, <3>4 DEF TurnFits
    <3> QED BY <1>2, <1>3, <2>2, <2>4, <3>5 DEF DispatchInv, CircuitInv
  <2> QED BY <1>3, <2>5, <2>6, <2>7 DEF DispatchInv
<1> QED BY <1>4, <1>5 DEF ReadForOutcome

(* What an outcome commits.                                                  *)
LEMMA OutcomesFit ==
  ASSUME DispatchInv, NEW w \in Workers, worker[w] # Idle, worker[w].seen = circuit,
         NEW next \in Outcomes(w)
  PROVE  /\ next \in Circuit
         /\ circuit.phase # "closed" /\ next.phase = "closed" =>
              worker[w].probe # 0 /\ worker[w].result = "success"
         /\ circuit.phase # "closed" /\ worker[w].probe = 0 => next = circuit
<1>1. /\ circuit \in Circuit /\ circuit.failures \in 0 .. Threshold /\ Threshold \in Nat \ {0}
      /\ MaxRevision \in Nat
  BY DispatchAssumption DEF DispatchInv, TypesInv, Circuit
<1>2. \A n \in 0 .. Threshold : Opened(circuit, n) \in Circuit /\ Opened(circuit, n).phase = "open"
  <2> SUFFICES ASSUME NEW n \in 0 .. Threshold
               PROVE  Opened(circuit, n) \in Circuit /\ Opened(circuit, n).phase = "open"
    OBVIOUS
  <2>1. PICK x : x = [circuit EXCEPT !.phase = "open", !.failures = n, !.probe = 0]
    OBVIOUS
  <2>2. /\ x.phase = "open" /\ x.failures = n /\ x.probe = 0 /\ x.revision = circuit.revision
        /\ 0 \in 0 .. MaxRevision
    BY <1>1, <2>1 DEF Circuit
  <2>3. x \in Circuit
    BY <1>1, <2>1, <2>2 DEF Circuit
  <2> QED BY <2>1, <2>2, <2>3 DEF Opened
<1>3. Recovered(circuit) \in Circuit
  <2>1. PICK x : x = [circuit EXCEPT !.phase = "closed", !.failures = 0, !.probe = 0]
    OBVIOUS
  <2>2. 0 \in 0 .. MaxRevision /\ 0 \in 0 .. Threshold
    BY <1>1
  <2>3. x \in Circuit
    BY <1>1, <2>1, <2>2 DEF Circuit
  <2> QED BY <2>1, <2>3 DEF Recovered
<1>4. Threshold \in 0 .. Threshold
  BY <1>1
<1>5. CASE worker[w].probe # 0
  BY <1>1, <1>2, <1>3, <1>5 DEF Outcomes
<1>6. CASE worker[w].probe = 0 /\ (circuit.phase # "closed" \/ worker[w].result = "semantic")
  BY <1>1, <1>6 DEF Outcomes
<1>7. CASE worker[w].probe = 0 /\ circuit.phase = "closed" /\ worker[w].result = "success"
  BY <1>3, <1>7 DEF Outcomes
<1>8. CASE worker[w].probe = 0 /\ circuit.phase = "closed" /\ worker[w].result = "account"
  BY <1>2, <1>4, <1>8 DEF Outcomes
<1>9. CASE /\ worker[w].probe = 0 /\ circuit.phase = "closed"
           /\ worker[w].result \notin {"semantic", "success", "account"}
  <2>1. next \in Counted(circuit)
    BY <1>9 DEF Outcomes
  <2>2. PICK n \in {1, circuit.failures + 1} :
          next = IF n >= Threshold THEN Opened(circuit, Threshold) ELSE [circuit EXCEPT !.failures = n]
    BY <2>1 DEF Counted
  <2>3. n \in Nat
    BY <1>1, <2>2
  <2>4. CASE n >= Threshold
    BY <1>2, <1>4, <1>9, <2>2, <2>4
  <2>5. CASE ~(n >= Threshold)
    <3>1. n \in 0 .. Threshold
      BY <1>1, <2>3, <2>5
    <3> QED BY <1>1, <1>9, <2>2, <2>5, <3>1 DEF Circuit
  <2> QED BY <2>4, <2>5
<1> QED BY <1>5, <1>6, <1>7, <1>8, <1>9

LEMMA CommitOutcomeKeeps ==
  ASSUME DispatchInv, NEW w \in Workers, CommitOutcome(w)
  PROVE  DispatchInv'
<1>1. worker[w].phase = "closing" /\ UNCHANGED <<spendVars, calls, used, faults>> /\ End(w)
  BY DEF CommitOutcome, At
<1>2. /\ worker[w] # Idle /\ worker[w] \in Turn /\ worker \in [Workers -> {Idle} \union Turn]
      /\ circuit \in Circuit /\ circuit.revision \in Nat /\ MaxRevision \in Nat
      /\ due \in BOOLEAN
  BY <1>1, Awake, Turns DEF DispatchInv, TypesInv, Circuit
<1>3. SpendInv' /\ RowsGoOn /\ faults' \in 0 .. MaxFaults
  BY <1>1, SpendStays, FaultTypes DEF DispatchInv
<1>4. CASE UNCHANGED <<circuit, due>>
  BY <1>1, <1>3, <1>4, EndKeeps
<1>5. ASSUME circuit.revision < MaxRevision, NEW next \in Outcomes(w), Commit(w, next),
             due' = (due /\ circuit'.phase # "closed" /\ worker[w].probe = 0)
      PROVE  DispatchInv'
  <2>1. circuit.revision = worker[w].seen.revision
        /\ circuit' = [next EXCEPT !.revision = circuit.revision + 1]
    BY <1>5 DEF Commit
  <2>2. TurnFits(worker[w]) /\ worker[w].seen = circuit
    BY <1>2, <2>1 DEF DispatchInv, CircuitInv, TurnFits
  <2>3. /\ next \in Circuit
        /\ circuit.phase # "closed" /\ worker[w].probe = 0 => next = circuit
    BY <1>2, <2>2, OutcomesFit
  <2>4. PICK n \in 0 .. MaxRevision : n = circuit.revision + 1
    BY <1>2, <1>5
  <2>5. circuit' \in Circuit /\ circuit'.revision = n /\ circuit'.phase = next.phase
        /\ circuit'.probe = next.probe
    BY <2>1, <2>3, <2>4 DEF Circuit
  <2>6. worker'[w] = Idle /\ \A v \in Workers : v # w => worker'[v] = worker[v]
    BY <1>1, <1>2 DEF End
  <2>7. TypesInv'
    <3>1. worker' \in [Workers -> {Idle} \union Turn]
      BY <1>1, <1>2 DEF End
    <3>2. due' \in BOOLEAN
      BY <1>5
    <3> QED BY <1>1, <1>3, <2>5, <3>1, <3>2 DEF DispatchInv, TypesInv
  <2>8. CallsInv'
    <3>1. Idle.phase \notin InCall
      BY DEF Idle, InCall
    <3>2. \A v \in Workers : worker'[v].phase \in InCall => worker'[v] = worker[v]
      BY <2>6, <3>1
    <3> QED BY <1>1, <3>2, CallsStay
  <2>9. CircuitInv'
    <3>1. ASSUME NEW v \in Workers, v # w, worker[v] # Idle
          PROVE  /\ worker[v].seen.revision < circuit'.revision
                 /\ worker[v].probe < circuit'.revision
                 /\ worker[v].probe # 0 /\ ~worker[v].late =>
                      circuit'.phase = "half_open" /\ circuit'.probe = worker[v].probe /\ ~due'
                 /\ worker[v].phase = "closing" /\ worker[v].probe # 0 =>
                      worker[v].seen.phase = "half_open" /\ worker[v].seen.probe = worker[v].probe
      <4>1. TurnFits(worker[v])
        BY <3>1 DEF DispatchInv, CircuitInv
      <4>2. worker[v].seen.revision \in 0 .. MaxRevision /\ worker[v].probe \in 0 .. MaxRevision
        BY <3>1, Turns DEF DispatchInv
      <4>3. worker[v].seen.revision < circuit'.revision /\ worker[v].probe < circuit'.revision
        BY <1>2, <2>4, <2>5, <4>1, <4>2 DEF TurnFits
      <4>4. ASSUME worker[v].probe # 0, ~worker[v].late
            PROVE  circuit'.phase = "half_open" /\ circuit'.probe = worker[v].probe /\ ~due'
        <5>1. circuit.phase = "half_open" /\ circuit.probe = worker[v].probe /\ ~due
          BY <4>1, <4>4 DEF TurnFits
        <5>2. worker[w].probe = 0
          <6>1. worker[w].probe # 0 => circuit.probe = worker[w].probe
            BY <1>1, <2>2 DEF TurnFits
          <6>2. worker[w].probe # worker[v].probe
            BY <1>2, <3>1, <4>4 DEF DispatchInv, CircuitInv
          <6> QED BY <5>1, <6>1, <6>2
        <5> QED BY <1>5, <2>3, <2>5, <5>1, <5>2
      <4> QED BY <4>1, <4>3, <4>4 DEF TurnFits
    <3>2. ASSUME NEW v \in Workers, v # w, worker[v] # Idle PROVE TurnFits(worker[v])'
      <4>1. worker[v].seen.revision \in 0 .. MaxRevision /\ worker[v].probe \in 0 .. MaxRevision
        BY <3>2, Turns DEF DispatchInv
      <4>2. worker'[v] = worker[v] /\ circuit'.revision \in Nat
        BY <2>4, <2>5, <2>6, <3>2
      <4>3. /\ worker'[v].seen.revision <= circuit'.revision
            /\ worker'[v].seen.revision # circuit'.revision
            /\ worker'[v].probe <= circuit'.revision
        BY <3>1, <3>2, <4>1, <4>2
      <4> QED BY <3>1, <3>2, <4>2, <4>3 DEF TurnFits
    <3>3. circuit'.revision # 0
      BY <1>2, <2>4, <2>5
    <3> QED BY <2>6, <3>2, <3>3 DEF DispatchInv, CircuitInv
  <2> QED BY <1>3, <2>7, <2>8, <2>9 DEF DispatchInv
<1>6. \/ UNCHANGED <<circuit, due>>
      \/ /\ circuit.revision < MaxRevision
         /\ \E next \in Outcomes(w) : Commit(w, next)
         /\ due' = (due /\ circuit'.phase # "closed" /\ worker[w].probe = 0)
  BY DEF CommitOutcome
<1> QED BY <1>4, <1>5, <1>6

-----------------------------------------------------------------------------
(* Time, and what resolves a reservation.                                    *)
LEMMA CircuitFallsDueKeeps ==
  ASSUME DispatchInv, CircuitFallsDue
  PROVE  DispatchInv'
<1>1. /\ due' = TRUE /\ UNCHANGED <<spendVars, circuit, calls, used, faults>>
      /\ worker' = [w \in Workers |->
           IF worker[w] # Idle /\ worker[w].probe # 0 /\ worker[w].probe = circuit.probe
           THEN [worker[w] EXCEPT !.late = TRUE] ELSE worker[w]]
  BY DEF CircuitFallsDue
<1>2. worker \in [Workers -> {Idle} \union Turn]
  BY DEF DispatchInv, TypesInv
<1>3. ASSUME NEW v \in Workers, worker[v] # Idle
      PROVE  /\ worker'[v] \in Turn /\ worker'[v].phase = worker[v].phase
             /\ worker'[v].request = worker[v].request /\ worker'[v].probe = worker[v].probe
             /\ worker'[v].seen = worker[v].seen /\ worker'[v].units = worker[v].units
             /\ worker'[v].probe # 0 /\ worker'[v].probe = circuit.probe => worker'[v].late
             /\ ~worker'[v].late => ~worker[v].late
  <2>1. worker[v] \in Turn
    BY <1>2, <1>3
  <2>2. CASE worker[v].probe # 0 /\ worker[v].probe = circuit.probe
    <3>1. PICK x : x = [worker[v] EXCEPT !.late = TRUE]
      OBVIOUS
    <3>2. worker'[v] = x
      BY <1>1, <1>3, <2>2, <3>1
    <3>3. /\ x \in Turn /\ x.phase = worker[v].phase /\ x.request = worker[v].request
          /\ x.probe = worker[v].probe /\ x.seen = worker[v].seen /\ x.units = worker[v].units
          /\ x.late = TRUE
      BY <2>1, <3>1 DEF Turn
    <3> QED BY <3>2, <3>3
  <2>3. CASE ~(worker[v].probe # 0 /\ worker[v].probe = circuit.probe)
    BY <1>1, <1>3, <2>1, <2>3
  <2> QED BY <2>2, <2>3
<1>4. \A v \in Workers : worker[v] = Idle => worker'[v] = Idle
  BY <1>1
<1>5. TypesInv'
  <2>1. \A v \in Workers : worker'[v] \in {Idle} \union Turn
    BY <1>3, <1>4
  <2>2. worker' \in [Workers -> {Idle} \union Turn]
    BY <1>1, <2>1
  <2> QED BY <1>1, <2>2 DEF DispatchInv, TypesInv
<1>6. SpendInv' /\ RowsGoOn
  BY <1>1, SpendStays DEF DispatchInv
<1>7. CallsInv'
  <2>1. Idle.phase \notin InCall
    BY DEF Idle, InCall
  <2>2. \A v \in Workers : worker'[v].phase \in InCall =>
           /\ worker[v].phase \in InCall /\ worker'[v].request = worker[v].request
           /\ worker'[v].phase = "marked" => worker[v].phase = "marked"
           /\ worker'[v].phase = "settling" =>
                worker[v].phase = "settling" /\ worker'[v].units = worker[v].units
    BY <1>3, <1>4, <2>1
  <2> QED BY <1>1, <1>6, <2>2, CallsFrame DEF DispatchInv
<1>8. CircuitInv'
  <2>1. ASSUME NEW v \in Workers, worker'[v] # Idle PROVE worker[v] # Idle /\ TurnFits(worker[v])'
    <3>1. worker[v] # Idle /\ TurnFits(worker[v])
      BY <1>4, <2>1 DEF DispatchInv, CircuitInv
    <3>2. worker'[v].probe # 0 => worker'[v].late
      BY <1>3, <3>1 DEF TurnFits
    <3> QED BY <1>1, <1>3, <3>1, <3>2 DEF TurnFits
  <2> QED BY <1>1, <1>3, <2>1 DEF DispatchInv, CircuitInv
<1> QED BY <1>5, <1>6, <1>7, <1>8 DEF DispatchInv

LEMMA AdmissionEndsKeeps ==
  ASSUME DispatchInv, NEW w \in Workers, AdmissionEnds(w)
  PROVE  DispatchInv'
<1>1. /\ worker[w] # Idle /\ UNCHANGED <<rest, faults>>
      /\ worker' = [worker EXCEPT ![w].late = TRUE]
  BY DEF AdmissionEnds
<1>2. worker \in [Workers -> {Idle} \union Turn] /\ worker[w] \in Turn
  BY <1>1, Turns DEF DispatchInv, TypesInv
<1>3. PICK x : x = [worker[w] EXCEPT !.late = TRUE]
  OBVIOUS
<1>4. /\ x \in Turn /\ x.phase = worker[w].phase /\ x.request = worker[w].request
      /\ x.probe = worker[w].probe /\ x.seen = worker[w].seen /\ x.units = worker[w].units
      /\ x.late = TRUE
  BY <1>2, <1>3 DEF Turn
<1>5. worker' = [worker EXCEPT ![w] = x]
  BY <1>1, <1>2, <1>3
<1>6. worker'[w] = x /\ \A v \in Workers : v # w => worker'[v] = worker[v]
  BY <1>2, <1>5
<1>7. SpendInv' /\ RowsGoOn /\ UNCHANGED <<circuit, due, calls, used, faults>>
  BY <1>1, SpendStays DEF DispatchInv, rest
<1>8. TypesInv'
  BY <1>2, <1>4, <1>5, <1>7 DEF DispatchInv, TypesInv
<1>9. CallsInv'
  <2>1. \A v \in Workers : worker'[v].phase \in InCall =>
           /\ worker[v].phase \in InCall /\ worker'[v].request = worker[v].request
           /\ worker'[v].phase = "marked" => worker[v].phase = "marked"
           /\ worker'[v].phase = "settling" =>
                worker[v].phase = "settling" /\ worker'[v].units = worker[v].units
    BY <1>4, <1>6
  <2> QED BY <1>7, <2>1, CallsFrame DEF DispatchInv
<1>10. CircuitInv'
  <2>1. \A v \in Workers : worker'[v] # Idle =>
           /\ worker[v] # Idle /\ worker'[v].probe = worker[v].probe
           /\ ~worker'[v].late => ~worker[v].late
           /\ worker'[v].seen \in {worker[v].seen, Closed}
           /\ worker'[v].phase = "closing" =>
                worker[v].phase = "closing" /\ worker'[v].seen = worker[v].seen
    BY <1>1, <1>4, <1>6
  <2> QED BY <1>7, <2>1, CircuitFrame DEF DispatchInv
<1> QED BY <1>7, <1>8, <1>9, <1>10 DEF DispatchInv

LEMMA RowsAloneKeep ==
  ASSUME DispatchInv, SpendInv', AllKeep, UNCHANGED <<circuit, due, worker, calls, used, faults>>
  PROVE  DispatchInv'
<1>1. RowsGoOn
  BY KeepingGoesOn
<1>2. TypesInv'
  BY DEF DispatchInv, TypesInv
<1>3. CallsInv'
  <2>1. \A v \in Workers : worker'[v] = worker[v]
    OBVIOUS
  <2> QED BY <1>1, <2>1, CallsFrame DEF DispatchInv
<1>4. CircuitInv'
  BY DEF DispatchInv, CircuitInv, TurnFits
<1> QED BY <1>2, <1>3, <1>4 DEF DispatchInv

LEMMA ResolveKeeps ==
  ASSUME DispatchInv, NEW r \in Requests, Resolve(r)
  PROVE  DispatchInv'
<1>1. UNCHANGED <<circuit, due, worker, calls, used, faults>>
  BY DEF Resolve
<1>2. Reserved[r] \in Nat
  BY SpendAssumption
<1>3. \E outcome \in {"settled", "released"}, units \in Nat : Reconcile(r, outcome, units)
  BY <1>2 DEF Resolve
<1>4. SpendInv' /\ AllKeep
  BY <1>3, ReconcileKeeps DEF DispatchInv
<1> QED BY <1>1, <1>4, RowsAloneKeep

LEMMA LapseKeeps ==
  ASSUME DispatchInv, NEW r \in Requests, Lapse(r)
  PROVE  DispatchInv'
<1>1. UNCHANGED <<circuit, due, worker, calls, used, faults>> /\ RowLapses(r)
  BY DEF Lapse
<1>2. SpendInv' /\ AllKeep
  BY <1>1, RowLapsesKeeps DEF DispatchInv
<1> QED BY <1>1, <1>2, RowsAloneKeep

-----------------------------------------------------------------------------
LEMMA DispatchStarts ==
  ASSUME Init
  PROVE  DispatchInv
<1>1. /\ row = [r \in Requests |-> NoRow] /\ turn = [t \in Tenants |-> 0] /\ held = 0 /\ spent = 0
      /\ circuit = Closed /\ due = FALSE /\ worker = [w \in Workers |-> Idle]
      /\ calls = [r \in Requests |-> 0] /\ used = [r \in Requests |-> 0] /\ faults = MaxFaults
  BY DEF Init, SpendInit
<1>2. SpendInv
  <2>1. row \in [Requests -> Row] /\ \A r \in Requests : IsSound(row[r])
    BY <1>1 DEF NoRow, Row, States, IsSound
  <2>2. \A r \in Requests : HeldBy(row)[r] = 0 /\ ChargedBy(row)[r] = 0 /\ Commitment(row)[r] = 0
    BY <1>1 DEF HeldBy, ChargedBy, HeldOf, ChargedOf, Commitment, NoRow
  <2>3. \A t : OfTenant(t) \subseteq Requests
    BY DEF OfTenant
  <2>4. /\ Total(HeldBy(row), Requests) = 0 /\ Total(ChargedBy(row), Requests) = 0
        /\ Total(Commitment(row), Requests) = 0
        /\ \A t : Total(Commitment(row), OfTenant(t)) = 0
    BY <2>2, <2>3, TotalZero
  <2>5. WithinBudgets(row)
    BY <2>4, SpendAssumption DEF WithinBudgets
  <2>6. turn \in [Tenants -> Nat]
    BY <1>1
  <2> QED BY <1>1, <2>1, <2>4, <2>5, <2>6 DEF SpendInv, BooksBalance
<1>3. TypesInv
  <2>1. Closed \in Circuit
    BY DispatchAssumption DEF Closed, Circuit
  <2>2. faults \in 0 .. MaxFaults
    BY <1>1, DispatchAssumption
  <2>3. worker \in [Workers -> {Idle} \union Turn]
    BY <1>1
  <2>4. calls \in [Requests -> Nat] /\ used \in [Requests -> Nat] /\ due \in BOOLEAN
    BY <1>1
  <2> QED BY <1>1, <2>1, <2>2, <2>3, <2>4 DEF TypesInv
<1>4. CallsInv
  BY <1>1 DEF CallsInv, InCall, Measured, Idle, NoRow
<1>5. CircuitInv
  BY <1>1 DEF CircuitInv
<1> QED BY <1>2, <1>3, <1>4, <1>5 DEF DispatchInv

LEMMA DispatchSteps ==
  ASSUME DispatchInv, [Next]_vars
  PROVE  DispatchInv'
<1>1. ASSUME NEW w \in Workers, WorkerStep(w) PROVE DispatchInv'
  BY <1>1, TakeHoldKeeps, QuietStepsKeep, EnterCircuitKeeps, ReleaseHoldKeeps, StartDispatchKeeps,
     CallProviderKeeps, SettleCallKeeps, DoubtKeeps, ReadForOutcomeKeeps, CommitOutcomeKeeps
     DEF WorkerStep
<1>2. ASSUME NEW w \in Workers, Dies(w) PROVE DispatchInv'
  BY <1>2, QuietStepsKeep
<1>3. CASE UNCHANGED vars
  <2>1. UNCHANGED <<circuit, due, worker, calls, used, faults>> /\ UNCHANGED spendVars
    BY <1>3 DEF vars
  <2>2. SpendInv' /\ AllKeep
    BY <2>1, SpendStays DEF DispatchInv, spendVars, AllKeep, Keeps
  <2> QED BY <2>1, <2>2, RowsAloneKeep
<1> QED BY <1>1, <1>2, <1>3, ReadCircuitKeeps, AdmissionEndsKeeps, ResolveKeeps, LapseKeeps,
           CircuitFallsDueKeeps DEF Next

(* The books balance, marks come before calls, and readings of the circuit   *)
(* agree with it, in every state.                                            *)
THEOREM DispatchInvariance == Spec => []DispatchInv
BY DispatchStarts, DispatchSteps, PTL DEF Spec

(* Every variable keeps its type.                                            *)
THEOREM DispatchTypes == Spec => []DispatchTypeOK
<1>1. ASSUME DispatchInv PROVE DispatchTypeOK
  <2>1. row \in [Requests -> Row] /\ held \in Nat /\ spent \in Nat /\ turn \in [Tenants -> Nat]
    BY <1>1, BooksAddUp DEF DispatchInv, SpendInv, BooksBalance
  <2> QED BY <1>1, <2>1 DEF DispatchTypeOK, DispatchInv, TypesInv, SpendTypeOK
<1> QED BY <1>1, DispatchInvariance, PTL

(* No budget is ever exceeded, whatever answers, sweeps and reconciliations  *)
(* meet.                                                                     *)
THEOREM BudgetsAlwaysHold == Spec => []BudgetHolds
<1>1. ASSUME DispatchInv PROVE BudgetHolds
  BY <1>1, BooksAddUp DEF DispatchInv, SpendInv, BooksBalance, WithinBudgets, BudgetHolds
<1> QED BY <1>1, DispatchInvariance, PTL

(* A request is paid for once, and only for the call that was made.          *)
THEOREM CallsStayAccounted == Spec => []CallsAreAccounted
<1>1. ASSUME DispatchInv PROVE CallsAreAccounted
  <2>1. ASSUME NEW r \in Requests
        PROVE  /\ calls[r] <= 1
               /\ calls[r] = 1 => \/ row[r].state = "reserved" /\ row[r].marked
                                  \/ row[r].state = "settled"
                                  \/ row[r].resolved
               /\ row[r].state = "settled" /\ ~row[r].resolved =>
                    calls[r] = 1 /\ row[r].actual = used[r]
    <3>1. IsSound(row[r])
      BY <1>1, RowFacts DEF DispatchInv
    <3> QED BY <1>1, <3>1 DEF DispatchInv, CallsInv, IsSound, Measured
  <2> QED BY <2>1 DEF CallsAreAccounted
<1> QED BY <1>1, DispatchInvariance, PTL

(* No two probes are under way with time left.                               *)
THEOREM OneProbeAtATime == Spec => []OneProbe
<1>1. ASSUME DispatchInv PROVE OneProbe
  BY <1>1 DEF DispatchInv, CircuitInv, TurnFits, OneProbe
<1> QED BY <1>1, DispatchInvariance, PTL

(* An open circuit closes only on the success of the probe it waits for.     *)
THEOREM ClosingTakesProof == Spec => ClosesOnProof
<1> DEFINE Proven ==
      circuit.phase # "closed" /\ circuit'.phase = "closed" =>
        /\ circuit.phase = "half_open"
        /\ \E w \in Workers : /\ worker[w] # Idle /\ worker[w].result = "success"
                              /\ worker[w].probe # 0 /\ worker[w].probe = circuit.probe
<1>1. ASSUME DispatchInv, [Next]_vars PROVE Proven
  <2>1. ASSUME NEW w \in Workers, EnterCircuit(w) PROVE Proven
    <3>1. worker[w] # Idle
      BY <2>1, Awake DEF EnterCircuit, At
    <3>2. UNCHANGED circuit \/ (Admissible(w) /\ CommitAdmission(w))
      BY <2>1 DEF EnterCircuit, Lost
    <3> QED BY <1>1, <3>1, <3>2, AdmissionCommits
  <2>2. ASSUME NEW w \in Workers, CommitOutcome(w) PROVE Proven
    <3>1. worker[w].phase = "closing" /\ worker[w] # Idle
      BY <2>2, Awake DEF CommitOutcome, At
    <3>2. UNCHANGED circuit \/ \E next \in Outcomes(w) : Commit(w, next)
      BY <2>2 DEF CommitOutcome
    <3>3. ASSUME NEW next \in Outcomes(w), Commit(w, next) PROVE Proven
      <4>1. TurnFits(worker[w]) /\ worker[w].seen = circuit
        BY <1>1, <3>1, <3>3 DEF Commit, DispatchInv, CircuitInv, TurnFits
      <4>2. /\ next \in Circuit
            /\ circuit.phase # "closed" /\ next.phase = "closed" =>
                 worker[w].probe # 0 /\ worker[w].result = "success"
        BY <1>1, <3>1, <4>1, OutcomesFit
      <4>3. circuit'.phase = next.phase
        BY <3>3, <4>2 DEF Commit, Circuit
      <4> QED BY <3>1, <4>1, <4>2, <4>3 DEF TurnFits
    <3> QED BY <3>2, <3>3
  <2>3. CASE UNCHANGED circuit
    BY <2>3
  <2>4. (\E w \in Workers : EnterCircuit(w) \/ CommitOutcome(w)) \/ UNCHANGED circuit
    BY <1>1 DEF Next, WorkerStep, ReadCircuit, TakeHold, HoldRefused, AttemptUnrecorded, ReleaseHold,
       StartDispatch, CallProvider, SettleCall, Doubt, ReadForOutcome, Dies, AdmissionEnds, Resolve,
       Lapse, CircuitFallsDue, rest, vars
  <2> HIDE DEF Proven
  <2> QED BY <2>1, <2>2, <2>3, <2>4
<1>2. DispatchInv /\ [Next]_vars => [Proven]_vars
  BY <1>1
<1> QED BY <1>2, DispatchInvariance, PTL DEF Spec, ClosesOnProof

-----------------------------------------------------------------------------
(* The abstract bill.  A step of a row is a step of its stage.               *)
StagesOf(rows) == [r \in Requests |-> Stage(rows[r])]

LEMMA StageOf ==
  ASSUME NEW x \in Row, IsSound(x)
  PROVE  /\ Stage(x) \in Paid!Stages
         /\ x.state \in {"none", "queued", "rejected", "queue_expired"} => Stage(x) = "none"
         /\ x.state = "reserved" => Stage(x) = IF x.pending THEN "doubtful" ELSE "committed"
         /\ x.state = "settled" /\ ~x.resolved => Stage(x) = "charged"
         /\ x.state \in {"released", "expired"} /\ ~x.resolved => Stage(x) = "returned"
         /\ x.resolved => Stage(x) = "resolved"
<1>1. x.state \in States
  BY DEF Row
<1> QED BY <1>1 DEF Stage, States, IsSound, Paid!Stages

(* What the rows commit is what their stages do.                             *)
LEMMA BillWithinBudgets == SpendInv => Paid!WithinBudgets
<1> SUFFICES ASSUME SpendInv PROVE Paid!WithinBudgets
  OBVIOUS
<1>1. \A r \in Requests : Paid!Commitments[r] = Commitment(row)[r]
  <2> SUFFICES ASSUME NEW r \in Requests PROVE Paid!Commitments[r] = Commitment(row)[r]
    OBVIOUS
  <2>1. row[r] \in Row /\ IsSound(row[r])
    BY RowFacts
  <2>2. Paid!Commitments[r] = IF Stage(row[r]) \in {"committed", "doubtful"} THEN Reserved[r]
                             ELSE IF row[r].state = "settled" THEN row[r].actual ELSE 0
    BY DEF Paid!Commitments
  <2>3. row[r].state \in States
    BY <2>1 DEF Row
  <2>4. Stage(row[r]) \in {"committed", "doubtful"} <=> row[r].state = "reserved"
    BY <2>1, <2>3, StageOf DEF States, IsSound
  <2>5. Commitment(row)[r] = IF row[r].state = "reserved" THEN Reserved[r]
                             ELSE IF row[r].state = "settled" THEN row[r].actual ELSE 0
    BY DEF Commitment
  <2> QED BY <2>2, <2>4, <2>5
<1>2. ASSUME NEW R \in SUBSET Requests PROVE Paid!Sum(R) = Total(Commitment(row), R)
  <2>0. \A S : Paid!Cardinality(S) = Cardinality(S)
    BY DEF Paid!Cardinality, Cardinality
  <2>1. Paid!Sum(R) = Total(Paid!Commitments, R)
    BY <2>0 DEF Paid!Sum, Total, Units
  <2> QED BY <1>1, <2>1, TotalEqual
<1>3. \A t \in Tenants : OfTenant(t) \subseteq Requests /\ OfTenant(t) = {r \in Requests : TenantOf[r] = t}
  BY DEF OfTenant
<1>4. WithinBudgets(row)
  BY DEF SpendInv, BooksBalance
<1> QED BY <1>2, <1>3, <1>4 DEF WithinBudgets, Paid!WithinBudgets

LEMMA BillStaysWithinBudgets == SpendInv' => Paid!WithinBudgets'
BY BillWithinBudgets, PTL

(* One row changes, and one stage with it.                                   *)
LEMMA OneStage ==
  ASSUME SpendInv, SpendInv', NEW r \in Requests, row' = [row EXCEPT ![r] = row'[r]]
  PROVE  /\ StagesOf(row)' = [StagesOf(row) EXCEPT ![r] = Stage(row'[r])]
         /\ ChargedBy(row)' = [ChargedBy(row) EXCEPT ![r] = ChargedOf(row'[r])]
         /\ StagesOf(row)[r] = Stage(row[r]) /\ ChargedBy(row)[r] = ChargedOf(row[r])
         /\ row'[r] \in Row /\ IsSound(row'[r]) /\ row[r] \in Row /\ IsSound(row[r])
<1>1. row \in [Requests -> Row] /\ row' \in [Requests -> Row] /\ IsSound(row[r]) /\ IsSound(row'[r])
  BY DEF SpendInv, BooksBalance
<1>2. \A q \in Requests : q # r => row'[q] = row[q]
  BY <1>1
<1>3. StagesOf(row)' = [StagesOf(row) EXCEPT ![r] = Stage(row'[r])]
  BY <1>2 DEF StagesOf
<1>4. ChargedBy(row)' = [ChargedBy(row) EXCEPT ![r] = ChargedOf(row'[r])]
  BY <1>2 DEF ChargedBy
<1> QED BY <1>1, <1>3, <1>4 DEF StagesOf, ChargedBy

(* The bill does not change.                                                 *)
LEMMA BillStands ==
  ASSUME StagesOf(row)' = StagesOf(row), ChargedBy(row)' = ChargedBy(row), UNCHANGED <<calls, used>>
  PROVE  UNCHANGED Paid!callVars
BY DEF StagesOf, ChargedBy, ChargedOf, Paid!callVars

LEMMA RowsStand ==
  ASSUME UNCHANGED <<spendVars, calls, used>>
  PROVE  UNCHANGED Paid!callVars
<1>1. row' = row
  BY DEF spendVars
<1>2. StagesOf(row)' = StagesOf(row) /\ ChargedBy(row)' = ChargedBy(row)
  BY <1>1 DEF StagesOf, ChargedBy
<1> QED BY <1>2, BillStands

(* What the ledger's functions do to the bill.                               *)
LEMMA ReleaseReturns ==
  ASSUME DispatchInv, NEW r \in Requests, Settle(r, "released", 0), UNCHANGED <<calls, used>>
  PROVE  Paid!Return(r)
<1>1. /\ SpendInv' /\ row[r].state = "reserved" /\ ~row[r].marked /\ ~row[r].pending
      /\ row' = [row EXCEPT ![r] = row'[r]] /\ row'[r].state \in {"released", "expired"}
      /\ row'[r].resolved = row[r].resolved
  BY ReleaseKeeps DEF DispatchInv
<1>2. /\ StagesOf(row)' = [StagesOf(row) EXCEPT ![r] = Stage(row'[r])]
      /\ ChargedBy(row)' = [ChargedBy(row) EXCEPT ![r] = ChargedOf(row'[r])]
      /\ StagesOf(row)[r] = Stage(row[r]) /\ ChargedBy(row)[r] = ChargedOf(row[r])
      /\ row'[r] \in Row /\ IsSound(row'[r]) /\ row[r] \in Row /\ IsSound(row[r])
  BY <1>1, OneStage DEF DispatchInv
<1>3. ~row[r].resolved
  BY <1>1, <1>2 DEF IsSound
<1>4. Stage(row[r]) = "committed" /\ Stage(row'[r]) = "returned"
  BY <1>1, <1>2, <1>3, StageOf
<1>5. ChargedOf(row[r]) = 0 /\ ChargedOf(row'[r]) = 0
  BY <1>1 DEF ChargedOf
<1>6. ChargedBy(row)' = ChargedBy(row)
  BY <1>2, <1>5 DEF ChargedBy
<1>7. calls[r] = 0
  BY <1>1 DEF DispatchInv, CallsInv
<1> QED BY <1>2, <1>4, <1>6, <1>7 DEF Paid!Return, StagesOf, ChargedBy, ChargedOf

LEMMA SettlementCharges ==
  ASSUME DispatchInv, NEW r \in Requests, NEW units \in Nat, row[r].marked, calls[r] = 1,
         used[r] = units, Settle(r, "settled", units), UNCHANGED <<calls, used>>
  PROVE  Paid!Charge(r)
<1>1. /\ SpendInv' /\ row[r].state = "reserved" /\ ~row[r].pending
      /\ row' = [row EXCEPT ![r] = row'[r]] /\ row'[r].state = "settled"
      /\ row'[r].resolved = row[r].resolved /\ row'[r].actual = units
  BY SettleKeeps DEF DispatchInv
<1>2. /\ StagesOf(row)' = [StagesOf(row) EXCEPT ![r] = Stage(row'[r])]
      /\ ChargedBy(row)' = [ChargedBy(row) EXCEPT ![r] = ChargedOf(row'[r])]
      /\ StagesOf(row)[r] = Stage(row[r])
      /\ row'[r] \in Row /\ IsSound(row'[r]) /\ row[r] \in Row /\ IsSound(row[r])
  BY <1>1, OneStage DEF DispatchInv
<1>3. ~row[r].resolved
  BY <1>1, <1>2 DEF IsSound
<1>4. Stage(row[r]) = "committed" /\ Stage(row'[r]) = "charged"
  BY <1>1, <1>2, <1>3, StageOf
<1>5. ChargedOf(row'[r]) = used[r]
  BY <1>1 DEF ChargedOf
<1> QED BY <1>2, <1>4, <1>5 DEF Paid!Charge, StagesOf, ChargedBy, ChargedOf

LEMMA MarkingDoubts ==
  ASSUME DispatchInv, NEW r \in Requests, row[r].marked, MarkIndeterminate(r),
         UNCHANGED <<calls, used>>
  PROVE  Paid!Doubt(r)
<1>1. /\ SpendInv' /\ row[r].state = "reserved" /\ ~row[r].pending
      /\ row' = [row EXCEPT ![r] = row'[r]] /\ row'[r].state = "reserved" /\ row'[r].pending
  BY MarkIndeterminateKeeps DEF DispatchInv
<1>2. /\ StagesOf(row)' = [StagesOf(row) EXCEPT ![r] = Stage(row'[r])]
      /\ ChargedBy(row)' = [ChargedBy(row) EXCEPT ![r] = ChargedOf(row'[r])]
      /\ StagesOf(row)[r] = Stage(row[r]) /\ ChargedBy(row)[r] = ChargedOf(row[r])
      /\ row'[r] \in Row /\ IsSound(row'[r]) /\ row[r] \in Row /\ IsSound(row[r])
  BY <1>1, OneStage DEF DispatchInv
<1>3. Stage(row[r]) = "committed" /\ Stage(row'[r]) = "doubtful"
  BY <1>1, <1>2, StageOf
<1>4. ChargedOf(row[r]) = 0 /\ ChargedOf(row'[r]) = 0
  BY <1>1 DEF ChargedOf
<1>5. ChargedBy(row)' = ChargedBy(row)
  BY <1>2, <1>4 DEF ChargedBy
<1> QED BY <1>2, <1>3, <1>5 DEF Paid!Doubt, StagesOf, ChargedBy, ChargedOf

LEMMA ReconcilingResolves ==
  ASSUME DispatchInv, NEW r \in Requests, NEW outcome \in {"settled", "released"}, NEW units \in Nat,
         Reconcile(r, outcome, units), UNCHANGED <<calls, used>>
  PROVE  Paid!Resolve(r)
<1>1. /\ SpendInv' /\ row[r].state = "reserved" /\ row[r].pending
      /\ row' = [row EXCEPT ![r] = row'[r]] /\ row'[r].resolved
      /\ ChargedOf(row'[r]) \in 0 .. Reserved[r]
  BY ReconcileKeeps DEF DispatchInv
<1>2. /\ StagesOf(row)' = [StagesOf(row) EXCEPT ![r] = Stage(row'[r])]
      /\ ChargedBy(row)' = [ChargedBy(row) EXCEPT ![r] = ChargedOf(row'[r])]
      /\ StagesOf(row)[r] = Stage(row[r])
      /\ row'[r] \in Row /\ IsSound(row'[r]) /\ row[r] \in Row /\ IsSound(row[r])
  BY <1>1, OneStage DEF DispatchInv
<1>3. Stage(row[r]) = "doubtful" /\ Stage(row'[r]) = "resolved"
  BY <1>1, <1>2, StageOf
<1>4. PICK n \in 0 .. Reserved[r] : n = ChargedOf(row'[r])
  BY <1>1
<1>5. ChargedBy(row)' = [ChargedBy(row) EXCEPT ![r] = n]
  BY <1>2, <1>4
<1> QED BY <1>2, <1>3, <1>5 DEF Paid!Resolve, StagesOf, ChargedBy, ChargedOf

(* Marks, and time alone, do not show on the bill.                           *)
LEMMA MarksDoNotShow ==
  ASSUME DispatchInv, NEW r \in Requests, MarkStarted(r) \/ RowLapses(r), UNCHANGED <<calls, used>>
  PROVE  UNCHANGED Paid!callVars
<1>1. /\ SpendInv' /\ row' = [row EXCEPT ![r] = row'[r]]
      /\ row'[r].state = row[r].state /\ row'[r].pending = row[r].pending
      /\ row[r].state = "reserved" \/ (row'[r].resolved = row[r].resolved /\ row'[r].actual = row[r].actual)
  BY MarkStartedKeeps, RowLapsesKeeps DEF DispatchInv
<1>2. /\ StagesOf(row)' = [StagesOf(row) EXCEPT ![r] = Stage(row'[r])]
      /\ ChargedBy(row)' = [ChargedBy(row) EXCEPT ![r] = ChargedOf(row'[r])]
      /\ StagesOf(row)[r] = Stage(row[r]) /\ ChargedBy(row)[r] = ChargedOf(row[r])
      /\ row'[r] \in Row /\ IsSound(row'[r]) /\ row[r] \in Row /\ IsSound(row[r])
  BY <1>1, OneStage DEF DispatchInv
<1>3. Stage(row'[r]) = Stage(row[r])
  <2>1. CASE row[r].state = "reserved"
    BY <1>1, <1>2, <2>1, StageOf
  <2>2. CASE row'[r].resolved = row[r].resolved
    BY <1>1, <2>2 DEF Stage
  <2> QED BY <1>1, <2>1, <2>2
<1>4. ChargedOf(row'[r]) = ChargedOf(row[r])
  BY <1>1 DEF ChargedOf
<1>5. StagesOf(row)' = StagesOf(row) /\ ChargedBy(row)' = ChargedBy(row)
  BY <1>2, <1>3, <1>4 DEF StagesOf, ChargedBy
<1> QED BY <1>5, BillStands

LEMMA CallingCalls ==
  ASSUME DispatchInv, NEW w \in Workers, CallProvider(w)
  PROVE  Paid!Call(Request(w))
<1>1. /\ worker[w].phase = "marked" /\ row' = row
      /\ calls' = [calls EXCEPT ![Request(w)] = @ + 1]
  BY DEF CallProvider, At, spendVars
<1>2. /\ worker[w] # Idle /\ Request(w) \in Requests /\ Request(w) = worker[w].request
      /\ calls \in [Requests -> Nat] /\ used \in [Requests -> Nat] /\ Reserved[Request(w)] \in Nat
  BY <1>1, Awake, Turns, SpendAssumption DEF DispatchInv, Request, TypesInv
<1>3. calls[Request(w)] = 0 /\ row[Request(w)].marked
  BY <1>1 DEF DispatchInv, CallsInv, InCall, Request
<1>4. calls' = [calls EXCEPT ![Request(w)] = 1]
  BY <1>1, <1>2, <1>3
<1>5. row[Request(w)] \in Row /\ IsSound(row[Request(w)]) /\ ~Measured(row[Request(w)])
  BY <1>2, <1>3, RowFacts DEF DispatchInv, CallsInv
<1>6. Stage(row[Request(w)]) \in {"committed", "doubtful", "resolved"}
  BY <1>3, <1>5, StageOf DEF IsSound, Measured
<1>7. StagesOf(row)[Request(w)] = Stage(row[Request(w)])
  BY <1>2 DEF StagesOf
<1>8. StagesOf(row)' = StagesOf(row) /\ ChargedBy(row)' = ChargedBy(row)
  BY <1>1 DEF StagesOf, ChargedBy
<1>9. \E units \in 0 .. Reserved[Request(w)] : used' = [used EXCEPT ![Request(w)] = units]
  <2>1. CASE \E units \in 0 .. Reserved[Request(w)] : used' = [used EXCEPT ![Request(w)] = units]
    BY <2>1
  <2>2. CASE UNCHANGED used
    <3>1. used[Request(w)] = 0
      BY <1>2, <1>3, <2>2 DEF DispatchInv, CallsInv
    <3> QED BY <1>2, <2>2, <3>1
  <2> QED BY <2>1, <2>2 DEF CallProvider
<1> QED BY <1>3, <1>4, <1>6, <1>7, <1>8, <1>9 DEF Paid!Call, StagesOf, ChargedBy, ChargedOf

(* A reservation commits at most its own request, and ages the others.       *)
LEMMA SweepAges ==
  ASSUME DispatchInv, NEW r \in Requests
  PROVE  /\ \/ Stage(Swept[r]) = Stage(row[r])
            \/ /\ Stage(row[r]) = "committed"
               /\ Stage(Swept[r]) = "doubtful" \/ (calls[r] = 0 /\ Stage(Swept[r]) = "returned")
         /\ ChargedOf(Swept[r]) = ChargedOf(row[r]) /\ Stage(Swept[r]) \in Paid!Stages
<1>1. row[r] \in Row /\ IsSound(row[r])
  BY RowFacts DEF DispatchInv
<1>2. Swept[r] \in Row /\ IsSound(Swept[r]) /\ ChargedOf(Swept[r]) = ChargedOf(row[r])
  BY SweptRow DEF DispatchInv
<1>3. Swept[r] = IF r \in Parked THEN [row[r] EXCEPT !.pending = TRUE, !.lapsed = FALSE]
                 ELSE IF r \in Refunded THEN [row[r] EXCEPT !.state = "expired", !.lapsed = FALSE]
                 ELSE IF r \in Overdue THEN [row[r] EXCEPT !.state = "queue_expired", !.lapsed = FALSE]
                 ELSE row[r]
  BY DEF Swept
<1>4. CASE r \in Parked
  <2>1. row[r].state = "reserved" /\ row[r].lapsed
    BY <1>4 DEF Parked, Late
  <2>2. Swept[r].state = "reserved" /\ Swept[r].pending
    BY <1>1, <1>3, <1>4, <2>1 DEF Row
  <2> QED BY <1>1, <1>2, <2>1, <2>2, StageOf
<1>5. CASE r \in Refunded
  <2>1. row[r].state = "reserved" /\ row[r].lapsed /\ ~row[r].marked /\ r \notin Parked
    BY <1>5 DEF Refunded, Parked, Late
  <2>2. Swept[r].state = "expired" /\ Swept[r].resolved = row[r].resolved
    BY <1>1, <1>3, <1>5, <2>1 DEF Row
  <2>3. calls[r] = 0
    BY <2>1 DEF DispatchInv, CallsInv
  <2>4. ~row[r].pending /\ ~row[r].resolved
    BY <1>1, <2>1 DEF IsSound
  <2> QED BY <1>1, <1>2, <2>1, <2>2, <2>3, <2>4, StageOf
<1>6. CASE r \in Overdue /\ r \notin Parked /\ r \notin Refunded
  <2>1. row[r].state = "queued"
    BY <1>6 DEF Overdue
  <2>2. Swept[r].state = "queue_expired"
    BY <1>1, <1>3, <1>6 DEF Row
  <2> QED BY <1>1, <1>2, <2>1, <2>2, StageOf
<1>7. CASE r \notin Overdue /\ r \notin Parked /\ r \notin Refunded
  <2>1. Swept[r] = row[r]
    BY <1>3, <1>7
  <2> QED BY <1>1, <1>2, <2>1, StageOf
<1> QED BY <1>4, <1>5, <1>6, <1>7

LEMMA NewCommitment ==
  ASSUME DispatchInv, SpendInv', NEW r \in Requests, UNCHANGED <<calls, used>>,
         NEW R \in SUBSET {r},
         \A q \in Requests \ R : Stage(row'[q]) = Stage(Swept[q]),
         \A q \in R : Stage(row[q]) = "none" /\ Stage(row'[q]) = "committed",
         \A q \in Requests : ChargedOf(row'[q]) = ChargedOf(row[q])
  PROVE  Paid!Commit
<1>1. \A q \in Requests : Stage(row'[q]) \in Paid!Stages
  BY SweepAges DEF Paid!Stages
<1>2. StagesOf(row)' \in [Requests -> Paid!Stages]
  BY <1>1 DEF StagesOf
<1>3. ChargedBy(row)' = ChargedBy(row)
  BY DEF ChargedBy
<1>4. \A q \in R : StagesOf(row)[q] = "none" /\ StagesOf(row)'[q] = "committed"
  BY DEF StagesOf
<1>5. ASSUME NEW q \in Requests \ R
      PROVE  \/ StagesOf(row)'[q] = StagesOf(row)[q]
             \/ /\ StagesOf(row)[q] = "committed"
                /\ StagesOf(row)'[q] \in {"committed", "doubtful"}
                                          \union IF calls[q] = 0 THEN {"returned"} ELSE {}
  <2>1. StagesOf(row)'[q] = Stage(row'[q]) /\ StagesOf(row)[q] = Stage(row[q])
    BY DEF StagesOf
  <2>2. \/ Stage(Swept[q]) = Stage(row[q])
        \/ /\ Stage(row[q]) = "committed"
           /\ Stage(Swept[q]) = "doubtful" \/ (calls[q] = 0 /\ Stage(Swept[q]) = "returned")
    BY SweepAges
  <2> QED BY <2>1, <2>2
<1>6. ASSUME NEW q \in Requests \ R PROVE Paid!Ages(q) \/ StagesOf(row)'[q] = StagesOf(row)[q]
  BY <1>5 DEF Paid!Ages, StagesOf
<1>7. Paid!WithinBudgets'
  BY BillStaysWithinBudgets
<1>8. R \in SUBSET Requests /\ \A p, q \in R : p = q
  OBVIOUS
<1>9. \E S \in SUBSET Requests :
        /\ \A p, q \in S : p = q
        /\ \A q \in S : StagesOf(row)[q] = "none" /\ StagesOf(row)'[q] = "committed"
        /\ \A q \in Requests \ S : Paid!Ages(q) \/ StagesOf(row)'[q] = StagesOf(row)[q]
        /\ S # {} => Paid!WithinBudgets'
  BY <1>4, <1>6, <1>7, <1>8
<1> QED BY <1>2, <1>3, <1>9 DEF Paid!Commit, StagesOf, ChargedBy, ChargedOf

LEMMA ReserveCommits ==
  ASSUME DispatchInv, NEW r \in Requests, Reserve(r), UNCHANGED <<calls, used>>
  PROVE  Paid!Commit
<1>1. SpendInv' /\ Swept \in [Requests -> Row] /\ \A q \in Requests : IsSound(Swept[q])
  BY ReserveKeeps, SweepKeeps DEF DispatchInv, BooksBalance
<1>2. CASE ReserveKnown(r)
  <2>1. row' = Swept
    BY <1>2 DEF ReserveKnown
  <2>2. \A q \in Requests : ChargedOf(row'[q]) = ChargedOf(row[q])
    BY <2>1, SweepAges
  <2>3. \A q \in Requests \ {} : Stage(row'[q]) = Stage(Swept[q])
    BY <2>1
  <2>4. {} \in SUBSET {r} /\ \A q \in {} : Stage(row[q]) = "none" /\ Stage(row'[q]) = "committed"
    OBVIOUS
  <2> QED BY <1>1, <2>2, <2>3, <2>4, NewCommitment
<1>3. ASSUME NEW x \in Row, Unqueued(r), row' = [Swept EXCEPT ![r] = x],
             x.state \in {"queued", "rejected", "reserved"}, x.resolved = FALSE, x.pending = FALSE
      PROVE  Paid!Commit
  <2>1. row'[r] = x /\ \A q \in Requests : q # r => row'[q] = Swept[q]
    BY <1>1, <1>3
  <2>2. IsSound(x)
    BY <1>1, <2>1 DEF SpendInv, BooksBalance
  <2>3. Swept[r].state \in {"none", "queued"}
    BY <1>3 DEF Unqueued
  <2>4. Stage(Swept[r]) = "none" /\ ChargedOf(Swept[r]) = 0 /\ ChargedOf(x) = 0
    BY <1>1, <1>3, <2>3, StageOf DEF ChargedOf
  <2>5. \A q \in Requests : ChargedOf(row'[q]) = ChargedOf(row[q])
    BY <2>1, <2>4, SweepAges
  <2>6. Stage(row[r]) = "none"
    BY <2>4, SweepAges
  <2>7. CASE x.state = "reserved"
    <3>1. Stage(x) = "committed"
      BY <1>3, <2>2, <2>7, StageOf
    <3>2. {r} \in SUBSET {r} /\ \A q \in {r} : Stage(row[q]) = "none" /\ Stage(row'[q]) = "committed"
      BY <2>1, <2>6, <3>1
    <3>3. \A q \in Requests \ {r} : Stage(row'[q]) = Stage(Swept[q])
      BY <2>1
    <3> QED BY <1>1, <2>5, <3>2, <3>3, NewCommitment
  <2>8. CASE x.state \in {"queued", "rejected"}
    <3>1. Stage(x) = "none"
      BY <2>2, <2>8, StageOf
    <3>2. {} \in SUBSET {r} /\ \A q \in {} : Stage(row[q]) = "none" /\ Stage(row'[q]) = "committed"
      OBVIOUS
    <3>3. \A q \in Requests \ {} : Stage(row'[q]) = Stage(Swept[q])
      BY <2>1, <2>4, <3>1
    <3> QED BY <1>1, <2>5, <3>2, <3>3, NewCommitment
  <2> QED BY <1>3, <2>7, <2>8
<1>4. CASE ReserveWaits(r)
  <2>1. Unqueued(r) /\ row' = Waiting(r)
    BY <1>4 DEF ReserveWaits
  <2> QED BY <1>3, <2>1, QueuedRow DEF DispatchInv
<1>5. CASE ReserveRejected(r)
  <2>1. Unqueued(r) /\ row' = [Swept EXCEPT ![r].state = "rejected"] /\ Swept[r].state = "queued"
    BY <1>5 DEF ReserveRejected, Unqueued
  <2>2. PICK x : x = [Swept[r] EXCEPT !.state = "rejected"]
    OBVIOUS
  <2>3. row' = [Swept EXCEPT ![r] = x]
    BY <1>1, <2>1, <2>2
  <2>4. /\ x \in Row /\ x.state = "rejected"
        /\ x.resolved = Swept[r].resolved /\ x.pending = Swept[r].pending
    BY <1>1, <2>2 DEF Row, States
  <2>5. ~Swept[r].resolved /\ ~Swept[r].pending
    BY <1>1, <2>1 DEF IsSound
  <2>6. x.resolved = FALSE /\ x.pending = FALSE
    BY <1>1, <2>4, <2>5 DEF Row
  <2> QED BY <1>3, <2>1, <2>3, <2>4, <2>6
<1>6. CASE ReserveAdmitted(r)
  <2>1. Unqueued(r) /\ row' = [Waiting(r) EXCEPT ![r].state = "reserved", ![r].lapsed = FALSE]
    BY <1>6 DEF ReserveAdmitted
  <2>2. PICK x \in Row : /\ x.state = "queued" /\ x.marked = FALSE /\ x.resolved = FALSE
                         /\ x.pending = FALSE /\ Waiting(r) = [Swept EXCEPT ![r] = x]
    BY <2>1, QueuedRow DEF DispatchInv
  <2>3. PICK y : y = [x EXCEPT !.state = "reserved", !.lapsed = FALSE]
    OBVIOUS
  <2>4. y \in Row /\ y.state = "reserved" /\ y.resolved = FALSE /\ y.pending = FALSE
    BY <2>2, <2>3 DEF Row, States
  <2>5. row' = [Swept EXCEPT ![r] = y]
    BY <1>1, <2>1, <2>2, <2>3
  <2> QED BY <1>3, <2>1, <2>4, <2>5
<1> QED BY <1>2, <1>4, <1>5, <1>6 DEF Reserve

-----------------------------------------------------------------------------
LEMMA BillStarts ==
  ASSUME Init
  PROVE  Paid!CallsInit
<1>1. /\ row = [r \in Requests |-> NoRow]
      /\ calls = [r \in Requests |-> 0] /\ used = [r \in Requests |-> 0]
  BY DEF Init, SpendInit
<1>2. \A r \in Requests : row[r].state = "none" /\ row[r].resolved = FALSE
  BY <1>1 DEF NoRow
<1>3. \A r \in Requests : Stage(row[r]) = "none"
  BY <1>2 DEF Stage
<1> QED BY <1>1, <1>2, <1>3 DEF Paid!CallsInit

LEMMA WorkersKeepTheBill ==
  ASSUME DispatchInv, NEW w \in Workers, WorkerStep(w)
  PROVE  Paid!CallsNext \/ UNCHANGED Paid!callVars
<1>1. CASE TakeHold(w)
  <2>1. worker[w].phase = "read" /\ UNCHANGED <<calls, used>>
    BY <1>1 DEF TakeHold, At
  <2>2. Reserve(Request(w)) \/ UNCHANGED spendVars
    BY <1>1 DEF TakeHold, Lost
  <2>3. Request(w) \in Requests
    BY <2>1, Awake, Turns DEF DispatchInv, Request
  <2>4. CASE Reserve(Request(w))
    BY <2>1, <2>3, <2>4, ReserveCommits DEF Paid!CallsNext
  <2> QED BY <2>1, <2>2, <2>4, RowsStand
<1>2. CASE ReleaseHold(w)
  <2>1. worker[w].phase = "releasing" /\ UNCHANGED <<calls, used>>
    BY <1>2 DEF ReleaseHold, At
  <2>2. Settle(Request(w), "released", 0) \/ UNCHANGED spendVars
    BY <1>2 DEF ReleaseHold, Lost
  <2>3. Request(w) \in Requests
    BY <2>1, Awake, Turns DEF DispatchInv, Request
  <2>4. CASE Settle(Request(w), "released", 0)
    BY <2>1, <2>3, <2>4, ReleaseReturns DEF Paid!CallsNext
  <2> QED BY <2>1, <2>2, <2>4, RowsStand
<1>3. CASE StartDispatch(w)
  <2>1. worker[w].phase = "admitted" /\ UNCHANGED <<calls, used>>
    BY <1>3 DEF StartDispatch, At
  <2>2. MarkStarted(Request(w)) \/ UNCHANGED spendVars
    BY <1>3 DEF StartDispatch, Lost
  <2>3. Request(w) \in Requests
    BY <2>1, Awake, Turns DEF DispatchInv, Request
  <2> QED BY <2>1, <2>2, <2>3, MarksDoNotShow, RowsStand
<1>4. CASE CallProvider(w)
  <2>1. Request(w) \in Requests
    BY <1>4, Awake, Turns DEF DispatchInv, Request, CallProvider, At
  <2> QED BY <1>4, <2>1, CallingCalls DEF Paid!CallsNext
<1>5. CASE SettleCall(w)
  <2>1. worker[w].phase = "settling" /\ UNCHANGED <<calls, used>>
    BY <1>5 DEF SettleCall, At
  <2>2. Settle(Request(w), "settled", worker[w].units) \/ UNCHANGED spendVars
    BY <1>5 DEF SettleCall, Lost
  <2>3. Request(w) \in Requests /\ worker[w].units \in Nat
    BY <2>1, Awake, Turns DEF DispatchInv, Request
  <2>4. /\ row[Request(w)].marked /\ calls[Request(w)] = 1
        /\ used[Request(w)] = worker[w].units
    BY <2>1 DEF DispatchInv, CallsInv, InCall, Request
  <2>5. CASE Settle(Request(w), "settled", worker[w].units)
    BY <2>1, <2>3, <2>4, <2>5, SettlementCharges DEF Paid!CallsNext
  <2> QED BY <2>1, <2>2, <2>5, RowsStand
<1>6. CASE Doubt(w)
  <2>1. worker[w].phase = "doubting" /\ UNCHANGED <<calls, used>>
    BY <1>6 DEF Doubt, At
  <2>2. MarkIndeterminate(Request(w)) \/ UNCHANGED spendVars
    BY <1>6 DEF Doubt, Lost
  <2>3. Request(w) \in Requests /\ row[Request(w)].marked
    BY <2>1, Awake, Turns DEF DispatchInv, Request, CallsInv, InCall
  <2>4. CASE MarkIndeterminate(Request(w))
    BY <2>1, <2>3, <2>4, MarkingDoubts DEF Paid!CallsNext
  <2> QED BY <2>1, <2>2, <2>4, RowsStand
<1>7. CASE HoldRefused(w) \/ AttemptUnrecorded(w) \/ ReadForOutcome(w)
  BY <1>7, RowsStand DEF HoldRefused, AttemptUnrecorded, ReadForOutcome, rest
<1>8. CASE EnterCircuit(w) \/ CommitOutcome(w)
  BY <1>8, RowsStand DEF EnterCircuit, CommitOutcome
<1> QED BY <1>1, <1>2, <1>3, <1>4, <1>5, <1>6, <1>7, <1>8 DEF WorkerStep

LEMMA BillSteps ==
  ASSUME DispatchInv, [Next]_vars
  PROVE  [Paid!CallsNext]_(Paid!callVars)
<1>1. ASSUME NEW r \in Requests, Resolve(r) PROVE Paid!CallsNext
  <2>1. UNCHANGED <<calls, used>> /\ Reserved[r] \in Nat
    BY <1>1, SpendAssumption DEF Resolve
  <2>2. \E outcome \in {"settled", "released"}, units \in Nat : Reconcile(r, outcome, units)
    BY <1>1, <2>1 DEF Resolve
  <2> QED BY <2>1, <2>2, ReconcilingResolves DEF Paid!CallsNext
<1>2. ASSUME NEW r \in Requests, Lapse(r) PROVE UNCHANGED Paid!callVars
  BY <1>2, MarksDoNotShow DEF Lapse
<1>3. ASSUME \/ \E w \in Workers, r \in Requests : ReadCircuit(w, r)
             \/ \E w \in Workers : Dies(w) \/ AdmissionEnds(w)
             \/ CircuitFallsDue
             \/ UNCHANGED vars
      PROVE  UNCHANGED Paid!callVars
  BY <1>3, RowsStand DEF ReadCircuit, Dies, AdmissionEnds, CircuitFallsDue, rest, vars
<1> QED BY <1>1, <1>2, <1>3, WorkersKeepTheBill DEF Next

(* Seen from the bill, dispatch commits, calls and ends each request once:   *)
(* budgets, queue, leases, lost replies and dead workers only decide when.   *)
THEOREM DispatchImplementsPaidCalls == Spec => DispatchPaysOnce
<1>1. Init => Paid!CallsInit
  BY BillStarts
<1>2. DispatchInv /\ [Next]_vars => [Paid!CallsNext]_(Paid!callVars)
  BY BillSteps
<1> QED BY <1>1, <1>2, DispatchInvariance, PTL DEF Spec, DispatchPaysOnce, Paid!CallsSpec
=============================================================================
