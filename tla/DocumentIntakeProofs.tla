-------------------------- MODULE DocumentIntakeProofs --------------------------
(***************************************************************************)
(* What the credits of a workspace promise, for any documents, sales and   *)
(* amounts, and what the intake built on them promises of each document,   *)
(* for any number of ranges, deliveries and faults.                        *)
(*                                                                         *)
(* The books are inductive as they are: each step changes the balance, the *)
(* invoiced credits and the funds by just what it changes in the sums over *)
(* the holds.  What has to be known is how those sums change when one hold *)
(* does (OneHoldChanges) and when a sweep changes many (SweepKeeps).       *)
(*                                                                         *)
(* For the intake it must be known what the worker relies on between its   *)
(* calls (WorkerKnows): that what it is about to settle is what is on      *)
(* record, and that what it is about to record has not been charged.       *)
(*                                                                         *)
(* Last, what keeps a stored document from being forgotten: its message is *)
(* in somebody's hands (QueueInv), and every turn of the queue and of the  *)
(* worker brings that message nearer to its end (Advances).                *)
(***************************************************************************)
EXTENDS DocumentIntake, TLAPS, FiniteSetTheorems

-----------------------------------------------------------------------------
(* Totals.                                                                   *)
Pair(f, r) == {r} \X (1 .. f[r])
Pairs(f, R) == UNION {Pair(f, r) : r \in R}
SumOver(f, R) == Cardinality(Pairs(f, R))

LEMMA PairsAre ==
  ASSUME NEW f, NEW R
  PROVE  \A x : x \in Pairs(f, R) <=> \E r \in R : x \in Pair(f, r)
BY DEF Pairs, Pair

LEMMA PairCount ==
  ASSUME NEW f, NEW r, f[r] \in Nat
  PROVE  IsFiniteSet(Pair(f, r)) /\ Cardinality(Pair(f, r)) = f[r]
<1>1. IsFiniteSet(1 .. f[r]) /\ Cardinality(1 .. f[r]) = f[r]
  <2>1. 1 \in Int /\ f[r] \in Int
    OBVIOUS
  <2>2. IsFiniteSet(1 .. f[r]) /\ Cardinality(1 .. f[r]) = IF 1 > f[r] THEN 0 ELSE f[r] - 1 + 1
    BY <2>1, FS_Interval
  <2>3. f[r] = 0 => 1 .. f[r] = {}
    OBVIOUS
  <2> QED BY <2>2, <2>3
<1>2. IsFiniteSet({r}) /\ Cardinality({r}) = 1
  BY FS_Singleton
<1>3. IsFiniteSet(Pair(f, r)) /\ Cardinality(Pair(f, r)) = 1 * f[r]
  BY <1>1, <1>2, FS_Product DEF Pair
<1> QED BY <1>3

LEMMA SumType ==
  ASSUME NEW R, IsFiniteSet(R), NEW f, \A r \in R : f[r] \in Nat
  PROVE  IsFiniteSet(Pairs(f, R)) /\ SumOver(f, R) \in Nat
<1> DEFINE g == [r \in R |-> Pair(f, r)]
           T == {Pair(f, r) : r \in R}
<1>1. g \in Surjection(R, T)
  BY DEF Surjection
<1>2. IsFiniteSet(T)
  BY <1>1, FS_Surjection
<1>3. \A S \in T : IsFiniteSet(S)
  BY PairCount
<1>4. IsFiniteSet(UNION T)
  <2> HIDE DEF T
  <2> QED BY <1>2, <1>3, FS_UNION
<1>5. Pairs(f, R) = UNION T
  BY DEF Pairs, Pair
<1> QED BY <1>4, <1>5, FS_CardinalityType DEF SumOver

(* Documents apart add up, and none of them adds less than nothing.             *)
LEMMA SumSplit ==
  ASSUME NEW R, IsFiniteSet(R), NEW f, \A r \in R : f[r] \in Nat,
         NEW A, NEW B, A \union B = R, A \cap B = {}
  PROVE  SumOver(f, R) = SumOver(f, A) + SumOver(f, B)
<1>1. IsFiniteSet(A) /\ IsFiniteSet(B)
  BY FS_Subset
<1>2. IsFiniteSet(Pairs(f, A)) /\ IsFiniteSet(Pairs(f, B)) /\ SumOver(f, A) \in Nat /\ SumOver(f, B) \in Nat
  BY <1>1, SumType
<1>3. Pairs(f, R) = Pairs(f, A) \union Pairs(f, B)
  BY PairsAre
<1>4. Pairs(f, A) \cap Pairs(f, B) = {}
  <2> SUFFICES ASSUME NEW x, x \in Pairs(f, A), x \in Pairs(f, B) PROVE FALSE
    OBVIOUS
  <2>1. PICK a \in A : x \in Pair(f, a)
    BY PairsAre
  <2>2. PICK b \in B : x \in Pair(f, b)
    BY PairsAre
  <2>3. x[1] = a /\ x[1] = b
    BY <2>1, <2>2 DEF Pair
  <2> QED BY <2>3
<1>5. Cardinality({}) = 0
  BY FS_EmptySet
<1>6. Cardinality(Pairs(f, A) \union Pairs(f, B)) =
        Cardinality(Pairs(f, A)) + Cardinality(Pairs(f, B)) - Cardinality(Pairs(f, A) \cap Pairs(f, B))
  BY <1>2, FS_Union
<1>7. Cardinality(Pairs(f, A) \cap Pairs(f, B)) = 0
  BY <1>4, <1>5
<1>8. /\ SumOver(f, R) = Cardinality(Pairs(f, A) \union Pairs(f, B))
      /\ SumOver(f, A) = Cardinality(Pairs(f, A)) /\ SumOver(f, B) = Cardinality(Pairs(f, B))
  BY <1>3 DEF SumOver
<1> QED BY <1>2, <1>6, <1>7, <1>8

LEMMA SumOne ==
  ASSUME NEW f, NEW r, f[r] \in Nat
  PROVE  SumOver(f, {r}) = f[r]
<1>1. Pairs(f, {r}) = Pair(f, r)
  <2>1. \A x : x \in Pairs(f, {r}) <=> \E q \in {r} : x \in Pair(f, q)
    BY PairsAre
  <2>2. \A x : x \in Pairs(f, {r}) <=> x \in Pair(f, r)
    BY <2>1
  <2> QED BY <2>2
<1> QED BY <1>1, PairCount DEF SumOver

LEMMA SumEqual ==
  ASSUME NEW R, NEW f, NEW g, \A r \in R : f[r] = g[r]
  PROVE  SumOver(f, R) = SumOver(g, R)
BY DEF SumOver, Pairs, Pair

LEMMA SumMonotone ==
  ASSUME NEW R, IsFiniteSet(R), NEW f, NEW g,
         \A r \in R : f[r] \in Nat /\ g[r] \in Nat /\ f[r] <= g[r]
  PROVE  SumOver(f, R) <= SumOver(g, R)
<1>1. Pairs(f, R) \subseteq Pairs(g, R)
  <2> SUFFICES ASSUME NEW x, x \in Pairs(f, R) PROVE x \in Pairs(g, R)
    OBVIOUS
  <2>1. PICK r \in R : x \in Pair(f, r)
    BY PairsAre
  <2>2. 1 .. f[r] \subseteq 1 .. g[r]
    OBVIOUS
  <2>3. x \in Pair(g, r)
    BY <2>1, <2>2 DEF Pair
  <2> QED BY <2>3, PairsAre
<1>2. IsFiniteSet(Pairs(g, R))
  BY SumType
<1> QED BY <1>1, <1>2, FS_Subset DEF SumOver

LEMMA SumZero ==
  ASSUME NEW R, NEW f, \A r \in R : f[r] = 0
  PROVE  SumOver(f, R) = 0
<1>1. Pairs(f, R) = {}
  BY PairsAre DEF Pair
<1> QED BY <1>1, FS_EmptySet DEF SumOver

(* Two amounts of which each document has at most one.                        *)
LEMMA SumAdds ==
  ASSUME NEW R, IsFiniteSet(R), NEW f, NEW g, NEW h,
         \A r \in R : /\ f[r] \in Nat /\ g[r] \in Nat /\ h[r] = f[r] + g[r]
                      /\ f[r] = 0 \/ g[r] = 0
  PROVE  SumOver(h, R) = SumOver(f, R) + SumOver(g, R)
<1> DEFINE A == {r \in R : g[r] = 0}
           B == R \ A
<1>0. \A r \in R : h[r] \in Nat
  OBVIOUS
<1>1. SumOver(h, R) = SumOver(h, A) + SumOver(h, B)
  BY <1>0, SumSplit
<1>2. SumOver(f, R) = SumOver(f, A) + SumOver(f, B)
  BY SumSplit
<1>3. SumOver(g, R) = SumOver(g, A) + SumOver(g, B)
  BY SumSplit
<1>4. SumOver(h, A) = SumOver(f, A)
  BY SumEqual
<1>5. SumOver(h, B) = SumOver(g, B)
  BY SumEqual
<1>6. \A r \in A : g[r] = 0
  OBVIOUS
<1>7. \A r \in B : f[r] = 0
  OBVIOUS
<1>9. SumOver(g, A) = 0 /\ SumOver(f, B) = 0
  BY <1>6, <1>7, SumZero
<1>10. IsFiniteSet(A) /\ IsFiniteSet(B)
  BY FS_Subset
<1>11. SumOver(f, A) \in Nat /\ SumOver(g, B) \in Nat
  BY <1>10, SumType
<1> HIDE DEF A, B
<1> QED BY <1>1, <1>2, <1>3, <1>4, <1>5, <1>9, <1>11

(* Changing one document's amount.                                            *)
LEMMA SumChange ==
  ASSUME NEW R, IsFiniteSet(R), NEW r \in R, NEW f, NEW g,
         \A q \in R : /\ f[q] \in Nat /\ g[q] \in Nat
                      /\ q # r => g[q] = f[q]
  PROVE  SumOver(g, R) = SumOver(f, R) - f[r] + g[r]
<1> DEFINE B == R \ {r}
<1>1. SumOver(f, R) = SumOver(f, {r}) + SumOver(f, B)
  BY SumSplit
<1>2. SumOver(g, R) = SumOver(g, {r}) + SumOver(g, B)
  BY SumSplit
<1>3. SumOver(f, {r}) = f[r] /\ SumOver(g, {r}) = g[r]
  BY SumOne
<1>4. SumOver(f, B) = SumOver(g, B)
  BY SumEqual
<1>5. IsFiniteSet(B)
  BY FS_Subset
<1>6. SumOver(f, B) \in Nat
  BY <1>5, SumType
<1> HIDE DEF B
<1> QED BY <1>1, <1>2, <1>3, <1>4, <1>6

LEMMA TotalIs ==
  ASSUME NEW f
  PROVE  Total(f) = SumOver(f, Documents)
BY DEF Total, Units, SumOver, Pairs, Pair

-----------------------------------------------------------------------------
(* The books: what the holds draw, are invoiced for and use of a trial.      *)
AnyHold == {NoHold} \union Hold

DrawnOf(x, d) ==
  IF x.source # "paid" THEN 0
  ELSE IF x.state = "reserved" THEN Reserved[d]
  ELSE IF x.state \in Worked THEN Least(x.settled, Reserved[d])
  ELSE 0

InvoicedOf(x, d) ==
  IF x.source = "paid" /\ x.state \in Worked THEN Excess(x.settled, Reserved[d]) ELSE 0

ConsumedOf(x, d) ==
  IF x.source # "trial" \/ x.state \in {"none", "released"} THEN 0
  ELSE IF x.state \in Worked THEN x.settled
  ELSE Reserved[d]

UsedOf(x, d) == Least(ConsumedOf(x, d), Reserved[d])

DrawnBy(h) == [d \in Documents |-> DrawnOf(h[d], d)]
InvoicedBy(h) == [d \in Documents |-> InvoicedOf(h[d], d)]
UsedBy(h) == [d \in Documents |-> UsedOf(h[d], d)]

Books(h, b, o, f) ==
  /\ b + Total(DrawnBy(h)) = f
  /\ o = Total(InvoicedBy(h))
  /\ Total(UsedBy(h)) <= TrialUnits

LedgerInv == TypeOK /\ Books(hold, balance, overage, funds)

LEMMA BooksSayIt ==
  Books(hold, balance, overage, funds) <=> CreditsConserved /\ TrialStaysBounded
<1>1. DrawnBy(hold) = [d \in Documents |-> Drawn(d)]
  BY DEF DrawnBy, DrawnOf, Drawn
<1>2. InvoicedBy(hold) = [d \in Documents |-> Invoiced(d)]
  BY DEF InvoicedBy, InvoicedOf, Invoiced
<1>3. UsedBy(hold) = [d \in Documents |-> Least(Consumed(d), Reserved[d])]
  BY DEF UsedBy, UsedOf, ConsumedOf, Consumed
<1> QED BY <1>1, <1>2, <1>3 DEF Books, CreditsConserved, TrialStaysBounded

LEMMA AmountsAre ==
  ASSUME NEW x \in AnyHold, NEW d \in Documents
  PROVE  /\ DrawnOf(x, d) \in Nat /\ InvoicedOf(x, d) \in Nat
         /\ ConsumedOf(x, d) \in Nat /\ UsedOf(x, d) \in Nat
         /\ UsedOf(x, d) <= ConsumedOf(x, d)
         /\ Reserved[d] \in Nat /\ Maximum[d] \in Nat /\ x.settled \in Nat
<1>1. Reserved[d] \in Nat /\ Maximum[d] \in Nat
  BY AmountsAssumption
<1>2. x.settled \in Nat
  BY DEF AnyHold, NoHold, Hold
<1>3. DrawnOf(x, d) \in Nat /\ InvoicedOf(x, d) \in Nat
  BY <1>1, <1>2 DEF DrawnOf, InvoicedOf, Least, Excess
<1>4. ConsumedOf(x, d) \in Nat
  BY <1>1, <1>2 DEF ConsumedOf
<1>5. UsedOf(x, d) \in Nat /\ UsedOf(x, d) <= ConsumedOf(x, d)
  BY <1>1, <1>4 DEF UsedOf, Least
<1> QED BY <1>1, <1>2, <1>3, <1>4, <1>5

LEMMA SumsAre ==
  ASSUME NEW h \in [Documents -> AnyHold]
  PROVE  /\ Total(DrawnBy(h)) \in Nat /\ Total(InvoicedBy(h)) \in Nat /\ Total(UsedBy(h)) \in Nat
         /\ \A d \in Documents :
              /\ DrawnBy(h)[d] = DrawnOf(h[d], d) /\ DrawnBy(h)[d] \in Nat
              /\ InvoicedBy(h)[d] = InvoicedOf(h[d], d) /\ InvoicedBy(h)[d] \in Nat
              /\ UsedBy(h)[d] = UsedOf(h[d], d) /\ UsedBy(h)[d] \in Nat
<1>1. \A d \in Documents :
        /\ DrawnBy(h)[d] = DrawnOf(h[d], d) /\ DrawnBy(h)[d] \in Nat
        /\ InvoicedBy(h)[d] = InvoicedOf(h[d], d) /\ InvoicedBy(h)[d] \in Nat
        /\ UsedBy(h)[d] = UsedOf(h[d], d) /\ UsedBy(h)[d] \in Nat
  BY AmountsAre DEF DrawnBy, InvoicedBy, UsedBy
<1>2. /\ SumOver(DrawnBy(h), Documents) \in Nat /\ SumOver(InvoicedBy(h), Documents) \in Nat
      /\ SumOver(UsedBy(h), Documents) \in Nat
  BY <1>1, SumType, DocumentsAssumption
<1> QED BY <1>1, <1>2, TotalIs

(* One hold changes.                                                         *)
LEMMA OneHoldChanges ==
  ASSUME NEW h \in [Documents -> AnyHold], NEW d \in Documents, NEW x \in AnyHold
  PROVE  /\ [h EXCEPT ![d] = x] \in [Documents -> AnyHold]
         /\ Total(DrawnBy([h EXCEPT ![d] = x])) =
              Total(DrawnBy(h)) - DrawnOf(h[d], d) + DrawnOf(x, d)
         /\ Total(InvoicedBy([h EXCEPT ![d] = x])) =
              Total(InvoicedBy(h)) - InvoicedOf(h[d], d) + InvoicedOf(x, d)
         /\ Total(UsedBy([h EXCEPT ![d] = x])) =
              Total(UsedBy(h)) - UsedOf(h[d], d) + UsedOf(x, d)
<1>1. PICK new : new = [h EXCEPT ![d] = x]
  OBVIOUS
<1>2. new \in [Documents -> AnyHold] /\ new[d] = x /\ \A e \in Documents : e # d => new[e] = h[e]
  BY <1>1
<1>3. \A e \in Documents :
        /\ DrawnBy(new)[e] = DrawnOf(new[e], e) /\ DrawnBy(new)[e] \in Nat
        /\ InvoicedBy(new)[e] = InvoicedOf(new[e], e) /\ InvoicedBy(new)[e] \in Nat
        /\ UsedBy(new)[e] = UsedOf(new[e], e) /\ UsedBy(new)[e] \in Nat
  BY <1>2, SumsAre
<1>4. \A e \in Documents :
        /\ DrawnBy(h)[e] = DrawnOf(h[e], e) /\ DrawnBy(h)[e] \in Nat
        /\ InvoicedBy(h)[e] = InvoicedOf(h[e], e) /\ InvoicedBy(h)[e] \in Nat
        /\ UsedBy(h)[e] = UsedOf(h[e], e) /\ UsedBy(h)[e] \in Nat
  BY SumsAre
<1>5. SumOver(DrawnBy(new), Documents) =
        SumOver(DrawnBy(h), Documents) - DrawnBy(h)[d] + DrawnBy(new)[d]
  BY <1>2, <1>3, <1>4, SumChange, DocumentsAssumption
<1>6. SumOver(InvoicedBy(new), Documents) =
        SumOver(InvoicedBy(h), Documents) - InvoicedBy(h)[d] + InvoicedBy(new)[d]
  BY <1>2, <1>3, <1>4, SumChange, DocumentsAssumption
<1>7. SumOver(UsedBy(new), Documents) =
        SumOver(UsedBy(h), Documents) - UsedBy(h)[d] + UsedBy(new)[d]
  BY <1>2, <1>3, <1>4, SumChange, DocumentsAssumption
<1> QED BY <1>1, <1>2, <1>3, <1>4, <1>5, <1>6, <1>7, TotalIs

(* The sweep returns to the balance just what the lapsed holds drew.         *)
LEMMA SweepKeeps ==
  ASSUME LedgerInv
  PROVE  /\ Swept \in [Documents -> AnyHold] /\ Refilled \in Nat
         /\ Books(Swept, Refilled, overage, funds)
         /\ \A d \in Documents : hold[d].state # "reserved" => Swept[d] = hold[d]
         /\ Total(UsedBy(Swept)) = Total(UsedBy(hold))
<1>1. hold \in [Documents -> AnyHold] /\ balance \in Nat
  BY DEF LedgerInv, TypeOK, AnyHold
<1>2. \A d \in Documents : hold[d].state # "reserved" => Swept[d] = hold[d]
  BY DEF Swept, Lapsed
<1>3. ASSUME NEW d \in Documents
      PROVE  /\ Swept[d] \in AnyHold
             /\ DrawnOf(hold[d], d) = DrawnOf(Swept[d], d) + Returned[d]
             /\ Returned[d] \in Nat /\ (DrawnOf(Swept[d], d) = 0 \/ Returned[d] = 0)
             /\ InvoicedOf(Swept[d], d) = InvoicedOf(hold[d], d)
             /\ UsedOf(Swept[d], d) = UsedOf(hold[d], d)
  <2>1. hold[d] \in AnyHold /\ Reserved[d] \in Nat /\ DrawnOf(hold[d], d) \in Nat
    BY <1>1, AmountsAre
  <2>2. CASE d \in Lapsed
    <3>1. hold[d].state = "reserved" /\ hold[d] \in Hold
      BY <2>1, <2>2 DEF Lapsed, AnyHold, NoHold
    <3>2. PICK x : x = [hold[d] EXCEPT !.state = "expired", !.settled = 0]
      OBVIOUS
    <3>3. x \in Hold /\ x.state = "expired" /\ x.source = hold[d].source /\ Swept[d] = x
      BY <2>2, <3>1, <3>2 DEF Hold, Terminal, Swept
    <3>4. Returned[d] = IF hold[d].source = "paid" THEN Reserved[d] ELSE 0
      BY <2>2 DEF Returned
    <3> QED BY <2>1, <3>1, <3>3, <3>4
            DEF DrawnOf, InvoicedOf, UsedOf, ConsumedOf, Worked, AnyHold
  <2>3. CASE d \notin Lapsed
    <3>1. Swept[d] = hold[d] /\ Returned[d] = 0
      BY <2>3 DEF Swept, Returned
    <3> QED BY <2>1, <3>1
  <2> QED BY <2>2, <2>3
<1>4. Swept \in [Documents -> AnyHold]
  <2>1. Swept = [d \in Documents |-> Swept[d]]
    BY DEF Swept
  <2> QED BY <1>3, <2>1
<1>5. \A d \in Documents :
        /\ DrawnBy(Swept)[d] \in Nat /\ DrawnBy(Swept)[d] = DrawnOf(Swept[d], d)
        /\ InvoicedBy(Swept)[d] = InvoicedOf(Swept[d], d)
        /\ UsedBy(Swept)[d] = UsedOf(Swept[d], d)
  BY <1>4, SumsAre
<1>6. \A d \in Documents :
        /\ DrawnBy(hold)[d] = DrawnOf(hold[d], d) /\ InvoicedBy(hold)[d] = InvoicedOf(hold[d], d)
        /\ UsedBy(hold)[d] = UsedOf(hold[d], d)
  BY <1>1, SumsAre
<1>7. SumOver(DrawnBy(hold), Documents) =
        SumOver(DrawnBy(Swept), Documents) + SumOver(Returned, Documents)
  BY <1>3, <1>5, <1>6, SumAdds, DocumentsAssumption
<1>8. /\ SumOver(InvoicedBy(Swept), Documents) = SumOver(InvoicedBy(hold), Documents)
      /\ SumOver(UsedBy(Swept), Documents) = SumOver(UsedBy(hold), Documents)
  BY <1>3, <1>5, <1>6, SumEqual
<1>9. SumOver(Returned, Documents) \in Nat
  BY <1>3, SumType, DocumentsAssumption
<1>10. Total(DrawnBy(Swept)) \in Nat /\ Total(DrawnBy(hold)) \in Nat
  BY <1>1, <1>4, SumsAre
<1>11. Refilled \in Nat /\ Refilled = balance + SumOver(Returned, Documents)
  BY <1>1, <1>9, TotalIs DEF Refilled
<1>12. Books(Swept, Refilled, overage, funds)
  BY <1>1, <1>7, <1>8, <1>9, <1>10, <1>11, TotalIs DEF LedgerInv, Books
<1> QED BY <1>2, <1>4, <1>8, <1>11, <1>12, TotalIs

-----------------------------------------------------------------------------
(* Everything but the holds and the amounts.                                 *)
RestTypes ==
  /\ account \in [entitled : BOOLEAN, blocked : BOOLEAN, overage : BOOLEAN, exempt : BOOLEAN]
  /\ trial \in {"none", "trialing", "over"}
  /\ daily \in Nat
  /\ sale \in [Sales -> {"none", "granting", "granted", "reversed"}]
  /\ refund \in [Sales -> {"none", "looked", "pending", "done"}]
  /\ expired \in [Sales -> Nat]

LEMMA LedgerIs ==
  LedgerInv <=> /\ hold \in [Documents -> AnyHold]
                /\ balance \in Nat /\ overage \in Nat /\ funds \in Int
                /\ RestTypes /\ Books(hold, balance, overage, funds)
BY DEF LedgerInv, TypeOK, RestTypes, AnyHold

(* A new hold of a document that had none.                                   *)
LEMMA NewHoldBooks ==
  ASSUME NEW h \in [Documents -> AnyHold], NEW b \in Nat, NEW o, NEW f, Books(h, b, o, f),
         NEW d \in Documents, h[d].state = "none", NEW source \in Sources,
         source = "paid" => Reserved[d] <= b,
         source = "trial" => Total(UsedBy(h)) + Reserved[d] <= TrialUnits
  PROVE  /\ [h EXCEPT ![d] = NewHold(source)] \in [Documents -> AnyHold]
         /\ Books([h EXCEPT ![d] = NewHold(source)],
                  IF source = "paid" THEN b - Reserved[d] ELSE b, o, f)
<1>1. PICK x : x = NewHold(source)
  OBVIOUS
<1>2. x \in AnyHold /\ x.state = "reserved" /\ x.source = source
  BY <1>1 DEF NewHold, NoHold, Hold, AnyHold
<1>3. Reserved[d] \in Nat
  BY AmountsAssumption
<1>4. DrawnOf(h[d], d) = 0 /\ InvoicedOf(h[d], d) = 0 /\ UsedOf(h[d], d) = 0
  BY <1>3 DEF DrawnOf, InvoicedOf, UsedOf, ConsumedOf, Least, Worked
<1>5. /\ DrawnOf(x, d) = IF source = "paid" THEN Reserved[d] ELSE 0
      /\ InvoicedOf(x, d) = 0
      /\ UsedOf(x, d) = IF source = "trial" THEN Reserved[d] ELSE 0
  BY <1>2, <1>3 DEF DrawnOf, InvoicedOf, UsedOf, ConsumedOf, Least, Worked
<1>6. PICK new : new = [h EXCEPT ![d] = x]
  OBVIOUS
<1>7. /\ new \in [Documents -> AnyHold]
      /\ Total(DrawnBy(new)) = Total(DrawnBy(h)) - 0 + DrawnOf(x, d)
      /\ Total(InvoicedBy(new)) = Total(InvoicedBy(h)) - 0 + 0
      /\ Total(UsedBy(new)) = Total(UsedBy(h)) - 0 + UsedOf(x, d)
  <2>1. /\ new \in [Documents -> AnyHold]
        /\ Total(DrawnBy(new)) = Total(DrawnBy(h)) - DrawnOf(h[d], d) + DrawnOf(x, d)
        /\ Total(InvoicedBy(new)) = Total(InvoicedBy(h)) - InvoicedOf(h[d], d) + InvoicedOf(x, d)
        /\ Total(UsedBy(new)) = Total(UsedBy(h)) - UsedOf(h[d], d) + UsedOf(x, d)
    BY <1>2, <1>6, OneHoldChanges
  <2> QED BY <1>4, <1>5, <2>1
<1>8. Total(DrawnBy(h)) \in Nat /\ Total(InvoicedBy(h)) \in Nat /\ Total(UsedBy(h)) \in Nat
  BY SumsAre
<1>9. TrialUnits \in Nat
  BY AmountsAssumption
<1>10. Books(new, IF source = "paid" THEN b - Reserved[d] ELSE b, o, f)
  BY <1>3, <1>5, <1>7, <1>8, <1>9 DEF Books
<1> QED BY <1>1, <1>6, <1>7, <1>10

LEMMA ReserveKeeps ==
  ASSUME LedgerInv, NEW d \in Documents, Reserve(d)
  PROVE  LedgerInv'
<1>1. /\ Swept \in [Documents -> AnyHold] /\ Refilled \in Nat
      /\ Books(Swept, Refilled, overage, funds)
      /\ hold[d].state # "reserved" => Swept[d] = hold[d]
      /\ Total(UsedBy(Swept)) = Total(UsedBy(hold))
  BY SweepKeeps
<1>2. /\ hold \in [Documents -> AnyHold] /\ balance \in Nat /\ overage \in Nat /\ funds \in Int
      /\ RestTypes
  BY LedgerIs
<1>3. Reserved[d] \in Nat
  BY AmountsAssumption
<1>4. UNCHANGED <<billing, overage, trial>>
  BY DEF Reserve, ReserveExempt, ReservePaid, ReserveTrial, ReserveAgain
<1>5. SUFFICES /\ hold' \in [Documents -> AnyHold] /\ balance' \in Nat /\ daily' \in Nat
               /\ Books(hold', balance', overage, funds)
  <2>1. /\ hold' \in [Documents -> AnyHold]
        /\ balance' \in Nat /\ overage' \in Nat /\ funds' \in Int
        /\ RestTypes' /\ Books(hold', balance', overage', funds')
    BY <1>2, <1>4, <1>5 DEF RestTypes, billing
  <2> QED BY <2>1 DEF LedgerInv, TypeOK, RestTypes, AnyHold, Books
<1>6. hold[d].state = "none" => Swept[d].state = "none"
  BY <1>1
<1>7. CASE ReserveExempt(d)
  BY <1>1, <1>2, <1>6, <1>7, NewHoldBooks DEF ReserveExempt, Sources, RestTypes
<1>8. CASE ReservePaid(d)
  <2>1. /\ hold' = [Swept EXCEPT ![d] = NewHold("paid")] /\ balance' = Refilled - Reserved[d]
        /\ Refilled >= Reserved[d] /\ daily' = daily /\ hold[d].state = "none"
    BY <1>8 DEF ReservePaid
  <2>2. Books(hold', balance', overage, funds) /\ hold' \in [Documents -> AnyHold]
    BY <1>1, <1>3, <1>6, <2>1, NewHoldBooks DEF Sources
  <2> QED BY <1>1, <1>2, <1>3, <2>1, <2>2 DEF RestTypes
<1>9. CASE ReserveTrial(d)
  <2>1. /\ hold' = [Swept EXCEPT ![d] = NewHold("trial")] /\ balance' = Refilled
        /\ daily' = daily + Reserved[d] /\ hold[d].state = "none"
        /\ Total([e \in Documents |-> Consumed(e)]) + Reserved[d] <= TrialUnits
    BY <1>9 DEF ReserveTrial, TrialHasRoom
  <2>2. PICK c : c = [e \in Documents |-> Consumed(e)]
    OBVIOUS
  <2>3. \A e \in Documents : c[e] \in Nat /\ UsedBy(hold)[e] \in Nat /\ UsedBy(hold)[e] <= c[e]
    <3>1. \A e \in Documents : c[e] = ConsumedOf(hold[e], e) /\ UsedBy(hold)[e] = UsedOf(hold[e], e)
      BY <2>2 DEF ConsumedOf, Consumed, UsedBy
    <3> QED BY <1>2, <3>1, AmountsAre
  <2>4. SumOver(UsedBy(hold), Documents) <= SumOver(c, Documents) /\ SumOver(c, Documents) \in Nat
        /\ SumOver(UsedBy(hold), Documents) \in Nat
    BY <2>3, SumMonotone, SumType, DocumentsAssumption
  <2>5. TrialUnits \in Nat
    BY AmountsAssumption
  <2>6. Total(UsedBy(Swept)) + Reserved[d] <= TrialUnits
    BY <1>1, <1>3, <2>1, <2>2, <2>4, <2>5, TotalIs
  <2>7. Books(hold', balance', overage, funds) /\ hold' \in [Documents -> AnyHold]
    BY <1>1, <1>6, <2>1, <2>6, NewHoldBooks DEF Sources
  <2> QED BY <1>1, <1>2, <1>3, <2>1, <2>7 DEF RestTypes
<1>10. CASE ReserveAgain(d)
  BY <1>1, <1>2, <1>10 DEF ReserveAgain, RestTypes
<1> QED BY <1>7, <1>8, <1>9, <1>10 DEF Reserve

LEMMA SettleKeeps ==
  ASSUME LedgerInv, NEW d \in Documents, NEW outcome \in Worked \union {"released"},
         NEW actual \in Nat, Settle(d, outcome, actual)
  PROVE  LedgerInv'
<1>1. /\ hold \in [Documents -> AnyHold] /\ balance \in Nat /\ overage \in Nat /\ funds \in Int
      /\ RestTypes /\ Books(hold, balance, overage, funds)
  BY LedgerIs
<1>2. /\ hold[d].state = "reserved" /\ (outcome = "released" => actual = 0)
      /\ UNCHANGED billing
      /\ hold' = [hold EXCEPT ![d].state = outcome, ![d].settled = actual]
  BY DEF Settle, StillOpen, SettleFree, SettlePaid
<1>3. hold[d] \in Hold /\ Reserved[d] \in Nat
  <2>1. hold[d] \in AnyHold
    BY <1>1
  <2>2. NoHold.state # "reserved"
    BY DEF NoHold
  <2> QED BY <1>2, <2>1, <2>2, AmountsAssumption DEF AnyHold
<1>4. PICK x : x = [hold[d] EXCEPT !.state = outcome, !.settled = actual]
  OBVIOUS
<1>5. /\ x \in AnyHold /\ x.state = outcome /\ x.source = hold[d].source /\ x.settled = actual
  BY <1>3, <1>4 DEF Hold, AnyHold, Terminal, Worked
<1>6. hold' = [hold EXCEPT ![d] = x]
  BY <1>1, <1>2, <1>4
<1>7. /\ hold' \in [Documents -> AnyHold]
      /\ Total(DrawnBy(hold')) = Total(DrawnBy(hold)) - DrawnOf(hold[d], d) + DrawnOf(x, d)
      /\ Total(InvoicedBy(hold')) = Total(InvoicedBy(hold)) - InvoicedOf(hold[d], d) + InvoicedOf(x, d)
      /\ Total(UsedBy(hold')) = Total(UsedBy(hold)) - UsedOf(hold[d], d) + UsedOf(x, d)
  BY <1>1, <1>5, <1>6, OneHoldChanges
<1>8. Total(DrawnBy(hold)) \in Nat /\ Total(InvoicedBy(hold)) \in Nat /\ Total(UsedBy(hold)) \in Nat
      /\ TrialUnits \in Nat
  BY <1>1, SumsAre, AmountsAssumption
<1>9. InvoicedOf(hold[d], d) = 0
  BY <1>2 DEF InvoicedOf, Worked
<1>10. /\ UsedOf(x, d) \in Nat /\ UsedOf(hold[d], d) \in Nat /\ UsedOf(x, d) <= UsedOf(hold[d], d)
  <2>1. UsedOf(hold[d], d) = IF hold[d].source = "trial" THEN Reserved[d] ELSE 0
    BY <1>2, <1>3 DEF UsedOf, ConsumedOf, Least, Worked
  <2>2. UsedOf(x, d) <= (IF hold[d].source = "trial" THEN Reserved[d] ELSE 0)
    BY <1>3, <1>5 DEF UsedOf, ConsumedOf, Least
  <2> QED BY <1>3, <1>5, <2>1, <2>2, AmountsAre
<1>11. Total(UsedBy(hold')) <= TrialUnits
  BY <1>1, <1>7, <1>8, <1>10 DEF Books
<1>12. trial' \in {"none", "trialing", "over"} /\ daily' \in Nat /\ balance' \in Nat /\ overage' \in Nat
  BY <1>1, <1>3 DEF Settle, SettleFree, SettlePaid, RestTypes, Excess
<1>13. /\ balance' + Total(DrawnBy(hold')) = funds
       /\ overage' = Total(InvoicedBy(hold'))
  <2>1. CASE SettleFree(d, outcome, actual)
    <3>1. /\ DrawnOf(hold[d], d) = 0 /\ DrawnOf(x, d) = 0 /\ InvoicedOf(x, d) = 0
          /\ balance' = balance /\ overage' = overage
      BY <1>5, <2>1 DEF SettleFree, DrawnOf, InvoicedOf
    <3> QED BY <1>1, <1>7, <1>8, <1>9, <3>1 DEF Books
  <2>2. CASE SettlePaid(d, outcome, actual)
    <3>1. /\ balance' = balance + Excess(Reserved[d], actual)
          /\ overage' = overage + Excess(actual, Reserved[d]) /\ hold[d].source = "paid"
      BY <2>2 DEF SettlePaid
    <3>2. DrawnOf(hold[d], d) = Reserved[d]
      BY <1>2, <3>1 DEF DrawnOf
    <3>3. DrawnOf(x, d) = Reserved[d] - Excess(Reserved[d], actual)
      BY <1>2, <1>3, <1>5, <3>1 DEF DrawnOf, Excess, Least, Worked
    <3>4. InvoicedOf(x, d) = Excess(actual, Reserved[d])
      BY <1>2, <1>3, <1>5, <3>1 DEF InvoicedOf, Excess, Worked
    <3>5. Excess(Reserved[d], actual) \in Nat /\ Excess(actual, Reserved[d]) \in Nat
      BY <1>3 DEF Excess
    <3> QED BY <1>1, <1>3, <1>7, <1>8, <1>9, <3>1, <3>2, <3>3, <3>4, <3>5 DEF Books
  <2> QED BY <2>1, <2>2 DEF Settle
<1>14. /\ hold' \in [Documents -> AnyHold] /\ RestTypes' /\ funds' \in Int
       /\ Books(hold', balance', overage', funds')
  BY <1>1, <1>2, <1>7, <1>11, <1>12, <1>13 DEF RestTypes, Books, billing
<1> QED BY <1>12, <1>14 DEF LedgerInv, TypeOK, RestTypes, AnyHold, Books

LEMMA HoldLapsesKeeps ==
  ASSUME LedgerInv, NEW d \in Documents, HoldLapses(d)
  PROVE  LedgerInv'
<1>1. /\ hold \in [Documents -> AnyHold] /\ balance \in Nat /\ overage \in Nat /\ funds \in Int
      /\ RestTypes /\ Books(hold, balance, overage, funds)
  BY LedgerIs
<1>2. /\ hold' = [hold EXCEPT ![d].lapsed = TRUE] /\ hold[d].state = "reserved"
      /\ UNCHANGED <<balance, overage, trial, daily, billing>>
  BY DEF HoldLapses
<1>3. PICK x : x = [hold[d] EXCEPT !.lapsed = TRUE]
  OBVIOUS
<1>4. /\ x \in AnyHold /\ x.state = hold[d].state /\ x.source = hold[d].source
      /\ x.settled = hold[d].settled
  <2>1. hold[d] \in Hold
    BY <1>1, <1>2 DEF AnyHold, NoHold
  <2> QED BY <1>3, <2>1 DEF Hold, AnyHold
<1>5. hold' = [hold EXCEPT ![d] = x]
  BY <1>1, <1>2, <1>3
<1>6. /\ DrawnOf(x, d) = DrawnOf(hold[d], d) /\ InvoicedOf(x, d) = InvoicedOf(hold[d], d)
      /\ UsedOf(x, d) = UsedOf(hold[d], d)
  BY <1>4 DEF DrawnOf, InvoicedOf, UsedOf, ConsumedOf
<1>7. /\ DrawnOf(x, d) \in Nat /\ InvoicedOf(x, d) \in Nat /\ UsedOf(x, d) \in Nat
      /\ Total(DrawnBy(hold)) \in Nat /\ Total(InvoicedBy(hold)) \in Nat /\ Total(UsedBy(hold)) \in Nat
  BY <1>1, <1>4, AmountsAre, SumsAre
<1>8. /\ hold' \in [Documents -> AnyHold]
      /\ Total(DrawnBy(hold')) = Total(DrawnBy(hold))
      /\ Total(InvoicedBy(hold')) = Total(InvoicedBy(hold))
      /\ Total(UsedBy(hold')) = Total(UsedBy(hold))
  <2>1. /\ hold' \in [Documents -> AnyHold]
        /\ Total(DrawnBy(hold')) = Total(DrawnBy(hold)) - DrawnOf(hold[d], d) + DrawnOf(x, d)
        /\ Total(InvoicedBy(hold')) =
             Total(InvoicedBy(hold)) - InvoicedOf(hold[d], d) + InvoicedOf(x, d)
        /\ Total(UsedBy(hold')) = Total(UsedBy(hold)) - UsedOf(hold[d], d) + UsedOf(x, d)
    BY <1>1, <1>4, <1>5, OneHoldChanges
  <2> QED BY <1>6, <1>7, <2>1
<1>9. /\ RestTypes' /\ balance' \in Nat /\ overage' \in Nat /\ funds' \in Int
      /\ Books(hold', balance', overage', funds')
  BY <1>1, <1>2, <1>8 DEF RestTypes, Books, billing
<1> QED BY <1>8, <1>9 DEF LedgerInv, TypeOK, RestTypes, AnyHold, Books

(* Billing moves the balance and the funds alike.                            *)
LEMMA BillingKeeps ==
  ASSUME LedgerInv, UNCHANGED <<hold, overage>>, RestTypes', balance' \in Nat, funds' \in Int,
         balance' - balance = funds' - funds
  PROVE  LedgerInv'
<1>1. /\ hold \in [Documents -> AnyHold] /\ balance \in Nat /\ overage \in Nat /\ funds \in Int
      /\ Books(hold, balance, overage, funds)
  BY LedgerIs
<1>2. Total(DrawnBy(hold)) \in Nat
  BY <1>1, SumsAre
<1>3. Books(hold', balance', overage', funds')
  BY <1>1, <1>2 DEF Books
<1> QED BY <1>1, <1>3 DEF LedgerInv, TypeOK, RestTypes, AnyHold, Books

LEMMA TakeBackKeeps ==
  ASSUME LedgerInv, NEW s \in Sales, NEW left \in Nat, TakeBack(s, left)
  PROVE  /\ balance' \in Nat /\ funds' \in Int /\ balance' - balance = funds' - funds
         /\ account' \in [entitled : BOOLEAN, blocked : BOOLEAN, overage : BOOLEAN, exempt : BOOLEAN]
<1>1. balance \in Nat /\ funds \in Int /\ Grant[s] \in Nat /\ RestTypes
  BY LedgerIs, AmountsAssumption
<1>2. balance' \in Nat
  BY <1>1 DEF TakeBack, Excess
<1>3. funds' = funds + balance' - balance
  BY DEF TakeBack
<1>4. account' \in [entitled : BOOLEAN, blocked : BOOLEAN, overage : BOOLEAN, exempt : BOOLEAN]
  BY <1>1 DEF TakeBack, RestTypes
<1> QED BY <1>1, <1>2, <1>3, <1>4

LEMMA BillingStepKeeps ==
  ASSUME LedgerInv, NEW s \in Sales, BillingStep(s)
  PROVE  LedgerInv'
<1>1. balance \in Nat /\ funds \in Int /\ Grant[s] \in Nat /\ RestTypes
  BY LedgerIs, AmountsAssumption
<1>2. CASE CommitGrant(s)
  <2>1. PICK ended \in 0 .. balance :
          /\ expired' = [expired EXCEPT ![s] = ended]
          /\ balance' = balance - ended + Grant[s] /\ funds' = funds - ended + Grant[s]
    BY <1>2 DEF CommitGrant
  <2>2. balance' \in Nat /\ funds' \in Int /\ balance' - balance = funds' - funds /\ ended \in Nat
    BY <1>1, <2>1
  <2>3. account' \in [entitled : BOOLEAN, blocked : BOOLEAN, overage : BOOLEAN, exempt : BOOLEAN]
    BY <1>1, <1>2 DEF CommitGrant, RestTypes
  <2>4. RestTypes'
    BY <1>1, <1>2, <2>1, <2>2, <2>3 DEF CommitGrant, RestTypes
  <2> QED BY <1>2, <2>2, <2>4, BillingKeeps DEF CommitGrant
<1>3. CASE GrantRefunded(s)
  <2>1. PICK ended \in 0 .. balance :
          expired' = [expired EXCEPT ![s] = ended] /\ TakeBack(s, balance - ended + Grant[s])
    BY <1>3 DEF GrantRefunded
  <2>2. balance - ended + Grant[s] \in Nat /\ ended \in Nat
    BY <1>1
  <2>3. /\ balance' \in Nat /\ funds' \in Int /\ balance' - balance = funds' - funds
        /\ account' \in [entitled : BOOLEAN, blocked : BOOLEAN, overage : BOOLEAN, exempt : BOOLEAN]
    BY <2>1, <2>2, TakeBackKeeps
  <2>4. RestTypes'
    BY <1>1, <1>3, <2>1, <2>2, <2>3 DEF GrantRefunded, RestTypes
  <2> QED BY <1>3, <2>3, <2>4, BillingKeeps DEF GrantRefunded
<1>4. CASE RefundGranted(s)
  <2>1. /\ balance' \in Nat /\ funds' \in Int /\ balance' - balance = funds' - funds
        /\ account' \in [entitled : BOOLEAN, blocked : BOOLEAN, overage : BOOLEAN, exempt : BOOLEAN]
    BY <1>1, <1>4, TakeBackKeeps DEF RefundGranted
  <2>2. RestTypes'
    BY <1>1, <1>4, <2>1 DEF RefundGranted, RestTypes
  <2> QED BY <1>4, <2>1, <2>2, BillingKeeps DEF RefundGranted
<1>5. CASE BeginGrant(s) \/ LookForSale(s) \/ KeepRefund(s) \/ EventFails(s)
  <2>1. UNCHANGED <<hold, overage, balance, funds, account, trial, daily, expired>>
    BY <1>5 DEF BeginGrant, LookForSale, KeepRefund, EventFails
  <2>2. /\ sale' \in [Sales -> {"none", "granting", "granted", "reversed"}]
        /\ refund' \in [Sales -> {"none", "looked", "pending", "done"}]
    BY <1>1, <1>5 DEF BeginGrant, LookForSale, KeepRefund, EventFails, RestTypes
  <2>3. RestTypes'
    BY <1>1, <2>1, <2>2 DEF RestTypes
  <2> QED BY <1>1, <2>1, <2>3, BillingKeeps
<1> QED BY <1>2, <1>3, <1>4, <1>5 DEF BillingStep

LEMMA OtherStepsKeep ==
  ASSUME LedgerInv, SubscriptionEvent \/ OwnerGrant \/ Bootstrap \/ TrialDaysEnd \/ UNCHANGED vars
  PROVE  LedgerInv'
<1>1. balance \in Nat /\ funds \in Int /\ RestTypes
  BY LedgerIs
<1>2. UNCHANGED <<hold, overage, balance, funds, daily, sale, refund, expired>>
  BY DEF SubscriptionEvent, OwnerGrant, Bootstrap, TrialDaysEnd, vars, billing
<1>3. account' \in [entitled : BOOLEAN, blocked : BOOLEAN, overage : BOOLEAN, exempt : BOOLEAN]
  BY <1>1 DEF SubscriptionEvent, OwnerGrant, Bootstrap, TrialDaysEnd, vars, billing, RestTypes
<1>4. trial' \in {"none", "trialing", "over"}
  BY <1>1 DEF SubscriptionEvent, OwnerGrant, Bootstrap, TrialDaysEnd, vars, RestTypes
<1>5. RestTypes'
  BY <1>1, <1>2, <1>3, <1>4 DEF RestTypes
<1> QED BY <1>1, <1>2, <1>5, BillingKeeps

LEMMA LedgerStarts ==
  ASSUME Init
  PROVE  LedgerInv
<1>1. /\ hold = [d \in Documents |-> NoHold] /\ balance = 0 /\ overage = 0 /\ funds = 0
  BY DEF Init
<1>2. TypeOK
  BY DEF Init, TypeOK
<1>3. \A d \in Documents : DrawnBy(hold)[d] = 0 /\ InvoicedBy(hold)[d] = 0 /\ UsedBy(hold)[d] = 0
  BY <1>1, AmountsAssumption
     DEF DrawnBy, InvoicedBy, UsedBy, DrawnOf, InvoicedOf, UsedOf, ConsumedOf, NoHold, Least
<1>4. /\ SumOver(DrawnBy(hold), Documents) = 0 /\ SumOver(InvoicedBy(hold), Documents) = 0
      /\ SumOver(UsedBy(hold), Documents) = 0
  BY <1>3, SumZero
<1> QED BY <1>1, <1>2, <1>4, TotalIs, AmountsAssumption DEF LedgerInv, Books

LEMMA LedgerSteps ==
  ASSUME LedgerInv, [Next]_vars
  PROVE  LedgerInv'
<1>1. ASSUME NEW d \in Documents, NEW outcome \in Worked \union {"released"},
             NEW actual \in Actuals, Settle(d, outcome, actual)
      PROVE  LedgerInv'
  <2>1. actual \in Nat
    BY AmountsAssumption
  <2> QED BY <1>1, <2>1, SettleKeeps
<1> QED BY <1>1, ReserveKeeps, HoldLapsesKeeps, BillingStepKeeps, OtherStepsKeep DEF Next

(* In every state the balance, the invoices and the funds are what the holds *)
(* say, and the trial is within its allowance.                               *)
THEOREM LedgerInvariance == Spec => []LedgerInv
BY LedgerStarts, LedgerSteps, PTL DEF Spec

(* Every variable keeps its type: no amount ever falls below zero.           *)
THEOREM LedgerTypes == Spec => []TypeOK
<1>1. LedgerInv => TypeOK
  BY DEF LedgerInv
<1> QED BY <1>1, LedgerInvariance, PTL

(* No credit is lost or made, however sweeps, late settlements, renewals and *)
(* refunds meet.                                                             *)
THEOREM CreditsAlwaysConserved == Spec => []CreditsConserved
<1>1. LedgerInv => CreditsConserved
  BY BooksSayIt DEF LedgerInv
<1> QED BY <1>1, LedgerInvariance, PTL

(* A trial never consumes more than its allowance.                           *)
THEOREM TrialAlwaysStaysBounded == Spec => []TrialStaysBounded
<1>1. LedgerInv => TrialStaysBounded
  BY BooksSayIt DEF LedgerInv
<1> QED BY <1>1, LedgerInvariance, PTL

-----------------------------------------------------------------------------
(* The intake.  A document is done when nothing is left to say of it, and    *)
(* passed over when there was no reader to ask.                              *)
WellRead(d) == \E v \in Versions(d) : ReadWell(v)
Reviewed(d, review) == \E v \in Versions(d) : v.review = review

Done(d) ==
  \/ hold[d].state \in Worked
  \/ /\ hold[d].state = "released"
     /\ \/ Reviewed(d, "released")
        \/ record[d].reject /\ admission[d].rejected

PassedOver(d) == hold[d].state = "released" /\ record[d].clean

(* The charge of d, if there is one, rests on another version of d than the  *)
(* one in use.                                                               *)
ChargedForAnother(d) ==
  /\ hold[d].state = "settled" => \E v \in earlier[d] : ReadWell(v)
  /\ hold[d].state = "operator_review" => \E v \in earlier[d] : v.review = "operator_review"

(* Nothing is stored beside a source that was not disarmed.                  *)
Disarmed(d) ==
  \/ record[d].clean
  \/ /\ earlier[d] = {} /\ record[d].ranges = 0
     /\ record[d].ocr = FALSE /\ record[d].review = "none"

AllDisarmed == \A d \in Documents : Disarmed(d)

(* What the worker is about to tell the ledger is what is on record.         *)
SaysWhatIsRecorded ==
  LET r == record[worker.doc]
  IN  IF worker.refused THEN r.reject /\ worker.outcome = "released"
      ELSE \/ r.review # "none" /\ worker.outcome = r.review
           \/ r.review = "none" /\ r.ocr /\ worker.outcome = "settled"
           \/ r.clean /\ worker.outcome = "skipped"

WorkerKnows ==
  /\ At("refusing") => worker.refused /\ worker.outcome = "released"
  /\ At("reading") => record[worker.doc].clean
  /\ At("recording") => /\ record[worker.doc].clean
                        /\ record[worker.doc].review = "none"
                        /\ ChargedForAnother(worker.doc)
                        /\ worker.outcome \in {"operator_review", "released"}
                        /\ ~worker.refused
  /\ At("settling") => SaysWhatIsRecorded
  /\ At("marking") => /\ worker.refused /\ worker.outcome = "released"
                      /\ record[worker.doc].reject
                      /\ hold[worker.doc].state = "released"
  /\ At("acknowledging") => IF worker.outcome = "skipped" THEN PassedOver(worker.doc)
                            ELSE Done(worker.doc)

RestOfIntakeTypes ==
  /\ admission \in [Documents -> [issued : BOOLEAN, live : BOOLEAN,
                                  confirmed : BOOLEAN, rejected : BOOLEAN]]
  /\ client \in [Documents -> {"idle", "admitted", "held", "putting", "stored",
                               "failed", "releasing", "done"}]
  /\ landing \subseteq Documents /\ object \subseteq Documents
  /\ message \in
       [Documents -> [state : {"none", "waiting", "given", "acked", "skipped", "dead"},
                      delivery : 0 .. MaxDeliveries]]
  /\ record \in [Documents -> [clean : BOOLEAN, ranges : 0 .. Ranges, ocr : BOOLEAN,
                               review : {"none", "operator_review", "released"},
                               reject : BOOLEAN]]
  /\ earlier \in [Documents -> SUBSET
       [ranges : 0 .. Ranges, ocr : BOOLEAN, review : {"none", "operator_review", "released"}]]
  /\ worker \in {Idle} \union
       [phase : {"sanitizing", "refusing", "reading", "recording", "settling", "marking",
                 "acknowledging"},
        doc : Documents,
        outcome : {"none", "settled", "operator_review", "released", "skipped"},
        refused : BOOLEAN]
  /\ faults \in 0 .. MaxFaults

Promises == ChargedAsRecorded /\ AcknowledgedIsDone /\ RejectedCostNothing
IntakeInv == LedgerInv /\ RestOfIntakeTypes /\ AllDisarmed /\ WorkerKnows /\ Promises

(* What the steps of the ledger do to the holds: what is over stays as it    *)
(* is, and only a settlement makes a hold worked.                            *)
OverStays == \A e \in Documents : hold[e].state \in Terminal => hold'[e] = hold[e]
NoneWorked == \A e \in Documents : hold[e].state \notin Worked => hold'[e].state \notin Worked

LEMMA HoldIs ==
  ASSUME LedgerInv, NEW d \in Documents
  PROVE  hold[d] \in AnyHold /\ DOMAIN hold = Documents
BY DEF LedgerInv, TypeOK, AnyHold

LEMMA ReserveMoves ==
  ASSUME LedgerInv, NEW d \in Documents, Reserve(d)
  PROVE  OverStays /\ NoneWorked
<1>1. hold \in [Documents -> AnyHold]
  BY LedgerIs
<1>2. \A e \in Documents : /\ e \notin Lapsed => Swept[e] = hold[e]
                           /\ e \in Lapsed => Swept[e].state = "expired"
  <2>1. ASSUME NEW e \in Documents, e \in Lapsed
        PROVE  Swept[e].state = "expired"
    <3>1. hold[e] \in Hold
      BY <1>1, <2>1 DEF Lapsed, AnyHold, NoHold
    <3> QED BY <2>1, <3>1 DEF Swept, Hold
  <2> QED BY <2>1 DEF Swept
<1>3. \A e \in Documents : e \in Lapsed => hold[e].state = "reserved"
  BY DEF Lapsed
<1>4. /\ DOMAIN Swept = Documents
      /\ \/ hold' = Swept
         \/ hold[d].state = "none" /\ \E source \in Sources : hold' = [Swept EXCEPT ![d] = NewHold(source)]
  BY DEF Reserve, ReserveExempt, ReservePaid, ReserveTrial, ReserveAgain, Swept, Sources
<1>5. \A source \in Sources : NewHold(source).state = "reserved"
  BY DEF NewHold, NoHold
<1>6. \A e \in Documents : \/ hold'[e] = Swept[e]
                           \/ hold[e].state = "none" /\ hold'[e].state = "reserved"
  BY <1>4, <1>5
<1> QED BY <1>2, <1>3, <1>6 DEF OverStays, NoneWorked, Terminal, Worked

LEMMA SettleMoves ==
  ASSUME LedgerInv, NEW d \in Documents, NEW outcome, NEW actual, Settle(d, outcome, actual)
  PROVE  /\ hold[d].state = "reserved" /\ hold'[d].state = outcome
         /\ \A e \in Documents : e # d => hold'[e] = hold[e]
<1>1. /\ hold[d].state = "reserved"
      /\ hold' = [hold EXCEPT ![d].state = outcome, ![d].settled = actual]
  BY DEF Settle, StillOpen, SettleFree, SettlePaid
<1>2. hold \in [Documents -> AnyHold]
  BY LedgerIs
<1>3. hold[d] \in Hold
  BY <1>1, <1>2 DEF AnyHold, NoHold
<1> QED BY <1>1, <1>2, <1>3 DEF Hold

LEMMA MeanwhileMoves ==
  ASSUME LedgerInv, Meanwhile
  PROVE  LedgerInv' /\ OverStays /\ NoneWorked
<1>1. CASE SubscriptionEvent \/ Bootstrap
  BY <1>1, OtherStepsKeep DEF SubscriptionEvent, Bootstrap, OverStays, NoneWorked
<1>2. ASSUME NEW d \in Documents, HoldLapses(d)
      PROVE  LedgerInv' /\ OverStays /\ NoneWorked
  <2>1. hold \in [Documents -> AnyHold] /\ hold[d].state = "reserved"
    BY <1>2, LedgerIs DEF HoldLapses
  <2>2. hold[d] \in Hold
    BY <2>1 DEF AnyHold, NoHold
  <2>3. hold'[d].state = "reserved" /\ \A e \in Documents : e # d => hold'[e] = hold[e]
    BY <1>2, <2>1, <2>2 DEF HoldLapses, Hold
  <2> QED BY <1>2, <2>1, <2>3, HoldLapsesKeeps DEF OverStays, NoneWorked, Terminal, Worked
<1> QED BY <1>1, <1>2 DEF Meanwhile

-----------------------------------------------------------------------------
(* The worker and the records. *)
Delivery ==
  [phase : {"sanitizing", "refusing", "reading", "recording", "settling", "marking",
            "acknowledging"},
   doc : Documents,
   outcome : {"none", "settled", "operator_review", "released", "skipped"},
   refused : BOOLEAN]

AnyRecord ==
  [clean : BOOLEAN, ranges : 0 .. Ranges, ocr : BOOLEAN,
   review : {"none", "operator_review", "released"}, reject : BOOLEAN]

AnyBeside ==
  [ranges : 0 .. Ranges, ocr : BOOLEAN, review : {"none", "operator_review", "released"}]

LEMMA WorkerIs ==
  ASSUME RestOfIntakeTypes, ~At("idle")
  PROVE  /\ worker \in Delivery /\ worker.doc \in Documents
         /\ record[worker.doc] \in AnyRecord
<1>1. worker \in Delivery
  BY DEF RestOfIntakeTypes, At, Idle, Delivery
<1> QED BY <1>1 DEF RestOfIntakeTypes, Delivery, AnyRecord

(* What is beside a version is added to, and its receipt is final.           *)
Follows(v, w) == (v.ocr => w.ocr) /\ (v.review # "none" => w.review = v.review)

(* Records only grow, no version of a document is forgotten, and the text a  *)
(* document was charged for gets no failure.                                 *)
RecordsGrow ==
  \A e \in Documents :
    /\ record[e].clean => record'[e].clean
    /\ record[e].reject => record'[e].reject
    /\ \A v \in Versions(e) : \E w \in Versions(e)' : Follows(v, w)
    /\ hold[e].state = "settled" /\ WellRead(e) => WellRead(e)'

(* A message whose end is news. *)
NewlyAcknowledged(e) ==
  message'[e].state \in {"acked", "skipped"} /\ message'[e].state # message[e].state

LEMMA ReviewsStay ==
  ASSUME RecordsGrow, NEW e \in Documents, NEW review, review # "none", Reviewed(e, review)
  PROVE  Reviewed(e, review)'
<1>1. PICK v \in Versions(e) : v.review = review
  BY DEF Reviewed
<1>2. PICK w \in Versions(e)' : Follows(v, w)
  BY <1>1 DEF RecordsGrow
<1> QED BY <1>1, <1>2 DEF Follows, Reviewed

(* A step that settles, rejects and acknowledges nothing keeps the promises. *)
LEMMA PromisesKept ==
  ASSUME LedgerInv, Promises, OverStays, NoneWorked, RecordsGrow,
         \A e \in Documents : admission'[e].rejected = admission[e].rejected,
         \A e \in Documents : ~NewlyAcknowledged(e)
  PROVE  Promises'
<1>1. ASSUME NEW e \in Documents
      PROVE  /\ hold'[e].state = "settled" => WellRead(e)'
             /\ hold'[e].state = "operator_review" => Reviewed(e, "operator_review")'
  <2>1. hold'[e].state \in Worked => hold[e].state \in Worked /\ hold'[e] = hold[e]
    BY DEF NoneWorked, OverStays, Terminal, Worked
  <2>2. /\ hold[e].state = "settled" => WellRead(e)
        /\ hold[e].state = "operator_review" => Reviewed(e, "operator_review")
    BY DEF Promises, ChargedAsRecorded, WellRead, Reviewed
  <2>3. hold'[e].state = "settled" => WellRead(e)'
    BY <2>1, <2>2 DEF RecordsGrow, Worked
  <2>4. hold'[e].state = "operator_review" => Reviewed(e, "operator_review")'
    BY <2>1, <2>2, ReviewsStay DEF Worked
  <2> QED BY <2>3, <2>4
<1>2. ASSUME NEW e \in Documents, message'[e].state = "acked"
      PROVE  Done(e)'
  <2>1. Done(e)
    BY <1>2 DEF Promises, AcknowledgedIsDone, Done, Reviewed, NewlyAcknowledged
  <2>2. hold'[e] = hold[e]
    BY <2>1 DEF Done, OverStays, Terminal, Worked
  <2>3. CASE Reviewed(e, "released")
    <3>1. Reviewed(e, "released")'
      BY <2>3, ReviewsStay
    <3> QED BY <2>1, <2>2, <3>1 DEF Done
  <2>4. CASE ~Reviewed(e, "released")
    BY <2>1, <2>2, <2>4 DEF Done, RecordsGrow
  <2> QED BY <2>3, <2>4
<1>3. ASSUME NEW e \in Documents, message'[e].state = "skipped"
      PROVE  PassedOver(e)'
  BY <1>3 DEF Promises, AcknowledgedIsDone, PassedOver, NewlyAcknowledged, OverStays, Terminal,
     RecordsGrow
<1>4. ASSUME NEW e \in Documents, admission'[e].rejected
      PROVE  record'[e].reject /\ hold'[e].state = "released"
  <2>1. record[e].reject /\ hold[e].state = "released"
    BY <1>4 DEF Promises, RejectedCostNothing
  <2> QED BY <2>1 DEF OverStays, Terminal, RecordsGrow
<1>5. ChargedAsRecorded'
  BY <1>1 DEF ChargedAsRecorded, WellRead, Reviewed
<1>6. AcknowledgedIsDone'
  BY <1>2, <1>3 DEF AcknowledgedIsDone, Done, PassedOver, Reviewed
<1>7. RejectedCostNothing'
  BY <1>4 DEF RejectedCostNothing
<1> QED BY <1>5, <1>6, <1>7 DEF Promises

(* What the worker relies on survives every step of somebody else.           *)
LEMMA KnowledgeKept ==
  ASSUME LedgerInv, RestOfIntakeTypes, WorkerKnows, OverStays, NoneWorked,
         UNCHANGED <<records, worker>>,
         \A e \in Documents : admission'[e].rejected = admission[e].rejected
  PROVE  WorkerKnows'
<1>1. CASE At("idle")
  BY <1>1 DEF WorkerKnows, At
<1>2. CASE ~At("idle")
  <2>1. worker.doc \in Documents /\ UNCHANGED <<record, earlier, worker>>
    BY <1>2, WorkerIs DEF records
  <2>2. /\ Done(worker.doc) => Done(worker.doc)'
        /\ PassedOver(worker.doc) => PassedOver(worker.doc)'
    <3>1. ASSUME Done(worker.doc) \/ PassedOver(worker.doc)
          PROVE  hold'[worker.doc] = hold[worker.doc]
      BY <2>1, <3>1 DEF Done, PassedOver, OverStays, Terminal, Worked
    <3> QED BY <2>1, <3>1 DEF Done, PassedOver, Reviewed, Versions
  <2>3. At("marking") => hold'[worker.doc].state = "released"
    BY <2>1 DEF WorkerKnows, OverStays, Terminal
  <2>4. ChargedForAnother(worker.doc) => ChargedForAnother(worker.doc)'
    <3>1. hold'[worker.doc].state \in Worked => hold'[worker.doc] = hold[worker.doc]
      BY <2>1 DEF NoneWorked, OverStays, Terminal, Worked
    <3> QED BY <2>1, <3>1 DEF ChargedForAnother, Worked
  <2>5. SaysWhatIsRecorded => SaysWhatIsRecorded'
    BY <2>1 DEF SaysWhatIsRecorded
  <2> QED BY <2>1, <2>2, <2>3, <2>4, <2>5 DEF WorkerKnows, At
<1> QED BY <1>1, <1>2

-----------------------------------------------------------------------------
(* Steps of clients, of the queue and of time. *)
LEMMA LedgerStands ==
  ASSUME LedgerInv, UNCHANGED ledgerOnly
  PROVE  LedgerInv' /\ OverStays /\ NoneWorked
BY OtherStepsKeep DEF ledgerOnly, vars, OverStays, NoneWorked

LEMMA IntakeSettles ==
  ASSUME LedgerInv, NEW d \in Documents, NEW outcome \in Worked \union {"released"},
         NEW actual \in Nat, Settle(d, outcome, actual)
  PROVE  /\ LedgerInv' /\ OverStays
         /\ outcome = "released" => NoneWorked
<1>1. LedgerInv'
  BY SettleKeeps
<1>2. /\ hold[d].state = "reserved" /\ hold'[d].state = outcome
      /\ \A e \in Documents : e # d => hold'[e] = hold[e]
  BY SettleMoves
<1> QED BY <1>1, <1>2 DEF OverStays, NoneWorked, Terminal, Worked

LEMMA ClientLedger ==
  ASSUME LedgerInv, NEW d \in Documents, ClientStep(d)
  PROVE  LedgerInv' /\ OverStays /\ NoneWorked
<1>1. CASE ReserveForUpload(d)
  BY <1>1, ReserveKeeps, ReserveMoves DEF ReserveForUpload
<1>2. CASE ReleaseUpload(d)
  <2>1. Settle(d, "released", 0) \/ UNCHANGED ledgerOnly
    BY <1>2 DEF ReleaseUpload
  <2> QED BY <2>1, LedgerStands, IntakeSettles
<1>3. CASE \/ Admit(d) \/ StartUpload(d) \/ Land(d) \/ UploadFails(d)
           \/ Confirm(d) \/ AskStore(d) \/ ClientStops(d)
  <2>1. UNCHANGED ledgerOnly
    BY <1>3 DEF Admit, StartUpload, Land, UploadFails, Confirm, AskStore, ClientStops
  <2> QED BY <2>1, LedgerStands
<1> QED BY <1>1, <1>2, <1>3 DEF ClientStep

AnyAdmission == [issued : BOOLEAN, live : BOOLEAN, confirmed : BOOLEAN, rejected : BOOLEAN]

LEMMA AdmissionMoves ==
  ASSUME RestOfIntakeTypes, NEW d \in Documents,
         \/ admission' = [admission EXCEPT ![d].live = FALSE]
         \/ admission' = [admission EXCEPT ![d].live = TRUE]
         \/ admission' = [admission EXCEPT ![d].issued = TRUE, ![d].live = TRUE]
         \/ admission' = [admission EXCEPT ![d].confirmed = TRUE]
  PROVE  /\ admission' \in [Documents -> AnyAdmission]
         /\ \A e \in Documents : admission'[e].rejected = admission[e].rejected
<1>1. admission \in [Documents -> AnyAdmission] /\ admission[d] \in AnyAdmission
  BY DEF RestOfIntakeTypes, AnyAdmission
<1>2. PICK x : /\ x \in {[admission[d] EXCEPT !.live = FALSE], [admission[d] EXCEPT !.live = TRUE],
                         [admission[d] EXCEPT !.issued = TRUE, !.live = TRUE],
                         [admission[d] EXCEPT !.confirmed = TRUE]}
               /\ admission' = [admission EXCEPT ![d] = x]
  OBVIOUS
<1>3. x \in AnyAdmission /\ x.rejected = admission[d].rejected
  BY <1>1, <1>2 DEF AnyAdmission
<1> QED BY <1>1, <1>2, <1>3

AnyMessage ==
  [state : {"none", "waiting", "given", "acked", "skipped", "dead"},
   delivery : 0 .. MaxDeliveries]

LEMMA TypesAre ==
  RestOfIntakeTypes <=>
    /\ admission \in [Documents -> AnyAdmission]
    /\ client \in [Documents -> {"idle", "admitted", "held", "putting", "stored",
                                 "failed", "releasing", "done"}]
    /\ landing \subseteq Documents /\ object \subseteq Documents
    /\ message \in [Documents -> AnyMessage] /\ record \in [Documents -> AnyRecord]
    /\ earlier \in [Documents -> SUBSET AnyBeside]
    /\ worker \in {Idle} \union Delivery /\ faults \in 0 .. MaxFaults
BY DEF RestOfIntakeTypes, AnyAdmission, AnyMessage, AnyRecord, AnyBeside, Delivery

LEMMA ClientTypes ==
  ASSUME RestOfIntakeTypes, NEW d \in Documents, ClientStep(d)
  PROVE  /\ RestOfIntakeTypes' /\ UNCHANGED <<records, worker>>
         /\ \A e \in Documents : admission'[e].rejected = admission[e].rejected
         /\ \A e \in Documents : ~NewlyAcknowledged(e)
<1>1. CASE Admit(d)
  <2>1. UNCHANGED <<landing, object, message, records, worker, faults>>
    BY <1>1 DEF Admit
  <2>2. client' \in [Documents -> {"idle", "admitted", "held", "putting", "stored",
                                   "failed", "releasing", "done"}]
    BY <1>1 DEF Admit, RestOfIntakeTypes
  <2>3. \/ UNCHANGED admission
        \/ admission' = [admission EXCEPT ![d].live = TRUE]
        \/ admission' = [admission EXCEPT ![d].issued = TRUE, ![d].live = TRUE]
    BY <1>1 DEF Admit
  <2>4. /\ admission' \in [Documents -> [issued : BOOLEAN, live : BOOLEAN,
                                         confirmed : BOOLEAN, rejected : BOOLEAN]]
        /\ \A e \in Documents : admission'[e].rejected = admission[e].rejected
    <3>1. UNCHANGED admission => admission' \in [Documents -> AnyAdmission]
      BY TypesAre
    <3> QED BY <2>3, <3>1, AdmissionMoves DEF AnyAdmission
  <2> QED BY <2>1, <2>2, <2>4 DEF RestOfIntakeTypes, records, NewlyAcknowledged
<1>2. CASE ReserveForUpload(d) \/ StartUpload(d) \/ AskStore(d) \/ ReleaseUpload(d)
  <2>1. UNCHANGED <<admission, object, message, records, worker, faults>>
    BY <1>2 DEF ReserveForUpload, StartUpload, AskStore, ReleaseUpload
  <2>2. client' \in [Documents -> {"idle", "admitted", "held", "putting", "stored",
                                   "failed", "releasing", "done"}]
    BY <1>2 DEF ReserveForUpload, StartUpload, AskStore, ReleaseUpload, RestOfIntakeTypes
  <2>3. landing' \subseteq Documents
    BY <1>2 DEF ReserveForUpload, StartUpload, AskStore, ReleaseUpload, RestOfIntakeTypes
  <2> QED BY <2>1, <2>2, <2>3 DEF RestOfIntakeTypes, records, NewlyAcknowledged
<1>3. CASE Land(d)
  <2>1. UNCHANGED <<admission, records, worker, faults>>
    BY <1>3 DEF Land
  <2>2. client' \in [Documents -> {"idle", "admitted", "held", "putting", "stored",
                                   "failed", "releasing", "done"}]
    BY <1>3 DEF Land, RestOfIntakeTypes
  <2>3. landing' \subseteq Documents /\ object' \subseteq Documents
    BY <1>3 DEF Land, RestOfIntakeTypes
  <2>4. message' = [message EXCEPT ![d] = IF @.state \in {"waiting", "given"} THEN @
                                          ELSE [state |-> "waiting", delivery |-> 1]]
    BY <1>3 DEF Land
  <2>5. 1 \in 0 .. MaxDeliveries
    BY IntakeAssumption
  <2>6. /\ message' \in
             [Documents -> [state : {"none", "waiting", "given", "acked", "skipped", "dead"},
                            delivery : 0 .. MaxDeliveries]]
        /\ \A e \in Documents : ~NewlyAcknowledged(e)
    BY <2>4, <2>5 DEF RestOfIntakeTypes, NewlyAcknowledged
  <2> QED BY <2>1, <2>2, <2>3, <2>6 DEF RestOfIntakeTypes, records, NewlyAcknowledged
<1>4. CASE UploadFails(d) \/ ClientStops(d)
  <2>1. UNCHANGED <<admission, object, message, records, worker>>
    BY <1>4 DEF UploadFails, ClientStops
  <2>2. client' \in [Documents -> {"idle", "admitted", "held", "putting", "stored",
                                   "failed", "releasing", "done"}]
    BY <1>4 DEF UploadFails, ClientStops, RestOfIntakeTypes
  <2>3. landing' \subseteq Documents
    BY <1>4 DEF UploadFails, ClientStops, RestOfIntakeTypes
  <2>4. faults' \in 0 .. MaxFaults
    BY <1>4, IntakeAssumption DEF UploadFails, ClientStops, RestOfIntakeTypes
  <2> QED BY <2>1, <2>2, <2>3, <2>4 DEF RestOfIntakeTypes, records, NewlyAcknowledged
<1>5. CASE Confirm(d)
  <2>1. UNCHANGED <<landing, object, message, records, worker, faults>>
    BY <1>5 DEF Confirm
  <2>2. client' \in [Documents -> {"idle", "admitted", "held", "putting", "stored",
                                   "failed", "releasing", "done"}]
    BY <1>5 DEF Confirm, RestOfIntakeTypes
  <2>3. admission' = [admission EXCEPT ![d].confirmed = TRUE]
    BY <1>5 DEF Confirm
  <2>4. /\ admission' \in [Documents -> [issued : BOOLEAN, live : BOOLEAN,
                                         confirmed : BOOLEAN, rejected : BOOLEAN]]
        /\ \A e \in Documents : admission'[e].rejected = admission[e].rejected
    BY <2>3, AdmissionMoves DEF AnyAdmission
  <2> QED BY <2>1, <2>2, <2>4 DEF RestOfIntakeTypes, records, NewlyAcknowledged
<1> QED BY <1>1, <1>2, <1>3, <1>4, <1>5 DEF ClientStep

LEMMA RecordsStand ==
  ASSUME UNCHANGED records
  PROVE  RecordsGrow /\ (AllDisarmed => AllDisarmed')
<1>1. UNCHANGED <<record, earlier>>
  BY DEF records
<1>2. \A e \in Documents : Versions(e)' = Versions(e)
  BY <1>1 DEF Versions
<1>3. \A e \in Documents : WellRead(e) => WellRead(e)'
  BY <1>2 DEF WellRead
<1> QED BY <1>1, <1>2, <1>3 DEF RecordsGrow, Follows, AllDisarmed, Disarmed

LEMMA ClientKeeps ==
  ASSUME IntakeInv, NEW d \in Documents, ClientStep(d)
  PROVE  IntakeInv'
<1>1. LedgerInv' /\ OverStays /\ NoneWorked
  BY ClientLedger DEF IntakeInv
<1>2. /\ RestOfIntakeTypes' /\ UNCHANGED <<records, worker>>
      /\ \A e \in Documents : admission'[e].rejected = admission[e].rejected
      /\ \A e \in Documents : ~NewlyAcknowledged(e)
  BY ClientTypes DEF IntakeInv
<1>3. WorkerKnows'
  BY <1>1, <1>2, KnowledgeKept DEF IntakeInv
<1>4. AllDisarmed' /\ Promises'
  BY <1>1, <1>2, RecordsStand, PromisesKept DEF IntakeInv
<1> QED BY <1>1, <1>2, <1>3, <1>4 DEF IntakeInv

LEMMA AroundKeeps ==
  ASSUME IntakeInv,
         \/ Meanwhile \/ UNCHANGED intakeVars
         \/ \E d \in Documents : AdmissionLapses(d) \/ ComesAgain(d)
  PROVE  IntakeInv'
<1>1. LedgerInv' /\ OverStays /\ NoneWorked
  <2>1. Meanwhile \/ UNCHANGED ledgerOnly
    BY DEF AdmissionLapses, ComesAgain, intakeVars, ledgerOnly
  <2> QED BY <2>1, MeanwhileMoves, LedgerStands DEF IntakeInv
<1>2. /\ RestOfIntakeTypes' /\ UNCHANGED <<records, worker>>
      /\ \A e \in Documents : admission'[e].rejected = admission[e].rejected
      /\ \A e \in Documents : ~NewlyAcknowledged(e)
  <2>1. CASE Meanwhile \/ UNCHANGED intakeVars
    BY <2>1 DEF Meanwhile, intakeVars, IntakeInv, RestOfIntakeTypes, records, NewlyAcknowledged
  <2>2. ASSUME NEW d \in Documents, AdmissionLapses(d)
        PROVE  /\ RestOfIntakeTypes' /\ UNCHANGED <<records, worker, message>>
               /\ \A e \in Documents : admission'[e].rejected = admission[e].rejected
    <3>1. /\ admission' = [admission EXCEPT ![d].live = FALSE]
          /\ UNCHANGED <<client, landing, object, message, records, worker, faults>>
      BY <2>2 DEF AdmissionLapses
    <3>2. /\ admission' \in [Documents -> AnyAdmission]
          /\ \A e \in Documents : admission'[e].rejected = admission[e].rejected
      BY <3>1, AdmissionMoves DEF IntakeInv
    <3> QED BY <3>1, <3>2 DEF IntakeInv, RestOfIntakeTypes, AnyAdmission, records
  <2>3. ASSUME NEW d \in Documents, ComesAgain(d)
        PROVE  /\ RestOfIntakeTypes' /\ UNCHANGED <<records, worker, admission>>
               /\ \A e \in Documents : ~NewlyAcknowledged(e)
    <3>1. /\ message' = [message EXCEPT ![d] = [state |-> "waiting", delivery |-> 1]]
          /\ faults > 0 /\ faults' = faults - 1
          /\ UNCHANGED <<admission, client, landing, object, records, worker>>
      BY <2>3 DEF ComesAgain
    <3>2. 1 \in 0 .. MaxDeliveries
      BY IntakeAssumption
    <3>3. faults' \in 0 .. MaxFaults
      BY <3>1, IntakeAssumption DEF IntakeInv, RestOfIntakeTypes
    <3> QED BY <3>1, <3>2, <3>3 DEF IntakeInv, RestOfIntakeTypes, records, NewlyAcknowledged
  <2> QED BY <2>1, <2>2, <2>3 DEF NewlyAcknowledged
<1>3. WorkerKnows'
  BY <1>1, <1>2, KnowledgeKept DEF IntakeInv
<1>4. AllDisarmed' /\ Promises'
  BY <1>1, <1>2, RecordsStand, PromisesKept DEF IntakeInv
<1> QED BY <1>1, <1>2, <1>3, <1>4 DEF IntakeInv

-----------------------------------------------------------------------------
(* Steps of the worker. *)
LEMMA TurnKeeps ==
  ASSUME IntakeInv, UNCHANGED <<admission, client, landing, object, ledgerOnly>>,
         message' \in [Documents -> AnyMessage], record' \in [Documents -> AnyRecord],
         earlier' \in [Documents -> SUBSET AnyBeside],
         worker' \in {Idle} \union Delivery, faults' \in 0 .. MaxFaults,
         RecordsGrow, AllDisarmed', WorkerKnows', \A e \in Documents : ~NewlyAcknowledged(e)
  PROVE  IntakeInv'
<1>1. RestOfIntakeTypes'
  BY DEF IntakeInv, RestOfIntakeTypes, AnyMessage, AnyRecord, AnyBeside, Delivery
<1>2. LedgerInv' /\ OverStays /\ NoneWorked
  BY LedgerStands DEF IntakeInv
<1>3. Promises'
  BY <1>2, PromisesKept DEF IntakeInv
<1> QED BY <1>1, <1>2, <1>3 DEF IntakeInv

LEMMA GoIs ==
  ASSUME worker \in Delivery,
         NEW phase \in {"sanitizing", "refusing", "reading", "recording", "settling", "marking",
                        "acknowledging"},
         NEW outcome \in {"none", "settled", "operator_review", "released", "skipped"},
         NEW refused \in BOOLEAN, Go(phase, outcome, refused)
  PROVE  /\ worker' \in Delivery /\ worker'.phase = phase /\ worker'.doc = worker.doc
         /\ worker'.outcome = outcome /\ worker'.refused = refused
BY DEF Go, Delivery

LEMMA GiveBackIs ==
  ASSUME RestOfIntakeTypes, ~At("idle"), GiveBack
  PROVE  /\ worker' = Idle /\ message' \in [Documents -> AnyMessage]
         /\ \A e \in Documents : ~NewlyAcknowledged(e)
<1>1. message \in [Documents -> AnyMessage] /\ worker.doc \in Documents
  BY TypesAre, WorkerIs
<1>2. PICK x : /\ x = IF message[worker.doc].delivery = MaxDeliveries
                      THEN [message[worker.doc] EXCEPT !.state = "dead"]
                      ELSE [state |-> "waiting", delivery |-> message[worker.doc].delivery + 1]
               /\ message' = [message EXCEPT ![worker.doc] = x]
  BY DEF GiveBack
<1>3. message[worker.doc] \in AnyMessage
  BY <1>1
<1>4. x \in AnyMessage /\ x.state \notin {"acked", "skipped"}
  BY <1>2, <1>3, IntakeAssumption DEF AnyMessage
<1> QED BY <1>1, <1>2, <1>4 DEF GiveBack, NewlyAcknowledged

(* Where the records and the worker are, at every turn of the worker.        *)
Typed ==
  /\ RestOfIntakeTypes
  /\ message \in [Documents -> AnyMessage] /\ record \in [Documents -> AnyRecord]
  /\ earlier \in [Documents -> SUBSET AnyBeside] /\ faults \in 0 .. MaxFaults

LEMMA TurnTypes ==
  ASSUME IntakeInv
  PROVE  /\ Typed
         /\ ~At("idle") => /\ worker \in Delivery /\ worker.doc \in Documents
                           /\ record[worker.doc] \in AnyRecord
BY TypesAre, WorkerIs DEF IntakeInv, Typed

(* More is stored beside the version in use, or the refusal of the document. *)
LEMMA RecordMoves ==
  ASSUME RestOfIntakeTypes, AllDisarmed, NEW d \in Documents, NEW x \in AnyRecord,
         record' = [record EXCEPT ![d] = x], UNCHANGED earlier,
         x.clean = record[d].clean, record[d].reject => x.reject,
         \/ record[d].clean
         \/ x.ranges = record[d].ranges /\ x.ocr = record[d].ocr /\ x.review = record[d].review,
         record[d].ocr => x.ocr,
         \/ x.review = record[d].review
         \/ record[d].review = "none" /\ ChargedForAnother(d)
  PROVE  /\ record' \in [Documents -> AnyRecord] /\ record'[d] = x
         /\ RecordsGrow /\ AllDisarmed'
<1>1. record \in [Documents -> AnyRecord] /\ DOMAIN record = Documents
  BY TypesAre
<1>2. record'[d] = x /\ \A e \in Documents : e # d => record'[e] = record[e]
  BY <1>1
<1>3. ASSUME NEW e \in Documents, e # d
      PROVE  /\ record'[e] = record[e] /\ Versions(e)' = Versions(e)
             /\ WellRead(e) => WellRead(e)'
  BY <1>2, <1>3 DEF Versions, WellRead
<1>4. \A v \in Versions(d) : \E w \in Versions(d)' : Follows(v, w)
  <2>1. ASSUME NEW v \in earlier[d]
        PROVE  v \in Versions(d)' /\ Follows(v, v)
    BY <2>1 DEF Versions, Follows
  <2>2. Beside(x) \in Versions(d)' /\ Follows(Beside(record[d]), Beside(x))
    BY <1>2 DEF Versions, Follows, Beside
  <2> QED BY <2>1, <2>2 DEF Versions
<1>5. ASSUME hold[d].state = "settled", WellRead(d)
      PROVE  WellRead(d)'
  <2>1. CASE \E v \in earlier[d] : ReadWell(v)
    BY <2>1 DEF WellRead, Versions
  <2>2. CASE ~\E v \in earlier[d] : ReadWell(v)
    <3>1. ReadWell(Beside(record[d])) /\ x.review = record[d].review
      BY <1>5, <2>2 DEF WellRead, Versions, ChargedForAnother
    <3>2. Beside(x) \in Versions(d)' /\ ReadWell(Beside(x))
      BY <1>2, <3>1 DEF Versions, Beside, ReadWell
    <3> QED BY <3>2 DEF WellRead
  <2> QED BY <2>1, <2>2
<1>6. RecordsGrow
  BY <1>2, <1>3, <1>4, <1>5 DEF RecordsGrow, Follows
<1>7. AllDisarmed'
  BY <1>2 DEF AllDisarmed, Disarmed
<1> QED BY <1>1, <1>2, <1>6, <1>7

LEMMA IdleKnows ==
  ASSUME worker' = Idle
  PROVE  WorkerKnows'
BY DEF WorkerKnows, At, Idle

LEMMA DeliverKeeps ==
  ASSUME IntakeInv, NEW d \in Documents, Deliver(d)
  PROVE  IntakeInv'
<1>1. Typed /\ AllDisarmed
  BY TurnTypes DEF IntakeInv
<1>2. /\ message' = [message EXCEPT ![d].state = "given"]
      /\ worker' = [phase |-> "sanitizing", doc |-> d, outcome |-> "none", refused |-> FALSE]
      /\ UNCHANGED <<admission, client, landing, object, records, faults, ledgerOnly>>
  BY DEF Deliver
<1>3. message' \in [Documents -> AnyMessage] /\ \A e \in Documents : ~NewlyAcknowledged(e)
  BY <1>1, <1>2 DEF AnyMessage, NewlyAcknowledged, Typed
<1>4. worker' \in Delivery /\ worker'.phase = "sanitizing"
  BY <1>2 DEF Delivery
<1>5. WorkerKnows'
  BY <1>4 DEF WorkerKnows, At
<1> QED BY <1>1, <1>2, <1>3, <1>4, <1>5, RecordsStand, TurnKeeps DEF Typed, records

LEMMA RetryKeeps ==
  ASSUME IntakeInv, Retry
  PROVE  IntakeInv'
<1>1. Typed /\ AllDisarmed
  BY TurnTypes DEF IntakeInv
<1>2. /\ worker' = Idle /\ message' \in [Documents -> AnyMessage]
      /\ \A e \in Documents : ~NewlyAcknowledged(e)
  BY <1>1, GiveBackIs DEF Retry, Typed
<1>3. faults' \in 0 .. MaxFaults
  BY <1>1, IntakeAssumption DEF Retry, Typed
<1>4. UNCHANGED <<admission, client, landing, object, records, ledgerOnly>>
  BY DEF Retry
<1> QED BY <1>1, <1>2, <1>3, <1>4, RecordsStand, IdleKnows, TurnKeeps DEF Typed, records

LEMMA FindDisarmedKeeps ==
  ASSUME IntakeInv, FindDisarmed
  PROVE  IntakeInv' /\ RecordsGrow
<1>1. Typed /\ AllDisarmed
  BY TurnTypes DEF IntakeInv
<1>2. worker \in Delivery /\ worker.doc \in Documents /\ record[worker.doc] \in AnyRecord
  BY TurnTypes DEF FindDisarmed, At
<1>3. /\ record[worker.doc].clean /\ Go("reading", "none", FALSE)
      /\ UNCHANGED <<admission, client, landing, object, message, faults, ledgerOnly>>
  BY DEF FindDisarmed
<1>4. PICK v \in Versions(worker.doc) :
        /\ record' = [record EXCEPT ![worker.doc] = InUse(v, record[worker.doc])]
        /\ earlier' = [earlier EXCEPT ![worker.doc] = Versions(worker.doc) \ {v}]
  BY DEF FindDisarmed
<1>5. Versions(worker.doc) \subseteq AnyBeside /\ v \in AnyBeside
  <2>1. Beside(record[worker.doc]) \in AnyBeside
    BY <1>2 DEF Beside, AnyRecord, AnyBeside
  <2>2. earlier[worker.doc] \subseteq AnyBeside
    BY <1>1, <1>2 DEF Typed
  <2> QED BY <1>4, <2>1, <2>2 DEF Versions
<1>6. PICK x : /\ x = [record[worker.doc] EXCEPT !.ranges = v.ranges, !.ocr = v.ocr,
                                                 !.review = v.review]
               /\ record' = [record EXCEPT ![worker.doc] = x]
  BY <1>4 DEF InUse
<1>7. /\ x \in AnyRecord /\ x.clean /\ x.reject = record[worker.doc].reject
      /\ x.ranges = v.ranges /\ x.ocr = v.ocr /\ x.review = v.review
  BY <1>2, <1>3, <1>5, <1>6 DEF AnyRecord, AnyBeside
<1>8. Beside(x) = v
  BY <1>5, <1>7 DEF Beside, AnyBeside
<1>9. /\ record' \in [Documents -> AnyRecord] /\ record'[worker.doc] = x
      /\ earlier' \in [Documents -> SUBSET AnyBeside]
      /\ earlier'[worker.doc] = Versions(worker.doc) \ {v}
      /\ \A e \in Documents : e # worker.doc => record'[e] = record[e] /\ earlier'[e] = earlier[e]
  BY <1>1, <1>2, <1>4, <1>5, <1>6, <1>7 DEF Typed
<1>10. \A e \in Documents : Versions(e)' = Versions(e)
  <2>1. ASSUME NEW e \in Documents, e = worker.doc
        PROVE  Versions(e)' = Versions(e)
    <3>1. earlier'[e] = Versions(e) \ {v} /\ record'[e] = x
      BY <1>9, <2>1
    <3>2. Beside(record[e])' = v
      BY <1>8, <3>1 DEF Beside
    <3> QED BY <1>4, <2>1, <3>1, <3>2 DEF Versions
  <2> QED BY <1>9, <2>1 DEF Versions, Beside
<1>11. RecordsGrow
  <2>1. \A e \in Documents : WellRead(e) => WellRead(e)'
    BY <1>10 DEF WellRead
  <2> QED BY <1>3, <1>7, <1>9, <1>10, <2>1 DEF RecordsGrow, Follows
<1>12. AllDisarmed'
  BY <1>1, <1>7, <1>9 DEF AllDisarmed, Disarmed
<1>13. worker' \in Delivery /\ worker'.phase = "reading" /\ worker'.doc = worker.doc
  BY <1>2, <1>3, GoIs
<1>14. WorkerKnows'
  BY <1>7, <1>9, <1>13 DEF WorkerKnows, At
<1> QED BY <1>1, <1>3, <1>9, <1>11, <1>12, <1>13, <1>14, TurnKeeps DEF NewlyAcknowledged, Typed

LEMMA SanitizeKeeps ==
  ASSUME IntakeInv, Sanitize
  PROVE  IntakeInv' /\ RecordsGrow
<1>1. Typed /\ AllDisarmed
  BY TurnTypes DEF IntakeInv
<1>2. worker \in Delivery /\ worker.doc \in Documents /\ record[worker.doc] \in AnyRecord
  BY TurnTypes DEF Sanitize, At
<1>3. /\ UNCHANGED <<admission, client, landing, object, message, ledgerOnly>>
      /\ faults' \in 0 .. MaxFaults
  BY <1>1, IntakeAssumption DEF Sanitize, Typed
<1>4. CASE Go("refusing", "released", TRUE) /\ UNCHANGED records
  <2>1. /\ worker' \in Delivery /\ worker'.phase = "refusing"
        /\ worker'.outcome = "released" /\ worker'.refused
    BY <1>2, <1>4, GoIs
  <2>2. WorkerKnows'
    BY <2>1 DEF WorkerKnows, At
  <2> QED BY <1>1, <1>3, <1>4, <2>1, <2>2, RecordsStand, TurnKeeps
       DEF NewlyAcknowledged, Typed, records
<1>5. CASE /\ record' = [record EXCEPT ![worker.doc] =
                           [NoRecord EXCEPT !.clean = TRUE, !.reject = record[worker.doc].reject]]
           /\ earlier' = [earlier EXCEPT ![worker.doc] =
                            IF record[worker.doc].clean THEN Versions(worker.doc) ELSE {}]
           /\ Go("reading", "none", FALSE)
  <2>1. PICK x : /\ x = [NoRecord EXCEPT !.clean = TRUE, !.reject = record[worker.doc].reject]
                 /\ record' = [record EXCEPT ![worker.doc] = x]
    BY <1>5
  <2>2. /\ x \in AnyRecord /\ x.clean /\ x.reject = record[worker.doc].reject
    <3>1. x = [clean |-> TRUE, ranges |-> 0, ocr |-> FALSE, review |-> "none",
               reject |-> record[worker.doc].reject]
      BY <2>1 DEF NoRecord
    <3>2. record[worker.doc].reject \in BOOLEAN
      BY <1>2 DEF AnyRecord
    <3> QED BY <3>1, <3>2, IntakeAssumption DEF AnyRecord
  <2>3. Versions(worker.doc) \subseteq AnyBeside
    <3>1. Beside(record[worker.doc]) \in AnyBeside
      BY <1>2 DEF Beside, AnyRecord, AnyBeside
    <3> QED BY <1>1, <1>2, <3>1 DEF Versions, Typed
  <2>4. /\ record' \in [Documents -> AnyRecord] /\ record'[worker.doc] = x
        /\ earlier' \in [Documents -> SUBSET AnyBeside]
        /\ record[worker.doc].clean => earlier'[worker.doc] = Versions(worker.doc)
        /\ \A e \in Documents :
             e # worker.doc => record'[e] = record[e] /\ earlier'[e] = earlier[e]
    BY <1>1, <1>2, <1>5, <2>1, <2>2, <2>3 DEF Typed
  <2>5. ASSUME NEW e \in Documents
        PROVE  /\ \A v \in Versions(e) : \E w \in Versions(e)' : Follows(v, w)
               /\ WellRead(e) => WellRead(e)'
    <3>1. CASE e # worker.doc
      <4>1. Versions(e)' = Versions(e)
        BY <2>4, <3>1 DEF Versions
      <4> QED BY <4>1 DEF WellRead, Follows
    <3>2. CASE e = worker.doc /\ record[e].clean
      <4>1. Versions(e) \subseteq Versions(e)'
        BY <2>4, <3>2 DEF Versions
      <4> QED BY <4>1 DEF WellRead, Follows
    <3>3. CASE e = worker.doc /\ ~record[e].clean
      <4>1. /\ earlier[e] = {} /\ record[e].ocr = FALSE /\ record[e].review = "none"
        BY <1>1, <3>3 DEF AllDisarmed, Disarmed
      <4>2. Beside(x) \in Versions(e)'
        BY <2>4, <3>3 DEF Versions
      <4>3. \A v \in Versions(e) : v.ocr = FALSE /\ v.review = "none"
        BY <4>1 DEF Versions, Beside
      <4> QED BY <4>2, <4>3 DEF WellRead, ReadWell, Follows
    <3> QED BY <3>1, <3>2, <3>3
  <2>6. RecordsGrow
    BY <2>2, <2>4, <2>5 DEF RecordsGrow
  <2>7. AllDisarmed'
    BY <1>1, <2>2, <2>4 DEF AllDisarmed, Disarmed
  <2>8. worker' \in Delivery /\ worker'.phase = "reading" /\ worker'.doc = worker.doc
    BY <1>2, <1>5, GoIs
  <2>9. WorkerKnows'
    BY <2>2, <2>4, <2>8 DEF WorkerKnows, At
  <2> QED BY <1>1, <1>3, <2>4, <2>6, <2>7, <2>8, <2>9, TurnKeeps DEF NewlyAcknowledged, Typed
<1> QED BY <1>4, <1>5 DEF Sanitize

LEMMA RecordRefusalKeeps ==
  ASSUME IntakeInv, RecordRefusal
  PROVE  IntakeInv' /\ RecordsGrow
<1>1. Typed /\ AllDisarmed
  BY TurnTypes DEF IntakeInv
<1>2. worker \in Delivery /\ worker.doc \in Documents /\ record[worker.doc] \in AnyRecord
  BY TurnTypes DEF RecordRefusal, At
<1>3. PICK x : /\ x = [record[worker.doc] EXCEPT !.reject = TRUE]
               /\ record' = [record EXCEPT ![worker.doc] = x]
  BY DEF RecordRefusal
<1>4. /\ x \in AnyRecord /\ x.ocr = record[worker.doc].ocr /\ x.reject
      /\ x.review = record[worker.doc].review /\ x.ranges = record[worker.doc].ranges
      /\ x.clean = record[worker.doc].clean
  BY <1>2, <1>3 DEF AnyRecord
<1>5. UNCHANGED <<admission, client, landing, object, message, earlier, faults, ledgerOnly>>
  BY DEF RecordRefusal
<1>6. /\ record' \in [Documents -> AnyRecord] /\ record'[worker.doc] = x
      /\ RecordsGrow /\ AllDisarmed'
  BY <1>1, <1>2, <1>3, <1>4, <1>5, RecordMoves DEF Typed
<1>7. /\ worker' \in Delivery /\ worker'.phase = "settling" /\ worker'.doc = worker.doc
      /\ worker'.outcome = "released" /\ worker'.refused = TRUE
  BY <1>2, GoIs DEF RecordRefusal
<1>8. WorkerKnows'
  BY <1>4, <1>6, <1>7 DEF WorkerKnows, At, SaysWhatIsRecorded
<1> QED BY <1>1, <1>5, <1>6, <1>7, <1>8, TurnKeeps DEF NewlyAcknowledged, Typed

LEMMA ReplayKeeps ==
  ASSUME IntakeInv, Replay
  PROVE  IntakeInv'
<1>1. Typed /\ AllDisarmed
  BY TurnTypes DEF IntakeInv
<1>2. worker \in Delivery /\ worker.doc \in Documents /\ record[worker.doc] \in AnyRecord
  BY TurnTypes DEF Replay, At
<1>3. PICK said : said = IF record[worker.doc].review # "none" THEN record[worker.doc].review
                         ELSE "settled"
  OBVIOUS
<1>4. said \in {"none", "settled", "operator_review", "released", "skipped"}
  BY <1>2, <1>3 DEF AnyRecord
<1>5. /\ record[worker.doc].review # "none" \/ record[worker.doc].ocr
      /\ Go("settling", said, FALSE)
      /\ UNCHANGED <<admission, client, landing, object, message, records, faults, ledgerOnly>>
  BY <1>3 DEF Replay
<1>6. /\ worker' \in Delivery /\ worker'.phase = "settling" /\ worker'.doc = worker.doc
      /\ worker'.outcome = said /\ worker'.refused = FALSE
  BY <1>2, <1>4, <1>5, GoIs
<1>7. record' = record /\ earlier' = earlier
  BY <1>5 DEF records
<1>8. WorkerKnows'
  BY <1>3, <1>5, <1>6, <1>7 DEF WorkerKnows, At, SaysWhatIsRecorded
<1> QED BY <1>1, <1>5, <1>6, <1>7, <1>8, RecordsStand, TurnKeeps DEF NewlyAcknowledged, Typed

LEMMA SkipReadingKeeps ==
  ASSUME IntakeInv, SkipReading
  PROVE  IntakeInv'
<1>1. Typed /\ AllDisarmed
  BY TurnTypes DEF IntakeInv
<1>2. worker \in Delivery /\ worker.doc \in Documents
  BY TurnTypes DEF SkipReading, At
<1>3. /\ record[worker.doc].clean /\ Go("settling", "skipped", FALSE)
      /\ UNCHANGED <<admission, client, landing, object, message, records, faults, ledgerOnly>>
  BY DEF SkipReading, IntakeInv, WorkerKnows
<1>4. /\ worker' \in Delivery /\ worker'.phase = "settling" /\ worker'.doc = worker.doc
      /\ worker'.outcome = "skipped" /\ worker'.refused = FALSE
  BY <1>2, <1>3, GoIs
<1>5. record' = record /\ earlier' = earlier
  BY <1>3 DEF records
<1>6. WorkerKnows'
  BY <1>3, <1>4, <1>5 DEF WorkerKnows, At, SaysWhatIsRecorded
<1> QED BY <1>1, <1>3, <1>4, <1>5, <1>6, RecordsStand, TurnKeeps DEF NewlyAcknowledged, Typed

(* What was charged of a document whose version in use is unread was charged *)
(* for another version of it.                                                *)
LEMMA UnreadIsUnworked ==
  ASSUME IntakeInv, Unread
  PROVE  /\ worker \in Delivery /\ worker.doc \in Documents
         /\ record[worker.doc] \in AnyRecord /\ record[worker.doc].clean
         /\ record[worker.doc].review = "none" /\ ChargedForAnother(worker.doc)
<1>1. worker \in Delivery /\ worker.doc \in Documents /\ record[worker.doc] \in AnyRecord
  BY TurnTypes DEF Unread, At
<1>2. /\ record[worker.doc].review = "none" /\ ~record[worker.doc].ocr
      /\ record[worker.doc].clean
  BY DEF Unread, IntakeInv, WorkerKnows
<1>3. ~ReadWell(Beside(record[worker.doc])) /\ Beside(record[worker.doc]).review = "none"
  BY <1>2 DEF ReadWell, Beside
<1>4. ChargedForAnother(worker.doc)
  BY <1>1, <1>3 DEF IntakeInv, Promises, ChargedAsRecorded, ChargedForAnother, Versions
<1> QED BY <1>1, <1>2, <1>4

LEMMA ReadRangeKeeps ==
  ASSUME IntakeInv, ReadRange
  PROVE  IntakeInv' /\ RecordsGrow
<1>1. Typed /\ AllDisarmed
  BY TurnTypes DEF IntakeInv
<1>2. /\ worker \in Delivery /\ worker.doc \in Documents
      /\ record[worker.doc] \in AnyRecord /\ record[worker.doc].clean
      /\ record[worker.doc].review = "none" /\ ChargedForAnother(worker.doc)
  BY UnreadIsUnworked DEF ReadRange
<1>3. UNCHANGED <<admission, client, landing, object, message, earlier, faults, ledgerOnly>>
  BY DEF ReadRange
<1>4. CASE record[worker.doc].ranges < Ranges
  <2>1. PICK x : /\ x = [record[worker.doc] EXCEPT !.ranges = @ + 1]
                 /\ record' = [record EXCEPT ![worker.doc] = x]
    BY <1>4 DEF ReadRange
  <2>2. /\ x \in AnyRecord /\ x.ocr = record[worker.doc].ocr
        /\ x.reject = record[worker.doc].reject /\ x.review = record[worker.doc].review
        /\ x.clean
    BY <1>2, <1>4, <2>1, IntakeAssumption DEF AnyRecord
  <2>3. /\ record' \in [Documents -> AnyRecord] /\ record'[worker.doc] = x
        /\ RecordsGrow /\ AllDisarmed'
    BY <1>1, <1>2, <1>3, <2>1, <2>2, RecordMoves DEF Typed
  <2>4. UNCHANGED worker /\ worker.phase = "reading"
    BY <1>4 DEF ReadRange, Unread, At
  <2>5. WorkerKnows'
    BY <2>2, <2>3, <2>4 DEF WorkerKnows, At
  <2> QED BY <1>1, <1>2, <1>3, <2>3, <2>4, <2>5, TurnKeeps DEF NewlyAcknowledged, Typed
<1>5. CASE ~(record[worker.doc].ranges < Ranges)
  <2>1. PICK x : /\ x = [record[worker.doc] EXCEPT !.ocr = TRUE]
                 /\ record' = [record EXCEPT ![worker.doc] = x]
    BY <1>5 DEF ReadRange
  <2>2. /\ x \in AnyRecord /\ x.ocr /\ x.clean
        /\ x.reject = record[worker.doc].reject /\ x.review = record[worker.doc].review
    BY <1>2, <2>1 DEF AnyRecord
  <2>3. /\ record' \in [Documents -> AnyRecord] /\ record'[worker.doc] = x
        /\ RecordsGrow /\ AllDisarmed'
    BY <1>1, <1>2, <1>3, <2>1, <2>2, RecordMoves DEF Typed
  <2>4. /\ worker' \in Delivery /\ worker'.phase = "settling" /\ worker'.doc = worker.doc
        /\ worker'.outcome = "settled" /\ worker'.refused = FALSE
    BY <1>2, <1>5, GoIs DEF ReadRange
  <2>5. WorkerKnows'
    BY <1>2, <2>2, <2>3, <2>4 DEF WorkerKnows, At, SaysWhatIsRecorded
  <2> QED BY <1>1, <1>3, <2>3, <2>4, <2>5, TurnKeeps DEF NewlyAcknowledged, Typed
<1> QED BY <1>4, <1>5

LEMMA BadAnswerKeeps ==
  ASSUME IntakeInv, BadAnswer
  PROVE  IntakeInv'
<1>1. Typed /\ AllDisarmed
  BY TurnTypes DEF IntakeInv
<1>2. /\ worker \in Delivery /\ worker.doc \in Documents
      /\ record[worker.doc].clean /\ record[worker.doc].review = "none"
      /\ ChargedForAnother(worker.doc)
  BY UnreadIsUnworked DEF BadAnswer
<1>3. /\ UNCHANGED <<admission, client, landing, object, message, records, faults, ledgerOnly>>
      /\ Go("recording", "operator_review", FALSE)
  BY DEF BadAnswer
<1>4. /\ worker' \in Delivery /\ worker'.phase = "recording" /\ worker'.doc = worker.doc
      /\ worker'.outcome = "operator_review" /\ worker'.refused = FALSE
  BY <1>2, <1>3, GoIs
<1>5. hold' = hold /\ record' = record /\ earlier' = earlier
  BY <1>3 DEF ledgerOnly, vars, records
<1>6. ChargedForAnother(worker.doc)'
  BY <1>2, <1>4, <1>5 DEF ChargedForAnother
<1>7. WorkerKnows'
  BY <1>2, <1>4, <1>5, <1>6 DEF WorkerKnows, At
<1> QED BY <1>1, <1>3, <1>4, <1>5, <1>7, RecordsStand, TurnKeeps DEF NewlyAcknowledged, Typed

LEMMA NoAnswerKeeps ==
  ASSUME IntakeInv, NoAnswer
  PROVE  IntakeInv' /\ RecordsGrow
<1>1. Typed /\ AllDisarmed
  BY TurnTypes DEF IntakeInv
<1>2. /\ worker \in Delivery /\ worker.doc \in Documents
      /\ record[worker.doc] \in AnyRecord /\ record[worker.doc].clean
      /\ record[worker.doc].review = "none" /\ ChargedForAnother(worker.doc)
  BY UnreadIsUnworked DEF NoAnswer
<1>3. UNCHANGED <<admission, client, landing, object, earlier, faults, ledgerOnly>>
  BY DEF NoAnswer
<1>4. PICK x : /\ \/ x = record[worker.doc]
                  \/ /\ record[worker.doc].ranges < Ranges
                     /\ x = [record[worker.doc] EXCEPT !.ranges = @ + 1]
                  \/ x = [record[worker.doc] EXCEPT !.ocr = TRUE]
               /\ record' = [record EXCEPT ![worker.doc] = x]
  BY DEF NoAnswer
<1>5. /\ x \in AnyRecord /\ x.clean
      /\ record[worker.doc].ocr => x.ocr
      /\ x.reject = record[worker.doc].reject /\ x.review = record[worker.doc].review
  <2>1. CASE x = record[worker.doc]
    BY <1>2, <2>1
  <2>2. CASE /\ record[worker.doc].ranges < Ranges
             /\ x = [record[worker.doc] EXCEPT !.ranges = @ + 1]
    BY <1>2, <2>2, IntakeAssumption DEF AnyRecord
  <2>3. CASE x = [record[worker.doc] EXCEPT !.ocr = TRUE]
    BY <1>2, <2>3 DEF AnyRecord
  <2> QED BY <1>4, <2>1, <2>2, <2>3
<1>6. /\ record' \in [Documents -> AnyRecord] /\ record'[worker.doc] = x
      /\ RecordsGrow /\ AllDisarmed'
  BY <1>1, <1>2, <1>3, <1>4, <1>5, RecordMoves DEF Typed
<1>7. CASE GiveBack
  <2>1. ~At("idle")
    BY DEF NoAnswer, Unread, At
  <2>2. /\ worker' = Idle /\ message' \in [Documents -> AnyMessage]
        /\ \A e \in Documents : ~NewlyAcknowledged(e)
    BY <1>1, <1>7, <2>1, GiveBackIs DEF Typed
  <2> QED BY <1>1, <1>3, <1>6, <2>2, IdleKnows, TurnKeeps DEF Typed
<1>8. CASE Go("recording", "released", FALSE) /\ UNCHANGED message
  <2>1. /\ worker' \in Delivery /\ worker'.phase = "recording" /\ worker'.doc = worker.doc
        /\ worker'.outcome = "released" /\ worker'.refused = FALSE
    BY <1>2, <1>8, GoIs
  <2>2. hold' = hold
    BY <1>3 DEF ledgerOnly, vars
  <2>3. ChargedForAnother(worker.doc)'
    BY <1>2, <1>3, <2>1, <2>2 DEF ChargedForAnother
  <2>4. WorkerKnows'
    BY <1>2, <1>5, <1>6, <2>1, <2>3 DEF WorkerKnows, At
  <2> QED BY <1>1, <1>3, <1>6, <1>8, <2>1, <2>4, TurnKeeps DEF NewlyAcknowledged, Typed
<1> QED BY <1>7, <1>8 DEF NoAnswer

LEMMA RecordReviewKeeps ==
  ASSUME IntakeInv, RecordReview
  PROVE  IntakeInv' /\ RecordsGrow
<1>1. Typed /\ AllDisarmed
  BY TurnTypes DEF IntakeInv
<1>2. worker \in Delivery /\ worker.doc \in Documents /\ record[worker.doc] \in AnyRecord
  BY TurnTypes DEF RecordReview, At
<1>3. /\ record[worker.doc].review = "none" /\ record[worker.doc].clean
      /\ ChargedForAnother(worker.doc) /\ UNCHANGED earlier
      /\ worker.outcome \in {"operator_review", "released"}
  BY DEF RecordReview, IntakeInv, WorkerKnows
<1>4. PICK x : /\ x = [record[worker.doc] EXCEPT !.review = worker.outcome]
               /\ record' = [record EXCEPT ![worker.doc] = x]
  BY <1>3 DEF RecordReview
<1>5. /\ x \in AnyRecord /\ x.ocr = record[worker.doc].ocr /\ x.clean
      /\ x.reject = record[worker.doc].reject /\ x.review = worker.outcome
  BY <1>2, <1>3, <1>4 DEF AnyRecord
<1>6. /\ record' \in [Documents -> AnyRecord] /\ record'[worker.doc] = x
      /\ RecordsGrow /\ AllDisarmed'
  BY <1>1, <1>2, <1>3, <1>4, <1>5, RecordMoves DEF Typed
<1>7. /\ Go("settling", worker.outcome, FALSE)
      /\ UNCHANGED <<admission, client, landing, object, message, faults, ledgerOnly>>
  BY <1>5, <1>6 DEF RecordReview
<1>8. /\ worker' \in Delivery /\ worker'.phase = "settling" /\ worker'.doc = worker.doc
      /\ worker'.outcome = worker.outcome /\ worker'.refused = FALSE
  BY <1>2, <1>3, <1>7, GoIs
<1>9. WorkerKnows'
  BY <1>3, <1>5, <1>6, <1>8 DEF WorkerKnows, At, SaysWhatIsRecorded
<1> QED BY <1>1, <1>3, <1>6, <1>7, <1>8, <1>9, TurnKeeps DEF NewlyAcknowledged, Typed

(* Settling: the ledger is told what is on record, or has been told before.  *)
LEMMA ToldIsRecorded ==
  ASSUME IntakeInv, At("settling")
  PROVE  /\ worker \in Delivery /\ worker.doc \in Documents
         /\ Told \in Worked \union {"released"}
         /\ Told = "settled" => ReadWell(Beside(record[worker.doc]))
         /\ Told = "operator_review" => record[worker.doc].review = "operator_review"
         /\ worker.refused => worker.outcome = "released" /\ record[worker.doc].reject
         /\ ~worker.refused /\ worker.outcome = "released" =>
              record[worker.doc].review = "released"
         /\ worker.outcome = "skipped" => record[worker.doc].clean
<1>1. worker \in Delivery /\ worker.doc \in Documents /\ record[worker.doc] \in AnyRecord
  BY TurnTypes DEF At
<1>2. SaysWhatIsRecorded
  BY DEF IntakeInv, WorkerKnows
<1>3. record[worker.doc].review \in {"none", "operator_review", "released"}
  BY <1>1 DEF AnyRecord
<1> QED BY <1>1, <1>2, <1>3 DEF SaysWhatIsRecorded, Told, Worked, ReadWell, Beside

LEMMA ToldKnows ==
  ASSUME IntakeInv, At("settling"), UNCHANGED <<records, admission>>,
         hold'[worker.doc].state = Told,
         Go(IF worker.refused THEN "marking" ELSE "acknowledging", worker.outcome, worker.refused)
  PROVE  worker' \in Delivery /\ WorkerKnows'
<1>1. /\ worker \in Delivery /\ worker.doc \in Documents
      /\ Told \in Worked \union {"released"}
      /\ worker.refused => worker.outcome = "released" /\ record[worker.doc].reject
      /\ ~worker.refused /\ worker.outcome = "released" => record[worker.doc].review = "released"
      /\ worker.outcome = "skipped" => record[worker.doc].clean
  BY ToldIsRecorded
<1>2. /\ worker.refused \in BOOLEAN
      /\ worker.outcome \in {"none", "settled", "operator_review", "released", "skipped"}
  BY <1>1 DEF Delivery
<1>3. PICK phase \in {"marking", "acknowledging"} :
        /\ phase = IF worker.refused THEN "marking" ELSE "acknowledging"
        /\ Go(phase, worker.outcome, worker.refused)
  BY <1>2
<1>4. /\ worker' \in Delivery /\ worker'.phase = phase /\ worker'.doc = worker.doc
      /\ worker'.outcome = worker.outcome /\ worker'.refused = worker.refused
  BY <1>1, <1>2, <1>3, GoIs
<1>5. record' = record /\ earlier' = earlier
  BY DEF records
<1>6. ASSUME phase = "acknowledging", worker.outcome = "skipped"
      PROVE  PassedOver(worker.doc)'
  BY <1>1, <1>4, <1>5, <1>6 DEF PassedOver, Told
<1>7. ASSUME phase = "acknowledging", worker.outcome # "skipped"
      PROVE  Done(worker.doc)'
  <2>1. ~worker.refused /\ hold'[worker.doc].state = worker.outcome
    BY <1>2, <1>3, <1>7 DEF Told
  <2>2. CASE worker.outcome \in Worked
    BY <1>4, <2>1, <2>2 DEF Done
  <2>3. CASE worker.outcome = "released"
    <3>1. Beside(record[worker.doc])' \in Versions(worker.doc)'
      BY DEF Versions
    <3>2. Beside(record[worker.doc])'.review = "released"
      BY <1>1, <1>4, <1>5, <2>1, <2>3 DEF Beside
    <3>3. Reviewed(worker.doc, "released")'
      BY <3>1, <3>2 DEF Reviewed
    <3> QED BY <1>4, <2>1, <2>3, <3>3 DEF Done
  <2> QED BY <1>1, <1>7, <2>2, <2>3 DEF Told
<1>8. phase = "marking" => /\ worker.refused /\ worker.outcome = "released"
                           /\ record'[worker.doc].reject /\ hold'[worker.doc].state = "released"
  BY <1>1, <1>3, <1>5 DEF Told
<1> QED BY <1>3, <1>4, <1>6, <1>7, <1>8 DEF WorkerKnows, At

LEMMA SettleCallKeeps ==
  ASSUME IntakeInv, SettleCall
  PROVE  IntakeInv'
<1>1. LedgerInv /\ RestOfIntakeTypes /\ Promises /\ Typed /\ AllDisarmed
  BY TurnTypes DEF IntakeInv
<1>2. /\ At("settling")
      /\ UNCHANGED <<admission, client, landing, object, records, record, earlier, faults>>
  BY DEF SettleCall, records
<1>3. /\ worker \in Delivery /\ worker.doc \in Documents
      /\ Told \in Worked \union {"released"}
      /\ Told = "settled" => ReadWell(Beside(record[worker.doc]))
      /\ Told = "operator_review" => record[worker.doc].review = "operator_review"
  BY <1>2, ToldIsRecorded
<1>4. CASE /\ Settle(worker.doc, Told, Outcome(Told))
           /\ Go(IF worker.refused THEN "marking" ELSE "acknowledging",
                 worker.outcome, worker.refused)
           /\ UNCHANGED message
  <2>1. Outcome(Told) \in Nat
    BY <1>3 DEF Outcome, Charge, Worked
  <2>2. /\ hold[worker.doc].state = "reserved" /\ hold'[worker.doc].state = Told
        /\ \A e \in Documents : e # worker.doc => hold'[e] = hold[e]
    BY <1>1, <1>3, <1>4, <2>1, SettleMoves
  <2>3. LedgerInv'
    BY <1>1, <1>3, <1>4, <2>1, SettleKeeps
  <2>4. worker' \in Delivery /\ WorkerKnows'
    BY <1>2, <1>4, <2>2, ToldKnows
  <2>5. \A e \in Documents : Versions(e)' = Versions(e)
    BY <1>2 DEF Versions
  <2>6. Beside(record[worker.doc]) \in Versions(worker.doc)
        /\ Beside(record[worker.doc]).review = record[worker.doc].review
    BY DEF Versions, Beside
  <2>7. ChargedAsRecorded'
    BY <1>1, <1>3, <2>2, <2>5, <2>6 DEF Promises, ChargedAsRecorded, ReadWell
  <2>8. AcknowledgedIsDone'
    BY <1>1, <1>2, <1>4, <2>2, <2>5 DEF Promises, AcknowledgedIsDone, Worked
  <2>9. RejectedCostNothing'
    BY <1>1, <1>2, <2>2 DEF Promises, RejectedCostNothing
  <2>10. RestOfIntakeTypes'
    BY <1>1, <1>2, <1>4, <2>4 DEF RestOfIntakeTypes, Delivery
  <2>11. AllDisarmed'
    BY <1>1, <1>2, RecordsStand
  <2> QED BY <2>3, <2>4, <2>7, <2>8, <2>9, <2>10, <2>11 DEF IntakeInv, Promises
<1>5. CASE /\ AlreadySaid(worker.doc, Told) /\ UNCHANGED ledgerOnly
           /\ Go(IF worker.refused THEN "marking" ELSE "acknowledging",
                 worker.outcome, worker.refused)
           /\ UNCHANGED message
  <2>1. hold' = hold /\ hold[worker.doc].state = Told
    BY <1>5 DEF AlreadySaid, ledgerOnly, vars
  <2>2. worker' \in Delivery /\ WorkerKnows'
    BY <1>2, <1>5, <2>1, ToldKnows
  <2> QED BY <1>1, <1>2, <1>5, <2>2, RecordsStand, TurnKeeps DEF NewlyAcknowledged, Typed
<1>6. CASE GiveBack /\ UNCHANGED ledgerOnly
  <2>1. /\ worker' = Idle /\ message' \in [Documents -> AnyMessage]
        /\ \A e \in Documents : ~NewlyAcknowledged(e)
    BY <1>1, <1>2, <1>6, GiveBackIs DEF At
  <2> QED BY <1>1, <1>2, <1>6, <2>1, RecordsStand, IdleKnows, TurnKeeps DEF Typed
<1> QED BY <1>4, <1>5, <1>6 DEF SettleCall

LEMMA MarkRejectedKeeps ==
  ASSUME IntakeInv, MarkRejected
  PROVE  IntakeInv'
<1>1. /\ LedgerInv /\ RestOfIntakeTypes /\ Promises /\ AllDisarmed
      /\ admission \in [Documents -> AnyAdmission]
  BY TypesAre DEF IntakeInv
<1>2. worker \in Delivery /\ worker.doc \in Documents
  BY <1>1, WorkerIs DEF MarkRejected, At
<1>3. /\ record[worker.doc].reject /\ hold[worker.doc].state = "released"
      /\ UNCHANGED <<client, landing, object, message, records, faults, ledgerOnly>>
      /\ Go("acknowledging", "released", TRUE)
      /\ admission' = [admission EXCEPT ![worker.doc].rejected = TRUE]
  BY DEF MarkRejected, IntakeInv, WorkerKnows
<1>4. hold' = hold /\ LedgerInv' /\ record' = record /\ earlier' = earlier
  BY <1>1, <1>3, LedgerStands DEF ledgerOnly, vars, records
<1>5. /\ admission' \in [Documents -> AnyAdmission] /\ admission'[worker.doc].rejected
      /\ \A e \in Documents : e # worker.doc => admission'[e] = admission[e]
  <2>1. PICK x : /\ x = [admission[worker.doc] EXCEPT !.rejected = TRUE]
                 /\ admission' = [admission EXCEPT ![worker.doc] = x]
    BY <1>3
  <2>2. x \in AnyAdmission /\ x.rejected
    BY <1>1, <1>2, <2>1 DEF AnyAdmission
  <2> QED BY <1>1, <1>2, <2>1, <2>2
<1>6. /\ worker' \in Delivery /\ worker'.phase = "acknowledging" /\ worker'.doc = worker.doc
      /\ worker'.outcome = "released"
  BY <1>2, <1>3, GoIs
<1>7. WorkerKnows'
  BY <1>3, <1>4, <1>5, <1>6 DEF WorkerKnows, At, Done
<1>8. RestOfIntakeTypes'
  BY <1>1, <1>3, <1>4, <1>5, <1>6 DEF RestOfIntakeTypes, AnyAdmission, Delivery
<1>9. \A e \in Documents : Versions(e)' = Versions(e)
  BY <1>4 DEF Versions
<1>10. ChargedAsRecorded'
  BY <1>1, <1>4, <1>9 DEF Promises, ChargedAsRecorded
<1>11. AcknowledgedIsDone'
  BY <1>1, <1>3, <1>4, <1>5, <1>9 DEF Promises, AcknowledgedIsDone
<1>12. RejectedCostNothing'
  BY <1>1, <1>3, <1>4, <1>5 DEF Promises, RejectedCostNothing
<1>13. AllDisarmed'
  BY <1>1, <1>3, RecordsStand
<1> QED BY <1>4, <1>7, <1>8, <1>10, <1>11, <1>12, <1>13 DEF IntakeInv, Promises

LEMMA AcknowledgeKeeps ==
  ASSUME IntakeInv, Acknowledge
  PROVE  IntakeInv'
<1>1. /\ LedgerInv /\ RestOfIntakeTypes /\ Promises /\ AllDisarmed
      /\ message \in [Documents -> AnyMessage]
  BY TypesAre DEF IntakeInv
<1>2. worker.doc \in Documents
  BY <1>1, WorkerIs DEF Acknowledge, At
<1>3. /\ IF worker.outcome = "skipped" THEN PassedOver(worker.doc) ELSE Done(worker.doc)
      /\ worker' = Idle
      /\ UNCHANGED <<admission, client, landing, object, records, faults, ledgerOnly>>
  BY DEF Acknowledge, IntakeInv, WorkerKnows
<1>4. /\ hold' = hold /\ LedgerInv' /\ record' = record /\ earlier' = earlier
      /\ admission' = admission
  BY <1>1, <1>3, LedgerStands DEF ledgerOnly, vars, records
<1>5. PICK state : /\ state = IF worker.outcome = "skipped" THEN "skipped" ELSE "acked"
                   /\ message' = [message EXCEPT ![worker.doc].state = state]
  BY DEF Acknowledge
<1>6. /\ message' \in [Documents -> AnyMessage] /\ message'[worker.doc].state = state
      /\ \A e \in Documents : e # worker.doc => message'[e] = message[e]
  BY <1>1, <1>2, <1>5 DEF AnyMessage
<1>7. RestOfIntakeTypes'
  BY <1>1, <1>3, <1>4, <1>6 DEF RestOfIntakeTypes, AnyMessage
<1>8. \A e \in Documents : Versions(e)' = Versions(e)
  BY <1>4 DEF Versions
<1>9. AcknowledgedIsDone'
  BY <1>1, <1>3, <1>4, <1>5, <1>6, <1>8
     DEF Promises, AcknowledgedIsDone, Done, PassedOver, Reviewed
<1>10. ChargedAsRecorded' /\ RejectedCostNothing'
  BY <1>1, <1>4, <1>8 DEF Promises, ChargedAsRecorded, RejectedCostNothing
<1>11. AllDisarmed'
  BY <1>1, <1>3, RecordsStand
<1> QED BY <1>3, <1>4, <1>7, <1>9, <1>10, <1>11, IdleKnows DEF IntakeInv, Promises

-----------------------------------------------------------------------------
LEMMA IntakeStarts ==
  ASSUME IntakeInit
  PROVE  IntakeInv
<1>1. /\ hold = [d \in Documents |-> NoHold] /\ balance = Funds /\ overage = 0 /\ funds = Funds
      /\ worker = Idle /\ message = [d \in Documents |-> NoMessage]
      /\ admission = [d \in Documents |-> NoAdmission]
  BY DEF IntakeInit
<1>2. TypeOK
  BY IntakeAssumption DEF IntakeInit, TypeOK
<1>3. \A d \in Documents : DrawnBy(hold)[d] = 0 /\ InvoicedBy(hold)[d] = 0 /\ UsedBy(hold)[d] = 0
  BY <1>1, AmountsAssumption
     DEF DrawnBy, InvoicedBy, UsedBy, DrawnOf, InvoicedOf, UsedOf, ConsumedOf, NoHold, Least
<1>4. /\ SumOver(DrawnBy(hold), Documents) = 0 /\ SumOver(InvoicedBy(hold), Documents) = 0
      /\ SumOver(UsedBy(hold), Documents) = 0
  BY <1>3, SumZero
<1>5. LedgerInv
  BY <1>1, <1>2, <1>4, TotalIs, AmountsAssumption, IntakeAssumption DEF LedgerInv, Books
<1>6. RestOfIntakeTypes /\ AllDisarmed
  BY IntakeAssumption DEF AllDisarmed, Disarmed, IntakeInit, RestOfIntakeTypes, NoAdmission, NoMessage, NoRecord
<1>7. WorkerKnows
  BY <1>1 DEF WorkerKnows, At, Idle
<1>8. Promises
  BY <1>1 DEF Promises, ChargedAsRecorded, AcknowledgedIsDone, RejectedCostNothing,
              NoHold, NoMessage, NoAdmission
<1> QED BY <1>5, <1>6, <1>7, <1>8 DEF IntakeInv

LEMMA IntakeSteps ==
  ASSUME IntakeInv, [IntakeNext]_intakeVars
  PROVE  IntakeInv'
<1>1. CASE WorkerStep
  BY <1>1, FindDisarmedKeeps, SanitizeKeeps, RecordRefusalKeeps, ReplayKeeps,
     SkipReadingKeeps, ReadRangeKeeps, BadAnswerKeeps, NoAnswerKeeps, RecordReviewKeeps, SettleCallKeeps, MarkRejectedKeeps, AcknowledgeKeeps
     DEF WorkerStep
<1> QED BY <1>1, ClientKeeps, AroundKeeps, DeliverKeeps, RetryKeeps DEF IntakeNext

(* The books balance and the worker knows what it says, in every state of an *)
(* intake of any documents, deliveries and faults.                           *)
THEOREM IntakeInvariance == IntakeSpec => []IntakeInv
BY IntakeStarts, IntakeSteps, PTL DEF IntakeSpec

(* Every variable of the intake keeps its type.                              *)
THEOREM IntakeTypes == IntakeSpec => []IntakeTypeOK
<1>1. IntakeInv => IntakeTypeOK
  BY DEF IntakeInv, LedgerInv, RestOfIntakeTypes, IntakeTypeOK
<1> QED BY <1>1, IntakeInvariance, PTL

(* A document is charged for exactly what is on record about it.             *)
THEOREM ChargesAreRecorded == IntakeSpec => []ChargedAsRecorded
<1>1. IntakeInv => ChargedAsRecorded
  BY DEF IntakeInv, Promises
<1> QED BY <1>1, IntakeInvariance, PTL

(* A message is acknowledged only when its document is settled as recorded   *)
(* or refused for everyone to see, or when there was no reader to ask: then  *)
(* it is disarmed, unread and not charged.                                   *)
THEOREM AcknowledgedIsAlwaysDone == IntakeSpec => []AcknowledgedIsDone
<1>1. IntakeInv => AcknowledgedIsDone
  BY DEF IntakeInv, Promises
<1> QED BY <1>1, IntakeInvariance, PTL

(* A document the intake row calls rejected was refused and cost nothing.    *)
THEOREM RejectionsCostNothing == IntakeSpec => []RejectedCostNothing
<1>1. IntakeInv => RejectedCostNothing
  BY DEF IntakeInv, Promises
<1> QED BY <1>1, IntakeInvariance, PTL

(* No credit is lost or made by an intake that crashes, repeats and races.   *)
THEOREM IntakeConservesCredits == IntakeSpec => []CreditsConserved
<1>1. IntakeInv => CreditsConserved
  BY BooksSayIt DEF IntakeInv, LedgerInv
<1> QED BY <1>1, IntakeInvariance, PTL

(* A trial stays within its allowance while documents come and fail.         *)
THEOREM IntakeKeepsTrialBounded == IntakeSpec => []TrialStaysBounded
<1>1. IntakeInv => TrialStaysBounded
  BY BooksSayIt DEF IntakeInv, LedgerInv
<1> QED BY <1>1, IntakeInvariance, PTL

-----------------------------------------------------------------------------
(* The intake seen from the ledger, and what it never takes back.            *)
LEMMA LedgerSees ==
  ASSUME IntakeInv, [IntakeNext]_intakeVars, {0, Charge} \subseteq Actuals
  PROVE  [Next]_vars
<1>1. ASSUME NEW d \in Documents, ReserveForUpload(d) PROVE Next
  BY <1>1 DEF ReserveForUpload, Next
<1>2. ASSUME NEW d \in Documents, ReleaseUpload(d) PROVE [Next]_vars
  BY <1>2 DEF ReleaseUpload, Next, ledgerOnly
<1>3. ASSUME SettleCall PROVE [Next]_vars
  <2>1. At("settling")
    BY <1>3 DEF SettleCall
  <2>2. /\ worker.doc \in Documents /\ Told \in Worked \union {"released"}
    BY <2>1, ToldIsRecorded
  <2>3. Outcome(Told) \in Actuals
    BY <2>2 DEF Outcome, Worked
  <2>4. Settle(worker.doc, Told, Outcome(Told)) \/ UNCHANGED ledgerOnly
    BY <1>3 DEF SettleCall
  <2> QED BY <2>2, <2>3, <2>4 DEF Next, ledgerOnly
<1>4. ASSUME Meanwhile PROVE Next
  BY <1>4 DEF Meanwhile, Next
<1>5. \/ UNCHANGED ledgerOnly
      \/ SettleCall \/ Meanwhile
      \/ \E d \in Documents : ReserveForUpload(d) \/ ReleaseUpload(d)
  BY DEF IntakeNext, ClientStep, Admit, StartUpload, Land, UploadFails, Confirm, AskStore,
     ClientStops, AdmissionLapses, Deliver, ComesAgain, WorkerStep, FindDisarmed, Sanitize,
     RecordRefusal, Replay, SkipReading, ReadRange, BadAnswer, NoAnswer, RecordReview, MarkRejected, Acknowledge, Retry,
     intakeVars, ledgerOnly
<1> QED BY <1>1, <1>2, <1>3, <1>4, <1>5 DEF ledgerOnly

(* Whatever clients, the queue and the worker do, the ledger sees its own    *)
(* transactions only: what is proved of every step of the ledger holds of    *)
(* every step of the intake.                                                 *)
THEOREM IntakeImplementsLedger ==
  ASSUME {0, Charge} \subseteq Actuals
  PROVE  IntakeSpec => [][Next]_vars
<1>1. IntakeInv /\ [IntakeNext]_intakeVars => [Next]_vars
  BY LedgerSees
<1> QED BY <1>1, IntakeInvariance, PTL DEF IntakeSpec

LEMMA NothingIsTakenBack ==
  ASSUME IntakeInv, [IntakeNext]_intakeVars
  PROVE  OverStays /\ RecordsGrow
<1>1. OverStays
  <2>1. ASSUME SettleCall PROVE OverStays
    <3>1. At("settling")
      BY <2>1 DEF SettleCall
    <3>2. worker.doc \in Documents /\ Told \in Worked \union {"released"}
      BY <3>1, ToldIsRecorded
    <3>3. Outcome(Told) \in Nat
      BY <3>2 DEF Outcome, Charge, Worked
    <3>4. Settle(worker.doc, Told, Outcome(Told)) \/ UNCHANGED ledgerOnly
      BY <2>1 DEF SettleCall
    <3> QED BY <3>2, <3>3, <3>4, IntakeSettles, LedgerStands DEF IntakeInv
  <2>2. \/ UNCHANGED ledgerOnly
        \/ SettleCall \/ Meanwhile
        \/ \E d \in Documents : ClientStep(d)
    BY DEF IntakeNext, AdmissionLapses, Deliver, ComesAgain, WorkerStep, FindDisarmed,
       Sanitize, RecordRefusal, Replay, SkipReading, ReadRange, BadAnswer, NoAnswer, RecordReview, MarkRejected,
       Acknowledge, Retry, intakeVars, ledgerOnly
  <2> QED BY <2>1, <2>2, LedgerStands, MeanwhileMoves, ClientLedger DEF IntakeInv
<1>2. RecordsGrow
  <2>1. \/ UNCHANGED records
        \/ FindDisarmed \/ Sanitize \/ RecordRefusal \/ ReadRange \/ NoAnswer
        \/ RecordReview
    BY DEF IntakeNext, ClientStep, Admit, ReserveForUpload, StartUpload, Land, UploadFails,
       Confirm, AskStore, ReleaseUpload, ClientStops, AdmissionLapses, Deliver, ComesAgain,
       WorkerStep, Replay, SkipReading, BadAnswer, SettleCall, MarkRejected, Acknowledge, Retry, Meanwhile,
       intakeVars
  <2> QED BY <2>1, RecordsStand, FindDisarmedKeeps, SanitizeKeeps, RecordRefusalKeeps, ReadRangeKeeps,
       NoAnswerKeeps, RecordReviewKeeps
<1> QED BY <1>1, <1>2

(* A reservation that is over is final, and so is what is on record beside   *)
(* every disarmed version of a document: later deliveries, uploads, releases *)
(* and versions change neither the charge nor the record it was made on.     *)
THEOREM ChargesAreFinal == IntakeSpec => [][OverStays /\ RecordsGrow]_intakeVars
<1>1. IntakeInv /\ [IntakeNext]_intakeVars => OverStays /\ RecordsGrow
  BY NothingIsTakenBack
<1> QED BY <1>1, IntakeInvariance, PTL DEF IntakeSpec

-----------------------------------------------------------------------------
(* Nothing gets lost between the store, the queue and the worker, and every  *)
(* turn of the worker brings the end of a message nearer.                    *)

(* What is read was disarmed first, and what is disarmed is stored.          *)
OnlyDisarmedIsRead == \A d \in Documents : Disarmed(d) /\ (record[d].clean => d \in object)

(* A stored source has a message, and the worker has what the queue gave.    *)
StoredHasMessage == \A d \in Documents : d \in object <=> message[d].state # "none"
GivenIsHandled ==
  \A d \in Documents : message[d].state = "given" <=> ~At("idle") /\ worker.doc = d

QueueInv ==
  OnlyDisarmedIsRead /\ StoredHasMessage /\ GivenIsHandled

(* Turns of the worker a delivery has before it at most.                     *)
PhaseLeft(phase, ranges) ==
  [sanitizing |-> Ranges + 7, reading |-> 5 + Ranges - ranges, refusing |-> 5, recording |-> 4,
   settling |-> 3, marking |-> 2, acknowledging |-> 1][phase]

Left(d) ==
  IF message[d].state = "waiting" THEN Ranges + 8
  ELSE PhaseLeft(worker.phase, record[d].ranges)

Waits(d) == message[d].state \in {"waiting", "given"}

(* The message of d is over, or was given back and has one delivery less, or *)
(* its delivery has fewer turns before it.                                   *)
Nearer(d) ==
  \/ message'[d].state \in {"acked", "skipped", "dead"}
  \/ /\ Waits(d)'
     /\ \/ message'[d].delivery > message[d].delivery
        \/ message'[d].delivery = message[d].delivery /\ Left(d)' < Left(d)

Advances ==
  \A d \in Documents : Waits(d) =>
    /\ Nearer(d) \/ (Waits(d)' /\ message'[d].delivery = message[d].delivery /\ Left(d)' = Left(d))
    /\ Deliver(d) \/ ((WorkerStep \/ Retry) /\ worker.doc = d) => Nearer(d)

(* What the worker does to its delivery. *)
GoesOn ==
  /\ worker' \in Delivery /\ worker'.doc = worker.doc
  /\ message' = message
  /\ PhaseLeft(worker'.phase, record'[worker.doc].ranges) <
       PhaseLeft(worker.phase, record[worker.doc].ranges)

Ends(state, delivery) ==
  /\ worker' = Idle
  /\ message'[worker.doc].state = state /\ message'[worker.doc].delivery = delivery
  /\ \A e \in Documents \ {worker.doc} : message'[e] = message[e]

LEMMA PhasesLeft ==
  ASSUME NEW n \in 0 .. Ranges
  PROVE  /\ PhaseLeft("sanitizing", n) = Ranges + 7
         /\ PhaseLeft("reading", n) = 5 + Ranges - n
         /\ PhaseLeft("refusing", n) = 5 /\ PhaseLeft("recording", n) = 4
         /\ PhaseLeft("settling", n) = 3 /\ PhaseLeft("marking", n) = 2
         /\ PhaseLeft("acknowledging", n) = 1
BY DEF PhaseLeft

LEMMA GivenBack ==
  ASSUME RestOfIntakeTypes, ~At("idle"), GiveBack
  PROVE  \/ Ends("dead", message[worker.doc].delivery)
         \/ Ends("waiting", message[worker.doc].delivery + 1)
<1>1. message \in [Documents -> AnyMessage] /\ worker.doc \in Documents
  BY TypesAre, WorkerIs
<1>2. PICK x : /\ x = IF message[worker.doc].delivery = MaxDeliveries
                      THEN [message[worker.doc] EXCEPT !.state = "dead"]
                      ELSE [state |-> "waiting", delivery |-> message[worker.doc].delivery + 1]
               /\ message' = [message EXCEPT ![worker.doc] = x]
  BY DEF GiveBack
<1>3. \/ x.state = "dead" /\ x.delivery = message[worker.doc].delivery
      \/ x.state = "waiting" /\ x.delivery = message[worker.doc].delivery + 1
  BY <1>1, <1>2 DEF AnyMessage
<1> QED BY <1>1, <1>2, <1>3 DEF GiveBack, Ends

(* Only the record of the delivered document moves. *)
Reads == \A e \in Documents \ {worker.doc} : record'[e] = record[e]

LEMMA ReadingMoves ==
  ASSUME IntakeInv, WorkerStep
  PROVE  Reads
<1>1. record \in [Documents -> AnyRecord]
  BY TypesAre DEF IntakeInv
<1>2. ASSUME NEW x, record' = [record EXCEPT ![worker.doc] = x]
      PROVE  Reads
  BY <1>1, <1>2 DEF Reads
<1>3. CASE UNCHANGED record
  BY <1>3 DEF Reads
<1>4. CASE UNCHANGED records
  BY <1>3, <1>4 DEF records
<1>5. CASE FindDisarmed
  <2>1. PICK x : record' = [record EXCEPT ![worker.doc] = x]
    BY <1>5 DEF FindDisarmed
  <2> QED BY <1>2, <2>1
<1>6. CASE Sanitize /\ ~UNCHANGED records
  <2>1. PICK x : record' = [record EXCEPT ![worker.doc] = x]
    BY <1>6 DEF Sanitize
  <2> QED BY <1>2, <2>1
<1>7. CASE RecordRefusal
  <2>1. PICK x : /\ x = [record[worker.doc] EXCEPT !.reject = TRUE]
                 /\ record' = [record EXCEPT ![worker.doc] = x]
    BY <1>7 DEF RecordRefusal
  <2> QED BY <1>2, <2>1
<1>8. CASE ReadRange
  <2>1. PICK x : /\ \/ x = [record[worker.doc] EXCEPT !.ranges = @ + 1]
                    \/ x = [record[worker.doc] EXCEPT !.ocr = TRUE]
                 /\ record' = [record EXCEPT ![worker.doc] = x]
    BY <1>8 DEF ReadRange
  <2> QED BY <1>2, <2>1
<1>9. CASE NoAnswer
  <2>1. PICK x : record' = [record EXCEPT ![worker.doc] = x]
    BY <1>9 DEF NoAnswer
  <2> QED BY <1>2, <2>1
<1>10. CASE RecordReview
  <2>1. PICK x : /\ x = [record[worker.doc] EXCEPT !.review =
                           IF @ = "none" THEN worker.outcome ELSE @]
                 /\ record' = [record EXCEPT ![worker.doc] = x]
    BY <1>10 DEF RecordReview
  <2> QED BY <1>2, <2>1
<1> QED BY <1>4, <1>5, <1>6, <1>7, <1>8, <1>9, <1>10
        DEF WorkerStep, Replay, SkipReading, BadAnswer, SettleCall, MarkRejected, Acknowledge

LEMMA WorkerMoves ==
  ASSUME IntakeInv, WorkerStep
  PROVE  /\ ~At("idle") /\ worker \in Delivery /\ worker.doc \in Documents
         /\ UNCHANGED object /\ Reads
         /\ \/ GoesOn
            \/ Ends("dead", message[worker.doc].delivery)
            \/ Ends("waiting", message[worker.doc].delivery + 1)
            \/ Ends("acked", message[worker.doc].delivery)
            \/ Ends("skipped", message[worker.doc].delivery)
<1>1. ~At("idle") /\ UNCHANGED object
  BY DEF WorkerStep, FindDisarmed, Sanitize, RecordRefusal, Replay, SkipReading, ReadRange, BadAnswer,
     NoAnswer, RecordReview, SettleCall, MarkRejected, Acknowledge, Unread, At
<1>2. /\ worker \in Delivery /\ worker.doc \in Documents /\ record[worker.doc] \in AnyRecord
      /\ RestOfIntakeTypes
  BY <1>1, WorkerIs DEF IntakeInv
<1>3. Reads
  BY ReadingMoves
<1>4. /\ record[worker.doc].ranges \in 0 .. Ranges /\ Ranges \in Nat
      /\ record'[worker.doc].ranges \in 0 .. Ranges
  <2>1. RestOfIntakeTypes'
    BY IntakeSteps DEF IntakeNext, IntakeInv
  <2>2. record'[worker.doc] \in AnyRecord
    BY <1>2, <2>1 DEF RestOfIntakeTypes, AnyRecord
  <2> QED BY <1>2, <2>2, IntakeAssumption DEF AnyRecord
<1>5. \A phase \in {"refusing", "reading", "recording", "settling", "marking", "acknowledging"},
         outcome \in {"none", "settled", "operator_review", "released", "skipped"},
         refused \in BOOLEAN :
        Go(phase, outcome, refused) =>
          worker' \in Delivery /\ worker'.doc = worker.doc /\ worker'.phase = phase
  BY <1>2, GoIs
<1>6. worker.outcome \in {"none", "settled", "operator_review", "released", "skipped"}
      /\ worker.refused \in BOOLEAN
  BY <1>2 DEF Delivery
<1>7. CASE FindDisarmed \/ Sanitize
  <2>1. /\ worker.phase = "sanitizing" /\ message' = message
        /\ worker' \in Delivery /\ worker'.doc = worker.doc
        /\ worker'.phase \in {"reading", "refusing"}
    BY <1>5, <1>7 DEF FindDisarmed, Sanitize, At
  <2>2. GoesOn
    BY <1>4, <2>1, PhasesLeft DEF GoesOn
  <2> QED BY <1>1, <1>2, <1>3, <2>2
<1>8. CASE RecordRefusal \/ Replay \/ SkipReading \/ BadAnswer \/ RecordReview
  <2>1. /\ message' = message /\ worker' \in Delivery /\ worker'.doc = worker.doc
        /\ \/ worker.phase = "refusing" /\ worker'.phase = "settling"
           \/ worker.phase = "reading" /\ worker'.phase = "settling"
           \/ worker.phase = "reading" /\ worker'.phase = "recording"
           \/ worker.phase = "recording" /\ worker'.phase = "settling"
    <3>1. CASE RecordRefusal
      BY <1>5, <3>1 DEF RecordRefusal, At
    <3>2. CASE Replay
      <4>1. PICK said : said = IF record[worker.doc].review # "none"
                               THEN record[worker.doc].review ELSE "settled"
        OBVIOUS
      <4>2. /\ Go("settling", said, FALSE)
            /\ said \in {"none", "settled", "operator_review", "released", "skipped"}
        BY <1>2, <3>2, <4>1 DEF Replay, AnyRecord
      <4> QED BY <1>5, <3>2, <4>2 DEF Replay, At
    <3>3. CASE SkipReading \/ BadAnswer
      BY <1>5, <3>3 DEF SkipReading, BadAnswer, Unread, At
    <3>4. CASE RecordReview
      <4>1. record'[worker.doc].review \in {"none", "operator_review", "released"}
        <5>1. IntakeInv'
          BY <3>4, RecordReviewKeeps
        <5> QED BY <1>2, <5>1 DEF IntakeInv, RestOfIntakeTypes
      <4> QED BY <1>5, <3>4, <4>1 DEF RecordReview, At
    <3> QED BY <1>8, <3>1, <3>2, <3>3, <3>4
  <2>2. GoesOn
    BY <1>4, <2>1, PhasesLeft DEF GoesOn
  <2> QED BY <1>1, <1>2, <1>3, <2>2
<1>9. CASE ReadRange
  <2>1. worker.phase = "reading" /\ message' = message
    BY <1>9 DEF ReadRange, Unread, At
  <2>2. CASE record[worker.doc].ranges < Ranges
    <3>1. PICK x : /\ x = [record[worker.doc] EXCEPT !.ranges = @ + 1]
                   /\ record' = [record EXCEPT ![worker.doc] = x]
      BY <1>9, <2>2 DEF ReadRange
    <3>2. x.ranges = record[worker.doc].ranges + 1
      BY <1>2, <3>1 DEF AnyRecord
    <3>3. record'[worker.doc].ranges = record[worker.doc].ranges + 1
      BY <1>2, <3>1, <3>2 DEF RestOfIntakeTypes
    <3>4. worker' = worker
      BY <1>9, <2>2 DEF ReadRange
    <3>5. GoesOn
      BY <1>2, <1>4, <2>1, <3>3, <3>4, PhasesLeft DEF GoesOn
    <3> QED BY <1>1, <1>2, <1>3, <3>5
  <2>3. CASE ~(record[worker.doc].ranges < Ranges)
    <3>1. worker' \in Delivery /\ worker'.doc = worker.doc /\ worker'.phase = "settling"
      BY <1>5, <1>9, <2>3 DEF ReadRange
    <3>2. GoesOn
      BY <1>4, <2>1, <3>1, PhasesLeft DEF GoesOn
    <3> QED BY <1>1, <1>2, <1>3, <3>2
  <2> QED BY <2>2, <2>3
<1>10. CASE NoAnswer
  <2>1. worker.phase = "reading"
    BY <1>10 DEF NoAnswer, Unread, At
  <2>2. CASE GiveBack
    BY <1>1, <1>2, <1>3, <2>2, GivenBack
  <2>3. CASE Go("recording", "released", FALSE) /\ UNCHANGED message
    <3>1. worker' \in Delivery /\ worker'.doc = worker.doc /\ worker'.phase = "recording"
      BY <1>5, <2>3
    <3>2. GoesOn
      BY <1>4, <2>1, <2>3, <3>1, PhasesLeft DEF GoesOn
    <3> QED BY <1>1, <1>2, <1>3, <3>2
  <2> QED BY <1>10, <2>2, <2>3 DEF NoAnswer
<1>11. CASE SettleCall
  <2>1. CASE GiveBack
    BY <1>1, <1>2, <1>3, <2>1, GivenBack
  <2>2. CASE /\ Go(IF worker.refused THEN "marking" ELSE "acknowledging",
                   worker.outcome, worker.refused)
             /\ UNCHANGED message
    <3>1. PICK phase \in {"marking", "acknowledging"} : Go(phase, worker.outcome, worker.refused)
      BY <1>6, <2>2
    <3>2. worker' \in Delivery /\ worker'.doc = worker.doc /\ worker'.phase = phase
      BY <1>5, <1>6, <3>1
    <3>3. worker.phase = "settling"
      BY <1>11 DEF SettleCall, At
    <3>4. GoesOn
      BY <1>4, <2>2, <3>2, <3>3, PhasesLeft DEF GoesOn
    <3> QED BY <1>1, <1>2, <1>3, <3>4
  <2> QED BY <1>11, <2>1, <2>2 DEF SettleCall
<1>12. CASE MarkRejected
  <2>1. /\ worker.phase = "marking" /\ message' = message
        /\ worker' \in Delivery /\ worker'.doc = worker.doc /\ worker'.phase = "acknowledging"
    BY <1>5, <1>12 DEF MarkRejected, At
  <2>2. GoesOn
    BY <1>4, <2>1, PhasesLeft DEF GoesOn
  <2> QED BY <1>1, <1>2, <1>3, <2>2
<1>13. CASE Acknowledge
  <2>1. message \in [Documents -> AnyMessage]
    BY <1>2, TypesAre
  <2>2. PICK state \in {"acked", "skipped"} :
          message' = [message EXCEPT ![worker.doc].state = state]
    BY <1>13 DEF Acknowledge
  <2>3. PICK x : /\ x = [message[worker.doc] EXCEPT !.state = state]
                 /\ message' = [message EXCEPT ![worker.doc] = x]
    BY <2>2
  <2>4. x.state = state /\ x.delivery = message[worker.doc].delivery
    BY <1>2, <2>1, <2>3 DEF AnyMessage
  <2>5. Ends(state, message[worker.doc].delivery)
    BY <1>2, <1>13, <2>1, <2>3, <2>4 DEF Acknowledge, Ends
  <2> QED BY <1>1, <1>2, <1>3, <2>5
<1> QED BY <1>7, <1>8, <1>9, <1>10, <1>11, <1>12, <1>13 DEF WorkerStep

(* What turns of the worker do to the queue. *)
LEMMA TurnsKeepQueue ==
  ASSUME IntakeInv, QueueInv, WorkerStep \/ Retry
  PROVE  QueueInv'
<1>1. /\ ~At("idle") /\ worker.doc \in Documents /\ UNCHANGED object /\ Reads
      /\ \/ GoesOn
         \/ Ends("dead", message[worker.doc].delivery)
         \/ Ends("waiting", message[worker.doc].delivery + 1)
         \/ Ends("acked", message[worker.doc].delivery)
         \/ Ends("skipped", message[worker.doc].delivery)
  <2>1. CASE WorkerStep
    BY <2>1, WorkerMoves
  <2>2. CASE Retry
    <3>1. ~At("idle") /\ GiveBack /\ UNCHANGED <<object, record>>
      BY <2>2 DEF Retry, records
    <3>2. worker.doc \in Documents
      BY <3>1, WorkerIs DEF IntakeInv
    <3>3. Reads
      BY <3>1 DEF Reads
    <3> QED BY <3>1, <3>2, <3>3, GivenBack DEF IntakeInv
  <2> QED BY <2>1, <2>2
<1>2. message[worker.doc].state = "given" /\ worker.doc \in object
  BY <1>1 DEF QueueInv, GivenIsHandled, StoredHasMessage
<1>3. OnlyDisarmedIsRead'
  <2>1. AllDisarmed'
    BY IntakeSteps DEF IntakeInv, IntakeNext
  <2> QED BY <1>1, <1>2, <2>1 DEF QueueInv, OnlyDisarmedIsRead, AllDisarmed, Reads
<1>4. CASE GoesOn
  <2>1. worker'.phase # "idle"
    BY <1>4 DEF GoesOn, Delivery
  <2>2. StoredHasMessage' /\ GivenIsHandled'
    BY <1>1, <1>4, <2>1 DEF GoesOn, QueueInv, StoredHasMessage, GivenIsHandled, At
  <2> QED BY <1>3, <2>2 DEF QueueInv
<1>5. CASE \/ Ends("dead", message[worker.doc].delivery)
           \/ Ends("waiting", message[worker.doc].delivery + 1)
           \/ Ends("acked", message[worker.doc].delivery)
           \/ Ends("skipped", message[worker.doc].delivery)
  <2>1. /\ worker'.phase = "idle" /\ message'[worker.doc].state \notin {"none", "given"}
        /\ \A e \in Documents \ {worker.doc} : message'[e] = message[e]
    BY <1>5 DEF Ends, Idle
  <2>2. StoredHasMessage' /\ GivenIsHandled'
    BY <1>1, <1>2, <2>1 DEF QueueInv, StoredHasMessage, GivenIsHandled, At
  <2> QED BY <1>3, <2>2 DEF QueueInv
<1> QED BY <1>1, <1>4, <1>5

LEMMA OthersKeepQueue ==
  ASSUME IntakeInv, QueueInv,
         \/ Meanwhile \/ UNCHANGED intakeVars
         \/ \E d \in Documents :
              ClientStep(d) \/ AdmissionLapses(d) \/ Deliver(d) \/ ComesAgain(d)
  PROVE  /\ QueueInv' /\ UNCHANGED record
         /\ \A e \in Documents : message[e].state = "given" => message'[e] = message[e]
<1>1. /\ message \in [Documents -> AnyMessage]
      /\ UNCHANGED record /\ \A e \in Documents : Disarmed(e)'
  <2>1. UNCHANGED records
    BY DEF ClientStep, Admit, ReserveForUpload, StartUpload, Land, UploadFails, Confirm,
       AskStore, ReleaseUpload, ClientStops, AdmissionLapses, Deliver, ComesAgain, Meanwhile,
       intakeVars
  <2>2. AllDisarmed'
    BY <2>1, RecordsStand DEF IntakeInv
  <2> QED BY <2>1, <2>2, TypesAre DEF IntakeInv, records, AllDisarmed
<1>2. CASE UNCHANGED <<object, message, worker>>
  BY <1>1, <1>2 DEF QueueInv, OnlyDisarmedIsRead, StoredHasMessage, GivenIsHandled, At
<1>3. ASSUME NEW d \in Documents, Land(d) \/ ComesAgain(d)
      PROVE  /\ QueueInv'
             /\ \A e \in Documents : message[e].state = "given" => message'[e] = message[e]
  <2>1. /\ UNCHANGED worker
        /\ \/ object' = object \union {d}
           \/ object' = object /\ message[d].state \in {"acked", "skipped"}
    BY <1>3 DEF Land, ComesAgain
  <2>2. PICK x : /\ \/ x = message[d] /\ x.state \in {"waiting", "given"}
                    \/ x = [state |-> "waiting", delivery |-> 1] /\ message[d].state # "given"
                 /\ message' = [message EXCEPT ![d] = x]
    BY <1>3 DEF Land, ComesAgain
  <2>3. /\ message'[d] = x /\ x.state \in {"waiting", "given"}
        /\ x.state = "given" <=> message[d].state = "given"
        /\ \A e \in Documents : e # d => message'[e] = message[e]
    BY <1>1, <2>2
  <2>4. OnlyDisarmedIsRead'
    BY <1>1, <2>1 DEF QueueInv, OnlyDisarmedIsRead
  <2>5. StoredHasMessage'
    BY <2>1, <2>3 DEF QueueInv, StoredHasMessage
  <2>6. GivenIsHandled'
    BY <2>1, <2>3 DEF QueueInv, GivenIsHandled, At
  <2>7. \A e \in Documents : message[e].state = "given" => message'[e] = message[e]
    BY <2>2, <2>3
  <2> QED BY <2>4, <2>5, <2>6, <2>7 DEF QueueInv
<1>4. ASSUME NEW d \in Documents, Deliver(d)
      PROVE  /\ QueueInv'
             /\ \A e \in Documents : message[e].state = "given" => message'[e] = message[e]
  <2>1. /\ At("idle") /\ message[d].state = "waiting" /\ UNCHANGED object
        /\ worker'.phase = "sanitizing" /\ worker'.doc = d
    BY <1>4 DEF Deliver
  <2>2. /\ message'[d].state = "given"
        /\ \A e \in Documents : e # d => message'[e] = message[e]
    BY <1>1, <1>4 DEF Deliver, AnyMessage
  <2>3. OnlyDisarmedIsRead'
    BY <1>1, <2>1 DEF QueueInv, OnlyDisarmedIsRead
  <2>4. StoredHasMessage' /\ GivenIsHandled'
    BY <2>1, <2>2 DEF QueueInv, StoredHasMessage, GivenIsHandled, At
  <2> QED BY <2>1, <2>2, <2>3, <2>4 DEF QueueInv
<1>5. \/ UNCHANGED <<object, message, worker>>
      \/ \E d \in Documents : Land(d) \/ ComesAgain(d) \/ Deliver(d)
  BY DEF ClientStep, Admit, ReserveForUpload, StartUpload, UploadFails, Confirm, AskStore,
     ReleaseUpload, ClientStops, AdmissionLapses, Meanwhile, intakeVars
<1> QED BY <1>1, <1>2, <1>3, <1>4, <1>5

LEMMA QueueStarts ==
  ASSUME IntakeInit
  PROVE  QueueInv
BY DEF IntakeInit, QueueInv, OnlyDisarmedIsRead, StoredHasMessage, GivenIsHandled,
       Disarmed, At, Idle, NoMessage, NoRecord

LEMMA QueueSteps ==
  ASSUME IntakeInv, QueueInv, [IntakeNext]_intakeVars
  PROVE  QueueInv'
BY TurnsKeepQueue, OthersKeepQueue DEF IntakeNext

LEMMA QueueInvariance == IntakeSpec => [](IntakeInv /\ QueueInv)
<1>1. IntakeInit => IntakeInv /\ QueueInv
  BY IntakeStarts, QueueStarts
<1>2. IntakeInv /\ QueueInv /\ [IntakeNext]_intakeVars => (IntakeInv /\ QueueInv)'
  BY IntakeSteps, QueueSteps
<1> QED BY <1>1, <1>2, PTL DEF IntakeSpec

(* Nothing is read, reviewed or charged of a document before its source was  *)
(* stored and disarmed, however often it is delivered.                       *)
THEOREM OnlyDisarmedIsEverRead == IntakeSpec => []OnlyDisarmedIsRead
<1>1. QueueInv => OnlyDisarmedIsRead
  BY DEF QueueInv
<1> QED BY <1>1, QueueInvariance, PTL

(* The store, the queue and the worker agree: every stored source has its    *)
(* message, and what the queue gave out is what the worker is handling.      *)
THEOREM NoMessageIsLost == IntakeSpec => [](StoredHasMessage /\ GivenIsHandled)
<1>1. QueueInv => StoredHasMessage /\ GivenIsHandled
  BY DEF QueueInv
<1> QED BY <1>1, QueueInvariance, PTL

-----------------------------------------------------------------------------
LEMMA TurnsAdvance ==
  ASSUME IntakeInv, QueueInv, [IntakeNext]_intakeVars
  PROVE  Advances
<1> SUFFICES ASSUME NEW d \in Documents, Waits(d)
             PROVE  /\ \/ Nearer(d)
                       \/ /\ Waits(d)' /\ message'[d].delivery = message[d].delivery
                          /\ Left(d)' = Left(d)
                    /\ Deliver(d) \/ ((WorkerStep \/ Retry) /\ worker.doc = d) => Nearer(d)
  BY DEF Advances
<1>1. /\ message \in [Documents -> AnyMessage] /\ message' \in [Documents -> AnyMessage]
      /\ record \in [Documents -> AnyRecord]
      /\ GivenIsHandled /\ RestOfIntakeTypes
  <2>1. IntakeInv'
    BY IntakeSteps
  <2> QED BY <2>1, TypesAre DEF IntakeInv, QueueInv, RestOfIntakeTypes, AnyMessage
<1>2. Ranges \in Nat /\ record[d].ranges \in 0 .. Ranges
  BY <1>1, IntakeAssumption DEF AnyRecord
<1>3. CASE WorkerStep \/ Retry
  <2>1. /\ ~At("idle") /\ worker.doc \in Documents
        /\ \A e \in Documents \ {worker.doc} : record'[e] = record[e]
        /\ \/ GoesOn
           \/ Ends("dead", message[worker.doc].delivery)
           \/ Ends("waiting", message[worker.doc].delivery + 1)
           \/ Ends("acked", message[worker.doc].delivery)
           \/ Ends("skipped", message[worker.doc].delivery)
    <3>1. CASE WorkerStep
      BY <3>1, WorkerMoves DEF Reads
    <3>2. CASE Retry
      <4>1. ~At("idle") /\ GiveBack /\ UNCHANGED record
        BY <3>2 DEF Retry, records
      <4> QED BY <1>1, <4>1, WorkerIs, GivenBack
    <3> QED BY <1>3, <3>1, <3>2
  <2>2. CASE worker.doc = d
    <3>1. message[d].state = "given" /\ message[d].delivery \in Nat
      BY <1>1, <2>1, <2>2 DEF GivenIsHandled, AnyMessage
    <3>2. CASE GoesOn
      <4>1. message'[d] = message[d] /\ Left(d)' < Left(d)
        BY <2>2, <3>1, <3>2 DEF GoesOn, Left
      <4> QED BY <3>1, <4>1 DEF Nearer, Waits
    <3>3. CASE Ends("waiting", message[d].delivery + 1)
      <4>1. message'[d].state = "waiting" /\ message'[d].delivery > message[d].delivery
        BY <2>2, <3>1, <3>3 DEF Ends
      <4> QED BY <4>1 DEF Nearer, Waits
    <3>4. CASE \/ Ends("dead", message[d].delivery)
               \/ Ends("acked", message[d].delivery)
               \/ Ends("skipped", message[d].delivery)
      BY <2>2, <3>4 DEF Ends, Nearer
    <3> QED BY <2>1, <2>2, <3>2, <3>3, <3>4
  <2>3. CASE worker.doc # d
    <3>1. message[d].state = "waiting" /\ message'[d] = message[d]
      BY <1>1, <2>1, <2>3 DEF GivenIsHandled, Waits, GoesOn, Ends
    <3>2. Left(d)' = Left(d)
      BY <3>1 DEF Left
    <3>3. ~Deliver(d)
      BY <2>1 DEF Deliver
    <3> QED BY <2>3, <3>1, <3>2, <3>3 DEF Waits
  <2> QED BY <2>2, <2>3
<1>4. CASE Deliver(d)
  <2>1. /\ message[d].state = "waiting" /\ message'[d].state = "given"
        /\ message'[d].delivery = message[d].delivery
        /\ worker'.phase = "sanitizing" /\ record' = record
    BY <1>1, <1>4 DEF Deliver, AnyMessage, records
  <2>2. Left(d)' < Left(d)
    BY <1>2, <2>1, PhasesLeft DEF Left
  <2> QED BY <2>1, <2>2 DEF Nearer, Waits
<1>5. CASE ~(WorkerStep \/ Retry \/ Deliver(d))
  <2>1. \/ Meanwhile \/ UNCHANGED intakeVars
        \/ \E e \in Documents : ClientStep(e) \/ AdmissionLapses(e) \/ Deliver(e) \/ ComesAgain(e)
    BY <1>5 DEF IntakeNext
  <2>2. message'[d] = message[d]
    <3>1. ASSUME NEW e \in Documents, Land(e) \/ ComesAgain(e) \/ (e # d /\ Deliver(e))
          PROVE  message'[d] = message[d]
      BY <1>1, <3>1 DEF Land, ComesAgain, Deliver, Waits
    <3>2. \/ UNCHANGED message
          \/ \E e \in Documents : Land(e) \/ ComesAgain(e) \/ (e # d /\ Deliver(e))
      BY <1>5, <2>1 DEF ClientStep, Admit, ReserveForUpload, StartUpload, UploadFails, Confirm,
         AskStore, ReleaseUpload, ClientStops, AdmissionLapses, Meanwhile, intakeVars
    <3> QED BY <3>1, <3>2
  <2>3. record' = record /\ (message[d].state = "given" => worker' = worker)
    <3>1. message[d].state = "given" => ~At("idle")
      BY <1>1 DEF GivenIsHandled
    <3>2. (\A e \in Documents : ~Deliver(e)) => worker' = worker
      BY <2>1 DEF ClientStep, Admit, ReserveForUpload, StartUpload, Land, UploadFails, Confirm,
         AskStore, ReleaseUpload, ClientStops, AdmissionLapses, ComesAgain, Meanwhile, intakeVars
    <3> QED BY <2>1, <3>1, <3>2, OthersKeepQueue DEF Deliver
  <2>4. Left(d)' = Left(d)
    BY <2>2, <2>3 DEF Left, Waits
  <2> QED BY <1>5, <2>2, <2>4 DEF Waits
<1> QED BY <1>3, <1>4, <1>5

(* Every turn of the worker, every delivery and every failure of a delivery  *)
(* brings the end of the message nearer, and no other step, of whatever      *)
(* document, client or clock, moves it away: deliveries are counted to their *)
(* bound, and the turns of one of them run out.  What StoredIsAnsweredFor    *)
(* needs beside this is the fairness of the queue.                           *)
THEOREM DeliveriesAdvance == IntakeSpec => [][Advances]_intakeVars
<1>1. IntakeInv /\ QueueInv /\ [IntakeNext]_intakeVars => Advances
  BY TurnsAdvance
<1> QED BY <1>1, QueueInvariance, PTL DEF IntakeSpec

(* The measure is well founded: it is a pair of bounded naturals.            *)
MeasureIsBounded ==
  \A d \in Documents : Waits(d) =>
    message[d].delivery \in 0 .. MaxDeliveries /\ Left(d) \in 1 .. Ranges + 8

THEOREM DeliveriesAreBounded == IntakeSpec => []MeasureIsBounded
<1>1. ASSUME IntakeInv, QueueInv, NEW d \in Documents, Waits(d)
      PROVE  message[d].delivery \in 0 .. MaxDeliveries /\ Left(d) \in 1 .. Ranges + 8
  <2>1. /\ message[d] \in AnyMessage /\ record[d] \in AnyRecord /\ Ranges \in Nat
    BY <1>1, TypesAre, IntakeAssumption DEF IntakeInv
  <2>2. CASE message[d].state = "waiting"
    BY <2>1, <2>2 DEF Left, AnyMessage
  <2>3. CASE message[d].state = "given"
    <3>1. ~At("idle")
      BY <1>1, <2>3 DEF QueueInv, GivenIsHandled
    <3>2. worker \in Delivery
      BY <1>1, <3>1, WorkerIs DEF IntakeInv
    <3>3. record[d].ranges \in 0 .. Ranges
      BY <2>1 DEF AnyRecord
    <3>4. PhaseLeft(worker.phase, record[d].ranges) \in 1 .. Ranges + 8
      BY <2>1, <3>2, <3>3, PhasesLeft DEF Delivery
    <3> QED BY <2>1, <2>3, <3>4 DEF Left, AnyMessage
  <2> QED BY <1>1, <2>2, <2>3 DEF Waits
<1>2. IntakeInv /\ QueueInv => MeasureIsBounded
  BY <1>1 DEF MeasureIsBounded
<1> QED BY <1>2, QueueInvariance, PTL
=============================================================================
