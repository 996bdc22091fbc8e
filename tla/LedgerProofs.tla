---------------------------- MODULE LedgerProofs ----------------------------
(***************************************************************************)
(* Of the customer ledger: that the receivable of the books is the ledger, *)
(* that credit is owed once, that a recorded shift can be locked, that     *)
(* debt grows within limits only and that a page locks what it shows, for  *)
(* any customers, shifts and browsers, and any amounts.                    *)
(*                                                                         *)
(* Of the stock ledger: that it counts every litre once, that the book     *)
(* stays above zero, and that a dip differs from what is expected by what  *)
(* was lost and adjusted, for any opening stock, clock skew and number of  *)
(* shifts, deliveries and sales.                                           *)
(*                                                                         *)
(* Both arguments are about sums: the first two parts say what SumOf adds  *)
(* up, whichever order its CHOOSE takes the members in, and how a sum      *)
(* moves with its terms.  Then each step moves the receivable by what it   *)
(* adds to one customer's entries, or to all of them; and each step of the *)
(* tank moves what is in it, what was drawn and what is posted together.   *)
(***************************************************************************)
EXTENDS ReconciliationDesk, TankDesk, FiniteSetTheorems, WellFoundedInduction, TLAPS

-----------------------------------------------------------------------------
(* Induction, with the property as a set.                                  *)

\* A set of numbers that holds 0 and every successor holds all.
LEMMA AllNumbers ==
  ASSUME NEW G \in SUBSET Nat, 0 \in G, \A n \in G : n + 1 \in G
  PROVE  G = Nat
<1> SUFFICES ASSUME G # Nat PROVE FALSE
  OBVIOUS
<1> DEFINE R == OpToRel(<, Nat)
           B == Nat \ G
<1>1. PICK a \in B : \A b \in B : ~ (<<b, a>> \in R)
  <2>1. B # {} /\ B \subseteq Nat
    OBVIOUS
  <2> QED BY <2>1, NatLessThanWellFounded, WFMin
<1>2. a # 0 /\ a \in Nat /\ a \notin G
  OBVIOUS
<1>3. a - 1 \in Nat /\ a - 1 < a /\ a - 1 + 1 = a
  BY <1>2
<1>4. <<a - 1, a>> \in R
  BY <1>2, <1>3 DEF OpToRel
<1>5. a - 1 \in G
  <2> HIDE DEF R
  <2> QED BY <1>1, <1>3, <1>4
<1>6. a - 1 + 1 \in G
  BY <1>5
<1> QED BY <1>2, <1>3, <1>6

\* A family of subsets of a finite set that holds each subset whose proper
\* subsets it holds is all of them.
LEMMA AllSubsets ==
  ASSUME NEW D, IsFiniteSet(D), NEW P \in SUBSET (SUBSET D),
         \A s \in SUBSET D : (\A t \in SUBSET s : t # s => t \in P) => s \in P
  PROVE  P = SUBSET D
<1>1. \A s \in SUBSET D : IsFiniteSet(s) /\ Cardinality(s) \in Nat
  BY FS_Subset, FS_CardinalityType
<1>2. ASSUME NEW s \in SUBSET D, NEW t \in SUBSET s, t # s
      PROVE  t \in SUBSET D /\ Cardinality(t) < Cardinality(s)
  <2>1. IsFiniteSet(s)
    BY <1>1
  <2>2. Cardinality(t) <= Cardinality(s) /\ (Cardinality(t) = Cardinality(s) => t = s)
    BY <2>1, FS_Subset
  <2>3. Cardinality(t) \in Nat /\ Cardinality(s) \in Nat
    BY <1>1
  <2> QED BY <1>2, <2>2, <2>3
<1> DEFINE G == {n \in Nat : \A s \in SUBSET D : Cardinality(s) < n => s \in P}
<1>3. 0 \in G
  BY <1>1
<1>4. ASSUME NEW n \in G PROVE n + 1 \in G
  <2> SUFFICES ASSUME NEW s \in SUBSET D, Cardinality(s) < n + 1 PROVE s \in P
    OBVIOUS
  <2>1. \A t \in SUBSET s : t # s => t \in P
    BY <1>1, <1>2
  <2> QED BY <2>1
<1>5. G = Nat
  <2> HIDE DEF G
  <2>1. G \in SUBSET Nat
    BY DEF G
  <2> QED BY <1>3, <1>4, <2>1, AllNumbers
<1>6. ASSUME NEW s \in SUBSET D PROVE s \in P
  <2>1. Cardinality(s) + 1 \in G /\ Cardinality(s) < Cardinality(s) + 1
    BY <1>1, <1>5
  <2> QED BY <2>1
<1> QED BY <1>6

-----------------------------------------------------------------------------
(* What SumOf adds up.                                                     *)

\* The member MapThenSumSet takes first, and the table of sums it chooses.
First(s) == CHOOSE x \in s : TRUE
Sums(g, f, D) == g = [s \in SUBSET D |-> IF s = {} THEN 0 ELSE f[First(s)] + g[s \ {First(s)}]]

\* There is such a table.
LEMMA SumsExist ==
  ASSUME NEW D, IsFiniteSet(D), NEW f \in [D -> Int]
  PROVE  \E g \in [SUBSET D -> Int] : Sums(g, f, D)
<1> DEFINE A(n) == {s \in SUBSET D : Cardinality(s) <= n}
           Rest(g, s) == IF s = {} THEN 0 ELSE f[First(s)] + g[s \ {First(s)}]
           G == {n \in Nat : \E g \in [A(n) -> Int] : \A s \in A(n) : g[s] = Rest(g, s)}
<1>1. \A s \in SUBSET D : /\ IsFiniteSet(s) /\ Cardinality(s) \in Nat
                          /\ Cardinality(s) = 0 <=> s = {}
  BY FS_Subset, FS_CardinalityType, FS_EmptySet
<1>2. ASSUME NEW s \in SUBSET D, s # {}
      PROVE  /\ First(s) \in s /\ s \ {First(s)} \in SUBSET D
             /\ Cardinality(s \ {First(s)}) = Cardinality(s) - 1
  BY <1>1, <1>2, FS_RemoveElement DEF First
<1>3. 0 \in G
  <2> DEFINE g == [s \in A(0) |-> 0]
  <2>1. \A s \in A(0) : s = {}
    BY <1>1
  <2>2. g \in [A(0) -> Int] /\ \A s \in A(0) : g[s] = Rest(g, s)
    BY <2>1
  <2> QED BY <2>2
<1>4. ASSUME NEW n \in G PROVE n + 1 \in G
  <2>1. PICK g \in [A(n) -> Int] : \A s \in A(n) : g[s] = Rest(g, s)
    OBVIOUS
  <2> DEFINE h == [s \in A(n + 1) |-> Rest(g, s)]
  <2>2. ASSUME NEW s \in A(n + 1), s # {}
        PROVE  s \ {First(s)} \in A(n) /\ s \ {First(s)} \in A(n + 1) /\ f[First(s)] \in Int
    BY <1>1, <1>2, <2>2
  <2>3. \A t \in A(n) : t \in A(n + 1) /\ h[t] = g[t]
    BY <1>1, <2>1
  <2>4. h \in [A(n + 1) -> Int]
    BY <2>1, <2>2
  <2>5. \A s \in A(n + 1) : h[s] = Rest(h, s)
    BY <2>2, <2>3
  <2>6. \E w \in [A(n + 1) -> Int] : \A s \in A(n + 1) : w[s] = Rest(w, s)
    <3> HIDE DEF h, A, Rest
    <3> QED BY <2>4, <2>5
  <2> HIDE DEF A, Rest
  <2> QED BY <2>6
<1>5. G = Nat
  <2> HIDE DEF G
  <2>1. G \in SUBSET Nat
    BY DEF G
  <2> QED BY <1>3, <1>4, <2>1, AllNumbers
<1>6. PICK g \in [A(Cardinality(D)) -> Int] : \A s \in A(Cardinality(D)) : g[s] = Rest(g, s)
  BY <1>1, <1>5
<1>7. A(Cardinality(D)) = SUBSET D
  BY FS_Subset
<1> QED BY <1>6, <1>7 DEF Sums

\* Sums of the same values are the same.
LEMMA SumsAgree ==
  ASSUME NEW D, IsFiniteSet(D), NEW f, NEW g, Sums(g, f, D),
         NEW E, NEW e, NEW h, Sums(h, e, E),
         NEW S, S \subseteq D, S \subseteq E, \A x \in S : f[x] = e[x]
  PROVE  g[S] = h[S]
<1> DEFINE P == {s \in SUBSET S : g[s] = h[s]}
<1>1. IsFiniteSet(S)
  BY FS_Subset
<1>2. ASSUME NEW s \in SUBSET S, \A t \in SUBSET s : t # s => t \in P PROVE s \in P
  <2>1. s \in SUBSET D /\ s \in SUBSET E
    OBVIOUS
  <2>2. g[s] = IF s = {} THEN 0 ELSE f[First(s)] + g[s \ {First(s)}]
    BY <2>1 DEF Sums
  <2>3. h[s] = IF s = {} THEN 0 ELSE e[First(s)] + h[s \ {First(s)}]
    BY <2>1 DEF Sums
  <2>4. CASE s = {}
    BY <2>2, <2>3, <2>4
  <2>5. CASE s # {}
    <3>1. First(s) \in s
      BY <2>5 DEF First
    <3>2. f[First(s)] = e[First(s)] /\ g[s \ {First(s)}] = h[s \ {First(s)}]
      BY <1>2, <3>1
    <3> QED BY <2>2, <2>3, <2>5, <3>2
  <2> QED BY <2>4, <2>5
<1>3. P = SUBSET S
  <2>1. P \in SUBSET (SUBSET S)
    OBVIOUS
  <2> HIDE DEF P
  <2> QED BY <1>1, <1>2, <2>1, AllSubsets
<1> QED BY <1>3

\* The functions with a sum, and a set with one member less.
Numbers(f, D) == IsFiniteSet(D) /\ f \in [D -> Int]
Less(E, D, x) == x \in D /\ E = D \ {x}
Agree(e, f, S) == \A y \in S : e[y] = f[y]
Takes(f, D, s, x, t) == Numbers(f, D) /\ s \subseteq D /\ Less(t, s, x)

\* Whichever member is taken out first.
LEMMA AnyFirst ==
  ASSUME NEW D, NEW f, Numbers(f, D), NEW g \in [SUBSET D -> Int], Sums(g, f, D),
         NEW x, NEW E, Less(E, D, x)
  PROVE  g[D] = f[x] + g[E]
<1> DEFINE P == {s \in SUBSET D : \A y \in s : g[s] = f[y] + g[s \ {y}]}
<1>0. IsFiniteSet(D) /\ f \in [D -> Int] /\ x \in D /\ E = D \ {x}
  BY DEF Numbers, Less
<1>1. ASSUME NEW s \in SUBSET D, s # {} PROVE g[s] = f[First(s)] + g[s \ {First(s)}] /\ First(s) \in s
  BY <1>1 DEF Sums, First
<1>2. ASSUME NEW s \in SUBSET D, \A t \in SUBSET s : t # s => t \in P PROVE s \in P
  <2> SUFFICES ASSUME NEW z \in s PROVE g[s] = f[z] + g[s \ {z}]
    OBVIOUS
  <2>1. PICK y : y = First(s)
    OBVIOUS
  <2>2. y \in s /\ g[s] = f[y] + g[s \ {y}]
    BY <1>1, <2>1
  <2>3. CASE z # y
    <3>1. s \ {y} \in P /\ s \ {z} \in P
      BY <1>2, <2>2
    <3>2. g[s \ {y}] = f[z] + g[(s \ {y}) \ {z}]
      BY <3>1, <2>3
    <3>3. g[s \ {z}] = f[y] + g[(s \ {z}) \ {y}]
      BY <2>2, <2>3, <3>1
    <3>4. (s \ {y}) \ {z} = (s \ {z}) \ {y}
      OBVIOUS
    <3>5. PICK u : u = g[(s \ {z}) \ {y}]
      OBVIOUS
    <3>6. f[z] \in Int /\ f[y] \in Int /\ u \in Int
      BY <1>0, <2>2, <3>5
    <3>7. g[s \ {y}] = f[z] + u /\ g[s \ {z}] = f[y] + u
      BY <3>2, <3>3, <3>4, <3>5
    <3> QED BY <2>2, <3>6, <3>7
  <2> QED BY <2>2, <2>3
<1>3. P = SUBSET D
  <2>1. P \in SUBSET (SUBSET D)
    OBVIOUS
  <2> HIDE DEF P
  <2> QED BY <1>0, <1>2, <2>1, AllSubsets
<1>4. D \in P
  BY <1>3
<1> QED BY <1>0, <1>4

\* What SumOf returns.
LEMMA SumIs ==
  ASSUME NEW D, NEW f, Numbers(f, D)
  PROVE  \E g \in [SUBSET D -> Int] : Sums(g, f, D) /\ SumOf(f) = g[D]
<1>0. IsFiniteSet(D) /\ f \in [D -> Int]
  BY DEF Numbers
<1>1. PICK g \in [SUBSET D -> Int] : Sums(g, f, D)
  BY <1>0, SumsExist
<1> DEFINE chosen == CHOOSE h : Sums(h, f, D)
<1>2. DOMAIN f = D
  BY <1>0
<1>3. SumOf(f) = chosen[D]
  BY <1>2 DEF SumOf, MapThenSumSet, MapThenFoldSet, Sums, First
<1>4. Sums(chosen, f, D)
  BY <1>1
<1> HIDE DEF chosen
<1>5. chosen[D] = g[D]
  BY <1>0, <1>1, <1>4, SumsAgree
<1> QED BY <1>1, <1>3, <1>5

-----------------------------------------------------------------------------
(* Sums of finite functions.                                               *)

\* A sum is a number, and nothing adds up to zero.
LEMMA SumIsInt ==
  ASSUME NEW D, NEW f, Numbers(f, D)
  PROVE  SumOf(f) \in Int /\ (D = {} => SumOf(f) = 0)
<1>1. PICK g \in [SUBSET D -> Int] : Sums(g, f, D) /\ SumOf(f) = g[D]
  BY SumIs
<1>2. D = {} => g[D] = 0
  BY <1>1 DEF Sums
<1> QED BY <1>1, <1>2

\* A table of sums in which the whole is one member and the rest.
Taken(f, D, x, E) == \E g \in [SUBSET D -> Int] : /\ Sums(g, f, D) /\ SumOf(f) = g[D]
                                                 /\ g[D] = f[x] + g[E]

\* The table with a member taken out of the whole.
LEMMA SumTakes ==
  ASSUME NEW D, NEW f, NEW x, NEW E, Takes(f, D, D, x, E)
  PROVE  Taken(f, D, x, E)
<1>0. Numbers(f, D) /\ Less(E, D, x)
  BY DEF Takes
<1>1. PICK g \in [SUBSET D -> Int] : Sums(g, f, D) /\ SumOf(f) = g[D]
  BY <1>0, SumIs
<1>2. g[D] = f[x] + g[E]
  BY <1>0, <1>1, AnyFirst
<1> QED BY <1>1, <1>2 DEF Taken

\* One value taken out of a sum.
LEMMA SumWithout ==
  ASSUME NEW A, NEW p, Numbers(p, A), NEW z, NEW B, Less(B, A, z),
         NEW q, Numbers(q, B), Agree(q, p, B)
  PROVE  SumOf(p) = p[z] + SumOf(q)
<1>0. Takes(p, A, A, z, B)
  BY DEF Takes
<1>3. Taken(p, A, z, B)
  BY <1>0, SumTakes
<1>1. PICK u \in [SUBSET A -> Int] :
        Sums(u, p, A) /\ SumOf(p) = u[A] /\ u[A] = p[z] + u[B]
  BY <1>3 DEF Taken
<1>2. PICK w \in [SUBSET B -> Int] : Sums(w, q, B) /\ SumOf(q) = w[B]
  BY SumIs
<1>4. IsFiniteSet(A) /\ B \subseteq A /\ B \subseteq B /\ \A y \in B : p[y] = q[y]
  BY DEF Numbers, Less, Agree
<1>5. u[B] = w[B]
  BY <1>1, <1>2, <1>4, SumsAgree
<1> QED BY <1>1, <1>2, <1>5

\* A function on part of its domain.
Part(f, s) == [x \in s |-> f[x]]

\* The part of a function on some of its domain.
LEMMA PartOf ==
  ASSUME NEW D, NEW f, Numbers(f, D), NEW s, s \subseteq D
  PROVE  Numbers(Part(f, s), s) /\ (s = D => Part(f, s) = f) /\ \A x \in s : Part(f, s)[x] = f[x]
<1>1. IsFiniteSet(s)
  BY FS_Subset DEF Numbers
<1> QED BY <1>1 DEF Numbers, Part

\* A sum over one member less.
LEMMA SumOfLess ==
  ASSUME NEW D, NEW f, NEW s, NEW x, NEW t, Takes(f, D, s, x, t)
  PROVE  /\ SumOf(Part(f, s)) = f[x] + SumOf(Part(f, t))
         /\ SumOf(Part(f, t)) \in Int /\ f[x] \in Int
<1>0. Numbers(f, D) /\ s \subseteq D /\ Less(t, s, x)
  BY DEF Takes
<1>1. t \subseteq D /\ t \subseteq s /\ x \in s
  BY <1>0 DEF Less
<1>2. Numbers(Part(f, s), s) /\ Numbers(Part(f, t), t)
  BY <1>0, <1>1, PartOf
<1>3. Part(f, s)[x] = f[x] /\ Agree(Part(f, t), Part(f, s), t)
  BY <1>1 DEF Part, Agree
<1>4. SumOf(Part(f, s)) = Part(f, s)[x] + SumOf(Part(f, t))
  BY <1>0, <1>2, <1>3, SumWithout
<1> QED BY <1>0, <1>1, <1>2, <1>3, <1>4, SumIsInt DEF Numbers

\* One value replaced.
LEMMA SumReplaced ==
  ASSUME NEW D, NEW f, Numbers(f, D), NEW x \in D, NEW h, Numbers(h, D),
         \A y \in D : y # x => h[y] = f[y]
  PROVE  SumOf(h) = SumOf(f) - f[x] + h[x]
<1>1. PICK E : E = D \ {x}
  OBVIOUS
<1>2. Less(E, D, x) /\ E \subseteq D
  BY <1>1 DEF Less
<1>3. Numbers(Part(f, E), E) /\ Agree(Part(f, E), f, E) /\ Agree(Part(f, E), h, E)
  BY <1>1, <1>2, PartOf DEF Agree
<1>4. SumOf(f) = f[x] + SumOf(Part(f, E)) /\ SumOf(h) = h[x] + SumOf(Part(f, E))
  BY <1>2, <1>3, SumWithout
<1>5. SumOf(Part(f, E)) \in Int /\ f[x] \in Int /\ h[x] \in Int
  BY <1>3, SumIsInt DEF Numbers
<1> QED BY <1>4, <1>5

\* A function that adds two others up.
Adds(b, f, h, D) == \A x \in D : b[x] = f[x] + h[x]

\* Sums are added up value by value.
LEMMA SumAdded ==
  ASSUME NEW D, NEW p, Numbers(p, D), NEW q, Numbers(q, D), NEW b, Numbers(b, D),
         Adds(b, p, q, D)
  PROVE  SumOf(b) = SumOf(p) + SumOf(q)
<1> DEFINE P == {s \in SUBSET D : SumOf(Part(b, s)) = SumOf(Part(p, s)) + SumOf(Part(q, s))}
<1>1. ASSUME NEW s \in SUBSET D, \A t \in SUBSET s : t # s => t \in P PROVE s \in P
  <2>1. CASE s = {}
    <3>1. SumOf(Part(b, s)) = 0 /\ SumOf(Part(p, s)) = 0 /\ SumOf(Part(q, s)) = 0
      <4>1. Numbers(Part(b, s), s) /\ Numbers(Part(p, s), s) /\ Numbers(Part(q, s), s)
        BY PartOf
      <4> QED BY <2>1, <4>1, SumIsInt
    <3> QED BY <3>1
  <2>2. CASE s # {}
    <3>1. PICK x : x \in s
      BY <2>2
    <3>2. PICK t : t = s \ {x}
      OBVIOUS
    <3>3. SumOf(Part(b, t)) = SumOf(Part(p, t)) + SumOf(Part(q, t))
      BY <1>1, <3>1, <3>2
    <3>4. Takes(p, D, s, x, t) /\ Takes(q, D, s, x, t) /\ Takes(b, D, s, x, t) /\ x \in D
      BY <3>1, <3>2 DEF Less, Takes
    <3>5. SumOf(Part(p, s)) = p[x] + SumOf(Part(p, t)) /\ SumOf(Part(p, t)) \in Int /\ p[x] \in Int
      BY <3>4, SumOfLess
    <3>6. SumOf(Part(q, s)) = q[x] + SumOf(Part(q, t)) /\ SumOf(Part(q, t)) \in Int /\ q[x] \in Int
      BY <3>4, SumOfLess
    <3>7. SumOf(Part(b, s)) = b[x] + SumOf(Part(b, t)) /\ b[x] = p[x] + q[x]
      BY <3>4, SumOfLess DEF Adds
    <3>8. SumOf(Part(b, s)) = SumOf(Part(p, s)) + SumOf(Part(q, s))
      BY <3>3, <3>5, <3>6, <3>7
    <3> QED BY <3>8
  <2> QED BY <2>1, <2>2
<1>2. P = SUBSET D
  <2>1. P \in SUBSET (SUBSET D) /\ IsFiniteSet(D)
    BY DEF Numbers
  <2> HIDE DEF P
  <2> QED BY <1>1, <2>1, AllSubsets
<1>3. D \in P
  BY <1>2
<1>4. Part(b, D) = b /\ Part(p, D) = p /\ Part(q, D) = q
  BY PartOf
<1> QED BY <1>3, <1>4

\* A sum of naturals is one, and no value exceeds it.
LEMMA SumIsNat ==
  ASSUME NEW D, NEW f, Numbers(f, D), \A x \in D : f[x] >= 0
  PROVE  SumOf(f) \in Nat /\ \A x \in D : f[x] <= SumOf(f)
<1> DEFINE P == {s \in SUBSET D : SumOf(Part(f, s)) >= 0}
<1>1. ASSUME NEW s \in SUBSET D, \A t \in SUBSET s : t # s => t \in P PROVE s \in P
  <2>1. CASE s = {}
    <3>1. SumOf(Part(f, s)) = 0
      BY <2>1, PartOf, SumIsInt
    <3> QED BY <3>1
  <2>2. CASE s # {}
    <3>1. PICK x : x \in s
      BY <2>2
    <3>2. PICK t : t = s \ {x}
      OBVIOUS
    <3>3. SumOf(Part(f, t)) >= 0
      BY <1>1, <3>1, <3>2
    <3>4. Takes(f, D, s, x, t) /\ f[x] >= 0
      BY <3>1, <3>2 DEF Less, Takes
    <3>5. SumOf(Part(f, s)) = f[x] + SumOf(Part(f, t)) /\ SumOf(Part(f, t)) \in Int /\ f[x] \in Int
      BY <3>4, SumOfLess
    <3>6. SumOf(Part(f, s)) >= 0
      BY <3>3, <3>4, <3>5
    <3> QED BY <3>6
  <2> QED BY <2>1, <2>2
<1>2. P = SUBSET D
  <2>1. P \in SUBSET (SUBSET D) /\ IsFiniteSet(D)
    BY DEF Numbers
  <2> HIDE DEF P
  <2> QED BY <1>1, <2>1, AllSubsets
<1>3. SumOf(f) \in Int
  BY SumIsInt
<1>4. ASSUME NEW s \in SUBSET D PROVE SumOf(Part(f, s)) >= 0
  BY <1>2
<1>5. Part(f, D) = f
  BY PartOf
<1>6. ASSUME NEW x \in D PROVE f[x] <= SumOf(f)
  <2>1. PICK t : t = D \ {x}
    OBVIOUS
  <2>2. SumOf(Part(f, t)) >= 0 /\ Takes(f, D, D, x, t)
    BY <1>4, <2>1 DEF Less, Takes
  <2>3. SumOf(Part(f, D)) = f[x] + SumOf(Part(f, t)) /\ SumOf(Part(f, t)) \in Int /\ f[x] \in Int
    BY <2>2, SumOfLess
  <2> QED BY <1>5, <2>2, <2>3
<1>7. SumOf(Part(f, D)) >= 0
  BY <1>4
<1> QED BY <1>3, <1>5, <1>6, <1>7

\* The sum of nothing but zeros.
LEMMA SumOfZeros ==
  ASSUME NEW D, NEW f, Numbers(f, D), \A x \in D : f[x] = 0
  PROVE  SumOf(f) = 0
<1>1. Adds(f, f, f, D)
  BY DEF Numbers, Adds
<1>2. SumOf(f) = SumOf(f) + SumOf(f)
  BY <1>1, SumAdded
<1> QED BY <1>2, SumIsInt

\* The sum of two.
LEMMA SumOfTwo ==
  ASSUME NEW a, NEW b, a # b, NEW f \in [{a, b} -> Int]
  PROVE  SumOf(f) = f[a] + f[b]
<1>1. Numbers(f, {a, b})
  <2>1. IsFiniteSet({b})
    BY FS_Singleton
  <2>2. {a, b} = {b} \cup {a}
    OBVIOUS
  <2>3. IsFiniteSet({a, b})
    BY <2>1, <2>2, FS_AddElement
  <2> QED BY <2>3 DEF Numbers
<1>2. PICK A, B, C : A = {a, b} /\ B = {b} /\ C = {}
  OBVIOUS
<1>4. Numbers(f, A)
  BY <1>1, <1>2
<1>3. Takes(f, A, A, a, B) /\ Takes(f, A, B, b, C) /\ C \subseteq A
  BY <1>2, <1>4 DEF Less, Takes
<1>5. SumOf(Part(f, A)) = f[a] + SumOf(Part(f, B)) /\ f[a] \in Int
  BY <1>3, <1>4, SumOfLess
<1>6. SumOf(Part(f, B)) = f[b] + SumOf(Part(f, C)) /\ f[b] \in Int
  BY <1>3, <1>4, SumOfLess
<1>7. SumOf(Part(f, C)) = 0 /\ Part(f, A) = f
  BY <1>2, <1>3, <1>4, PartOf, SumIsInt
<1> QED BY <1>5, <1>6, <1>7
-----------------------------------------------------------------------------
(* What the ledgers and the pages keep.                                    *)

\* The inductive invariant.  What is sold on account has a customer; the sales of a
\* shift keep to the bound; before the lock a customer owes his sales of the shift.
CreditHasCustomer == \A s \in Shift, m \in CreditMethod : sold[s][m][None] = 0
SalesBounded == \A s \in Shift : SoldIn(s) <= MaxSold
SalesOwedOnce ==
    \A s \in Shift, c \in Customer :
        status[s] # "LOCKED" => debt[c][s] = sold[s]["CREDIT"][c] + sold[s]["FLEET"][c]
\* The receivable is the total of the balances.
Receivable == books["1100"] = SumOf([c \in Customer |-> Balance(c)])
\* A page shows the present totals of a shift that is closed to sales.
PagesCurrent ==
    \A d \in Desk : Shown(d) => /\ status[desk[d].shift] # "OPEN"
                                /\ desk[d].expected = Presented(desk[d].shift)
Ledgers == /\ TypeOK /\ CreditHasCustomer /\ SalesBounded /\ SalesOwedOnce
           /\ AssignedCreditIsOwedOnce /\ Receivable
DeskOK == Ledgers /\ DeskTypeOK /\ PagesCurrent
\* An account within its limit, still fit for every sale on credit made to it.
Fits(c) ==
    /\ Balance(c) <= customer[c].limit
    /\ \A s \in Shift, m \in CreditMethod :
         sold[s][m][c] > 0 => customer[c].active /\ Accepts(c, m)
\* So it is until it is edited or removed.
UntouchedFit == \A c \in Customer \ touched : Fits(c)
IInv == DeskOK /\ UntouchedFit

\* The tables of the customer ledger, and the columns of the sales.
Debts == [Customer -> [Shift -> Nat]]
Payers == Customer \cup {None}

\* The sets that are summed over are finite.
LEMMA FiniteParties ==
  /\ IsFiniteSet(Customer) /\ IsFiniteSet(Payers) /\ IsFiniteSet(Shift)
  /\ IsFiniteSet(Method) /\ IsFiniteSet(CreditMethod)
  /\ Less(Customer, Payers, None) /\ Customer \subseteq Payers
  /\ Method = {"CREDIT", "FLEET", "PAID"} /\ CreditMethod = {"CREDIT", "FLEET"}
<1>1. IsFiniteSet(Payers)
  BY CustomerAssumption, FS_AddElement DEF Payers
<1>2. IsFiniteSet({"FLEET"}) /\ CreditMethod = {"FLEET"} \cup {"CREDIT"}
  BY FS_Singleton DEF CreditMethod
<1>3. IsFiniteSet(CreditMethod)
  BY <1>2, FS_AddElement
<1>4. IsFiniteSet(Method)
  BY <1>3, FS_AddElement DEF Method
<1>5. Less(Customer, Payers, None) /\ Customer \subseteq Payers
  BY CustomerAssumption DEF Payers, Less
<1>6. Method = {"CREDIT", "FLEET", "PAID"} /\ CreditMethod = {"CREDIT", "FLEET"}
  BY DEF Method, CreditMethod
<1> QED BY <1>1, <1>3, <1>4, <1>5, <1>6, CustomerAssumption

\* The rows of one shift, totalled by method.
LEMMA ByMethod ==
  ASSUME NEW f \in Totals
  PROVE  /\ \A m \in Method : Numbers(f[m], Payers) /\ SumOf(f[m]) \in Nat
         /\ Numbers([m \in Method |-> SumOf(f[m])], Method)
         /\ SumOf([m \in Method |-> SumOf(f[m])]) \in Nat
         /\ \A m \in Method : SumOf(f[m]) <= SumOf([n \in Method |-> SumOf(f[n])])
<1>1. ASSUME NEW m \in Method PROVE Numbers(f[m], Payers) /\ SumOf(f[m]) \in Nat
  <2>1. Numbers(f[m], Payers) /\ \A x \in Payers : f[m][x] >= 0
    BY FiniteParties DEF Totals, Numbers, Payers
  <2> QED BY <2>1, SumIsNat
<1>2. PICK t : t = [m \in Method |-> SumOf(f[m])]
  OBVIOUS
<1>3. Numbers(t, Method) /\ \A m \in Method : t[m] >= 0
  BY <1>1, <1>2, FiniteParties DEF Numbers
<1>4. SumOf(t) \in Nat /\ \A m \in Method : t[m] <= SumOf(t)
  BY <1>3, SumIsNat
<1>5. \A m \in Method : t[m] = SumOf(f[m])
  BY <1>2
<1> QED BY <1>1, <1>2, <1>3, <1>4, <1>5

\* One more sale is its amount on top of the shift's total.
LEMMA OneMore ==
  ASSUME NEW f \in Totals, NEW g \in Totals, NEW m \in Method, NEW c \in Payers, NEW amount \in Nat,
         g[m][c] = f[m][c] + amount,
         \A x \in Payers : x # c => g[m][x] = f[m][x],
         \A n \in Method : n # m => g[n] = f[n]
  PROVE  SumOf([n \in Method |-> SumOf(g[n])]) = SumOf([n \in Method |-> SumOf(f[n])]) + amount
<1>1. Numbers(f[m], Payers) /\ Numbers(g[m], Payers)
  BY ByMethod
<1>2. SumOf(g[m]) = SumOf(f[m]) - f[m][c] + g[m][c]
  BY <1>1, SumReplaced
<1>3. f[m][c] \in Nat /\ SumOf(f[m]) \in Nat
  BY ByMethod DEF Totals, Payers
<1>4. SumOf(g[m]) = SumOf(f[m]) + amount
  BY <1>2, <1>3
<1>5. PICK t, u : t = [n \in Method |-> SumOf(f[n])] /\ u = [n \in Method |-> SumOf(g[n])]
  OBVIOUS
<1>6. Numbers(t, Method) /\ Numbers(u, Method)
  BY <1>5, ByMethod
<1>7. \A n \in Method : t[n] = SumOf(f[n]) /\ u[n] = SumOf(g[n])
  BY <1>5
<1>8. \A n \in Method : n # m => u[n] = t[n]
  BY <1>7
<1>9. SumOf(u) = SumOf(t) - t[m] + u[m]
  BY <1>6, <1>8, SumReplaced
<1>10. SumOf(t) \in Nat
  BY <1>5, ByMethod
<1> QED BY <1>3, <1>4, <1>5, <1>7, <1>9, <1>10

\* What a customer owes.
LEMMA DebtsSum ==
  ASSUME NEW e \in Debts, NEW r \in [Customer -> Nat]
  PROVE  /\ \A c \in Customer : Numbers(e[c], Shift) /\ SumOf(e[c]) \in Nat
         /\ Numbers([c \in Customer |-> SumOf(e[c]) - r[c]], Customer)
<1>1. ASSUME NEW c \in Customer PROVE Numbers(e[c], Shift) /\ SumOf(e[c]) \in Nat
  <2>1. Numbers(e[c], Shift) /\ \A x \in Shift : e[c][x] >= 0
    BY FiniteParties DEF Debts, Numbers
  <2> QED BY <2>1, SumIsNat
<1>2. \A c \in Customer : SumOf(e[c]) - r[c] \in Int
  BY <1>1
<1> QED BY <1>1, <1>2, FiniteParties DEF Numbers

\* One more entry is its amount on top of what the customer owes.
LEMMA OneCharge ==
  ASSUME NEW e \in Debts, NEW d \in Debts, NEW c \in Customer, NEW s \in Shift, NEW amount \in Int,
         d[c][s] = e[c][s] + amount, \A t \in Shift : t # s => d[c][t] = e[c][t]
  PROVE  SumOf(d[c]) = SumOf(e[c]) + amount
<1>1. PICK r : r \in [Customer -> Nat]
  <2>1. [x \in Customer |-> 0] \in [Customer -> Nat]
    OBVIOUS
  <2> QED BY <2>1
<1>2. Numbers(e[c], Shift) /\ Numbers(d[c], Shift) /\ SumOf(e[c]) \in Nat
  BY <1>1, DebtsSum
<1>3. SumOf(d[c]) = SumOf(e[c]) - e[c][s] + d[c][s]
  BY <1>2, SumReplaced
<1>4. e[c][s] \in Nat
  BY DEF Debts
<1> QED BY <1>2, <1>3, <1>4

\* The balance of one customer moved.
LEMMA OneBalance ==
  ASSUME NEW a, Numbers(a, Customer), NEW b, Numbers(b, Customer), NEW c \in Customer, NEW amount \in Int,
         b[c] = a[c] + amount, \A x \in Customer : x # c => b[x] = a[x]
  PROVE  SumOf(b) = SumOf(a) + amount
<1>1. SumOf(b) = SumOf(a) - a[c] + b[c]
  BY SumReplaced
<1>2. SumOf(a) \in Int /\ a[c] \in Int
  BY SumIsInt DEF Numbers
<1> QED BY <1>1, <1>2
-----------------------------------------------------------------------------
\* Nothing of shifts and ledgers is written.
Quiet == UNCHANGED <<status, sold, allocated, debt, received, books>>

\* A step that writes customers and requests only keeps the ledgers.
LEMMA QuietKept ==
  ASSUME Ledgers, Quiet, TypeOK'
  PROVE  Ledgers'
<1>1. CreditHasCustomer' /\ SalesBounded'
  BY DEF Ledgers, Quiet, CreditHasCustomer, SalesBounded, SoldIn, Expected
<1>2. SalesOwedOnce' /\ AssignedCreditIsOwedOnce'
  BY DEF Ledgers, Quiet, SalesOwedOnce, AssignedCreditIsOwedOnce
<1>3. Receivable'
  BY DEF Ledgers, Quiet, Receivable, Balance
<1> QED BY <1>1, <1>2, <1>3 DEF Ledgers

\* A balance is a number.
LEMMA BalancesAre ==
  ASSUME TypeOK
  PROVE  /\ debt \in Debts /\ received \in [Customer -> Nat]
         /\ \A c \in Customer : Balance(c) = SumOf(debt[c]) - received[c] /\ Balance(c) \in Int
         /\ Numbers([c \in Customer |-> Balance(c)], Customer)
<1>1. debt \in Debts /\ received \in [Customer -> Nat]
  BY DEF TypeOK, Debts
<1>2. \A c \in Customer : SumOf(debt[c]) \in Nat
  BY <1>1, DebtsSum
<1>3. Numbers([c \in Customer |-> SumOf(debt[c]) - received[c]], Customer)
  BY <1>1, DebtsSum
<1>4. Numbers([c \in Customer |-> Balance(c)], Customer)
  BY <1>3 DEF Balance
<1> QED BY <1>1, <1>2, <1>4 DEF Balance

\* When the balance of one customer and the receivable move together.
LEMMA ReceivableMoved ==
  ASSUME Receivable, TypeOK, debt' \in Debts, received' \in [Customer -> Nat],
         NEW c \in Customer, NEW amount \in Int,
         Balance(c)' = Balance(c) + amount,
         \A x \in Customer : x # c => Balance(x)' = Balance(x),
         books'["1100"] = books["1100"] + amount
  PROVE  Receivable'
<1>1. Numbers([x \in Customer |-> SumOf(debt'[x]) - received'[x]], Customer)
  BY DebtsSum
<1>2. PICK a : a = [x \in Customer |-> Balance(x)]
  OBVIOUS
<1>3. PICK b : b = [x \in Customer |-> Balance(x)']
  OBVIOUS
<1>4. Numbers(a, Customer)
  BY <1>2, BalancesAre
<1>5. Numbers(b, Customer)
  BY <1>1, <1>3 DEF Balance
<1>6. b[c] = a[c] + amount /\ \A x \in Customer : x # c => b[x] = a[x]
  BY <1>2, <1>3
<1>7. SumOf(b) = SumOf(a) + amount
  BY <1>4, <1>5, <1>6, OneBalance
<1>8. books["1100"] = SumOf(a)
  BY <1>2 DEF Receivable
<1>9. books'["1100"] = SumOf(b)
  BY <1>7, <1>8
<1> QED BY <1>3, <1>9 DEF Receivable

\* When no balance and not the receivable moves.
LEMMA ReceivableStays ==
  ASSUME Receivable, \A x \in Customer : Balance(x)' = Balance(x),
         books'["1100"] = books["1100"]
  PROVE  Receivable'
<1>1. [x \in Customer |-> Balance(x)'] = [x \in Customer |-> Balance(x)]
  OBVIOUS
<1> QED BY <1>1 DEF Receivable

-----------------------------------------------------------------------------
(* A sale.                                                                 *)
\* What a sale writes, row by row.
LEMMA SellWrites ==
  ASSUME Ledgers, NEW s \in Shift, NEW m \in Method, NEW c \in Payers, NEW amount \in Amount,
         Sell(s, m, c, amount)
  PROVE  /\ amount \in Nat /\ status[s] = "OPEN" /\ SoldIn(s) + amount <= MaxSold
         /\ m \in CreditMethod => c \in Customer /\ WithinLimit(c, amount)
         /\ sold' \in [Shift -> Totals] /\ debt' \in Debts /\ books' \in [Account -> Int]
         /\ \A t \in Shift : t # s => sold'[t] = sold[t]
         /\ sold'[s][m][c] = sold[s][m][c] + amount
         /\ \A x \in Payers : x # c => sold'[s][m][x] = sold[s][m][x]
         /\ \A n \in Method : n # m => sold'[s][n] = sold[s][n]
         /\ m \notin CreditMethod => debt' = debt /\ books'["1100"] = books["1100"]
         /\ m \in CreditMethod =>
              /\ debt'[c][s] = debt[c][s] + amount
              /\ \A t \in Shift : t # s => debt'[c][t] = debt[c][t]
              /\ \A x \in Customer : x # c => debt'[x] = debt[x]
              /\ books'["1100"] = books["1100"] + amount
<1>1. amount \in Nat /\ status[s] = "OPEN" /\ SoldIn(s) + amount <= MaxSold
  BY AmountAssumption DEF Sell, TakesSales
<1>2. m \in CreditMethod => c \in Customer /\ WithinLimit(c, amount)
  BY DEF Sell, Payers
<1>3. sold \in [Shift -> [Method -> [Payers -> Nat]]] /\ debt \in Debts /\ books \in [Account -> Int]
  BY DEF Ledgers, TypeOK, Totals, Payers, Debts
<1>4. sold' = [sold EXCEPT ![s][m][c] = @ + amount]
  BY DEF Sell
<1>5. /\ sold' \in [Shift -> [Method -> [Payers -> Nat]]]
      /\ \A t \in Shift : t # s => sold'[t] = sold[t]
      /\ sold'[s][m][c] = sold[s][m][c] + amount
      /\ \A x \in Payers : x # c => sold'[s][m][x] = sold[s][m][x]
      /\ \A n \in Method : n # m => sold'[s][n] = sold[s][n]
  BY <1>1, <1>3, <1>4
<1>6. CASE m \in CreditMethod
  <2>1. debt' = [debt EXCEPT ![c][s] = @ + amount] /\ c \in Customer
    BY <1>2, <1>6 DEF Sell, Charged
  <2>2. books' = [[books EXCEPT !["1100"] = @ + amount] EXCEPT !["4000"] = @ - amount]
    BY <1>6 DEF Sell, Posted, CollectionAccount
  <2>3. books' \in [Account -> Int] /\ books'["1100"] = books["1100"] + amount
    BY <1>1, <1>3, <2>2 DEF Account
  <2>4. /\ debt' \in Debts /\ debt'[c][s] = debt[c][s] + amount
        /\ \A t \in Shift : t # s => debt'[c][t] = debt[c][t]
        /\ \A x \in Customer : x # c => debt'[x] = debt[x]
    BY <1>1, <1>3, <2>1 DEF Debts
  <2> QED BY <1>1, <1>2, <1>5, <1>6, <2>3, <2>4 DEF Totals, Payers
<1>7. CASE m \notin CreditMethod
  <2>1. debt' = debt
    BY <1>7 DEF Sell
  <2>2. books' = [[books EXCEPT !["1000"] = @ + amount] EXCEPT !["4000"] = @ - amount]
    BY <1>7 DEF Sell, Posted, CollectionAccount
  <2>3. books' \in [Account -> Int] /\ books'["1100"] = books["1100"]
    BY <1>1, <1>3, <2>2 DEF Account
  <2> QED BY <1>1, <1>2, <1>3, <1>5, <1>7, <2>1, <2>3 DEF Totals, Payers
<1> QED BY <1>6, <1>7

\* A sale keeps the ledgers: on account it moves one debt and the receivable
\* alike.
LEMMA SellKept ==
  ASSUME Ledgers, NEW s \in Shift, NEW m \in Method, NEW c \in Payers, NEW amount \in Amount,
         Sell(s, m, c, amount)
  PROVE  Ledgers'
<1>0. amount \in Nat /\ status[s] = "OPEN" /\ SoldIn(s) + amount <= MaxSold
  BY SellWrites
<1>1. UNCHANGED <<customer, status, allocated, received, removing, paying, touched, updates>>
  BY DEF Sell, jobs
<1>2. /\ sold' \in [Shift -> Totals] /\ debt' \in Debts /\ books' \in [Account -> Int]
      /\ \A t \in Shift : t # s => sold'[t] = sold[t]
  BY SellWrites
<1>3. TypeOK'
  BY <1>1, <1>2 DEF Ledgers, TypeOK, Debts
<1>4. sold \in [Shift -> Totals]
  BY DEF Ledgers, TypeOK
<1>5. /\ sold'[s][m][c] = sold[s][m][c] + amount
      /\ \A x \in Payers : x # c => sold'[s][m][x] = sold[s][m][x]
      /\ \A n \in Method : n # m => sold'[s][n] = sold[s][n]
  BY SellWrites
<1>6. CreditHasCustomer'
  <2> SUFFICES ASSUME NEW t \in Shift, NEW n \in CreditMethod PROVE sold'[t][n][None] = 0
    BY DEF CreditHasCustomer
  <2>1. sold[t][n][None] = 0 /\ n \in Method /\ None \in Payers
    BY DEF Ledgers, CreditHasCustomer, Method, Payers
  <2>2. n = m => c # None
    BY SellWrites, CustomerAssumption
  <2> QED BY <1>2, <1>5, <2>1, <2>2
<1>7. SalesBounded'
  <2> SUFFICES ASSUME NEW t \in Shift PROVE SoldIn(t)' <= MaxSold
    BY DEF SalesBounded
  <2>1. CASE t # s
    BY <1>2, <2>1 DEF Ledgers, SalesBounded, SoldIn, Expected
  <2>2. CASE t = s
    <3>1. SumOf([n \in Method |-> SumOf(sold'[s][n])]) = SumOf([n \in Method |-> SumOf(sold[s][n])]) + amount
      <4>1. PICK f, g : f = sold[s] /\ g = sold'[s]
        OBVIOUS
      <4>2. /\ f \in Totals /\ g \in Totals /\ g[m][c] = f[m][c] + amount
            /\ \A x \in Payers : x # c => g[m][x] = f[m][x]
            /\ \A n \in Method : n # m => g[n] = f[n]
        BY <1>2, <1>4, <1>5, <4>1
      <4>3. SumOf([n \in Method |-> SumOf(g[n])]) = SumOf([n \in Method |-> SumOf(f[n])]) + amount
        BY <1>0, <4>2, OneMore
      <4> QED BY <4>1, <4>3
    <3>2. SoldIn(s)' = SoldIn(s) + amount
      BY <3>1 DEF SoldIn, Expected
    <3> QED BY <1>0, <2>2, <3>2
  <2> QED BY <2>1, <2>2
<1>8. SalesOwedOnce'
  <2> SUFFICES ASSUME NEW t \in Shift, NEW x \in Customer, status[t] # "LOCKED"
               PROVE  debt'[x][t] = sold'[t]["CREDIT"][x] + sold'[t]["FLEET"][x]
    BY <1>1 DEF SalesOwedOnce
  <2>1. /\ debt[x][t] = sold[t]["CREDIT"][x] + sold[t]["FLEET"][x]
        /\ sold[t]["CREDIT"][x] \in Nat /\ sold[t]["FLEET"][x] \in Nat
        /\ x \in Payers
    BY <1>4 DEF Ledgers, SalesOwedOnce, Totals, Method, CreditMethod, Payers
  <2>2. CASE t # s
    <3>1. debt'[x][t] = debt[x][t]
      BY <2>2, SellWrites
    <3> QED BY <1>2, <2>1, <2>2, <3>1
  <2>3. CASE t = s /\ m \notin CreditMethod
    <3>1. debt' = debt /\ m # "CREDIT" /\ m # "FLEET"
      BY <2>3, SellWrites DEF CreditMethod
    <3>2. sold'[s]["CREDIT"] = sold[s]["CREDIT"] /\ sold'[s]["FLEET"] = sold[s]["FLEET"]
      BY <1>5, <3>1 DEF Method, CreditMethod
    <3> QED BY <2>1, <2>3, <3>1, <3>2
  <2>4. CASE t = s /\ m \in CreditMethod /\ x # c
    <3>1. debt'[x] = debt[x]
      BY <2>4, SellWrites
    <3>2. sold'[s]["CREDIT"][x] = sold[s]["CREDIT"][x] /\ sold'[s]["FLEET"][x] = sold[s]["FLEET"][x]
      BY <1>5, <2>1, <2>4 DEF Method, CreditMethod
    <3> QED BY <2>1, <2>4, <3>1, <3>2
  <2>5. CASE t = s /\ m \in CreditMethod /\ x = c
    <3>1. debt'[x][s] = debt[x][s] + amount
      BY <2>5, SellWrites
    <3>2. \/ m = "CREDIT" /\ sold'[s]["FLEET"] = sold[s]["FLEET"]
          \/ m = "FLEET" /\ sold'[s]["CREDIT"] = sold[s]["CREDIT"]
      BY <1>5, <2>5 DEF Method, CreditMethod
    <3> QED BY <1>0, <1>5, <2>1, <2>5, <3>1, <3>2
  <2> QED BY <2>2, <2>3, <2>4, <2>5
<1>9. AssignedCreditIsOwedOnce'
  <2> SUFFICES ASSUME NEW t \in Shift, NEW x \in Customer, status[t] = "LOCKED"
               PROVE  debt'[x][t] = allocated[t]["CREDIT"][x] + allocated[t]["FLEET"][x]
    BY <1>1 DEF AssignedCreditIsOwedOnce
  <2>1. t # s
    BY <1>0
  <2>2. debt'[x][t] = debt[x][t]
    BY <2>1, SellWrites
  <2> QED BY <2>2 DEF Ledgers, AssignedCreditIsOwedOnce
<1>10. Receivable'
  <2>1. CASE m \notin CreditMethod
    <3>1. \A x \in Customer : Balance(x)' = Balance(x)
      BY <1>1, <2>1, SellWrites DEF Balance
    <3>2. books'["1100"] = books["1100"]
      BY <2>1, SellWrites
    <3> QED BY <3>1, <3>2, ReceivableStays DEF Ledgers
  <2>2. CASE m \in CreditMethod
    <3>1. c \in Customer /\ debt'[c][s] = debt[c][s] + amount
          /\ \A t \in Shift : t # s => debt'[c][t] = debt[c][t]
      BY <2>2, SellWrites
    <3>2. debt \in Debts /\ received \in [Customer -> Nat] /\ SumOf(debt[c]) \in Nat
      BY <3>1, BalancesAre, DebtsSum DEF Ledgers
    <3>3. SumOf(debt'[c]) = SumOf(debt[c]) + amount
      BY <1>0, <1>2, <3>1, <3>2, OneCharge
    <3>4. received[c] \in Nat /\ received' = received
      BY <1>1, <3>1, <3>2
    <3>5. Balance(c)' = Balance(c) + amount
      BY <1>0, <3>2, <3>3, <3>4 DEF Balance
    <3>6. \A x \in Customer : x # c => Balance(x)' = Balance(x)
      BY <1>1, <2>2, SellWrites DEF Balance
    <3>7. books'["1100"] = books["1100"] + amount /\ received' \in [Customer -> Nat]
      BY <2>2, <3>2, <3>4, SellWrites
    <3> QED BY <1>0, <1>2, <3>1, <3>5, <3>6, <3>7, ReceivableMoved DEF Ledgers
  <2> QED BY <2>1, <2>2
<1> QED BY <1>3, <1>6, <1>7, <1>8, <1>9, <1>10 DEF Ledgers
-----------------------------------------------------------------------------
(* The close of a shift.                                                   *)
\* What the close writes, row by row: its sale is paid.
LEMMA CloseWrites ==
  ASSUME Ledgers, NEW s \in Shift, NEW unrecorded \in Amount \cup {0}, CloseShift(s, unrecorded)
  PROVE  /\ unrecorded \in Nat /\ status[s] = "OPEN" /\ SoldIn(s) + unrecorded <= MaxSold
         /\ sold' \in [Shift -> Totals] /\ books' \in [Account -> Int]
         /\ books'["1100"] = books["1100"]
         /\ \A t \in Shift : t # s => sold'[t] = sold[t] /\ status'[t] = status[t]
         /\ status' \in [Shift -> {"OPEN", "RECONCILIATION_REQUIRED", "LOCKED"}]
         /\ status'[s] = "RECONCILIATION_REQUIRED"
         /\ sold'[s]["PAID"][None] = sold[s]["PAID"][None] + unrecorded
         /\ \A x \in Payers : x # None => sold'[s]["PAID"][x] = sold[s]["PAID"][x]
         /\ \A n \in Method : n # "PAID" => sold'[s][n] = sold[s][n]
         /\ UNCHANGED <<customer, allocated, debt, received, removing, paying, touched, updates>>
<1>1. unrecorded \in Nat /\ status[s] = "OPEN" /\ SoldIn(s) + unrecorded <= MaxSold
  BY AmountAssumption DEF CloseShift
<1>2. /\ sold \in [Shift -> [Method -> [Payers -> Nat]]] /\ books \in [Account -> Int]
      /\ status \in [Shift -> {"OPEN", "RECONCILIATION_REQUIRED", "LOCKED"}]
      /\ "PAID" \in Method /\ None \in Payers
  BY DEF Ledgers, TypeOK, Totals, Payers, Method
<1>3. sold' = [sold EXCEPT ![s]["PAID"][None] = @ + unrecorded]
  BY DEF CloseShift
<1>4. status' = [status EXCEPT ![s] = "RECONCILIATION_REQUIRED"]
  BY DEF CloseShift
<1>5. books' = [[books EXCEPT !["1000"] = @ + unrecorded] EXCEPT !["4000"] = @ - unrecorded]
  BY DEF CloseShift, Posted
<1>6. books' \in [Account -> Int] /\ books'["1100"] = books["1100"]
  BY <1>1, <1>2, <1>5 DEF Account
<1>7. /\ status' \in [Shift -> {"OPEN", "RECONCILIATION_REQUIRED", "LOCKED"}]
      /\ status'[s] = "RECONCILIATION_REQUIRED"
      /\ \A t \in Shift : t # s => status'[t] = status[t]
  BY <1>2, <1>4
<1>8. /\ sold' \in [Shift -> [Method -> [Payers -> Nat]]]
      /\ \A t \in Shift : t # s => sold'[t] = sold[t]
      /\ sold'[s]["PAID"][None] = sold[s]["PAID"][None] + unrecorded
      /\ \A x \in Payers : x # None => sold'[s]["PAID"][x] = sold[s]["PAID"][x]
      /\ \A n \in Method : n # "PAID" => sold'[s][n] = sold[s][n]
  BY <1>1, <1>2, <1>3
<1>9. UNCHANGED <<customer, allocated, debt, received, removing, paying, touched, updates>>
  BY DEF CloseShift, jobs
<1> QED BY <1>1, <1>6, <1>7, <1>8, <1>9 DEF Totals, Payers

\* The close keeps the ledgers: it touches no debt.
LEMMA CloseKept ==
  ASSUME Ledgers, NEW s \in Shift, NEW unrecorded \in Amount \cup {0}, CloseShift(s, unrecorded)
  PROVE  Ledgers'
<1>0. unrecorded \in Nat /\ status[s] = "OPEN" /\ SoldIn(s) + unrecorded <= MaxSold
  BY CloseWrites
<1>1. UNCHANGED <<customer, allocated, debt, received, removing, paying, touched, updates>>
  BY CloseWrites
<1>2. /\ sold' \in [Shift -> Totals] /\ books' \in [Account -> Int]
      /\ status' \in [Shift -> {"OPEN", "RECONCILIATION_REQUIRED", "LOCKED"}]
      /\ status'[s] = "RECONCILIATION_REQUIRED"
      /\ \A t \in Shift : t # s => sold'[t] = sold[t] /\ status'[t] = status[t]
  BY CloseWrites
<1>3. TypeOK'
  BY <1>1, <1>2 DEF Ledgers, TypeOK
<1>4. sold \in [Shift -> Totals]
  BY DEF Ledgers, TypeOK
<1>5. /\ sold'[s]["PAID"][None] = sold[s]["PAID"][None] + unrecorded
      /\ \A x \in Payers : x # None => sold'[s]["PAID"][x] = sold[s]["PAID"][x]
      /\ \A n \in Method : n # "PAID" => sold'[s][n] = sold[s][n]
  BY CloseWrites
<1>6. \A t \in Shift, n \in CreditMethod : sold'[t][n] = sold[t][n]
  BY <1>2, <1>5 DEF Method, CreditMethod
<1>7. CreditHasCustomer'
  BY <1>6 DEF Ledgers, CreditHasCustomer
<1>8. SalesBounded'
  <2> SUFFICES ASSUME NEW t \in Shift PROVE SoldIn(t)' <= MaxSold
    BY DEF SalesBounded
  <2>1. CASE t # s
    BY <1>2, <2>1 DEF Ledgers, SalesBounded, SoldIn, Expected
  <2>2. CASE t = s
    <3>1. SumOf([n \in Method |-> SumOf(sold'[s][n])]) = SumOf([n \in Method |-> SumOf(sold[s][n])]) + unrecorded
      <4>1. PICK f, g, m : f = sold[s] /\ g = sold'[s] /\ m = "PAID"
        OBVIOUS
      <4>2. /\ f \in Totals /\ g \in Totals /\ g[m][None] = f[m][None] + unrecorded
            /\ \A x \in Payers : x # None => g[m][x] = f[m][x]
            /\ \A n \in Method : n # m => g[n] = f[n]
            /\ m \in Method /\ None \in Payers
        BY <1>2, <1>4, <1>5, <4>1 DEF Payers, Method
      <4>3. SumOf([n \in Method |-> SumOf(g[n])]) = SumOf([n \in Method |-> SumOf(f[n])]) + unrecorded
        BY <1>0, <4>2, OneMore
      <4> QED BY <4>1, <4>3
    <3>2. SoldIn(s)' = SoldIn(s) + unrecorded
      BY <3>1 DEF SoldIn, Expected
    <3> QED BY <1>0, <2>2, <3>2
  <2> QED BY <2>1, <2>2
<1>9. \A t \in Shift : (status'[t] = "LOCKED" <=> status[t] = "LOCKED")
  BY <1>0, <1>2
<1>10. SalesOwedOnce'
  BY <1>1, <1>6, <1>9 DEF Ledgers, SalesOwedOnce, CreditMethod
<1>11. AssignedCreditIsOwedOnce'
  BY <1>1, <1>9 DEF Ledgers, AssignedCreditIsOwedOnce
<1>12. Receivable'
  <2>1. \A x \in Customer : Balance(x)' = Balance(x)
    BY <1>1 DEF Balance
  <2>2. books'["1100"] = books["1100"]
    BY CloseWrites
  <2> QED BY <2>1, <2>2, ReceivableStays DEF Ledgers
<1> QED BY <1>3, <1>7, <1>8, <1>10, <1>11, <1>12 DEF Ledgers

-----------------------------------------------------------------------------
(* A receipt.                                                              *)
\* What a receipt writes.
LEMMA ReceiptWrites ==
  ASSUME Ledgers, NEW c \in Customer, NEW amount \in Amount, PostReceipt(c, amount)
  PROVE  /\ amount \in Nat
         /\ received' \in [Customer -> Nat] /\ books' \in [Account -> Int]
         /\ books'["1100"] = books["1100"] - amount
         /\ received'[c] = received[c] + amount
         /\ \A x \in Customer : x # c => received'[x] = received[x]
         /\ paying' \subseteq Customer
         /\ UNCHANGED <<customer, status, sold, allocated, debt, removing, touched, updates>>
<1>1. amount \in Nat
  BY AmountAssumption
<1>2. received \in [Customer -> Nat] /\ books \in [Account -> Int] /\ paying \subseteq Customer
  BY DEF Ledgers, TypeOK
<1>3. received' = [received EXCEPT ![c] = @ + amount] /\ paying' = paying \ {c}
  BY DEF PostReceipt
<1>4. books' = [[books EXCEPT !["1000"] = @ + amount] EXCEPT !["1100"] = @ - amount]
  BY DEF PostReceipt, Posted
<1>5. books' \in [Account -> Int] /\ books'["1100"] = books["1100"] - amount
  BY <1>1, <1>2, <1>4 DEF Account
<1>6. UNCHANGED <<customer, status, sold, allocated, debt, removing, touched, updates>>
  BY DEF PostReceipt, shiftVars
<1> QED BY <1>1, <1>2, <1>3, <1>5, <1>6

\* A receipt keeps the ledgers: it moves one balance and the receivable alike.
LEMMA ReceiptKept ==
  ASSUME Ledgers, NEW c \in Customer, NEW amount \in Amount, PostReceipt(c, amount)
  PROVE  Ledgers'
<1>1. /\ amount \in Nat /\ received' \in [Customer -> Nat] /\ books' \in [Account -> Int]
      /\ books'["1100"] = books["1100"] - amount
      /\ received'[c] = received[c] + amount
      /\ \A x \in Customer : x # c => received'[x] = received[x]
      /\ paying' \subseteq Customer
  BY ReceiptWrites
<1>2. UNCHANGED <<customer, status, sold, allocated, debt, removing, touched, updates>>
  BY ReceiptWrites
<1>3. TypeOK'
  BY <1>1, <1>2 DEF Ledgers, TypeOK
<1>4. CreditHasCustomer' /\ SalesBounded'
  BY <1>2 DEF Ledgers, CreditHasCustomer, SalesBounded, SoldIn, Expected
<1>5. SalesOwedOnce' /\ AssignedCreditIsOwedOnce'
  BY <1>2 DEF Ledgers, SalesOwedOnce, AssignedCreditIsOwedOnce
<1>6. Receivable'
  <2>1. debt' \in Debts /\ received \in [Customer -> Nat] /\ SumOf(debt[c]) \in Nat /\ debt \in Debts
    BY <1>2, BalancesAre, DebtsSum DEF Ledgers
  <2>2. PICK less \in Int : less = -amount
    BY <1>1
  <2>3. Balance(c)' = Balance(c) + less
    BY <1>1, <1>2, <2>1, <2>2 DEF Balance
  <2>4. \A x \in Customer : x # c => Balance(x)' = Balance(x)
    BY <1>1, <1>2 DEF Balance
  <2>5. books'["1100"] = books["1100"] + less
    <3>1. books["1100"] \in Int
      BY DEF Ledgers, TypeOK, Account
    <3> QED BY <1>1, <2>2, <3>1
  <2> QED BY <1>1, <2>1, <2>3, <2>4, <2>5, ReceivableMoved DEF Ledgers
<1> QED BY <1>3, <1>4, <1>5, <1>6 DEF Ledgers
-----------------------------------------------------------------------------
(* A reconciliation.                                                       *)
\* What an assignment gives to whom.
Assigned == [Method -> [Customer -> Nat]]

\* An assignment gives every customer an amount under every method.
LEMMA AssignmentIs ==
  ASSUME NEW a \in Assignment
  PROVE  a \in Assigned
<1>1. PICK f \in [Method \X Customer -> 0..MaxSold] :
        a = [m \in Method |-> [c \in Customer |-> f[m, c]]]
  BY DEF Assignment
<1>2. ASSUME NEW m \in Method, NEW c \in Customer PROVE f[m, c] \in Nat
  <2>1. f[m, c] \in 0..MaxSold
    <3>1. <<m, c>> \in Method \X Customer
      OBVIOUS
    <3> QED BY <3>1
  <2>2. MaxSold \in Nat
    BY AmountAssumption
  <2>3. PICK v : v = f[m, c]
    OBVIOUS
  <2>4. v \in Nat
    <3>1. v \in 0..MaxSold
      BY <2>1, <2>3, Zenon
    <3> QED BY <2>2, <3>1
  <2> QED BY <2>3, <2>4, Zenon
<1> QED BY <1>1, <1>2 DEF Assigned

\* The lesser of two numbers.
LEMMA LesserOf ==
  ASSUME NEW x \in Int, NEW y \in Int, y <= x
  PROVE  Min({x, y}) = y
<1>1. \E z \in {x, y} : \A w \in {x, y} : z <= w
  OBVIOUS
<1>2. Min({x, y}) \in {x, y} /\ \A w \in {x, y} : Min({x, y}) <= w
  BY <1>1 DEF Min
<1> QED BY <1>2

\* What was sold on account, without the column for no customer.
OnAccount(s, m) == [c \in Customer |-> sold[s][m][c]]
\* What an assignment adds to it.
Added(s, a, m) == [c \in Customer |-> a[m][c] - sold[s][m][c]]

\* Nothing is sold on account without a customer, so the total sold by a credit
\* method is the total of its customers.
LEMMA SoldOnAccount ==
  ASSUME Ledgers, NEW s \in Shift, NEW m \in CreditMethod
  PROVE  /\ Numbers(OnAccount(s, m), Customer) /\ Expected(s, m) = SumOf(OnAccount(s, m))
         /\ Expected(s, m) \in Nat /\ m \in Method
         /\ \A c \in Customer : OnAccount(s, m)[c] = sold[s][m][c] /\ sold[s][m][c] \in Nat
<1>1. m \in Method /\ sold[s] \in Totals
  BY DEF Ledgers, TypeOK, Method
<1>2. Numbers(sold[s][m], Payers) /\ SumOf(sold[s][m]) \in Nat
  BY <1>1, ByMethod
<1>3. \A c \in Customer : sold[s][m][c] \in Nat
  BY <1>1 DEF Totals
<1>4. Numbers(OnAccount(s, m), Customer) /\ Agree(OnAccount(s, m), sold[s][m], Customer)
  BY <1>3, FiniteParties DEF OnAccount, Numbers, Agree
<1>5. sold[s][m][None] = 0
  BY DEF Ledgers, CreditHasCustomer
<1>6. SumOf(sold[s][m]) = sold[s][m][None] + SumOf(OnAccount(s, m))
  BY <1>2, <1>4, FiniteParties, SumWithout
<1>7. SumOf(OnAccount(s, m)) \in Int
  BY <1>4, SumIsInt
<1> QED BY <1>1, <1>2, <1>3, <1>4, <1>5, <1>6, <1>7 DEF Expected, OnAccount

\* An assignment that keeps what was recorded adds what it is more.
LEMMA AddedIs ==
  ASSUME Ledgers, NEW s \in Shift, NEW a \in Assigned, KeepsRecorded(s, a), NEW m \in CreditMethod
  PROVE  /\ Numbers(Added(s, a, m), Customer)
         /\ SumOf(Added(s, a, m)) = SumOf(a[m]) - Expected(s, m)
         /\ SumOf(a[m]) \in Int
         /\ \A c \in Customer : /\ Added(s, a, m)[c] = a[m][c] - sold[s][m][c]
                                /\ Added(s, a, m)[c] \in Nat
<1>1. /\ Numbers(OnAccount(s, m), Customer) /\ Expected(s, m) = SumOf(OnAccount(s, m))
      /\ Expected(s, m) \in Nat /\ m \in Method
      /\ \A c \in Customer : OnAccount(s, m)[c] = sold[s][m][c] /\ sold[s][m][c] \in Nat
  BY SoldOnAccount
<1>2. a[m] \in [Customer -> Nat] /\ Numbers(a[m], Customer)
  BY <1>1, FiniteParties DEF Assigned, Numbers
<1>3. \A c \in Customer : a[m][c] >= sold[s][m][c]
  BY <1>1 DEF KeepsRecorded, Existing
<1>4. \A c \in Customer : /\ Added(s, a, m)[c] = a[m][c] - sold[s][m][c]
                          /\ Added(s, a, m)[c] \in Nat
  BY <1>1, <1>2, <1>3 DEF Added
<1>5. Numbers(Added(s, a, m), Customer)
  BY <1>4, FiniteParties DEF Numbers, Added
<1>6. Adds(a[m], OnAccount(s, m), Added(s, a, m), Customer)
  BY <1>1, <1>2, <1>4 DEF Adds
<1>7. SumOf(a[m]) = SumOf(OnAccount(s, m)) + SumOf(Added(s, a, m))
  BY <1>1, <1>2, <1>5, <1>6, SumAdded
<1>8. SumOf(Added(s, a, m)) \in Int /\ SumOf(a[m]) \in Int
  BY <1>2, <1>5, SumIsInt
<1> QED BY <1>1, <1>4, <1>5, <1>7, <1>8

\* The debt reconcile adds is what the credit methods add for the customer.
LEMMA AdditionalDebtIs ==
  ASSUME Ledgers, NEW s \in Shift, NEW a \in Assigned, KeepsRecorded(s, a), NEW c \in Customer
  PROVE  /\ AdditionalDebt(s, a, c) = Added(s, a, "CREDIT")[c] + Added(s, a, "FLEET")[c]
         /\ AdditionalDebt(s, a, c) \in Nat
<1>1. ASSUME NEW m \in CreditMethod
      PROVE  /\ a[m][c] - Min({a[m][c], Existing(s, m, c)}) = Added(s, a, m)[c]
             /\ Added(s, a, m)[c] \in Nat
  <2>1. sold[s][m][c] \in Nat /\ m \in Method
    BY SoldOnAccount
  <2>2. a[m][c] \in Nat /\ a[m][c] >= Existing(s, m, c) /\ Existing(s, m, c) = sold[s][m][c]
    BY <2>1 DEF Assigned, KeepsRecorded, Existing
  <2>3. Min({a[m][c], Existing(s, m, c)}) = sold[s][m][c]
    BY <2>1, <2>2, LesserOf
  <2> QED BY <2>3, AddedIs
<1>2. PICK h : h = [m \in CreditMethod |-> a[m][c] - Min({a[m][c], Existing(s, m, c)})]
  OBVIOUS
<1>3. h \in [CreditMethod -> Int] /\ \A m \in CreditMethod : h[m] = Added(s, a, m)[c]
  BY <1>1, <1>2
<1>4. PICK k, f : k = "CREDIT" /\ f = "FLEET"
  OBVIOUS
<1>5. k # f /\ h \in [{k, f} -> Int] /\ k \in CreditMethod /\ f \in CreditMethod
  BY <1>3, <1>4 DEF CreditMethod
<1>6. SumOf(h) = h[k] + h[f]
  BY <1>5, SumOfTwo
<1>7. SumOf(h) = AdditionalDebt(s, a, c)
  BY <1>2 DEF AdditionalDebt
<1>8. h[k] = Added(s, a, "CREDIT")[c] /\ h[f] = Added(s, a, "FLEET")[c]
  BY <1>3, <1>4, <1>5
<1>9. Added(s, a, "CREDIT")[c] \in Nat /\ Added(s, a, "FLEET")[c] \in Nat
  BY <1>1 DEF CreditMethod
<1> QED BY <1>6, <1>7, <1>8, <1>9

\* The adjustments of the methods are what is added, and the paid methods give
\* it.
LEMMA AdjustmentIs ==
  ASSUME Ledgers, NEW s \in Shift, NEW a \in Assigned, KeepsRecorded(s, a)
  PROVE  /\ Adjustment(s, a)["CREDIT"] = SumOf(Added(s, a, "CREDIT"))
         /\ Adjustment(s, a)["FLEET"] = SumOf(Added(s, a, "FLEET"))
         /\ Adjustment(s, a)["PAID"] = -(SumOf(Added(s, a, "CREDIT")) + SumOf(Added(s, a, "FLEET")))
         /\ SumOf(Added(s, a, "CREDIT")) \in Int /\ SumOf(Added(s, a, "FLEET")) \in Int
<1>1. ASSUME NEW m \in CreditMethod
      PROVE  SumOf(a[m]) - Expected(s, m) = SumOf(Added(s, a, m)) /\ SumOf(Added(s, a, m)) \in Int
  BY AddedIs, SumIsInt
<1>2. PICK moved : moved = [m \in CreditMethod |-> SumOf(a[m]) - Expected(s, m)]
  OBVIOUS
<1>3. Adjustment(s, a) = [m \in Method |-> IF m = "PAID" THEN -SumOf(moved) ELSE moved[m]]
  BY <1>2 DEF Adjustment
<1>4. moved \in [CreditMethod -> Int] /\ \A m \in CreditMethod : moved[m] = SumOf(Added(s, a, m))
  BY <1>1, <1>2
<1>5. PICK k, f : k = "CREDIT" /\ f = "FLEET"
  OBVIOUS
<1>6. k # f /\ moved \in [{k, f} -> Int] /\ k \in CreditMethod /\ f \in CreditMethod
  BY <1>4, <1>5 DEF CreditMethod
<1>7. SumOf(moved) = moved[k] + moved[f]
  BY <1>6, SumOfTwo
<1>8. /\ Adjustment(s, a)["CREDIT"] = moved["CREDIT"] /\ Adjustment(s, a)["FLEET"] = moved["FLEET"]
      /\ Adjustment(s, a)["PAID"] = -SumOf(moved)
  BY <1>3 DEF Method, CreditMethod
<1> QED BY <1>1, <1>4, <1>5, <1>6, <1>7, <1>8

\* What a reconciliation writes, row by row.
LEMMA ReconcileWrites ==
  ASSUME Ledgers, NEW s \in Shift, NEW a \in Assignment, Reconcile(s, a)
  PROVE  /\ a \in Assigned /\ KeepsRecorded(s, a)
         /\ status[s] = "RECONCILIATION_REQUIRED"
         /\ status' \in [Shift -> {"OPEN", "RECONCILIATION_REQUIRED", "LOCKED"}]
         /\ status'[s] = "LOCKED" /\ \A t \in Shift : t # s => status'[t] = status[t]
         /\ allocated' \in [Shift -> Totals]
         /\ \A t \in Shift : t # s => allocated'[t] = allocated[t]
         /\ \A m \in Method, c \in Customer : allocated'[s][m][c] = a[m][c]
         /\ debt' \in Debts
         /\ \A c \in Customer : /\ debt'[c][s] = debt[c][s] + AdditionalDebt(s, a, c)
                                /\ \A t \in Shift : t # s => debt'[c][t] = debt[c][t]
         /\ books' \in [Account -> Int]
         /\ books'["1100"] = books["1100"] + SumOf(Added(s, a, "CREDIT")) + SumOf(Added(s, a, "FLEET"))
         /\ UNCHANGED <<customer, sold, received, removing, paying, touched, updates>>
<1>1. a \in Assigned /\ KeepsRecorded(s, a) /\ status[s] = "RECONCILIATION_REQUIRED"
  BY AssignmentIs DEF Reconcile, Acceptable
<1>2. /\ status \in [Shift -> {"OPEN", "RECONCILIATION_REQUIRED", "LOCKED"}]
      /\ allocated \in [Shift -> Totals] /\ debt \in Debts /\ books \in [Account -> Int]
  BY DEF Ledgers, TypeOK, Debts
<1>3. status' = [status EXCEPT ![s] = "LOCKED"]
  BY DEF Reconcile
<1>4. PICK row : row = [m \in Method |-> [c \in Payers |-> IF c = None THEN 0 ELSE a[m][c]]]
  OBVIOUS
<1>5. allocated' = [allocated EXCEPT ![s] = row]
  BY <1>4 DEF Reconcile, Payers
<1>6. row \in [Method -> [Payers -> Nat]] /\ \A m \in Method, c \in Customer : row[m][c] = a[m][c]
  BY <1>1, <1>4, CustomerAssumption DEF Assigned, Payers
<1>7. row \in Totals
  BY <1>6 DEF Totals, Payers
<1>8. /\ allocated' \in [Shift -> Totals] /\ allocated'[s] = row
      /\ \A t \in Shift : t # s => allocated'[t] = allocated[t]
  BY <1>2, <1>5, <1>7
<1>9. \A c \in Customer : AdditionalDebt(s, a, c) \in Nat
  BY <1>1, AdditionalDebtIs
<1>10. debt' = [c \in Customer |-> [debt[c] EXCEPT ![s] = @ + AdditionalDebt(s, a, c)]]
  BY DEF Reconcile
<1>11. /\ debt' \in [Customer -> [Shift -> Nat]]
       /\ \A c \in Customer : /\ debt'[c][s] = debt[c][s] + AdditionalDebt(s, a, c)
                              /\ \A t \in Shift : t # s => debt'[c][t] = debt[c][t]
  BY <1>2, <1>9, <1>10 DEF Debts
<1>12. PICK u, v, w : u = Adjustment(s, a)["CREDIT"] /\ v = Adjustment(s, a)["FLEET"] /\ w = Adjustment(s, a)["PAID"]
  OBVIOUS
<1>13. /\ u = SumOf(Added(s, a, "CREDIT")) /\ v = SumOf(Added(s, a, "FLEET"))
       /\ u \in Int /\ v \in Int /\ w \in Int
  BY <1>1, <1>12, AdjustmentIs
<1>14. books' = [books EXCEPT !["1100"] = @ + u + v, !["1000"] = @ + w]
  BY <1>12 DEF Reconcile
<1>15. books' \in [Account -> Int] /\ books'["1100"] = books["1100"] + u + v
  BY <1>2, <1>13, <1>14 DEF Account
<1>16. UNCHANGED <<customer, sold, received, removing, paying, touched, updates>>
  BY DEF Reconcile, jobs
<1>17. /\ status' \in [Shift -> {"OPEN", "RECONCILIATION_REQUIRED", "LOCKED"}]
       /\ status'[s] = "LOCKED" /\ \A t \in Shift : t # s => status'[t] = status[t]
  BY <1>2, <1>3
<1>18. books'["1100"] = books["1100"] + SumOf(Added(s, a, "CREDIT")) + SumOf(Added(s, a, "FLEET"))
  BY <1>13, <1>15
<1>19. debt' \in Debts
  BY <1>11 DEF Debts
<1>20. \A m \in Method, c \in Customer : allocated'[s][m][c] = a[m][c]
  BY <1>6, <1>8
<1> QED BY <1>1, <1>8, <1>11, <1>15, <1>16, <1>17, <1>18, <1>19, <1>20

\* Every balance moves by its additional debt.
LEMMA ReconcileBalances ==
  ASSUME Ledgers, NEW s \in Shift, NEW a \in Assignment, Reconcile(s, a), NEW c \in Customer
  PROVE  Balance(c)' = Balance(c) + AdditionalDebt(s, a, c) /\ AdditionalDebt(s, a, c) \in Nat
<1>1. /\ debt' \in Debts /\ received' = received
      /\ debt'[c][s] = debt[c][s] + AdditionalDebt(s, a, c)
      /\ \A t \in Shift : t # s => debt'[c][t] = debt[c][t]
  BY ReconcileWrites
<1>2. AdditionalDebt(s, a, c) \in Nat
  BY ReconcileWrites, AdditionalDebtIs
<1>3. debt \in Debts /\ received \in [Customer -> Nat]
  BY BalancesAre DEF Ledgers
<1>4. SumOf(debt'[c]) = SumOf(debt[c]) + AdditionalDebt(s, a, c)
  BY <1>1, <1>2, <1>3, OneCharge
<1>5. SumOf(debt[c]) \in Nat
  BY <1>3, DebtsSum
<1> QED BY <1>1, <1>2, <1>3, <1>4, <1>5 DEF Balance

\* A reconciliation keeps the ledgers: all balances together move as the
\* receivable does.
LEMMA ReconcileKept ==
  ASSUME Ledgers, NEW s \in Shift, NEW a \in Assignment, Reconcile(s, a)
  PROVE  Ledgers'
<1>1. /\ a \in Assigned /\ KeepsRecorded(s, a) /\ status[s] = "RECONCILIATION_REQUIRED"
      /\ status' \in [Shift -> {"OPEN", "RECONCILIATION_REQUIRED", "LOCKED"}]
      /\ status'[s] = "LOCKED" /\ \A t \in Shift : t # s => status'[t] = status[t]
      /\ allocated' \in [Shift -> Totals]
      /\ \A t \in Shift : t # s => allocated'[t] = allocated[t]
      /\ \A m \in Method, c \in Customer : allocated'[s][m][c] = a[m][c]
  BY ReconcileWrites
<1>2. /\ debt' \in Debts
      /\ \A c \in Customer : /\ debt'[c][s] = debt[c][s] + AdditionalDebt(s, a, c)
                             /\ \A t \in Shift : t # s => debt'[c][t] = debt[c][t]
  BY ReconcileWrites
<1>3. UNCHANGED <<customer, sold, received, removing, paying, touched, updates>>
  BY ReconcileWrites
<1>4. books' \in [Account -> Int]
  BY ReconcileWrites
<1>5. TypeOK'
  BY <1>1, <1>2, <1>3, <1>4 DEF Ledgers, TypeOK, Debts
<1>6. CreditHasCustomer' /\ SalesBounded'
  BY <1>3 DEF Ledgers, CreditHasCustomer, SalesBounded, SoldIn, Expected
<1>7. SalesOwedOnce'
  <2> SUFFICES ASSUME NEW t \in Shift, NEW x \in Customer, status'[t] # "LOCKED"
               PROVE  debt'[x][t] = sold[t]["CREDIT"][x] + sold[t]["FLEET"][x]
    BY <1>3 DEF SalesOwedOnce
  <2>1. t # s /\ status[t] # "LOCKED"
    BY <1>1
  <2> QED BY <1>2, <2>1 DEF Ledgers, SalesOwedOnce
<1>8. AssignedCreditIsOwedOnce'
  <2> SUFFICES ASSUME NEW t \in Shift, NEW x \in Customer, status'[t] = "LOCKED"
               PROVE  debt'[x][t] = allocated'[t]["CREDIT"][x] + allocated'[t]["FLEET"][x]
    BY DEF AssignedCreditIsOwedOnce
  <2>1. CASE t # s
    BY <1>1, <1>2, <2>1 DEF Ledgers, AssignedCreditIsOwedOnce
  <2>2. CASE t = s
    <3>1. debt[x][s] = sold[s]["CREDIT"][x] + sold[s]["FLEET"][x]
      BY <1>1 DEF Ledgers, SalesOwedOnce
    <3>2. debt'[x][s] = debt[x][s] + Added(s, a, "CREDIT")[x] + Added(s, a, "FLEET")[x]
      <4>1. debt[x][s] \in Nat
        BY DEF Ledgers, TypeOK
      <4>2. Added(s, a, "CREDIT")[x] \in Nat /\ Added(s, a, "FLEET")[x] \in Nat
        BY <1>1, AddedIs DEF CreditMethod
      <4> QED BY <1>1, <1>2, <4>1, <4>2, AdditionalDebtIs
    <3>3. ASSUME NEW m \in CreditMethod
          PROVE  /\ Added(s, a, m)[x] = allocated'[s][m][x] - sold[s][m][x]
                 /\ sold[s][m][x] \in Nat /\ allocated'[s][m][x] \in Nat
      <4>1. m \in Method /\ sold[s][m][x] \in Nat
        BY SoldOnAccount
      <4> QED BY <1>1, <4>1, AddedIs DEF Assigned
    <3>4. /\ Added(s, a, "CREDIT")[x] = allocated'[s]["CREDIT"][x] - sold[s]["CREDIT"][x]
          /\ Added(s, a, "FLEET")[x] = allocated'[s]["FLEET"][x] - sold[s]["FLEET"][x]
          /\ sold[s]["CREDIT"][x] \in Nat /\ allocated'[s]["CREDIT"][x] \in Nat
          /\ sold[s]["FLEET"][x] \in Nat /\ allocated'[s]["FLEET"][x] \in Nat
      BY <3>3 DEF CreditMethod
    <3> QED BY <2>2, <3>1, <3>2, <3>4
  <2> QED BY <2>1, <2>2
<1>9. Receivable'
  <2>1. PICK b0 : b0 = [x \in Customer |-> Balance(x)]
    OBVIOUS
  <2>2. PICK b1 : b1 = [x \in Customer |-> Balance(x)']
    OBVIOUS
  <2>3. PICK extra : extra = [x \in Customer |-> AdditionalDebt(s, a, x)]
    OBVIOUS
  <2>4. \A x \in Customer : AdditionalDebt(s, a, x) \in Nat /\ Balance(x)' = Balance(x) + AdditionalDebt(s, a, x)
    BY ReconcileBalances
  <2>5. Numbers(b0, Customer) /\ \A x \in Customer : Balance(x) \in Int
    BY <2>1, BalancesAre DEF Ledgers
  <2>6. Numbers(extra, Customer) /\ Numbers(b1, Customer) /\ Adds(b1, b0, extra, Customer)
    BY <2>1, <2>2, <2>3, <2>4, <2>5, FiniteParties DEF Numbers, Adds
  <2>7. SumOf(b1) = SumOf(b0) + SumOf(extra)
    BY <2>5, <2>6, SumAdded
  <2>8. PICK ac, af : ac = Added(s, a, "CREDIT") /\ af = Added(s, a, "FLEET")
    OBVIOUS
  <2>9. Numbers(ac, Customer) /\ Numbers(af, Customer)
    BY <1>1, <2>8, AddedIs DEF CreditMethod
  <2>10. Adds(extra, ac, af, Customer)
    BY <1>1, <2>3, <2>8, AdditionalDebtIs DEF Adds
  <2>11. SumOf(extra) = SumOf(ac) + SumOf(af) /\ SumOf(ac) \in Int /\ SumOf(af) \in Int
    BY <2>6, <2>9, <2>10, SumAdded, SumIsInt
  <2>12. books["1100"] = SumOf(b0) /\ SumOf(b0) \in Int
    BY <2>1, <2>5, SumIsInt DEF Ledgers, Receivable
  <2>13. books'["1100"] = books["1100"] + SumOf(ac) + SumOf(af)
    BY <2>8, ReconcileWrites
  <2>14. books'["1100"] = SumOf(b1)
    BY <2>7, <2>11, <2>12, <2>13
  <2> QED BY <2>2, <2>14 DEF Receivable
<1> QED BY <1>5, <1>6, <1>7, <1>8, <1>9 DEF Ledgers
-----------------------------------------------------------------------------
(* The pages.                                                              *)
\* The accounts a page offers.
LEMMA OfferedIs ==
  ASSUME TypeOK
  PROVE  Offered \in UNION {[S -> CreditMethod] : S \in SUBSET Customer}
<1>1. PICK S \in SUBSET Customer : S = {c \in Customer : customer[c].active}
  OBVIOUS
<1>2. \A c \in S : customer[c].type \in CreditMethod
  BY DEF TypeOK, CustomerRow
<1>3. Offered \in [S -> CreditMethod]
  BY <1>1, <1>2 DEF Offered
<1> QED BY <1>3

\* The totals a page shows are within the bound.
LEMMA PresentedIs ==
  ASSUME Ledgers, NEW s \in Shift
  PROVE  Presented(s) \in [Method -> 0..MaxSold]
<1>1. sold[s] \in Totals /\ SoldIn(s) <= MaxSold
  BY DEF Ledgers, TypeOK, SalesBounded
<1>2. SoldIn(s) \in Nat /\ \A m \in Method : Expected(s, m) \in Nat /\ Expected(s, m) <= SoldIn(s)
  BY <1>1, ByMethod DEF SoldIn, Expected
<1>3. \A m \in Method : Expected(s, m) \in 0..MaxSold
  BY <1>1, <1>2, AmountAssumption
<1> QED BY <1>3 DEF Presented

\* A page stays current when sales change in open shifts only.
LEMMA PagesStay ==
  ASSUME PagesCurrent, desk \in [Desk -> Page \cup {None}], UNCHANGED desk,
         \A t \in Shift : status[t] # "OPEN" => status'[t] # "OPEN" /\ sold'[t] = sold[t]
  PROVE  PagesCurrent'
<1> SUFFICES ASSUME NEW d \in Desk, Shown(d)
             PROVE  /\ status'[desk[d].shift] # "OPEN"
                    /\ desk[d].expected = Presented(desk[d].shift)'
  BY DEF PagesCurrent, Shown
<1>1. PICK t : t = desk[d].shift
  OBVIOUS
<1>2. t \in Shift
  BY <1>1 DEF Shown, Page
<1>3. status[t] # "OPEN" /\ desk[d].expected = Presented(t)
  BY <1>1 DEF PagesCurrent
<1>4. Presented(t)' = Presented(t)
  BY <1>2, <1>3 DEF Presented, Expected
<1> QED BY <1>1, <1>2, <1>3, <1>4

\* Or when what each page shows is what its shift has now.
LEMMA PagesMoved ==
  ASSUME \A e \in Desk : desk'[e] # None =>
           \E t \in Shift : /\ desk'[e].shift = t /\ status'[t] # "OPEN"
                           /\ desk'[e].expected = Presented(t)'
  PROVE  PagesCurrent'
<1> SUFFICES ASSUME NEW e \in Desk, desk'[e] # None
             PROVE  (status[desk[e].shift] # "OPEN" /\ desk[e].expected = Presented(desk[e].shift))'
  BY DEF PagesCurrent, Shown
<1>1. PICK t \in Shift : /\ desk'[e].shift = t /\ status'[t] # "OPEN"
                         /\ desk'[e].expected = Presented(t)'
  OBVIOUS
<1> QED BY <1>1

\* What goes on elsewhere.
LEMMA ElsewhereKept ==
  ASSUME DeskOK, Elsewhere
  PROVE  DeskOK'
<1>0. /\ Ledgers /\ PagesCurrent /\ desk \in [Desk -> Page \cup {None}] /\ UNCHANGED desk
      /\ TypeOK /\ CustomerRow = [active : BOOLEAN, type : CreditMethod, limit : Limit]
  BY DEF DeskOK, Elsewhere, DeskTypeOK, Ledgers, CustomerRow
<1> SUFFICES /\ Ledgers'
             /\ \A t \in Shift : status[t] # "OPEN" => status'[t] # "OPEN" /\ sold'[t] = sold[t]
  <2>1. Ledgers' => TypeOK'
    BY DEF Ledgers
  <2> QED BY <1>0, <2>1, PagesStay DEF DeskOK, DeskTypeOK
<1>1. ASSUME NEW s \in Shift, NEW amount \in Amount, NEW m \in Method, NEW c \in Customer \cup {None},
             Sell(s, m, c, amount)
      PROVE  /\ Ledgers'
             /\ \A t \in Shift : status[t] # "OPEN" => status'[t] # "OPEN" /\ sold'[t] = sold[t]
  <2>1. c \in Payers /\ status' = status
    BY <1>1 DEF Payers, Sell
  <2>2. status[s] = "OPEN" /\ \A t \in Shift : t # s => sold'[t] = sold[t]
    BY <1>0, <1>1, <2>1, SellWrites
  <2> QED BY <1>0, <1>1, <2>1, <2>2, SellKept
<1>2. ASSUME NEW s \in Shift, NEW unrecorded \in Amount \cup {0}, CloseShift(s, unrecorded)
      PROVE  /\ Ledgers'
             /\ \A t \in Shift : status[t] # "OPEN" => status'[t] # "OPEN" /\ sold'[t] = sold[t]
  <2>1. status[s] = "OPEN" /\ \A t \in Shift : t # s => sold'[t] = sold[t] /\ status'[t] = status[t]
    BY <1>0, <1>2, CloseWrites
  <2> QED BY <1>0, <1>2, <2>1, CloseKept
<1>3. ASSUME NEW c \in Customer, NEW amount \in Amount, PostReceipt(c, amount)
      PROVE  /\ Ledgers'
             /\ \A t \in Shift : status[t] # "OPEN" => status'[t] # "OPEN" /\ sold'[t] = sold[t]
  <2>1. status' = status /\ sold' = sold
    BY <1>0, <1>3, ReceiptWrites
  <2> QED BY <1>0, <1>3, <2>1, ReceiptKept
<1>4. ASSUME Quiet, TypeOK'
      PROVE  /\ Ledgers'
             /\ \A t \in Shift : status[t] # "OPEN" => status'[t] # "OPEN" /\ sold'[t] = sold[t]
  <2>1. status' = status /\ sold' = sold
    BY <1>4 DEF Quiet
  <2> QED BY <1>0, <1>4, <2>1, QuietKept
<1>5. ASSUME NEW c \in Customer, NEW row \in CustomerRow, UpdateCustomer(c, row) PROVE Quiet /\ TypeOK'
  <2>1. Quiet
    BY <1>5 DEF UpdateCustomer, Quiet, shiftVars, ledger
  <2>2. customer' \in [Customer -> CustomerRow]
    BY <1>0, <1>5 DEF UpdateCustomer, TypeOK
  <2>3. touched' \subseteq Customer /\ UNCHANGED <<removing, paying>>
    BY <1>0, <1>5 DEF UpdateCustomer, TypeOK, jobs
  <2>4. updates' \in 0..MaxUpdates
    BY <1>0, <1>5, AmountAssumption DEF UpdateCustomer, TypeOK
  <2> QED BY <1>0, <2>1, <2>2, <2>3, <2>4 DEF Quiet, TypeOK
<1>6. ASSUME NEW c \in Customer, NEW row \in CustomerRow, CreateCustomer(c, row) PROVE Quiet /\ TypeOK'
  <2>1. Quiet
    BY <1>6 DEF CreateCustomer, Quiet, shiftVars, ledger
  <2>2. customer' \in [Customer -> CustomerRow]
    BY <1>0, <1>6 DEF CreateCustomer, TypeOK
  <2>3. UNCHANGED <<removing, paying, touched>>
    BY <1>6 DEF CreateCustomer, jobs
  <2>4. updates' \in 0..MaxUpdates
    BY <1>0, <1>6, AmountAssumption DEF CreateCustomer, TypeOK
  <2> QED BY <1>0, <2>1, <2>2, <2>3, <2>4 DEF Quiet, TypeOK
<1>7. ASSUME NEW c \in Customer, CheckSettled(c) \/ FindAccount(c) PROVE Quiet /\ TypeOK'
  <2>1. Quiet /\ UNCHANGED <<customer, touched, updates>>
    BY <1>7 DEF CheckSettled, FindAccount, Quiet, shiftVars, ledger
  <2>2. removing' \subseteq Customer /\ paying' \subseteq Customer
    BY <1>0, <1>7 DEF CheckSettled, FindAccount, TypeOK
  <2> QED BY <1>0, <2>1, <2>2 DEF Quiet, TypeOK
<1>8. ASSUME NEW c \in Customer, RemoveCustomer(c) PROVE Quiet /\ TypeOK'
  <2>1. Quiet /\ UNCHANGED <<paying, updates>>
    BY <1>8 DEF RemoveCustomer, Quiet, shiftVars, ledger
  <2>2. removing' \subseteq Customer /\ touched' \subseteq Customer
    BY <1>0, <1>8 DEF RemoveCustomer, TypeOK
  <2>3. customer \in [Customer -> [active : BOOLEAN, type : CreditMethod, limit : Limit]]
    BY <1>0 DEF TypeOK
  <2>4. customer' = [customer EXCEPT ![c].active = FALSE]
    BY <1>8 DEF RemoveCustomer
  <2>5. customer' \in [Customer -> CustomerRow]
    BY <1>0, <2>3, <2>4
  <2> QED BY <1>0, <2>1, <2>2, <2>5 DEF Quiet, TypeOK
<1> QED BY <1>1, <1>2, <1>3, <1>4, <1>5, <1>6, <1>7, <1>8 DEF Elsewhere

\* What a browser does.
LEMMA AtDeskKept ==
  ASSUME DeskOK, NEW d \in Desk, AtDesk(d)
  PROVE  DeskOK'
<1>0. /\ Ledgers /\ PagesCurrent /\ desk \in [Desk -> Page \cup {None}] /\ TypeOK
  BY DEF DeskOK, DeskTypeOK, Ledgers
<1>1. ASSUME NEW s \in Shift, Choose(d, s) PROVE DeskOK'
  <2>1. UNCHANGED vars /\ status[s] = "RECONCILIATION_REQUIRED"
    BY <1>1 DEF Choose
  <2>2. PICK shows : shows = [shift |-> s, expected |-> Presented(s), customers |-> Offered]
    OBVIOUS
  <2>3. shows \in Page /\ shows.shift = s /\ shows.expected = Presented(s)
    BY <1>0, <2>2, OfferedIs, PresentedIs DEF Page
  <2>4. desk' = [desk EXCEPT ![d] = shows]
    BY <1>1, <2>2 DEF Choose
  <2>5. desk' \in [Desk -> Page \cup {None}] /\ desk'[d] = shows /\ \A e \in Desk : e # d => desk'[e] = desk[e]
    BY <1>0, <2>3, <2>4
  <2>6. Quiet /\ UNCHANGED <<customer, removing, paying, touched, updates>>
    BY <2>1 DEF vars, Quiet
  <2>7. TypeOK'
    BY <1>0, <2>6 DEF TypeOK, Quiet
  <2>8. Ledgers'
    BY <1>0, <2>6, <2>7, QuietKept
  <2>9. \A t : Presented(t)' = Presented(t) /\ status'[t] = status[t]
    BY <2>6 DEF Quiet, Presented, Expected
  <2>10. PagesCurrent'
    <3> SUFFICES ASSUME NEW e \in Desk, desk'[e] # None
                 PROVE  \E t \in Shift : /\ desk'[e].shift = t /\ status'[t] # "OPEN"
                                         /\ desk'[e].expected = Presented(t)'
      BY PagesMoved
    <3>1. CASE e = d
      <4>1. desk'[e].shift = s /\ desk'[e].expected = Presented(s)
        BY <2>3, <2>5, <3>1
      <4>2. Presented(s)' = Presented(s) /\ status'[s] # "OPEN"
        BY <2>1, <2>9
      <4> QED BY <4>1, <4>2
    <3>2. CASE e # d
      <4>1. desk'[e] = desk[e] /\ Shown(e)
        BY <2>5, <3>2 DEF Shown
      <4>2. status[desk[e].shift] # "OPEN" /\ desk[e].expected = Presented(desk[e].shift)
        BY <1>0, <4>1 DEF PagesCurrent
      <4>3. PICK t \in Shift : t = desk[e].shift
        BY <1>0, <4>1 DEF Shown, Page
      <4>4. Presented(t)' = Presented(t) /\ status'[t] = status[t]
        BY <2>9
      <4> QED BY <4>1, <4>2, <4>3, <4>4
    <3> QED BY <3>1, <3>2
  <2> QED BY <2>5, <2>7, <2>8, <2>10 DEF DeskOK, DeskTypeOK
<1>2. ASSUME Shown(d), NEW a \in Assignment, Lock(d, a) PROVE DeskOK'
  <2>1. PICK s : s = desk[d].shift
    OBVIOUS
  <2>2. s \in Shift /\ Reconcile(s, a)
    BY <1>0, <1>2, <2>1 DEF Lock, Shown, Page
  <2>3. Ledgers'
    BY <1>0, <2>2, ReconcileKept
  <2>4. /\ status'[s] = "LOCKED" /\ \A t \in Shift : t # s => status'[t] = status[t]
        /\ sold' = sold
    BY <1>0, <2>2, ReconcileWrites
  <2>5. PICK shows \in {desk[d], None} : desk' = [desk EXCEPT ![d] = shows]
    BY <1>2 DEF Lock
  <2>6. /\ desk' \in [Desk -> Page \cup {None}]
        /\ \A e \in Desk : desk'[e] = desk[e] \/ desk'[e] = None
    BY <1>0, <2>5
  <2>7. PagesCurrent'
    <3> SUFFICES ASSUME NEW e \in Desk, desk'[e] # None
                 PROVE  \E t \in Shift : /\ desk'[e].shift = t /\ status'[t] # "OPEN"
                                         /\ desk'[e].expected = Presented(t)'
      BY PagesMoved
    <3>1. desk'[e] = desk[e] /\ Shown(e) /\ desk[e].shift \in Shift
      BY <1>0, <2>6 DEF Shown, Page
    <3>2. status[desk[e].shift] # "OPEN" /\ desk[e].expected = Presented(desk[e].shift)
      BY <1>0, <3>1 DEF PagesCurrent
    <3>3. PICK t \in Shift : t = desk[e].shift
      BY <3>1
    <3>4. Presented(t)' = Presented(t)
      BY <2>4 DEF Presented, Expected
    <3>5. status'[t] # "OPEN"
      BY <2>4, <3>2, <3>3
    <3> QED BY <3>1, <3>2, <3>3, <3>4, <3>5
  <2>8. TypeOK'
    BY <2>3 DEF Ledgers
  <2> QED BY <2>3, <2>6, <2>7, <2>8 DEF DeskOK, DeskTypeOK
<1>3. ASSUME NEW c \in Customer, NEW row \in CustomerRow, Create(d, c, row) PROVE DeskOK'
  <2>1. Shown(d) /\ CreateCustomer(c, row)
    BY <1>3 DEF Create
  <2>2. Quiet
    BY <2>1 DEF CreateCustomer, Quiet, shiftVars, ledger
  <2>3. TypeOK'
    <3>1. customer' \in [Customer -> CustomerRow]
      BY <1>0, <2>1 DEF CreateCustomer, TypeOK
    <3>2. UNCHANGED <<removing, paying, touched>>
      BY <2>1 DEF CreateCustomer, jobs
    <3>3. updates' \in 0..MaxUpdates
      BY <1>0, <2>1, AmountAssumption DEF CreateCustomer, TypeOK
    <3> QED BY <1>0, <2>2, <3>1, <3>2, <3>3 DEF Quiet, TypeOK
  <2>4. Ledgers'
    BY <1>0, <2>2, <2>3, QuietKept
  <2>5. PICK offer : offer = [x \in DOMAIN Offered \cup {c} |-> IF x = c THEN row.type ELSE Offered[x]]
    OBVIOUS
  <2>6. offer \in UNION {[S -> CreditMethod] : S \in SUBSET Customer}
    <3>1. PICK S \in SUBSET Customer : Offered \in [S -> CreditMethod]
      BY <1>0, OfferedIs
    <3>2. PICK T \in SUBSET Customer : T = S \cup {c}
      OBVIOUS
    <3>3. row.type \in CreditMethod /\ DOMAIN Offered = S
      BY <3>1 DEF CustomerRow
    <3>4. offer \in [T -> CreditMethod]
      BY <2>5, <3>1, <3>2, <3>3
    <3> QED BY <3>4
  <2>7. desk' = [desk EXCEPT ![d].customers = offer]
    BY <1>3, <2>5 DEF Create
  <2>8. desk[d] \in [shift : Shift, expected : [Method -> 0..MaxSold],
                     customers : UNION {[S -> CreditMethod] : S \in SUBSET Customer}]
    BY <1>0, <2>1 DEF Shown, Page
  <2>9. PICK shows : shows = [desk[d] EXCEPT !.customers = offer]
    OBVIOUS
  <2>10. shows \in Page /\ shows.shift = desk[d].shift /\ shows.expected = desk[d].expected
    BY <2>6, <2>8, <2>9 DEF Page
  <2>11. desk' = [desk EXCEPT ![d] = shows]
    BY <1>0, <2>7, <2>9
  <2>12. /\ desk' \in [Desk -> Page \cup {None}] /\ desk'[d] = shows
         /\ \A e \in Desk : e # d => desk'[e] = desk[e]
    BY <1>0, <2>10, <2>11
  <2>13. PagesCurrent'
    <3> SUFFICES ASSUME NEW e \in Desk, desk'[e] # None
                 PROVE  \E t \in Shift : /\ desk'[e].shift = t /\ status'[t] # "OPEN"
                                         /\ desk'[e].expected = Presented(t)'
      BY PagesMoved
    <3>1. desk'[e].shift = desk[e].shift /\ desk'[e].expected = desk[e].expected /\ Shown(e)
      BY <2>1, <2>10, <2>12 DEF Shown
    <3>2. status[desk[e].shift] # "OPEN" /\ desk[e].expected = Presented(desk[e].shift)
      BY <1>0, <3>1 DEF PagesCurrent
    <3>3. PICK t \in Shift : t = desk[e].shift
      BY <1>0, <3>1 DEF Shown, Page
    <3>4. Presented(t)' = Presented(t) /\ status' = status
      BY <2>2 DEF Quiet, Presented, Expected
    <3> QED BY <3>1, <3>2, <3>3, <3>4
  <2> QED BY <2>3, <2>4, <2>12, <2>13 DEF DeskOK, DeskTypeOK
<1> QED BY <1>1, <1>2, <1>3 DEF AtDesk

\* Nothing is sold or shown at the start.
LEMMA Started == DeskInit => IInv
<1> SUFFICES ASSUME DeskInit PROVE IInv
  OBVIOUS
<1>1. /\ customer \in [Customer -> CustomerRow]
      /\ status = [s \in Shift |-> "OPEN"]
      /\ sold = [s \in Shift |-> NothingSold] /\ allocated = [s \in Shift |-> NothingSold]
      /\ debt = [c \in Customer |-> [s \in Shift |-> 0]] /\ received = [c \in Customer |-> 0]
      /\ books = [a \in Account |-> 0] /\ removing = {} /\ paying = {} /\ touched = {} /\ updates = 0
      /\ desk = [d \in Desk |-> None]
  BY StartAssumption DEF DeskInit, Init
<1>2. NothingSold \in Totals /\ \A m \in Method, c \in Payers : NothingSold[m][c] = 0
  BY DEF NothingSold, Totals, Payers
<1>3. TypeOK
  BY <1>1, <1>2, AmountAssumption DEF TypeOK, Account
<1>4. \A s \in Shift, m \in CreditMethod, c \in Payers : sold[s][m][c] = 0
  BY <1>1, <1>2 DEF Method
<1>5. CreditHasCustomer /\ SalesOwedOnce
  <2>1. \A c \in Customer, s \in Shift : debt[c][s] = 0
    BY <1>1
  <2> QED BY <1>4, <2>1 DEF CreditHasCustomer, SalesOwedOnce, Payers, CreditMethod
<1>6. AssignedCreditIsOwedOnce
  BY <1>1 DEF AssignedCreditIsOwedOnce
<1>7. SalesBounded
  <2> SUFFICES ASSUME NEW s \in Shift PROVE SoldIn(s) <= MaxSold
    BY DEF SalesBounded
  <2>1. ASSUME NEW m \in Method PROVE SumOf(sold[s][m]) = 0
    <3>1. sold[s][m] \in [Payers -> Nat] /\ \A x \in Payers : sold[s][m][x] = 0
      BY <1>1, <1>2 DEF Totals, Payers
    <3>2. Numbers(sold[s][m], Payers)
      BY <3>1, FiniteParties DEF Numbers
    <3> QED BY <3>1, <3>2, SumOfZeros
  <2>2. PICK f : f = [m \in Method |-> SumOf(sold[s][m])]
    OBVIOUS
  <2>3. Numbers(f, Method) /\ \A m \in Method : f[m] = 0
    BY <2>1, <2>2, FiniteParties DEF Numbers
  <2>4. SumOf(f) = 0
    BY <2>3, SumOfZeros
  <2>5. SoldIn(s) = SumOf(f)
    BY <2>2 DEF SoldIn, Expected
  <2> QED BY <2>4, <2>5, AmountAssumption
<1>8. Receivable
  <2>1. ASSUME NEW c \in Customer PROVE Balance(c) = 0
    <3>1. Numbers(debt[c], Shift) /\ \A s \in Shift : debt[c][s] = 0
      BY <1>1, FiniteParties DEF Numbers
    <3>2. SumOf(debt[c]) = 0
      BY <3>1, SumOfZeros
    <3> QED BY <1>1, <3>2 DEF Balance
  <2>2. PICK f : f = [c \in Customer |-> Balance(c)]
    OBVIOUS
  <2>3. Numbers(f, Customer) /\ \A c \in Customer : f[c] = 0
    BY <2>1, <2>2, FiniteParties DEF Numbers
  <2>4. SumOf(f) = 0 /\ books["1100"] = 0
    BY <1>1, <2>3, SumOfZeros DEF Account
  <2> QED BY <2>2, <2>4 DEF Receivable
<1>9. desk \in [Desk -> Page \cup {None}] /\ PagesCurrent
  BY <1>1 DEF PagesCurrent, Shown
<1>10. UntouchedFit
  <2> SUFFICES ASSUME NEW c \in Customer PROVE Fits(c)
    BY DEF UntouchedFit
  <2>1. customer[c].limit \in Nat
    BY <1>1, AmountAssumption DEF CustomerRow
  <2>2. SumOf(debt[c]) = 0
    BY <1>1, FiniteParties, SumOfZeros DEF Numbers
  <2>3. Balance(c) = 0
    BY <1>1, <2>2 DEF Balance
  <2>4. \A s \in Shift, m \in CreditMethod : sold[s][m][c] = 0
    BY <1>4 DEF Payers
  <2> QED BY <2>1, <2>3, <2>4 DEF Fits
<1> QED BY <1>3, <1>5, <1>6, <1>7, <1>8, <1>9, <1>10 DEF IInv, DeskOK, Ledgers, DeskTypeOK

\* Every step keeps the ledgers and the pages.
LEMMA DeskKept ==
  ASSUME DeskOK, [DeskNext]_deskVars
  PROVE  DeskOK'
<1>1. CASE Elsewhere
  BY <1>1, ElsewhereKept
<1>2. ASSUME NEW d \in Desk, AtDesk(d) PROVE DeskOK'
  BY <1>2, AtDeskKept
<1>3. CASE UNCHANGED deskVars
  <2>1. Quiet /\ UNCHANGED <<customer, removing, paying, touched, updates, desk>>
    BY <1>3 DEF deskVars, vars, Quiet
  <2>2. TypeOK'
    BY <2>1 DEF DeskOK, DeskTypeOK, TypeOK, Quiet
  <2>3. Ledgers'
    BY <2>1, <2>2, QuietKept DEF DeskOK
  <2>4. PagesCurrent'
    BY <2>1, PagesStay DEF DeskOK, DeskTypeOK, Quiet
  <2> QED BY <2>1, <2>2, <2>3, <2>4 DEF DeskOK, DeskTypeOK
<1> QED BY <1>1, <1>2, <1>3 DEF DeskNext
-----------------------------------------------------------------------------
(* What follows.                                                           *)
\* Keeping what was recorded is acceptable: nothing is added, nothing is
\* adjusted, and the accounts it was sold on fit it still.
LEMMA RecordedFits ==
  ASSUME Ledgers, UntouchedFit
  PROVE  RecordedShiftCanLock
<1> SUFFICES ASSUME NEW s \in Shift, \A m \in CreditMethod, c \in touched : sold[s][m][c] = 0
             PROVE  Acceptable(s, Recorded(s))
  BY DEF RecordedShiftCanLock
<1>0. ASSUME NEW m \in CreditMethod, NEW c \in Customer, sold[s][m][c] > 0
      PROVE  customer[c].active /\ Accepts(c, m) /\ WithinLimit(c, 0)
  <2>1. c \notin touched
    BY <1>0
  <2>2. Fits(c)
    BY <2>1 DEF UntouchedFit
  <2>3. Balance(c) \in Int
    BY BalancesAre DEF Ledgers
  <2> QED BY <1>0, <2>2, <2>3 DEF Fits, WithinLimit
<1>1. PICK a : a = Recorded(s)
  OBVIOUS
<1>2. /\ \A m \in Method, c \in Customer : a[m][c] = Existing(s, m, c)
      /\ \A m \in CreditMethod, c \in Customer : a[m][c] = sold[s][m][c] /\ sold[s][m][c] \in Nat
      /\ \A c \in Customer : a["PAID"][c] = 0
  <2>1. \A m \in Method, c \in Customer : a[m][c] = Existing(s, m, c)
    BY <1>1 DEF Recorded
  <2>2. \A m \in CreditMethod, c \in Customer : sold[s][m][c] \in Nat /\ m \in Method
    BY SoldOnAccount
  <2>3. "PAID" \in Method /\ "PAID" \notin CreditMethod
    BY DEF Method, CreditMethod
  <2> QED BY <2>1, <2>2, <2>3 DEF Existing
<1>3. a \in Assigned
  <2>1. \A m \in Method, c \in Customer : Existing(s, m, c) \in Nat
    BY <1>2 DEF Existing
  <2> QED BY <1>1, <2>1 DEF Recorded, Assigned
<1>4. KeepsRecorded(s, a)
  <2> SUFFICES ASSUME NEW m \in Method, NEW c \in Customer PROVE a[m][c] >= Existing(s, m, c)
    BY DEF KeepsRecorded
  <2>1. a[m][c] = Existing(s, m, c) /\ a[m][c] \in Nat
    BY <1>2, <1>3 DEF Assigned
  <2> QED BY <2>1
<1>5. ASSUME NEW m \in CreditMethod
      PROVE  SumOf(Added(s, a, m)) = 0 /\ \A c \in Customer : Added(s, a, m)[c] = 0
  <2>1. Numbers(Added(s, a, m), Customer) /\ \A c \in Customer : Added(s, a, m)[c] = 0
    BY <1>2, <1>3, <1>4, AddedIs
  <2> QED BY <2>1, SumOfZeros
<1>6. \A c \in Customer : AdditionalDebt(s, a, c) = 0
  BY <1>3, <1>4, <1>5, AdditionalDebtIs DEF CreditMethod
<1>7. Adjustment(s, a)["PAID"] = 0
  BY <1>3, <1>4, <1>5, AdjustmentIs DEF CreditMethod
<1>8. SumOf(a["PAID"]) = 0
  <2>1. "PAID" \in Method
    BY DEF Method
  <2>2. Numbers(a["PAID"], Customer)
    BY <1>3, <2>1, FiniteParties DEF Numbers, Assigned
  <2> QED BY <1>2, <2>2, SumOfZeros
<1>9. Expected(s, "PAID") \in Nat
  BY ByMethod DEF Ledgers, TypeOK, Expected, Method
<1>10. ASSUME NEW c \in Listed(a)
       PROVE  /\ customer[c].active
              /\ a["FLEET"][c] + a["PAID"][c] > 0 => customer[c].type = "FLEET"
              /\ WithinLimit(c, AdditionalDebt(s, a, c))
  <2>1. PICK m \in Method : c \in Customer /\ a[m][c] > 0
    BY DEF Listed
  <2>2. m \in CreditMethod /\ sold[s][m][c] > 0
    <3>1. m # "PAID"
      BY <1>2, <2>1
    <3> QED BY <1>2, <2>1, <3>1 DEF Method
  <2>3. customer[c].active /\ WithinLimit(c, 0)
    BY <1>0, <2>1, <2>2
  <2>4. a["FLEET"][c] + a["PAID"][c] > 0 => customer[c].type = "FLEET"
    <3> SUFFICES ASSUME a["FLEET"][c] + a["PAID"][c] > 0 PROVE customer[c].type = "FLEET"
      OBVIOUS
    <3>1. a["PAID"][c] = 0 /\ a["FLEET"][c] = sold[s]["FLEET"][c] /\ a["FLEET"][c] \in Nat
      BY <1>2, <2>1 DEF CreditMethod
    <3>2. a["FLEET"][c] + a["PAID"][c] = a["FLEET"][c]
      BY <3>1
    <3>3. sold[s]["FLEET"][c] > 0
      BY <3>1, <3>2
    <3>4. Accepts(c, "FLEET")
      BY <1>0, <2>1, <3>3 DEF CreditMethod
    <3> QED BY <3>4 DEF Accepts
  <2>5. WithinLimit(c, AdditionalDebt(s, a, c))
    BY <1>6, <2>1, <2>3
  <2> QED BY <2>3, <2>4, <2>5
<1>11. SumOf(a["PAID"]) <= Expected(s, "PAID") + Adjustment(s, a)["PAID"]
  BY <1>7, <1>8, <1>9
<1>12. Acceptable(s, a)
  BY <1>4, <1>10, <1>11 DEF Acceptable
<1> QED BY <1>1, <1>12

\* What DebtGrowsWithinLimit says of one step.
DebtStep == \A c \in Customer : Balance(c)' > Balance(c) => Balance(c)' <= customer[c].limit

\* A step that raises a balance has checked the limit with the amount it adds.
LEMMA DebtKept ==
  ASSUME DeskOK, [DeskNext]_deskVars
  PROVE  DebtStep
<1>0. Ledgers /\ \A c \in Customer : Balance(c) \in Int
  BY BalancesAre DEF DeskOK, Ledgers
<1>1. ASSUME UNCHANGED <<debt, received>> PROVE DebtStep
  <2>1. \A c \in Customer : Balance(c)' = Balance(c)
    BY <1>1 DEF Balance
  <2> QED BY <1>0, <2>1 DEF DebtStep
<1>2. ASSUME NEW s \in Shift, NEW amount \in Amount, NEW m \in Method, NEW c \in Customer \cup {None},
             Sell(s, m, c, amount)
      PROVE  DebtStep
  <2>1. c \in Payers /\ received' = received
    BY <1>2 DEF Sell, Payers
  <2>2. CASE m \notin CreditMethod
    BY <1>0, <1>1, <1>2, <2>1, <2>2, SellWrites
  <2>3. CASE m \in CreditMethod
    <3>1. /\ amount \in Nat /\ c \in Customer /\ WithinLimit(c, amount) /\ debt' \in Debts
          /\ debt'[c][s] = debt[c][s] + amount /\ \A t \in Shift : t # s => debt'[c][t] = debt[c][t]
      BY <1>0, <1>2, <2>1, <2>3, SellWrites
    <3>2. \A x \in Customer : x # c => debt'[x] = debt[x]
      BY <1>0, <1>2, <2>1, <2>3, SellWrites
    <3>3. debt \in Debts /\ received \in [Customer -> Nat]
      BY <1>0, BalancesAre DEF Ledgers
    <3>4. SumOf(debt'[c]) = SumOf(debt[c]) + amount /\ SumOf(debt[c]) \in Nat
      <4>1. SumOf(debt'[c]) = SumOf(debt[c]) + amount
        BY <3>1, <3>3, OneCharge
      <4> QED BY <3>1, <3>3, <4>1, DebtsSum
    <3>5. Balance(c)' = Balance(c) + amount
      BY <2>1, <3>1, <3>3, <3>4 DEF Balance
    <3>6. \A x \in Customer : x # c => Balance(x)' = Balance(x)
      BY <2>1, <3>2 DEF Balance
    <3>7. Balance(c) + amount <= customer[c].limit
      BY <3>1 DEF WithinLimit
    <3> SUFFICES ASSUME NEW x \in Customer, Balance(x)' > Balance(x) PROVE Balance(x)' <= customer[x].limit
      BY DEF DebtStep
    <3>8. x = c
      BY <1>0, <3>6
    <3> QED BY <3>5, <3>7, <3>8
  <2> QED BY <2>2, <2>3
<1>3. ASSUME NEW c \in Customer, NEW amount \in Amount, PostReceipt(c, amount) PROVE DebtStep
  <2>1. /\ amount \in Nat /\ debt' = debt /\ received' \in [Customer -> Nat]
        /\ received'[c] = received[c] + amount
        /\ \A x \in Customer : x # c => received'[x] = received[x]
    BY <1>0, <1>3, ReceiptWrites
  <2>2. ASSUME NEW x \in Customer PROVE Balance(x)' <= Balance(x)
    <3>1. SumOf(debt[x]) \in Nat /\ received[x] \in Nat
      BY <1>0, BalancesAre, DebtsSum DEF Ledgers
    <3>2. Balance(x)' = SumOf(debt[x]) - received'[x] /\ Balance(x) = SumOf(debt[x]) - received[x]
      BY <2>1 DEF Balance
    <3>3. received'[x] >= received[x] /\ received'[x] \in Nat
      BY <2>1, <3>1
    <3> QED BY <3>1, <3>2, <3>3
  <2>3. ASSUME NEW x \in Customer PROVE Balance(x)' \in Int
    BY <1>0, <2>1, BalancesAre, DebtsSum DEF Ledgers, Balance
  <2> QED BY <1>0, <2>2, <2>3 DEF DebtStep
<1>4. ASSUME NEW s \in Shift, NEW a \in Assignment, Reconcile(s, a) PROVE DebtStep
  <2> SUFFICES ASSUME NEW x \in Customer, Balance(x)' > Balance(x) PROVE Balance(x)' <= customer[x].limit
    BY DEF DebtStep
  <2>1. Balance(x)' = Balance(x) + AdditionalDebt(s, a, x) /\ AdditionalDebt(s, a, x) \in Nat
    BY <1>0, <1>4, ReconcileBalances
  <2>2. AdditionalDebt(s, a, x) > 0
    BY <1>0, <2>1
  <2>3. a \in Assigned /\ KeepsRecorded(s, a)
    BY <1>0, <1>4, ReconcileWrites
  <2>4. PICK m \in CreditMethod : Added(s, a, m)[x] > 0
    <3>1. AdditionalDebt(s, a, x) = Added(s, a, "CREDIT")[x] + Added(s, a, "FLEET")[x]
      BY <1>0, <2>3, AdditionalDebtIs
    <3>2. Added(s, a, "CREDIT")[x] \in Nat /\ Added(s, a, "FLEET")[x] \in Nat
      BY <1>0, <2>3, AddedIs DEF CreditMethod
    <3>3. Added(s, a, "CREDIT")[x] > 0 \/ Added(s, a, "FLEET")[x] > 0
      BY <2>2, <3>1, <3>2
    <3> QED BY <3>3 DEF CreditMethod
  <2>5. a[m][x] > 0 /\ m \in Method
    <3>1. Added(s, a, m)[x] = a[m][x] - sold[s][m][x]
      BY <1>0, <2>3, AddedIs
    <3>2. sold[s][m][x] \in Nat /\ m \in Method
      BY <1>0, SoldOnAccount
    <3>3. a[m][x] \in Nat
      BY <2>3, <3>2 DEF Assigned
    <3> QED BY <2>4, <3>1, <3>2, <3>3
  <2>6. x \in Listed(a)
    BY <2>5 DEF Listed
  <2>7. WithinLimit(x, AdditionalDebt(s, a, x))
    BY <1>4, <2>6 DEF Reconcile, Acceptable
  <2> QED BY <2>1, <2>7 DEF WithinLimit
<1>5. ASSUME Quiet PROVE DebtStep
  BY <1>1, <1>5 DEF Quiet
<1>6. CASE Elsewhere
  <2>1. ASSUME NEW c \in Customer, NEW row \in CustomerRow, UpdateCustomer(c, row) \/ CreateCustomer(c, row)
        PROVE  Quiet
    BY <2>1 DEF UpdateCustomer, CreateCustomer, Quiet, shiftVars, ledger
  <2>2. ASSUME NEW c \in Customer, CheckSettled(c) \/ RemoveCustomer(c) \/ FindAccount(c) PROVE Quiet
    BY <2>2 DEF CheckSettled, RemoveCustomer, FindAccount, Quiet, shiftVars, ledger
  <2>3. ASSUME NEW s \in Shift, NEW unrecorded \in Amount \cup {0}, CloseShift(s, unrecorded) PROVE DebtStep
    BY <1>1, <2>3 DEF CloseShift
  <2> QED BY <1>2, <1>3, <1>5, <1>6, <2>1, <2>2, <2>3 DEF Elsewhere
<1>7. ASSUME NEW d \in Desk, AtDesk(d) PROVE DebtStep
  <2>1. ASSUME NEW s \in Shift, Choose(d, s) PROVE DebtStep
    BY <1>1, <2>1 DEF Choose, vars
  <2>2. ASSUME Shown(d), NEW a \in Assignment, Lock(d, a) PROVE DebtStep
    <3>1. PICK s : s = desk[d].shift
      OBVIOUS
    <3>2. s \in Shift /\ Reconcile(s, a)
      BY <1>7, <2>2, <3>1 DEF Lock, Shown, Page, DeskOK, DeskTypeOK
    <3> QED BY <1>4, <3>2
  <2>3. ASSUME NEW c \in Customer, NEW row \in CustomerRow, Create(d, c, row) PROVE DebtStep
    BY <1>5, <2>3 DEF Create, CreateCustomer, Quiet, shiftVars, ledger
  <2> QED BY <1>7, <2>1, <2>2, <2>3 DEF AtDesk
<1>8. CASE UNCHANGED deskVars
  BY <1>1, <1>8 DEF deskVars, vars
<1> QED BY <1>6, <1>7, <1>8 DEF DeskNext

\* An account that no step has touched, and whose row stays, fits as before: its
\* balance rose within its limit, and what is sold to it anew was checked.
LEMMA FitsStay ==
  ASSUME DeskOK, UntouchedFit, DebtStep, TypeOK', NEW c \in Customer \ touched,
         customer'[c] = customer[c],
         \A s \in Shift, m \in CreditMethod : sold'[s][m][c] > 0 =>
             sold[s][m][c] > 0 \/ (customer[c].active /\ Accepts(c, m))
  PROVE  Fits(c)'
<1>1. Fits(c)
  BY DEF UntouchedFit
<1>2. Balance(c) \in Int /\ customer[c].limit \in Nat
  BY BalancesAre, AmountAssumption DEF DeskOK, Ledgers, TypeOK, CustomerRow
<1>3. SumOf(debt'[c]) \in Nat /\ received'[c] \in Nat
  BY DebtsSum DEF TypeOK, Debts
<1>4. Balance(c)' \in Int
  BY <1>3 DEF Balance
<1>5. Balance(c)' <= customer'[c].limit
  BY <1>1, <1>2, <1>4 DEF Fits, DebtStep
<1>6. \A s \in Shift, m \in CreditMethod : sold'[s][m][c] > 0 => customer[c].active /\ Accepts(c, m)
  BY <1>1 DEF Fits
<1> QED BY <1>5, <1>6 DEF Fits, Accepts

\* Accounts that are not touched fit in the next state too.
LEMMA UntouchedKept ==
  ASSUME IInv, [DeskNext]_deskVars
  PROVE  UntouchedFit'
<1>0. /\ DeskOK /\ UntouchedFit /\ DebtStep /\ TypeOK' /\ Ledgers /\ TypeOK
      /\ customer \in [Customer -> CustomerRow]
  BY DeskKept, DebtKept DEF IInv, DeskOK, Ledgers, TypeOK
<1>1. ASSUME touched \subseteq touched', \A c \in Customer \ touched' : customer'[c] = customer[c],
             \A s \in Shift, m \in CreditMethod : sold'[s][m] = sold[s][m]
      PROVE  UntouchedFit'
  <2> SUFFICES ASSUME NEW c \in Customer \ touched' PROVE Fits(c)'
    BY DEF UntouchedFit
  <2>1. c \in Customer \ touched /\ customer'[c] = customer[c]
    BY <1>1
  <2> QED BY <1>0, <1>1, <2>1, FitsStay
<1>2. ASSUME NEW s \in Shift, NEW amount \in Amount, NEW m \in Method, NEW x \in Customer \cup {None},
             Sell(s, m, x, amount)
      PROVE  UntouchedFit'
  <2>1. x \in Payers /\ customer' = customer /\ touched' = touched
    BY <1>2 DEF Sell, Payers
  <2>2. m \in CreditMethod => x # None /\ customer[x].active /\ Accepts(x, m)
    BY <1>2 DEF Sell
  <2>3. /\ \A t \in Shift : t # s => sold'[t] = sold[t]
        /\ \A n \in Method : n # m => sold'[s][n] = sold[s][n]
        /\ \A y \in Payers : y # x => sold'[s][m][y] = sold[s][m][y]
    BY <1>0, <1>2, <2>1, SellWrites
  <2> SUFFICES ASSUME NEW c \in Customer \ touched PROVE Fits(c)'
    BY <2>1 DEF UntouchedFit
  <2>4. ASSUME NEW t \in Shift, NEW n \in CreditMethod, sold'[t][n][c] > 0
        PROVE  sold[t][n][c] > 0 \/ (customer[c].active /\ Accepts(c, n))
    <3>1. n \in Method /\ c \in Payers
      BY DEF Method, Payers
    <3>2. CASE t = s /\ n = m /\ c = x
      BY <2>2, <3>2
    <3>3. CASE ~(t = s /\ n = m /\ c = x)
      BY <2>3, <2>4, <3>1, <3>3
    <3> QED BY <3>2, <3>3
  <2> QED BY <1>0, <2>1, <2>4, FitsStay
<1>3. ASSUME NEW x \in Customer, NEW row \in CustomerRow, CreateCustomer(x, row) PROVE UntouchedFit'
  <2>1. /\ Unused(x) /\ UNCHANGED <<sold, debt, received, touched>>
        /\ customer' = [customer EXCEPT ![x] = row]
    BY <1>3 DEF CreateCustomer, shiftVars, ledger
  <2>2. customer'[x] = row /\ \A c \in Customer : c # x => customer'[c] = customer[c]
    BY <1>0, <2>1
  <2> SUFFICES ASSUME NEW c \in Customer \ touched PROVE Fits(c)'
    BY <2>1 DEF UntouchedFit
  <2>3. CASE c # x
    BY <1>0, <2>1, <2>2, <2>3, FitsStay
  <2>4. CASE c = x
    <3>1. SumOf(debt'[c]) = 0 /\ received'[c] = 0
      BY <2>1, <2>4 DEF Unused
    <3>2. Balance(c)' = 0
      BY <3>1 DEF Balance
    <3>4. row.limit \in Nat
      BY AmountAssumption DEF CustomerRow
    <3>3. \A s \in Shift, m \in CreditMethod : ~(sold[s][m][c] > 0)
      BY <1>0, <2>1, <2>4 DEF UntouchedFit, Fits, Unused
    <3> QED BY <2>1, <2>2, <2>4, <3>2, <3>3, <3>4 DEF Fits
  <2> QED BY <2>3, <2>4
<1>4. ASSUME NEW s \in Shift, NEW unrecorded \in Amount \cup {0}, CloseShift(s, unrecorded)
      PROVE  UntouchedFit'
  <2>1. UNCHANGED <<customer, touched>>
    BY <1>0, <1>4, CloseWrites
  <2>2. /\ \A t \in Shift : t # s => sold'[t] = sold[t]
        /\ \A n \in Method : n # "PAID" => sold'[s][n] = sold[s][n]
    BY <1>0, <1>4, CloseWrites
  <2>3. \A t \in Shift, n \in CreditMethod : sold'[t][n] = sold[t][n]
    BY <2>2 DEF Method, CreditMethod
  <2> QED BY <1>1, <2>1, <2>3
<1>5. ASSUME NEW x \in Customer, NEW row \in CustomerRow, UpdateCustomer(x, row) PROVE UntouchedFit'
  <2>1. /\ touched' = touched \cup {x} /\ customer' = [customer EXCEPT ![x] = row] /\ sold' = sold
    BY <1>5 DEF UpdateCustomer, shiftVars
  <2>2. \A c \in Customer \ touched' : customer'[c] = customer[c]
    BY <1>0, <2>1
  <2> QED BY <1>1, <2>1, <2>2
<1>6. ASSUME NEW x \in Customer, RemoveCustomer(x) PROVE UntouchedFit'
  <2>1. /\ touched' = touched \cup {x} /\ customer' = [customer EXCEPT ![x].active = FALSE] /\ sold' = sold
    BY <1>6 DEF RemoveCustomer, shiftVars
  <2>2. \A c \in Customer \ touched' : customer'[c] = customer[c]
    BY <1>0, <2>1
  <2> QED BY <1>1, <2>1, <2>2
<1>7. ASSUME NEW x \in Customer, CheckSettled(x) \/ FindAccount(x) PROVE UntouchedFit'
  BY <1>1, <1>7 DEF CheckSettled, FindAccount, shiftVars
<1>8. ASSUME NEW x \in Customer, NEW amount \in Amount, PostReceipt(x, amount) PROVE UntouchedFit'
  BY <1>1, <1>8 DEF PostReceipt, shiftVars
<1>9. CASE Elsewhere
  BY <1>2, <1>3, <1>4, <1>5, <1>6, <1>7, <1>8, <1>9 DEF Elsewhere
<1>10. ASSUME NEW d \in Desk, AtDesk(d) PROVE UntouchedFit'
  <2>1. ASSUME NEW s \in Shift, Choose(d, s) PROVE UntouchedFit'
    BY <1>1, <2>1 DEF Choose, vars
  <2>2. ASSUME NEW a \in Assignment, Lock(d, a) PROVE UntouchedFit'
    BY <1>1, <2>2 DEF Lock, Reconcile
  <2>3. ASSUME NEW c \in Customer, NEW row \in CustomerRow, Create(d, c, row) PROVE UntouchedFit'
    BY <1>3, <2>3 DEF Create
  <2> QED BY <1>10, <2>1, <2>2, <2>3 DEF AtDesk
<1>11. CASE UNCHANGED deskVars
  BY <1>1, <1>11 DEF deskVars, vars
<1> QED BY <1>9, <1>10, <1>11 DEF DeskNext

\* Every step keeps the invariant.
LEMMA StepKept == IInv /\ [DeskNext]_deskVars => IInv'
<1> QED BY DeskKept, UntouchedKept DEF IInv

\* Every state of the desk has the inductive invariant.
THEOREM DeskInvariant == DeskSpec => []IInv
<1> QED BY Started, StepKept, PTL DEF DeskSpec

\* A page that is not left shows the totals its shift has, though it loaded
\* them earlier (LocksWhatWasShown; ReconciliationPage.tsx, lock).
THEOREM PagesShowTheirShift == DeskSpec => []LocksWhatWasShown
<1>1. IInv => LocksWhatWasShown
  BY DEF IInv, DeskOK, PagesCurrent, LocksWhatWasShown
<1> QED BY <1>1, DeskInvariant, PTL

\* The receivable account is the total of the customer ledger, after any sales,
\* receipts and reconciliations (ReceivableIsLedger; docs/accounting-model.md).
THEOREM BooksAgreeWithLedger == DeskSpec => []ReceivableIsLedger
<1>1. IInv => ReceivableIsLedger
  BY DEF IInv, DeskOK, Ledgers, Receivable, ReceivableIsLedger
<1> QED BY <1>1, DeskInvariant, PTL

\* A locked shift put on each account what its reconciliation assigned to it,
\* once (AssignedCreditIsOwedOnce; reconciliation/service.ts).
THEOREM CreditOwedOnce == DeskSpec => []AssignedCreditIsOwedOnce
<1>1. IInv => AssignedCreditIsOwedOnce
  BY DEF IInv, DeskOK, Ledgers
<1> QED BY <1>1, DeskInvariant, PTL

\* A closed shift can be locked by keeping what was recorded, whatever is sold,
\* received and assigned elsewhere, until an account it was sold on is edited or
\* removed (RecordedShiftCanLock; reconciliation/service.ts).
THEOREM RecordedSalesLock == DeskSpec => []RecordedShiftCanLock
<1>1. IInv => RecordedShiftCanLock
  BY RecordedFits DEF IInv, DeskOK
<1> QED BY <1>1, DeskInvariant, PTL

\* No step raises a balance above the limit of that moment (DebtGrowsWithinLimit;
\* persistSale and reconcile).
THEOREM DebtStaysWithinLimit == DeskSpec => DebtGrowsWithinLimit
<1>1. IInv /\ [DeskNext]_deskVars => [DebtStep]_vars
  BY DebtKept DEF IInv
<1>2. DeskSpec => [][DebtStep]_vars
  BY <1>1, DeskInvariant, PTL DEF DeskSpec
<1> QED BY <1>2 DEF DebtStep, DebtGrowsWithinLimit

-----------------------------------------------------------------------------
(* The tank: what the ledger says of it.                                   *)

\* What is posted under a kind at some instants.
Booked(k, instants) == SumOf(Part(rows[k], instants))

\* What was delivered at each instant, entered or not.
Came == [t \in Time |-> outstanding[t] + rows["RECEIPT"][t]]
CameIn(instants) == SumOf(Part(Came, instants))

\* What the open shift drew and did not pour back, and a closed one.
Drawn == IF ShiftOpen THEN meter - Last.openingMeter - (IF poured THEN tested ELSE 0) ELSE 0
DrawnIn(s) == s.closingMeter - s.openingMeter - (IF s.returned THEN s.testing ELSE 0)

\* What would be in the tank had the open shift drawn and the tank lost nothing.
Net == level + lost + Drawn

\* Nothing is stamped later than now, but for the litres sold ahead.
NothingLater ==
  \A t \in Time : t > now =>
    /\ outstanding[t] = 0
    /\ rows["RECEIPT"][t] = 0 /\ rows["ADJUSTMENT"][t] = 0 /\ rows["TESTING"][t] = 0
    /\ rows["SALE"][t] + ahead[t] = 0

\* Shifts follow one another; the meter stands where the last one closed it, or
\* has moved by what the open one sold and tested at least.
ShiftsInOrder ==
  /\ \A i \in DOMAIN shifts :
       /\ shifts[i].openedAt <= now
       /\ i < Len(shifts) => shifts[i].closedAt # Unset
       /\ shifts[i].closedAt # Unset =>
            /\ shifts[i].openedAt <= shifts[i].closedAt /\ shifts[i].closedAt <= now
            /\ shifts[i].closingDip \in Nat /\ shifts[i].closingMeter \in Nat
  /\ ShiftOpen => Last.openingMeter + metered + tested <= meter
  /\ ~ShiftOpen => meter = OpeningMeter /\ metered = 0 /\ tested = 0 /\ poured = FALSE

\* Every litre that came is in the tank, lost, drawn and not sold yet, or posted.
EachLitreOnce ==
  OpeningStock + CameIn(Time) + Booked("SALE", Time) + Booked("TESTING", Time) = Net - metered

\* Nothing was posted for testing after one instant and through another.
Untested(u, after, through) == \A t \in (after + 1)..through : u[t] = 0

\* The tank since a dip: where nothing was delivered at the instant it was used,
\* it differs by what was delivered later, through n.
Follows(at, dip, net, came, n) ==
  came[at] = 0 => net - dip = SumOf(Part(came, (at + 1)..n))

\* The tank between the dips of a closed shift.
DipsAgree(s, came) ==
  s.openedAt # s.closedAt /\ came[s.openedAt] = 0 /\ came[s.closedAt] = 0 =>
    s.closingDip - s.openingDip
      = SumOf(Part(came, (s.openedAt + 1)..(s.closedAt - 1))) - DrawnIn(s) + s.lostBefore - s.lostAfter

ClosedShifts ==
  \A i \in DOMAIN shifts : shifts[i].closedAt # Unset =>
    /\ Untested(rows["TESTING"], shifts[i].openedAt, shifts[i].closedAt - 1)
    /\ shifts[i].still => DipsAgree(shifts[i], Came)

\* The tank since the dip the open shift began with.
SinceOpening ==
  ShiftOpen =>
    /\ Untested(rows["TESTING"], Last.openedAt, now)
    /\ Last.still => Follows(Last.openedAt, Last.lostBefore + Last.openingDip, Net, Came, now)

\* The tank since the dip the last shift was closed with.
SinceClosing ==
  ~ShiftOpen /\ shifts # <<>> =>
    /\ Untested(rows["TESTING"], Last.closedAt, now)
    /\ NoneAhead => Untested(rows["SALE"], Last.closedAt, now)
    /\ Last.still => Follows(Last.closedAt, Last.lostAfter + Last.closingDip, Net, Came, now)

\* What the page was told and read still holds, as far as its form can be sent.
PageReads ==
  /\ page.kind # "away" => page.shift <= Len(shifts)
  /\ page.kind = "opening" =>
       page.nozzle.meter <= IF ShiftOpen THEN Last.openingMeter ELSE meter
  /\ page.kind = "opening" /\ DipTaken /\ page.still /\ page.nozzle.meter = meter =>
       level + lost = page.dip + page.lost
  /\ PumpStands => page.nozzle = NozzleShows /\ (page.still => level + lost = page.dip + page.lost)

LedgerInv == NothingLater /\ EachLitreOnce /\ BookNeverNegative
ShiftsInv == ClosedShifts /\ SinceOpening /\ SinceClosing
StockInv == StockTypeOK /\ LedgerInv /\ ShiftsInOrder /\ ShiftsInv
TInv == TankTypeOK /\ StockInv /\ PageReads

-----------------------------------------------------------------------------
(* Sums over instants.                                                     *)

\* Time is finite.
LEMMA FiniteTime == IsFiniteSet(Time) /\ \A I : I \subseteq Time => IsFiniteSet(I)
<1>1. 0 \in Int /\ MaxTime + ClockSkew \in Int
  BY StockAssumption
<1>2. IsFiniteSet(Time)
  BY <1>1, FS_Interval DEF Time
<1> QED BY <1>2, FS_Subset

\* A quantity for each instant.
Timed(f) == f \in [Time -> Int]

\* Sums over part of the time are numbers.
LEMMA TimedSum ==
  ASSUME NEW f, Timed(f), NEW I, I \subseteq Time
  PROVE  SumOf(Part(f, I)) \in Int /\ Numbers(f, Time) /\ Numbers(Part(f, I), I)
<1>1. Numbers(f, Time)
  BY FiniteTime DEF Timed, Numbers
<1>2. Numbers(Part(f, I), I)
  BY <1>1, PartOf
<1> QED BY <1>1, <1>2, SumIsInt

\* One quantity raised.
Raised(f, g, x, d) ==
  /\ Timed(f) /\ Timed(g) /\ x \in Time /\ d \in Int
  /\ g[x] = f[x] + d /\ \A t \in Time : t # x => g[t] = f[t]
\* Instants that are in Time.
Span(I) == I \subseteq Time

\* A sum over part of the time, when one quantity is raised.
LEMMA TimedRaised ==
  ASSUME NEW f, NEW g, NEW x, NEW d, Raised(f, g, x, d), NEW I, Span(I)
  PROVE  /\ x \in I => SumOf(Part(g, I)) = SumOf(Part(f, I)) + d
         /\ x \notin I => SumOf(Part(g, I)) = SumOf(Part(f, I))
<1> USE DEF Raised, Span
<1>1. PICK p : p = Part(f, I)
  OBVIOUS
<1>2. PICK q : q = Part(g, I)
  OBVIOUS
<1>3. Numbers(p, I) /\ Numbers(q, I) /\ SumOf(p) \in Int
  BY <1>1, <1>2, TimedSum
<1>4. \A t \in I : p[t] = f[t] /\ q[t] = g[t]
  BY <1>1, <1>2 DEF Part
<1>5. CASE x \in I
  <2>1. \A y \in I : y # x => q[y] = p[y]
    BY <1>4
  <2>2. SumOf(q) = SumOf(p) - p[x] + q[x]
    BY <1>3, <1>5, <2>1, SumReplaced
  <2>3. p[x] \in Int /\ q[x] = p[x] + d
    BY <1>4, <1>5 DEF Timed
  <2>4. SumOf(q) = SumOf(p) + d
    BY <1>3, <2>2, <2>3
  <2> QED BY <1>1, <1>2, <1>5, <2>4
<1>6. CASE x \notin I
  <2>1. q = p
    BY <1>1, <1>2, <1>6 DEF Part
  <2> QED BY <1>1, <1>2, <1>3, <1>6, <2>1
<1> QED BY <1>5, <1>6

\* The same quantities.
LEMMA TimedSame ==
  ASSUME NEW f, NEW g, NEW I, \A t \in I : g[t] = f[t]
  PROVE  SumOf(Part(g, I)) = SumOf(Part(f, I))
<1>1. Part(g, I) = Part(f, I)
  BY DEF Part
<1> QED BY <1>1

\* One instant more.
LEMMA TimedLonger ==
  ASSUME NEW f, Timed(f), NEW I, NEW x \in Time, x \notin I, NEW J, J = I \cup {x}, J \subseteq Time
  PROVE  SumOf(Part(f, J)) = f[x] + SumOf(Part(f, I))
<1>1. Numbers(f, Time)
  BY TimedSum
<1>2. Takes(f, Time, J, x, I)
  BY <1>1 DEF Takes, Less
<1> QED BY <1>2, SumOfLess

\* Nothing but zeros.
LEMMA TimedZeros ==
  ASSUME NEW f, Timed(f), NEW I, I \subseteq Time, \A t \in I : f[t] = 0
  PROVE  SumOf(Part(f, I)) = 0
<1>1. Numbers(Part(f, I), I)
  BY TimedSum
<1>2. \A t \in I : Part(f, I)[t] = 0
  BY DEF Part
<1> QED BY <1>1, <1>2, SumOfZeros

\* One kind, three kinds and all four.
LEMMA SumOfKinds ==
  ASSUME NEW f \in [RowType -> Int]
  PROVE  /\ SumOf(Part(f, {"ADJUSTMENT"})) = f["ADJUSTMENT"]
         /\ SumOf(Part(f, BridgeKinds)) = f["RECEIPT"] + f["ADJUSTMENT"] + f["TESTING"]
         /\ SumOf(Part(f, RowType)) = f["RECEIPT"] + f["SALE"] + f["ADJUSTMENT"] + f["TESTING"]
<1>1. Numbers(f, RowType)
  <2>1. IsFiniteSet({"RECEIPT"}) /\ IsFiniteSet({"SALE"}) /\ IsFiniteSet({"ADJUSTMENT"})
        /\ IsFiniteSet({"TESTING"})
    BY FS_Singleton
  <2>2. IsFiniteSet({"RECEIPT"} \cup {"SALE"}) /\ IsFiniteSet({"ADJUSTMENT"} \cup {"TESTING"})
    BY <2>1, FS_Union
  <2>3. IsFiniteSet(({"RECEIPT"} \cup {"SALE"}) \cup ({"ADJUSTMENT"} \cup {"TESTING"}))
    BY <2>2, FS_Union
  <2>4. RowType = ({"RECEIPT"} \cup {"SALE"}) \cup ({"ADJUSTMENT"} \cup {"TESTING"})
    BY DEF RowType
  <2> QED BY <2>3, <2>4 DEF Numbers
<1>2. PICK E : E = {}
  OBVIOUS
<1>3. SumOf(Part(f, E)) = 0
  <2>1. Numbers(Part(f, E), E)
    BY <1>1, <1>2, PartOf
  <2> QED BY <1>2, <2>1, SumIsInt
<1>4. PICK A : A = {"ADJUSTMENT"}
  OBVIOUS
<1>5. PICK B : B = {"ADJUSTMENT", "TESTING"}
  OBVIOUS
<1>6. PICK C : C = BridgeKinds
  OBVIOUS
<1>7. /\ Takes(f, RowType, A, "ADJUSTMENT", E) /\ Takes(f, RowType, B, "TESTING", A)
      /\ Takes(f, RowType, C, "RECEIPT", B) /\ Takes(f, RowType, RowType, "SALE", C)
  BY <1>1, <1>2, <1>4, <1>5, <1>6 DEF Takes, Less, RowType, BridgeKinds
<1>8. SumOf(Part(f, A)) = f["ADJUSTMENT"] + SumOf(Part(f, E))
  BY <1>7, SumOfLess
<1>9. SumOf(Part(f, B)) = f["TESTING"] + SumOf(Part(f, A))
  BY <1>7, SumOfLess
<1>10. SumOf(Part(f, C)) = f["RECEIPT"] + SumOf(Part(f, B))
  BY <1>7, SumOfLess
<1>11. SumOf(Part(f, RowType)) = f["SALE"] + SumOf(Part(f, C))
  BY <1>7, SumOfLess
<1>12. f["ADJUSTMENT"] \in Int /\ f["TESTING"] \in Int /\ f["RECEIPT"] \in Int /\ f["SALE"] \in Int
  BY DEF RowType
<1> QED BY <1>3, <1>4, <1>6, <1>8, <1>9, <1>10, <1>11, <1>12

\* The ledger's rows, by kind.
RowsTyped == rows \in [RowType -> [Time -> Int]] /\ outstanding \in [Time -> Nat]

\* What the code's sum adds up, for the kinds it is asked for.
LEMMA SumIsPosted ==
  ASSUME RowsTyped, NEW I, I \subseteq Time
  PROVE  /\ \A k \in RowType : Booked(k, I) \in Int /\ Timed(rows[k])
         /\ Sum({"ADJUSTMENT"}, I) = Booked("ADJUSTMENT", I)
         /\ Sum(BridgeKinds, I) = Booked("RECEIPT", I) + Booked("ADJUSTMENT", I) + Booked("TESTING", I)
         /\ Sum(RowType, I) = Booked("RECEIPT", I) + Booked("SALE", I)
                                + Booked("ADJUSTMENT", I) + Booked("TESTING", I)
<1>1. \A k \in RowType : Timed(rows[k])
  BY DEF RowsTyped, Timed
<1>2. \A k \in RowType : Booked(k, I) \in Int
  BY <1>1, TimedSum DEF Booked
<1>3. PICK f : f = [k \in RowType |-> Booked(k, I)]
  OBVIOUS
<1>4. f \in [RowType -> Int] /\ \A k \in RowType : f[k] = Booked(k, I)
  BY <1>2, <1>3
<1>5. ASSUME NEW K, K \subseteq RowType PROVE Sum(K, I) = SumOf(Part(f, K))
  <2>1. [k \in K |-> SumOf([t \in I |-> rows[k][t]])] = Part(f, K)
    BY <1>4, <1>5 DEF Part, Booked
  <2> QED BY <2>1 DEF Sum
<1>6. /\ Sum({"ADJUSTMENT"}, I) = SumOf(Part(f, {"ADJUSTMENT"}))
      /\ Sum(BridgeKinds, I) = SumOf(Part(f, BridgeKinds))
      /\ Sum(RowType, I) = SumOf(Part(f, RowType))
  BY <1>5 DEF BridgeKinds, RowType
<1>7. f["ADJUSTMENT"] = Booked("ADJUSTMENT", I) /\ f["RECEIPT"] = Booked("RECEIPT", I)
      /\ f["TESTING"] = Booked("TESTING", I) /\ f["SALE"] = Booked("SALE", I)
  BY <1>4 DEF RowType
<1> QED BY <1>1, <1>2, <1>4, <1>6, <1>7, SumOfKinds

-----------------------------------------------------------------------------
(* Time that passes and deliveries that come.                              *)

\* Instants from after one through another.
LEMMA Instants ==
  ASSUME NEW a \in Time, NEW n \in Time
  PROVE  /\ a \in Nat /\ n \in Nat /\ (a + 1)..n \subseteq Time /\ 0..n \subseteq Time
         /\ (a + 1)..(n - 1) \subseteq Time /\ a..(n - 1) \subseteq Time
BY StockAssumption DEF Time

\* A delivery of q at n, or one instant that passes without any.
Comes(c, e, n, m, q) ==
  /\ Timed(c) /\ Timed(e) /\ n \in Time /\ m \in Time /\ q \in Nat
  /\ \A t \in Time : e[t] = c[t] + (IF t = n THEN q ELSE 0)
  /\ \A t \in Time : c[t] >= 0
  /\ m = n \/ (m = n + 1 /\ q = 0 /\ c[m] = 0)

\* What came since a dip goes on accounting for the tank, as time passes and
\* deliveries come.
LEMMA FollowsOn ==
  ASSUME NEW c, NEW e, NEW n, NEW m, NEW q, Comes(c, e, n, m, q),
         NEW at \in Time, at <= n, NEW dip \in Int, NEW net \in Int, Follows(at, dip, net, c, n),
         NEW new, new = net + q
  PROVE  Follows(at, dip, new, e, m)
<1> SUFFICES ASSUME e[at] = 0 PROVE new - dip = SumOf(Part(e, (at + 1)..m))
  BY DEF Follows
<1>1. /\ Timed(c) /\ Timed(e) /\ n \in Time /\ m \in Time /\ q \in Nat
      /\ \A t \in Time : e[t] = c[t] + (IF t = n THEN q ELSE 0) /\ c[t] \in Int
      /\ \A t \in Time : c[t] >= 0
      /\ m = n \/ (m = n + 1 /\ q = 0 /\ c[m] = 0)
  BY DEF Comes, Timed
<1>2. c[at] = 0 /\ (at = n => q = 0)
  BY <1>1
<1>3. PICK I : I = (at + 1)..n
  OBVIOUS
<1>4. I \subseteq Time /\ at \in Nat /\ n \in Nat
  BY <1>1, <1>3, Instants
<1>5. net - dip = SumOf(Part(c, I)) /\ SumOf(Part(c, I)) \in Int
  BY <1>1, <1>2, <1>3, <1>4, TimedSum DEF Follows
<1>6. n \in I => SumOf(Part(e, I)) = SumOf(Part(c, I)) + q
  <2>1. e[n] = c[n] + q /\ \A t \in Time : t # n => e[t] = c[t]
    BY <1>1
  <2>2. Raised(c, e, n, q)
    BY <1>1, <2>1 DEF Raised
  <2>3. Span(I)
    BY <1>4 DEF Span
  <2> QED BY <2>2, <2>3, TimedRaised
<1>7. n \in I \/ q = 0
  BY <1>2, <1>3, <1>4
<1>8. SumOf(Part(e, I)) = SumOf(Part(c, I)) + q
  <2>1. CASE n \in I
    BY <1>6, <2>1
  <2>2. CASE q = 0
    <3>1. \A t \in I : e[t] = c[t]
      BY <1>1, <1>4, <2>2
    <3>2. SumOf(Part(e, I)) = SumOf(Part(c, I))
      BY <3>1, TimedSame
    <3> QED BY <1>5, <2>2, <3>2
  <2> QED BY <1>7, <2>1, <2>2
<1>9. CASE m = n
  BY <1>1, <1>3, <1>5, <1>8, <1>9
<1>10. CASE m = n + 1 /\ q = 0 /\ c[m] = 0
  <2>1. PICK J : J = (at + 1)..m
    OBVIOUS
  <2>2. J = I \cup {m} /\ m \notin I /\ J \subseteq Time
    <3>1. J \subseteq Time
      BY <1>1, <2>1, Instants
    <3> QED BY <1>3, <1>4, <1>10, <2>1, <3>1
  <2>3. SumOf(Part(e, J)) = e[m] + SumOf(Part(e, I))
    BY <1>1, <2>2, TimedLonger
  <2>4. e[m] = 0
    BY <1>1, <1>4, <1>10
  <2> QED BY <1>1, <1>5, <1>8, <1>10, <2>1, <2>3, <2>4
<1> QED BY <1>1, <1>9, <1>10

\* What came between the dips of a closed shift comes no more.
LEMMA DipsStayAgreed ==
  ASSUME NEW c, NEW e, NEW n, NEW m, NEW q, Comes(c, e, n, m, q),
         NEW s, DipsAgree(s, c), s.openedAt \in Time, s.closedAt \in Time, s.closedAt <= n,
         s.openedAt <= s.closedAt
  PROVE  DipsAgree(s, e)
<1>1. PICK o \in Time, d \in Time : o = s.openedAt /\ d = s.closedAt
  OBVIOUS
<1>2. /\ Timed(c) /\ Timed(e) /\ n \in Time /\ q \in Nat
      /\ \A t \in Time : e[t] = c[t] + (IF t = n THEN q ELSE 0) /\ c[t] \in Int
      /\ \A t \in Time : c[t] >= 0
  BY DEF Comes, Timed
<1>3. PICK I : I = (o + 1)..(d - 1)
  OBVIOUS
<1>4. I \subseteq Time /\ o \in Nat /\ d \in Nat /\ n \in Nat
  BY <1>1, <1>2, <1>3, Instants
<1>5. ASSUME e[o] = 0, e[d] = 0 PROVE c[o] = 0 /\ c[d] = 0
  BY <1>2, <1>5
<1>6. SumOf(Part(e, I)) = SumOf(Part(c, I))
  <2>1. \A t \in I : t # n
    BY <1>1, <1>3, <1>4
  <2>2. \A t \in I : e[t] = c[t]
    BY <1>2, <1>4, <2>1
  <2> QED BY <2>2, TimedSame
<1> QED BY <1>1, <1>3, <1>5, <1>6 DEF DipsAgree

-----------------------------------------------------------------------------
(* Steps that leave the shifts alone.                                      *)

\* What the types say of the ledger and the deliveries.
WellPosted ==
  /\ RowsTyped /\ Timed(Came) /\ now \in Time
  /\ \A t \in Time : Came[t] = outstanding[t] + rows["RECEIPT"][t] /\ Came[t] >= 0
  /\ \A k \in RowType : Timed(rows[k])

\* What the types say of the ledger, now
LEMMA PostedTyped == StockTypeOK => WellPosted
<1> SUFFICES ASSUME StockTypeOK PROVE WellPosted
  OBVIOUS
<1>1. RowsTyped
  BY DEF StockTypeOK, RowsTyped
<1>2. now \in Time
  BY StockAssumption DEF StockTypeOK, Time
<1>3. \A k \in RowType : Timed(rows[k])
  BY <1>1 DEF RowsTyped, Timed
<1>4. \A t \in Time : outstanding[t] \in Nat /\ rows["RECEIPT"][t] \in Int /\ rows["RECEIPT"][t] >= 0
  BY <1>1 DEF RowsTyped, RowType, StockTypeOK
<1>5. Timed(Came) /\ \A t \in Time : Came[t] = outstanding[t] + rows["RECEIPT"][t]
  BY <1>4 DEF Timed, Came
<1> QED BY <1>1, <1>2, <1>3, <1>4, <1>5 DEF WellPosted

\* and after a step.
LEMMA PostedTypedNext == StockTypeOK' => WellPosted'
BY PostedTyped, PTL

\* The rows of the shifts.
ShiftsTyped ==
  /\ shifts \in Seq(ShiftRow)
  /\ \A i \in DOMAIN shifts :
       /\ shifts[i].openedAt \in Time /\ shifts[i].openedAt <= now
       /\ {shifts[i].openingDip, shifts[i].openingMeter, shifts[i].lostBefore, shifts[i].lostAfter,
           shifts[i].testing} \subseteq Nat
       /\ shifts[i].returned \in BOOLEAN /\ shifts[i].still \in BOOLEAN
       /\ shifts[i].closedAt # Unset =>
            /\ shifts[i].closedAt \in Time /\ shifts[i].openedAt <= shifts[i].closedAt
            /\ shifts[i].closedAt <= now /\ {shifts[i].closingDip, shifts[i].closingMeter} \subseteq Nat
  /\ shifts # <<>> => Len(shifts) \in DOMAIN shifts

\* A shift's row, by the types and the order of the shifts.
LEMMA RowsOfShifts ==
  ASSUME StockTypeOK, ShiftsInOrder
  PROVE  ShiftsTyped
<1>1. shifts \in Seq(ShiftRow)
  BY DEF StockTypeOK
<1>2. \A i \in DOMAIN shifts : shifts[i] \in ShiftRow
  BY <1>1
<1>3. shifts # <<>> => Len(shifts) \in DOMAIN shifts
  BY <1>1
<1> QED BY <1>1, <1>2, <1>3 DEF ShiftsTyped, ShiftsInOrder, ShiftRow

\* Such a step: q came, nothing was posted for testing, and nothing sold between
\* shifts.
Moves(q) ==
  /\ UNCHANGED shifts
  /\ Comes(Came, Came', now, now', q)
  /\ \A t \in Time : rows'["TESTING"][t] = rows["TESTING"][t]
  /\ ~ShiftOpen => \A t \in Time : rows'["SALE"][t] = rows["SALE"][t]
  /\ NoneAhead' => NoneAhead
  /\ Net' = Net + q

\* Net is a number.
LEMMA NetIsInt ==
  ASSUME StockTypeOK, ShiftsInOrder
  PROVE  Net \in Int /\ Drawn \in Int
<1>1. ShiftsTyped
  BY RowsOfShifts
<1>2. {level, lost, meter, tested} \subseteq Nat
  BY DEF StockTypeOK
<1>3. ShiftOpen => Last.openingMeter \in Nat
  BY <1>1 DEF ShiftsTyped, ShiftOpen, Last
<1> QED BY <1>2, <1>3 DEF Net, Drawn

\* One instant more without a row.
LEMMA UntestedOn ==
  ASSUME NEW u, NEW at \in Time, NEW n \in Time, NEW m \in Time, m = n \/ m = n + 1,
         Untested(u, at, n), NEW w, \A t \in Time : w[t] = u[t], m = n + 1 => u[m] = 0
  PROVE  Untested(w, at, m)
<1> SUFFICES ASSUME NEW t \in (at + 1)..m PROVE w[t] = 0
  BY DEF Untested
<1>1. at \in Nat /\ n \in Nat /\ m \in Nat /\ t \in Time
  BY Instants
<1>2. t \in (at + 1)..n \/ t = m
  BY <1>1
<1> QED BY <1>1, <1>2 DEF Untested

\* Such a step keeps what the dips of the shifts say of the tank.
LEMMA MovesKeepShifts ==
  ASSUME StockInv, StockTypeOK', NEW q, Moves(q)
  PROVE  ShiftsInv'
<1>1. StockTypeOK /\ ShiftsInOrder /\ NothingLater
  BY DEF StockInv, LedgerInv
<1>2. WellPosted /\ ShiftsTyped /\ Net \in Int
  BY <1>1, PostedTyped, RowsOfShifts, NetIsInt
<1>3. /\ shifts' = shifts /\ (ShiftOpen' <=> ShiftOpen) /\ Last' = Last
      /\ Comes(Came, Came', now, now', q) /\ Net' = Net + q
  BY DEF Moves, ShiftOpen, Last
<1>4. now \in Time /\ now' \in Time /\ (now' = now \/ now' = now + 1)
  BY <1>3 DEF Comes
<1>5. now' = now + 1 => /\ rows["TESTING"][now'] = 0
                        /\ NoneAhead => rows["SALE"][now'] = 0
  <2>1. now \in Nat
    BY <1>1 DEF StockTypeOK
  <2>2. now' = now + 1 => now' > now
    BY <2>1
  <2>3. rows["SALE"][now'] \in Int
    BY <1>2, <1>4 DEF WellPosted, RowType, Timed
  <2>4. NoneAhead => ahead[now'] = 0
    BY <1>4 DEF NoneAhead
  <2> QED BY <1>1, <1>4, <2>2, <2>3, <2>4 DEF NothingLater
<1>6. ClosedShifts'
  <2> SUFFICES ASSUME NEW i \in DOMAIN shifts, NEW s, s = shifts[i], s.closedAt # Unset
               PROVE  /\ Untested(rows'["TESTING"], s.openedAt, s.closedAt - 1)
                      /\ s.still => DipsAgree(s, Came')
    BY <1>3 DEF ClosedShifts
  <2>1. /\ s.openedAt \in Time /\ s.closedAt \in Time /\ s.openedAt <= s.closedAt
        /\ s.closedAt <= now
    BY <1>2 DEF ShiftsTyped
  <2>2. /\ Untested(rows["TESTING"], s.openedAt, s.closedAt - 1)
        /\ s.still => DipsAgree(s, Came)
    BY DEF StockInv, ShiftsInv, ClosedShifts
  <2>3. Untested(rows'["TESTING"], s.openedAt, s.closedAt - 1)
    <3>1. (s.openedAt + 1)..(s.closedAt - 1) \subseteq Time
      BY <2>1, Instants
    <3> QED BY <2>2, <3>1 DEF Untested, Moves
  <2>4. s.still => DipsAgree(s, Came')
    BY <1>3, <2>1, <2>2, DipsStayAgreed
  <2> QED BY <2>3, <2>4
<1>7. SinceOpening'
  <2> SUFFICES ASSUME ShiftOpen, NEW s, s = Last
               PROVE  /\ Untested(rows'["TESTING"], s.openedAt, now')
                      /\ s.still => Follows(s.openedAt, s.lostBefore + s.openingDip, Net', Came', now')
    BY <1>3 DEF SinceOpening
  <2>1. /\ s.openedAt \in Time /\ s.openedAt <= now /\ s.lostBefore + s.openingDip \in Int
    BY <1>2 DEF ShiftsTyped, ShiftOpen, Last
  <2>2. /\ Untested(rows["TESTING"], s.openedAt, now)
        /\ s.still => Follows(s.openedAt, s.lostBefore + s.openingDip, Net, Came, now)
    BY DEF StockInv, ShiftsInv, SinceOpening
  <2>3. Untested(rows'["TESTING"], s.openedAt, now')
    BY <1>4, <1>5, <2>1, <2>2, UntestedOn DEF Moves
  <2>4. s.still => Follows(s.openedAt, s.lostBefore + s.openingDip, Net', Came', now')
    BY <1>2, <1>3, <2>1, <2>2, FollowsOn
  <2> QED BY <2>3, <2>4
<1>8. SinceClosing'
  <2> SUFFICES ASSUME ~ShiftOpen, shifts # <<>>, NEW s, s = Last
               PROVE  /\ Untested(rows'["TESTING"], s.closedAt, now')
                      /\ NoneAhead' => Untested(rows'["SALE"], s.closedAt, now')
                      /\ s.still => Follows(s.closedAt, s.lostAfter + s.closingDip, Net', Came', now')
    BY <1>3 DEF SinceClosing
  <2>1. /\ s.closedAt \in Time /\ s.closedAt <= now /\ s.lostAfter + s.closingDip \in Int
    BY <1>2 DEF ShiftsTyped, ShiftOpen, Last
  <2>2. /\ Untested(rows["TESTING"], s.closedAt, now)
        /\ NoneAhead => Untested(rows["SALE"], s.closedAt, now)
        /\ s.still => Follows(s.closedAt, s.lostAfter + s.closingDip, Net, Came, now)
    BY DEF StockInv, ShiftsInv, SinceClosing
  <2>3. Untested(rows'["TESTING"], s.closedAt, now')
    BY <1>4, <1>5, <2>1, <2>2, UntestedOn DEF Moves
  <2>4. NoneAhead' => Untested(rows'["SALE"], s.closedAt, now')
    BY <1>4, <1>5, <2>1, <2>2, UntestedOn DEF Moves
  <2>5. s.still => Follows(s.closedAt, s.lostAfter + s.closingDip, Net', Came', now')
    BY <1>2, <1>3, <2>1, <2>2, FollowsOn
  <2> QED BY <2>3, <2>4, <2>5
<1> QED BY <1>6, <1>7, <1>8 DEF ShiftsInv

-----------------------------------------------------------------------------
(* What is posted, and the book.                                           *)

\* One row of one kind raised, the others left alone.
RowRaised(R, Q, k, x, d) ==
  /\ R \in [RowType -> [Time -> Int]] /\ Q \in [RowType -> [Time -> Int]]
  /\ k \in RowType /\ x \in Time /\ d \in Int
  /\ Raised(R[k], Q[k], x, d) /\ \A j \in RowType : j # k => Q[j] = R[j]

\* Post raises one row.
LEMMA PostRaises ==
  ASSUME NEW R \in [RowType -> [Time -> Int]], NEW k \in RowType, NEW x \in Time, NEW d \in Int,
         NEW Q, Q = [R EXCEPT ![k][x] = @ + d]
  PROVE  RowRaised(R, Q, k, x, d)
<1>1. R[k] \in [Time -> Int]
  OBVIOUS
<1>2. PICK u : u = [R[k] EXCEPT ![x] = R[k][x] + d]
  OBVIOUS
<1>3. u \in [Time -> Int] /\ u[x] = R[k][x] + d /\ \A t \in Time : t # x => u[t] = R[k][t]
  BY <1>1, <1>2
<1>4. Q = [R EXCEPT ![k] = u]
  BY <1>2
<1>5. Q \in [RowType -> [Time -> Int]] /\ Q[k] = u /\ \A j \in RowType : j # k => Q[j] = R[j]
  BY <1>3, <1>4
<1>6. Raised(R[k], Q[k], x, d)
  BY <1>1, <1>3, <1>5 DEF Raised, Timed
<1> QED BY <1>5, <1>6 DEF RowRaised

\* What a kind adds up to, when a row of it is raised.
LEMMA PostedMoves ==
  ASSUME NEW R, NEW Q, NEW k, NEW x, NEW d, RowRaised(R, Q, k, x, d),
         NEW j \in RowType, NEW I, Span(I)
  PROVE  SumOf(Part(Q[j], I)) = SumOf(Part(R[j], I)) + (IF j = k /\ x \in I THEN d ELSE 0)
<1>1. SumOf(Part(R[j], I)) \in Int
  BY TimedSum DEF RowRaised, Timed, Span
<1>2. CASE j # k
  BY <1>1, <1>2 DEF RowRaised
<1>3. CASE j = k
  <2>1. Raised(R[j], Q[j], x, d)
    BY <1>3 DEF RowRaised
  <2> QED BY <1>1, <1>3, <2>1, TimedRaised
<1> QED BY <1>2, <1>3

\* The book at an instant, kind by kind.
BookOf(R, n) ==
  OpeningStock + (SumOf(Part(R["RECEIPT"], 0..n)) + SumOf(Part(R["SALE"], 0..n))
                    + SumOf(Part(R["ADJUSTMENT"], 0..n)) + SumOf(Part(R["TESTING"], 0..n)))

\* BookStockAt adds the kinds up one by one, now
LEMMA BookIs ==
  StockTypeOK => \A n \in Time : BookStockAt(n) = BookOf(rows, n)
<1> SUFFICES ASSUME StockTypeOK, NEW n \in Time PROVE BookStockAt(n) = BookOf(rows, n)
  OBVIOUS
<1>1. 0..n \subseteq Time /\ RowsTyped
  BY Instants, PostedTyped DEF WellPosted
<1> QED BY <1>1, SumIsPosted DEF BookStockAt, BookOf, Booked

\* and after a step.
LEMMA BookIsNext == StockTypeOK' => (\A n \in Time : BookStockAt(n)' = BookOf(rows', n))
<1>1. StockTypeOK' => (\A n \in Time : BookStockAt(n) = BookOf(rows, n))'
  BY BookIs, PTL
<1> QED BY <1>1

\* The book, when a row is raised.
LEMMA BookMoves ==
  ASSUME NEW R, NEW Q, NEW k, NEW x, NEW d, RowRaised(R, Q, k, x, d), NEW n \in Time
  PROVE  BookOf(Q, n) = BookOf(R, n) + (IF x <= n THEN d ELSE 0) /\ BookOf(R, n) \in Int
<1>1. Span(0..n) /\ (x \in 0..n <=> x <= n) /\ OpeningStock \in Nat
  BY Instants, StockAssumption DEF Span, RowRaised, Time
<1>2. \A j \in RowType : SumOf(Part(R[j], 0..n)) \in Int
  BY <1>1, TimedSum DEF RowRaised, Timed, Span
<1>3. \A j \in RowType :
        SumOf(Part(Q[j], 0..n)) = SumOf(Part(R[j], 0..n)) + (IF j = k /\ x <= n THEN d ELSE 0)
  <2>1. PICK I : I = 0..n
    OBVIOUS
  <2>2. \A j \in RowType :
          SumOf(Part(Q[j], I)) = SumOf(Part(R[j], I)) + (IF j = k /\ x \in I THEN d ELSE 0)
    <3>1. Span(I)
      BY <1>1, <2>1
    <3> QED BY <3>1, PostedMoves
  <2> QED BY <1>1, <2>1, <2>2
<1>4. k \in RowType /\ d \in Int
  BY DEF RowRaised
<1> QED BY <1>1, <1>2, <1>3, <1>4 DEF BookOf, RowType

-----------------------------------------------------------------------------
(* The steps of the tank.                                                  *)

\* What was sold ahead is a quantity.
LEMMA AheadIs ==
  ASSUME StockTypeOK
  PROVE  /\ Timed(ahead) /\ \A t \in Time : ahead[t] \in Nat
         /\ SoldAhead = SumOf(Part(ahead, 0..now)) /\ SoldAhead \in Nat
<1>1. Timed(ahead) /\ \A t \in Time : ahead[t] \in Nat
  BY DEF StockTypeOK, Timed
<1>2. PICK I : I = 0..now /\ I \subseteq Time
  BY PostedTyped, Instants DEF WellPosted
<1>3. Numbers(Part(ahead, I), I)
  BY <1>1, <1>2, TimedSum
<1>4. \A t \in I : Part(ahead, I)[t] >= 0
  BY <1>1, <1>2 DEF Part
<1>5. SumOf(Part(ahead, I)) \in Nat
  BY <1>3, <1>4, SumIsNat
<1> QED BY <1>1, <1>2, <1>5 DEF SoldAhead, Part

\* It is so in a state
AheadTyped == SoldAhead \in Nat

LEMMA AheadNow == StockTypeOK => AheadTyped
BY AheadIs DEF AheadTyped

\* and after a step.
LEMMA AheadIsNext == StockTypeOK' => AheadTyped'
BY AheadNow, PTL

\* It stays what it is unless something is sold or time passes.
LEMMA AheadStays ==
  ASSUME UNCHANGED <<now, ahead>>
  PROVE  SoldAhead' = SoldAhead /\ (NoneAhead' <=> NoneAhead)
BY DEF SoldAhead, NoneAhead

\* A step that posts nothing while nothing comes.
LEMMA QuietStep ==
  ASSUME StockInv, StockTypeOK', ShiftsInOrder',
         UNCHANGED <<now, outstanding, rows, shifts, metered, ahead>>, Net' = Net
  PROVE  StockInv'
<1>1. WellPosted /\ Net \in Int
  BY PostedTyped, NetIsInt DEF StockInv
<1>2. Came' = Came
  BY DEF Came
<1>3. LedgerInv'
  <2>1. NothingLater'
    BY DEF StockInv, LedgerInv, NothingLater
  <2>2. EachLitreOnce'
    BY <1>2 DEF StockInv, LedgerInv, EachLitreOnce, CameIn, Booked
  <2>3. BookNeverNegative'
    BY AheadStays DEF StockInv, LedgerInv, BookNeverNegative, BookStockAt, Sum
  <2> QED BY <2>1, <2>2, <2>3 DEF LedgerInv
<1>4. Moves(0)
  <2>1. Comes(Came, Came', now, now', 0)
    BY <1>1, <1>2 DEF WellPosted, Comes, Timed
  <2> QED BY <1>1, <2>1, AheadStays DEF Moves
<1> QED BY <1>3, <1>4, MovesKeepShifts DEF StockInv

\* Nothing that the open shift has of the tank is negative.
LEMMA OpenTyped ==
  ASSUME StockTypeOK, ShiftsInOrder
  PROVE  /\ {now, level, meter, lost, metered, tested, events} \subseteq Nat
         /\ now \in Time /\ poured \in BOOLEAN /\ ahead \in [Time -> Nat]
         /\ shifts # <<>> => Last \in ShiftRow /\ Len(shifts) \in Nat /\ Len(shifts) > 0
         /\ ShiftOpen => /\ Last.openingMeter \in Nat /\ Last.openedAt \in Time
                         /\ Last.openedAt <= now /\ Last.openingMeter + metered + tested <= meter
         /\ ~ShiftOpen => OpeningMeter \in Nat
<1>1. WellPosted /\ ShiftsTyped
  BY PostedTyped, RowsOfShifts
<1>2. shifts # <<>> => Last \in ShiftRow /\ Len(shifts) \in Nat /\ Len(shifts) > 0
  BY DEF StockTypeOK, Last
<1>3. ~ShiftOpen => OpeningMeter \in Nat
  BY DEF ShiftsInOrder, StockTypeOK
<1>4. ShiftOpen => Last.openingMeter \in Nat /\ Last.openedAt \in Time
  BY <1>2 DEF ShiftOpen, ShiftRow
<1> QED BY <1>1, <1>2, <1>3, <1>4 DEF WellPosted, StockTypeOK, ShiftsInOrder, ShiftsTyped, ShiftOpen, Last

\* Fuel that is lost, sold at the pump, tested or poured back.
LEMMA PumpStep ==
  ASSUME StockInv, Lose \/ Draw \/ Test \/ PourBack
  PROVE  StockInv'
<1>1. StockTypeOK /\ ShiftsInOrder
  BY DEF StockInv
<1>2. /\ {now, level, meter, lost, metered, tested, events} \subseteq Nat
      /\ poured \in BOOLEAN
      /\ ShiftOpen => /\ Last.openingMeter \in Nat /\ Last.openingMeter + metered + tested <= meter
  BY <1>1, OpenTyped
<1>3. /\ UNCHANGED <<now, outstanding, rows, shifts, metered, ahead>>
      /\ (ShiftOpen' <=> ShiftOpen) /\ Last' = Last
  BY DEF Lose, Draw, Test, PourBack, ShiftOpen, Last
<1>4. /\ {level', meter', lost', tested', events'} \subseteq Nat /\ poured' \in BOOLEAN
      /\ meter <= meter' /\ tested' - tested <= meter' - meter
  <2>1. CASE Lose
    BY <1>2, <2>1 DEF Lose, Event
  <2>2. CASE Draw
    BY <1>2, <2>2 DEF Draw, Event
  <2>3. CASE Test
    BY <1>2, <2>3 DEF Test, Event
  <2>4. CASE PourBack
    BY <1>2, <2>4 DEF PourBack
  <2> QED BY <2>1, <2>2, <2>3, <2>4
<1>5. StockTypeOK'
  <2>1. metered' <= meter'
    BY <1>1, <1>2, <1>3, <1>4 DEF StockTypeOK
  <2> QED BY <1>1, <1>2, <1>3, <1>4, <2>1 DEF StockTypeOK
<1>6. ~ShiftOpen => UNCHANGED <<meter, tested, poured>>
  BY <1>1, <1>2 DEF Lose, Draw, Test, PourBack, ShiftsInOrder
<1>7. ShiftsInOrder'
  <2>1. ShiftOpen' => Last'.openingMeter + metered' + tested' <= meter'
    BY <1>2, <1>3, <1>4
  <2>2. ~ShiftOpen' => meter' = OpeningMeter' /\ metered' = 0 /\ tested' = 0 /\ poured' = FALSE
    BY <1>1, <1>3, <1>6 DEF ShiftsInOrder, OpeningMeter
  <2> QED BY <1>1, <1>3, <2>1, <2>2 DEF ShiftsInOrder
<1>8. Net' = Net
  <2>1. CASE Lose
    BY <1>2, <1>3, <2>1 DEF Net, Drawn, Lose
  <2>2. CASE Draw
    BY <1>2, <1>3, <2>2 DEF Net, Drawn, Draw
  <2>3. CASE Test
    BY <1>2, <1>3, <2>3 DEF Net, Drawn, Test
  <2>4. CASE PourBack
    <3>1. ShiftOpen
      BY <1>6, <2>4 DEF PourBack
    <3>2. /\ level' = level + tested /\ ~poured /\ poured'
          /\ UNCHANGED <<meter, lost, tested>>
      BY <2>4 DEF PourBack
    <3>3. Drawn = meter - Last.openingMeter /\ Drawn' = meter - Last.openingMeter - tested
      BY <1>2, <1>3, <3>1, <3>2 DEF Drawn
    <3> QED BY <1>2, <3>1, <3>2, <3>3 DEF Net
  <2> QED BY <2>1, <2>2, <2>3, <2>4
<1> QED BY <1>3, <1>5, <1>7, <1>8, QuietStep

\* Time passes.
LEMMA TickStep ==
  ASSUME StockInv, Tick
  PROVE  StockInv'
<1>1. StockTypeOK /\ ShiftsInOrder /\ NothingLater /\ EachLitreOnce /\ BookNeverNegative
  BY DEF StockInv, LedgerInv
<1>2. WellPosted /\ Net \in Int /\ now \in Nat
  BY <1>1, PostedTyped, NetIsInt, OpenTyped
<1>3. /\ UNCHANGED <<level, meter, outstanding, lost, rows, shifts, metered, tested, poured, ahead,
                     events>>
      /\ now' = now + 1 /\ now' \in 0..MaxTime /\ now' \in Time
  BY <1>1, <1>2, StockAssumption DEF Tick, tank, StockTypeOK, Time
<1>4. StockTypeOK'
  BY <1>1, <1>3 DEF StockTypeOK
<1>5. /\ (ShiftOpen' <=> ShiftOpen) /\ Last' = Last /\ Came' = Came /\ Net' = Net
      /\ OpeningMeter' = OpeningMeter
  BY <1>3 DEF ShiftOpen, Last, Came, Net, Drawn, OpeningMeter
<1>6. ShiftsInOrder'
  <2>1. \A i \in DOMAIN shifts :
          /\ shifts[i].openedAt <= now'
          /\ shifts[i].closedAt # Unset => shifts[i].closedAt <= now'
    <3>1. ShiftsTyped
      BY <1>1, RowsOfShifts
    <3>2. Time \subseteq Nat
      BY DEF Time
    <3>3. \A t \in Time : t <= now => t <= now'
      BY <1>2, <1>3, <3>2
    <3> QED BY <3>1, <3>3 DEF ShiftsTyped
  <2> QED BY <1>1, <1>3, <1>5, <2>1 DEF ShiftsInOrder
<1>7. NothingLater'
  <2>1. \A t \in Time : t > now' => t > now
    BY <1>2, <1>3 DEF Time
  <2> QED BY <1>1, <1>3, <2>1 DEF NothingLater
<1>8. EachLitreOnce'
  BY <1>1, <1>3, <1>5 DEF EachLitreOnce, CameIn, Booked
<1>9. now' > now /\ now \in Time
  BY <1>2, <1>3 DEF WellPosted
<1>10. BookNeverNegative'
  <2>1. PICK I, J : I = 0..now /\ J = 0..now'
    OBVIOUS
  <2>2. J = I \cup {now'} /\ now' \notin I /\ J \subseteq Time /\ I \subseteq Time
    BY <1>2, <1>3, <1>9, <2>1, Instants
  <2>3. ASSUME NEW f, Timed(f)
        PROVE  SumOf(Part(f, J)) = f[now'] + SumOf(Part(f, I)) /\ SumOf(Part(f, I)) \in Int
               /\ f[now'] \in Int
    BY <1>3, <2>2, <2>3, TimedLonger, TimedSum DEF Timed
  <2>4. \A k \in RowType : Timed(rows[k])
    BY <1>2 DEF WellPosted
  <2>5. /\ rows["RECEIPT"][now'] = 0 /\ rows["ADJUSTMENT"][now'] = 0 /\ rows["TESTING"][now'] = 0
        /\ rows["SALE"][now'] + ahead[now'] = 0
    BY <1>1, <1>3, <1>9 DEF NothingLater
  <2>6. OpeningStock \in Nat /\ "RECEIPT" \in RowType /\ "SALE" \in RowType
        /\ "ADJUSTMENT" \in RowType /\ "TESTING" \in RowType
    BY StockAssumption DEF RowType
  <2>7. PICK r1, r2, r3, r4 \in Int :
          /\ r1 = SumOf(Part(rows["RECEIPT"], I)) /\ r2 = SumOf(Part(rows["SALE"], I))
          /\ r3 = SumOf(Part(rows["ADJUSTMENT"], I)) /\ r4 = SumOf(Part(rows["TESTING"], I))
    BY <2>3, <2>4, <2>6
  <2>8. /\ SumOf(Part(rows["RECEIPT"], J)) = r1
        /\ SumOf(Part(rows["SALE"], J)) = r2 - ahead[now']
        /\ SumOf(Part(rows["ADJUSTMENT"], J)) = r3 /\ SumOf(Part(rows["TESTING"], J)) = r4
        /\ ahead[now'] \in Nat
    <3>1. ahead[now'] \in Nat
      BY <1>1, <1>3, AheadIs
    <3>2. /\ SumOf(Part(rows["RECEIPT"], J)) = rows["RECEIPT"][now'] + r1
          /\ SumOf(Part(rows["SALE"], J)) = rows["SALE"][now'] + r2
          /\ SumOf(Part(rows["ADJUSTMENT"], J)) = rows["ADJUSTMENT"][now'] + r3
          /\ SumOf(Part(rows["TESTING"], J)) = rows["TESTING"][now'] + r4
      BY <2>3, <2>4, <2>6, <2>7
    <3>3. rows["SALE"][now'] \in Int
      BY <2>3, <2>4, <2>6
    <3>4. rows["SALE"][now'] + r2 = r2 - ahead[now']
      <4>1. \A v \in Int, h \in Nat, w \in Int : v + h = 0 => v + w = w - h
        OBVIOUS
      <4> QED BY <2>5, <2>7, <3>1, <3>3, <4>1
    <3>5. 0 + r1 = r1 /\ 0 + r3 = r3 /\ 0 + r4 = r4
      BY <2>7
    <3> QED BY <2>5, <3>1, <3>2, <3>4, <3>5
  <2>9. BookOf(rows, now') = BookOf(rows, now) - ahead[now'] /\ BookOf(rows, now) \in Int
    BY <2>1, <2>6, <2>7, <2>8 DEF BookOf
  <2>10. BookStockAt(now)' = BookOf(rows, now') /\ BookStockAt(now) = BookOf(rows, now)
    <3>1. \A n \in Time : BookStockAt(n) = BookOf(rows, n)
      BY <1>1, BookIs
    <3>2. BookStockAt(now)' = BookStockAt(now')
      BY <1>3 DEF BookStockAt, Sum
    <3> QED BY <1>3, <1>9, <3>1, <3>2
  <2>11. SoldAhead' = SoldAhead + ahead[now'] /\ SoldAhead \in Nat
    <3>1. SoldAhead' = SumOf(Part(ahead, J))
      BY <1>3, <2>1 DEF SoldAhead, Part
    <3>2. SoldAhead = SumOf(Part(ahead, I)) /\ SoldAhead \in Nat /\ Timed(ahead)
      BY <1>1, <2>1, AheadIs
    <3> QED BY <2>3, <3>1, <3>2
  <2> QED BY <1>1, <2>8, <2>9, <2>10, <2>11 DEF BookNeverNegative
<1>11. Moves(0)
  <2>1. Came[now'] = 0
    <3>1. outstanding[now'] = 0 /\ rows["RECEIPT"][now'] = 0
      BY <1>1, <1>3, <1>9 DEF NothingLater
    <3> QED BY <1>2, <1>3, <3>1 DEF WellPosted
  <2>2. Comes(Came, Came', now, now', 0)
    BY <1>2, <1>3, <1>5, <1>9, <2>1 DEF WellPosted, Comes, Timed
  <2> QED BY <1>2, <1>3, <1>5, <2>2 DEF Moves, NoneAhead
<1> QED BY <1>1, <1>4, <1>6, <1>7, <1>8, <1>10, <1>11, MovesKeepShifts DEF StockInv, LedgerInv

\* A delivery comes.
LEMMA DeliverStep ==
  ASSUME StockInv, NEW q \in Nat, Deliver(q)
  PROVE  StockInv'
<1>1. StockTypeOK /\ ShiftsInOrder /\ NothingLater /\ EachLitreOnce /\ BookNeverNegative
  BY DEF StockInv, LedgerInv
<1>2. WellPosted /\ Net \in Int /\ Drawn \in Int
      /\ now \in Nat /\ now \in Time /\ level \in Nat /\ lost \in Nat /\ metered \in Nat /\ events \in Nat
  BY <1>1, PostedTyped, NetIsInt, OpenTyped
<1>3. /\ UNCHANGED <<now, meter, lost, rows, shifts, metered, tested, poured, ahead>>
      /\ level' = level + q /\ events' = events + 1
      /\ outstanding' = [outstanding EXCEPT ![now] = @ + q]
  BY DEF Deliver, Event
<1>4. outstanding \in [Time -> Nat]
  BY <1>1 DEF StockTypeOK
<1>5. /\ outstanding' \in [Time -> Nat] /\ outstanding'[now] = outstanding[now] + q
      /\ \A t \in Time : t # now => outstanding'[t] = outstanding[t]
  BY <1>2, <1>3, <1>4
<1>6. StockTypeOK'
  BY <1>1, <1>2, <1>3, <1>5 DEF StockTypeOK
<1>7. /\ (ShiftOpen' <=> ShiftOpen) /\ Last' = Last /\ OpeningMeter' = OpeningMeter
      /\ Drawn' = Drawn
  BY <1>3 DEF ShiftOpen, Last, OpeningMeter, Drawn
<1>8. Net' = Net + q
  BY <1>2, <1>3, <1>7 DEF Net
<1>9. ShiftsInOrder'
  BY <1>1, <1>3, <1>7 DEF ShiftsInOrder
<1>10. NothingLater'
  <2>1. \A t \in Time : t > now => t # now
    BY <1>2
  <2> QED BY <1>1, <1>3, <1>5, <2>1 DEF NothingLater
<1>11. WellPosted'
  BY <1>6, PostedTypedNext
<1>12. /\ Came'[now] = Came[now] + q
       /\ \A t \in Time : t # now => Came'[t] = Came[t]
  <2>1. \A t \in Time : Came'[t] = outstanding'[t] + rows'["RECEIPT"][t]
    BY <1>11 DEF WellPosted
  <2>2. \A t \in Time : Came[t] = outstanding[t] + rows["RECEIPT"][t] /\ outstanding[t] \in Nat
                        /\ rows["RECEIPT"][t] \in Int
    BY <1>2, <1>4 DEF WellPosted, RowType, Timed
  <2> QED BY <1>2, <1>3, <1>5, <2>1, <2>2
<1>13. Raised(Came, Came', now, q)
  BY <1>2, <1>11, <1>12 DEF Raised, WellPosted
<1>14. EachLitreOnce'
  <2>1. Span(Time) /\ now \in Time
    BY <1>2 DEF Span
  <2>2. CameIn(Time)' = CameIn(Time) + q
    BY <1>13, <2>1, TimedRaised DEF CameIn
  <2>3. Booked("SALE", Time)' = Booked("SALE", Time) /\ Booked("TESTING", Time)' = Booked("TESTING", Time)
    BY <1>3 DEF Booked
  <2>4. CameIn(Time) \in Int /\ Booked("SALE", Time) \in Int /\ Booked("TESTING", Time) \in Int
    BY <1>2, TimedSum DEF WellPosted, CameIn, Booked, RowType
  <2>5. OpeningStock \in Nat
    BY StockAssumption
  <2> QED BY <1>1, <1>2, <1>3, <1>8, <2>2, <2>3, <2>4, <2>5 DEF EachLitreOnce
<1>15. BookNeverNegative'
  BY <1>1, <1>3, AheadStays DEF BookNeverNegative, BookStockAt, Sum
<1>16. Moves(q)
  <2>1. \A t \in Time : Came'[t] = Came[t] + (IF t = now THEN q ELSE 0) /\ Came[t] >= 0
    <3>1. \A t \in Time : Came[t] \in Int /\ Came[t] >= 0
      BY <1>2 DEF WellPosted, Timed
    <3>2. PICK before, after : before = Came /\ after = Came'
      OBVIOUS
    <3> QED BY <1>12, <3>1, <3>2
  <2>2. Comes(Came, Came', now, now', q)
    BY <1>2, <1>3, <1>11, <2>1 DEF WellPosted, Comes
  <2> QED BY <1>3, <1>8, <2>2, AheadStays DEF Moves
<1> QED BY <1>6, <1>9, <1>10, <1>14, <1>15, <1>16, MovesKeepShifts DEF StockInv, LedgerInv

\* Rows of one kind posted, and what the ledger and the book say then.
Posts(k, x, d) ==
  /\ RowRaised(rows, rows', k, x, d)
  /\ UNCHANGED <<now, level, meter, lost, shifts, tested, poured>>

\* The book, the sums over all time and the tank then.
LEMMA PostedAll ==
  ASSUME StockInv, StockTypeOK', NEW k, NEW x, NEW d, Posts(k, x, d)
  PROVE  /\ BookStockAt(now)' = BookStockAt(now) + (IF x <= now THEN d ELSE 0)
         /\ BookStockAt(now) \in Int
         /\ Booked("SALE", Time)' = Booked("SALE", Time) + (IF k = "SALE" THEN d ELSE 0)
         /\ Booked("TESTING", Time)' = Booked("TESTING", Time) + (IF k = "TESTING" THEN d ELSE 0)
         /\ CameIn(Time) \in Int /\ Booked("SALE", Time) \in Int /\ Booked("TESTING", Time) \in Int
         /\ Net' = Net /\ Net \in Int /\ WellPosted /\ WellPosted' /\ ShiftsTyped
         /\ (ShiftOpen' <=> ShiftOpen) /\ Last' = Last /\ OpeningMeter' = OpeningMeter
<1>1. StockTypeOK /\ ShiftsInOrder
  BY DEF StockInv
<1>2. /\ Net \in Int /\ WellPosted /\ WellPosted' /\ ShiftsTyped
  BY <1>1, PostedTyped, PostedTypedNext, NetIsInt, RowsOfShifts
<1>3. /\ now' = now /\ now \in Time /\ x \in Time /\ RowRaised(rows, rows', k, x, d)
  BY <1>2 DEF Posts, WellPosted, RowRaised
<1>4. /\ (ShiftOpen' <=> ShiftOpen) /\ Last' = Last /\ OpeningMeter' = OpeningMeter
      /\ Net' = Net
  BY DEF Posts, ShiftOpen, Last, OpeningMeter, Net, Drawn
<1>5. BookStockAt(now) = BookOf(rows, now)
  BY <1>1, <1>3, BookIs
<1>6. BookStockAt(now)' = BookOf(rows', now)
  <2>1. \A n \in Time : BookStockAt(n)' = BookOf(rows', n)
    BY BookIsNext
  <2>2. BookStockAt(now)' = BookOf(rows', now)
    BY <1>3, <2>1 DEF BookStockAt, Sum
  <2> QED BY <2>2
<1>7. BookOf(rows', now) = BookOf(rows, now) + (IF x <= now THEN d ELSE 0) /\ BookOf(rows, now) \in Int
  BY <1>3, BookMoves
<1>8. Span(Time) /\ "SALE" \in RowType /\ "TESTING" \in RowType
  BY DEF Span, RowType
<1>9. /\ SumOf(Part(rows'["SALE"], Time))
           = SumOf(Part(rows["SALE"], Time)) + (IF "SALE" = k /\ x \in Time THEN d ELSE 0)
      /\ SumOf(Part(rows'["TESTING"], Time))
           = SumOf(Part(rows["TESTING"], Time)) + (IF "TESTING" = k /\ x \in Time THEN d ELSE 0)
  BY <1>3, <1>8, PostedMoves
<1>10. CameIn(Time) \in Int /\ Booked("SALE", Time) \in Int /\ Booked("TESTING", Time) \in Int
  BY <1>2, <1>8, TimedSum DEF WellPosted, CameIn, Booked
<1> QED BY <1>2, <1>3, <1>4, <1>5, <1>6, <1>7, <1>9, <1>10 DEF Booked

\* Post, of the code's rows.
LEMMA PostIs ==
  ASSUME StockTypeOK, NEW k \in RowType, NEW x \in Time, NEW d \in Int, Post(k, d, x)
  PROVE  RowRaised(rows, rows', k, x, d)
<1>1. rows \in [RowType -> [Time -> Int]]
  BY DEF StockTypeOK
<1>2. PICK R, Q : R = rows /\ Q = rows'
  OBVIOUS
<1>3. Q = [R EXCEPT ![k][x] = @ + d]
  BY <1>2 DEF Post
<1>4. RowRaised(R, Q, k, x, d)
  BY <1>1, <1>2, <1>3, PostRaises
<1> QED BY <1>2, <1>4

\* A posting keeps the types of the ledger, as long as its sign is that of its kind.
LEMMA PostKeepsTypes ==
  ASSUME StockTypeOK, NEW k, NEW x, NEW d, RowRaised(rows, rows', k, x, d),
         k = "RECEIPT" => d >= 0,
         k \in {"SALE", "TESTING"} => d <= 0
  PROVE  /\ rows' \in [RowType -> [Time -> Int]]
         /\ \A t \in Time : /\ rows'["RECEIPT"][t] >= 0
                            /\ rows'["SALE"][t] <= 0 /\ rows'["TESTING"][t] <= 0
<1>1. rows' \in [RowType -> [Time -> Int]] /\ rows \in [RowType -> [Time -> Int]]
      /\ k \in RowType /\ x \in Time /\ d \in Int
  BY DEF RowRaised
<1>2. \A t \in Time : /\ rows["RECEIPT"][t] >= 0 /\ rows["RECEIPT"][t] \in Int
                      /\ rows["SALE"][t] <= 0 /\ rows["SALE"][t] \in Int
                      /\ rows["TESTING"][t] <= 0 /\ rows["TESTING"][t] \in Int
  BY <1>1 DEF StockTypeOK, RowType
<1>3. \A j \in RowType : j # k => rows'[j] = rows[j]
  BY DEF RowRaised
<1>4. \A t \in Time : rows'[k][t] = rows[k][t] + (IF t = x THEN d ELSE 0)
  BY <1>1 DEF RowRaised, Raised
<1>5. \A t \in Time : rows'["RECEIPT"][t] >= 0
  <2>1. CASE k = "RECEIPT"
    BY <1>1, <1>2, <1>4, <2>1
  <2>2. CASE k # "RECEIPT"
    BY <1>2, <1>3, <2>2 DEF RowType
  <2> QED BY <2>1, <2>2
<1>6. \A t \in Time : rows'["SALE"][t] <= 0
  <2>1. CASE k = "SALE"
    BY <1>1, <1>2, <1>4, <2>1
  <2>2. CASE k # "SALE"
    BY <1>2, <1>3, <2>2 DEF RowType
  <2> QED BY <2>1, <2>2
<1>7. \A t \in Time : rows'["TESTING"][t] <= 0
  <2>1. CASE k = "TESTING"
    BY <1>1, <1>2, <1>4, <2>1
  <2>2. CASE k # "TESTING"
    BY <1>2, <1>3, <2>2 DEF RowType
  <2> QED BY <2>1, <2>2
<1> QED BY <1>1, <1>5, <1>6, <1>7

\* A posting of now or earlier leaves nothing later, a sale stamped ahead no more
\* than what is counted as that.
LEMMA PostKeepsLater ==
  ASSUME StockInv, NEW k, NEW x, NEW d, Posts(k, x, d), x <= now \/ k = "SALE",
         \A t \in Time : t > now =>
           outstanding'[t] = 0
             /\ ahead'[t] = ahead[t] - (IF k = "SALE" /\ t = x THEN d ELSE 0)
  PROVE  NothingLater'
<1>1. k \in RowType /\ x \in Time /\ d \in Int /\ now' = now
      /\ \A j \in RowType : j # k => rows'[j] = rows[j]
  BY DEF RowRaised, Posts
<1>2. \A t \in Time : rows'[k][t] = rows[k][t] + (IF t = x THEN d ELSE 0) /\ rows[k][t] \in Int
  BY <1>1 DEF RowRaised, Raised, Timed, Posts
<1>3. now \in Nat /\ NothingLater /\ StockTypeOK
  BY OpenTyped DEF StockInv, LedgerInv
<1>4. /\ "RECEIPT" \in RowType /\ "ADJUSTMENT" \in RowType /\ "TESTING" \in RowType
      /\ "SALE" \in RowType
  BY DEF RowType
<1>5. ASSUME NEW t \in Time, t > now
      PROVE  /\ rows'["RECEIPT"][t] = 0 /\ rows'["ADJUSTMENT"][t] = 0 /\ rows'["TESTING"][t] = 0
             /\ rows'["SALE"][t] + ahead'[t] = 0
  <2>1. /\ rows["RECEIPT"][t] = 0 /\ rows["ADJUSTMENT"][t] = 0 /\ rows["TESTING"][t] = 0
        /\ rows["SALE"][t] + ahead[t] = 0 /\ ahead[t] \in Nat
    BY <1>3, <1>5, AheadIs DEF NothingLater
  <2>2. CASE k = "SALE"
    BY <1>1, <1>2, <1>4, <1>5, <2>1, <2>2
  <2>3. CASE k # "SALE"
    <3>1. t # x
      BY <1>3, <1>5, <2>3 DEF Time
    <3>2. \A j \in RowType : rows'[j][t] = rows[j][t]
      BY <1>1, <1>2, <3>1
    <3> QED BY <1>4, <1>5, <2>1, <2>3, <3>2
  <2> QED BY <2>2, <2>3
<1> QED BY <1>1, <1>5 DEF NothingLater

\* A delivery is entered.
LEMMA ReceiveStep ==
  ASSUME StockInv, NEW at \in Time, Receive(at)
  PROVE  StockInv'
<1>1. StockTypeOK /\ ShiftsInOrder /\ NothingLater /\ EachLitreOnce /\ BookNeverNegative
  BY DEF StockInv, LedgerInv
<1>2. rows \in [RowType -> [Time -> Int]] /\ outstanding \in [Time -> Nat] /\ now \in Nat
  BY <1>1, OpenTyped DEF StockTypeOK
<1>3. PICK q : q = outstanding[at]
  OBVIOUS
<1>4. q \in Nat /\ q > 0
  BY <1>2, <1>3 DEF Receive
<1>5. RowRaised(rows, rows', "RECEIPT", at, q)
  <2>1. Post("RECEIPT", q, at) /\ "RECEIPT" \in RowType
    BY <1>3 DEF Receive, RowType
  <2> QED BY <1>1, <1>4, <2>1, PostIs
<1>6. Posts("RECEIPT", at, q) /\ UNCHANGED <<metered, ahead, events>>
  BY <1>5 DEF Receive, Posts
<1>7. /\ outstanding' \in [Time -> Nat] /\ outstanding'[at] = 0
      /\ \A t \in Time : t # at => outstanding'[t] = outstanding[t]
  BY <1>2 DEF Receive
<1>8. StockTypeOK'
  <2>1. /\ rows' \in [RowType -> [Time -> Int]]
        /\ \A t \in Time : /\ rows'["RECEIPT"][t] >= 0
                           /\ rows'["SALE"][t] <= 0 /\ rows'["TESTING"][t] <= 0
    BY <1>1, <1>4, <1>5, PostKeepsTypes
  <2> QED BY <1>1, <1>6, <1>7, <2>1 DEF Posts, StockTypeOK
<1>9. /\ BookStockAt(now)' = BookStockAt(now) + (IF at <= now THEN q ELSE 0)
      /\ BookStockAt(now) \in Int
      /\ Booked("SALE", Time)' = Booked("SALE", Time) + 0 /\ Booked("SALE", Time) \in Int
      /\ Booked("TESTING", Time)' = Booked("TESTING", Time) + 0 /\ Booked("TESTING", Time) \in Int
      /\ Net' = Net /\ Net \in Int /\ WellPosted /\ WellPosted' /\ ShiftsTyped
      /\ (ShiftOpen' <=> ShiftOpen) /\ Last' = Last /\ OpeningMeter' = OpeningMeter
  BY <1>6, <1>8, PostedAll
<1>10. \A t \in Time : Came'[t] = Came[t] /\ Came[t] \in Int
  <2>1. \A t \in Time : rows'["RECEIPT"][t] = rows["RECEIPT"][t] + (IF t = at THEN q ELSE 0)
                        /\ rows["RECEIPT"][t] \in Int /\ outstanding[t] \in Nat
    BY <1>2, <1>5 DEF RowRaised, Raised, RowType
  <2>2. \A t \in Time : Came[t] = outstanding[t] + rows["RECEIPT"][t]
    BY <1>9 DEF WellPosted
  <2>3. \A t \in Time : Came'[t] = outstanding'[t] + rows'["RECEIPT"][t]
    BY <1>9 DEF WellPosted
  <2>4. \A t \in Time : Came'[t] = Came[t]
    BY <1>3, <1>4, <1>7, <2>1, <2>2, <2>3
  <2> QED BY <2>1, <2>2, <2>4
<1>11. CameIn(Time)' = CameIn(Time)
  BY <1>10, TimedSame DEF CameIn
<1>12. EachLitreOnce'
  BY <1>1, <1>6, <1>9, <1>11 DEF EachLitreOnce
<1>13. BookNeverNegative'
  <2>1. SoldAhead' = SoldAhead /\ SoldAhead \in Nat
    BY <1>1, <1>6, AheadStays, AheadIs DEF Posts
  <2> QED BY <1>1, <1>4, <1>9, <2>1 DEF BookNeverNegative
<1>14. NothingLater'
  <2>1. at <= now
    BY <1>1, <1>2, <1>3, <1>4 DEF NothingLater, Time
  <2>2. \A t \in Time : t > now => outstanding'[t] = 0
    BY <1>1, <1>7 DEF NothingLater
  <2>3. \A t \in Time : ahead'[t] = ahead[t] - 0
    BY <1>1, <1>6, AheadIs
  <2> QED BY <1>6, <2>1, <2>2, <2>3, PostKeepsLater
<1>15. ShiftsInOrder'
  BY <1>1, <1>6, <1>9 DEF ShiftsInOrder, Posts
<1>16. Moves(0)
  <2>1. Comes(Came, Came', now, now', 0)
    BY <1>6, <1>9, <1>10 DEF WellPosted, Comes, Posts
  <2>2. rows'["TESTING"] = rows["TESTING"] /\ rows'["SALE"] = rows["SALE"]
    BY <1>5 DEF RowRaised, RowType
  <2> QED BY <1>6, <1>9, <2>1, <2>2, AheadStays DEF Moves, Posts
<1> QED BY <1>8, <1>12, <1>13, <1>14, <1>15, <1>16, MovesKeepShifts DEF StockInv, LedgerInv

\* An adjustment is posted.
LEMMA AdjustStep ==
  ASSUME StockInv, NEW d \in Int, Adjust(d)
  PROVE  StockInv'
<1>1. StockTypeOK /\ ShiftsInOrder /\ NothingLater /\ EachLitreOnce /\ BookNeverNegative
  BY DEF StockInv, LedgerInv
<1>2. now \in Nat /\ now \in Time /\ events \in Nat
  BY <1>1, OpenTyped
<1>3. RowRaised(rows, rows', "ADJUSTMENT", now, d)
  <2>1. Post("ADJUSTMENT", d, now) /\ "ADJUSTMENT" \in RowType
    BY DEF Adjust, RowType
  <2> QED BY <1>1, <1>2, <2>1, PostIs
<1>4. /\ Posts("ADJUSTMENT", now, d) /\ UNCHANGED <<metered, ahead, outstanding>>
      /\ events' = events + 1
  BY <1>3 DEF Adjust, Posts, tank, Event
<1>5. StockTypeOK'
  <2>1. /\ rows' \in [RowType -> [Time -> Int]]
        /\ \A t \in Time : /\ rows'["RECEIPT"][t] >= 0
                           /\ rows'["SALE"][t] <= 0 /\ rows'["TESTING"][t] <= 0
    BY <1>1, <1>3, PostKeepsTypes
  <2> QED BY <1>1, <1>2, <1>4, <2>1 DEF Posts, StockTypeOK
<1>6. /\ BookStockAt(now)' = BookStockAt(now) + d
      /\ BookStockAt(now) \in Int
      /\ Booked("SALE", Time)' = Booked("SALE", Time) + 0 /\ Booked("SALE", Time) \in Int
      /\ Booked("TESTING", Time)' = Booked("TESTING", Time) + 0 /\ Booked("TESTING", Time) \in Int
      /\ Net' = Net /\ Net \in Int /\ WellPosted /\ WellPosted'
      /\ (ShiftOpen' <=> ShiftOpen) /\ Last' = Last /\ OpeningMeter' = OpeningMeter
  <2>1. now <= now
    BY <1>2
  <2> QED BY <1>4, <1>5, <2>1, PostedAll
<1>7. /\ rows'["RECEIPT"] = rows["RECEIPT"]
      /\ rows'["TESTING"] = rows["TESTING"] /\ rows'["SALE"] = rows["SALE"]
  BY <1>3 DEF RowRaised, RowType
<1>8. Came' = Came
  BY <1>4, <1>7 DEF Came
<1>9. EachLitreOnce'
  BY <1>1, <1>4, <1>6, <1>8 DEF EachLitreOnce, CameIn
<1>10. BookNeverNegative'
  <2>1. SoldAhead' = SoldAhead /\ SoldAhead \in Nat
    BY <1>1, <1>4, AheadStays, AheadIs DEF Posts
  <2> QED BY <1>1, <1>4, <1>6, <2>1 DEF BookNeverNegative, Adjust, AssertStockAvailable
<1>11. NothingLater'
  <2>1. \A t \in Time : t > now => outstanding'[t] = 0
    BY <1>1, <1>4 DEF NothingLater
  <2>2. now <= now
    BY <1>2
  <2>3. \A t \in Time : ahead'[t] = ahead[t] - 0
    BY <1>1, <1>4, AheadIs
  <2> QED BY <1>4, <2>1, <2>2, <2>3, PostKeepsLater
<1>12. ShiftsInOrder'
  BY <1>1, <1>4, <1>6 DEF ShiftsInOrder, Posts
<1>13. Moves(0)
  <2>1. Comes(Came, Came', now, now', 0)
    BY <1>4, <1>6, <1>8 DEF WellPosted, Comes, Posts, Timed
  <2> QED BY <1>4, <1>6, <1>7, <2>1, AheadStays DEF Moves, Posts
<1> QED BY <1>5, <1>9, <1>10, <1>11, <1>12, <1>13, MovesKeepShifts DEF StockInv, LedgerInv

\* A metered sale is saved.
LEMMA SellStep ==
  ASSUME StockInv, NEW q \in Nat, NEW at \in Time, SellMetered(q, at)
  PROVE  StockInv'
<1>1. StockTypeOK /\ ShiftsInOrder /\ NothingLater /\ EachLitreOnce /\ BookNeverNegative
  BY DEF StockInv, LedgerInv
<1>2. /\ now \in Nat /\ now \in Time /\ {meter, metered, tested} \subseteq Nat
      /\ ahead \in [Time -> Nat] /\ ShiftOpen /\ Last.openingMeter \in Nat
  BY <1>1, OpenTyped DEF SellMetered
<1>3. RowRaised(rows, rows', "SALE", at, -q)
  <2>1. Post("SALE", -q, at) /\ "SALE" \in RowType /\ -q \in Int
    BY DEF SellMetered, RowType
  <2> QED BY <1>1, <2>1, PostIs
<1>4. /\ Posts("SALE", at, -q) /\ UNCHANGED <<events, outstanding>>
      /\ metered' = metered + q
      /\ ahead' = IF at > now THEN [ahead EXCEPT ![at] = @ + q] ELSE ahead
  BY <1>3 DEF SellMetered, Posts, tank
<1>5. metered' \in Nat /\ Last.openingMeter + metered' + tested <= meter /\ metered' <= meter
  BY <1>2, <1>4 DEF SellMetered
<1>6. /\ ahead' \in [Time -> Nat]
      /\ \A t \in Time : ahead'[t] = ahead[t] + (IF t = at /\ at > now THEN q ELSE 0)
  BY <1>2, <1>4
<1>7. StockTypeOK'
  <2>1. /\ rows' \in [RowType -> [Time -> Int]]
        /\ \A t \in Time : /\ rows'["RECEIPT"][t] >= 0
                           /\ rows'["SALE"][t] <= 0 /\ rows'["TESTING"][t] <= 0
    <3>1. -q <= 0
      OBVIOUS
    <3> QED BY <1>1, <1>3, <3>1, PostKeepsTypes
  <2> QED BY <1>1, <1>4, <1>5, <1>6, <2>1 DEF Posts, StockTypeOK
<1>8. /\ BookStockAt(now)' = BookStockAt(now) + (IF at <= now THEN -q ELSE 0)
      /\ BookStockAt(now) \in Int
      /\ Booked("SALE", Time)' = Booked("SALE", Time) + (-q) /\ Booked("SALE", Time) \in Int
      /\ Booked("TESTING", Time)' = Booked("TESTING", Time) + 0 /\ Booked("TESTING", Time) \in Int
      /\ CameIn(Time) \in Int /\ Net' = Net /\ Net \in Int /\ WellPosted /\ WellPosted'
      /\ (ShiftOpen' <=> ShiftOpen) /\ Last' = Last /\ OpeningMeter' = OpeningMeter
  BY <1>4, <1>7, PostedAll
<1>9. rows'["RECEIPT"] = rows["RECEIPT"] /\ rows'["TESTING"] = rows["TESTING"]
  BY <1>3 DEF RowRaised, RowType
<1>10. Came' = Came
  BY <1>4, <1>9 DEF Came
<1>11. EachLitreOnce'
  <2>1. CameIn(Time)' = CameIn(Time) /\ OpeningStock \in Nat
    BY <1>10, StockAssumption DEF CameIn
  <2> QED BY <1>1, <1>2, <1>4, <1>8, <2>1 DEF EachLitreOnce
<1>12. BookNeverNegative'
  <2>1. BookStockAt(now) >= q
    BY DEF SellMetered, AssertStockAvailable
  <2>2. SoldAhead' \in Nat
    BY <1>7, AheadIsNext DEF AheadTyped
  <2> QED BY <1>8, <2>1, <2>2 DEF BookNeverNegative
<1>13. NothingLater'
  <2>1. \A t \in Time : t > now => outstanding'[t] = 0
    BY <1>1, <1>4 DEF NothingLater
  <2>2. \A t \in Time : t > now => ahead'[t] = ahead[t] - (IF "SALE" = "SALE" /\ t = at THEN -q ELSE 0)
    BY <1>2, <1>6
  <2> QED BY <1>4, <2>1, <2>2, PostKeepsLater
<1>14. ShiftsInOrder'
  BY <1>1, <1>2, <1>4, <1>5, <1>8 DEF ShiftsInOrder, Posts
<1>15. Moves(0)
  <2>1. Comes(Came, Came', now, now', 0)
    BY <1>4, <1>8, <1>10 DEF WellPosted, Comes, Posts, Timed
  <2>2. \A t \in Time : ahead'[t] = 0 => ahead[t] = 0
    BY <1>2, <1>6
  <2>3. NoneAhead' => NoneAhead
    BY <2>2 DEF NoneAhead
  <2> QED BY <1>2, <1>4, <1>8, <1>9, <2>1, <2>3 DEF Moves, Posts
<1> QED BY <1>7, <1>11, <1>12, <1>13, <1>14, <1>15, MovesKeepShifts DEF StockInv, LedgerInv

\* The dip a browser sends, which is as old as what came and went since.
Dipped(dip, lostThen, still) ==
  /\ dip \in Nat /\ lostThen \in Nat /\ still \in BOOLEAN
  /\ still => level + lost = dip + lostThen

\* A dip taken now leaves nothing to follow.
LEMMA NothingSince ==
  ASSUME NEW n \in Time, NEW c, Timed(c), NEW net \in Int
  PROVE  Follows(n, net, net, c, n) /\ \A u : Untested(u, n, n)
<1>1. n \in Nat
  BY Instants
<1>2. PICK I : I = (n + 1)..n
  OBVIOUS
<1>3. I = {}
  BY <1>1, <1>2
<1>4. SumOf(Part(c, I)) = 0
  BY <1>3, TimedZeros
<1> QED BY <1>2, <1>3, <1>4 DEF Follows, Untested

\* A shift is opened, by a browser whose meter reading is the present one.
LEMMA OpenStep ==
  ASSUME StockInv, NEW dip, NEW lostThen, NEW still, Dipped(dip, lostThen, still),
         OpenShift(dip, meter, lostThen, still)
  PROVE  StockInv'
<1>1. StockTypeOK /\ ShiftsInOrder /\ NothingLater /\ EachLitreOnce /\ BookNeverNegative
      /\ ClosedShifts
  BY DEF StockInv, LedgerInv, ShiftsInv
<1>2. /\ {now, level, meter, lost, metered, tested, events} \subseteq Nat
      /\ now \in Time /\ poured \in BOOLEAN /\ ahead \in [Time -> Nat] /\ WellPosted
  BY <1>1, OpenTyped, PostedTyped
<1>3. /\ ~ShiftOpen /\ Len(shifts) < MaxShift
      /\ UNCHANGED <<now, level, meter, outstanding, lost, rows, metered, tested, poured, ahead, events>>
  BY DEF OpenShift, tank
<1>4. PICK z : z = [openedAt |-> now, closedAt |-> Unset, openingDip |-> dip, closingDip |-> Unset,
                    openingMeter |-> meter, closingMeter |-> Unset, testing |-> 0, returned |-> FALSE,
                    lostBefore |-> lostThen, lostAfter |-> 0, still |-> still]
  OBVIOUS
<1>5. z \in ShiftRow
  BY <1>2, <1>4 DEF ShiftRow, Dipped
<1>6. shifts' = Append(shifts, z) /\ shifts \in Seq(ShiftRow)
  BY <1>1, <1>4 DEF OpenShift, StockTypeOK
<1>7. PICK n \in Nat : n = Len(shifts)
  BY <1>6
<1>8. /\ shifts' \in Seq(ShiftRow) /\ Len(shifts') = n + 1 /\ shifts' # <<>>
      /\ DOMAIN shifts = 1..n /\ DOMAIN shifts' = 1..(n + 1)
      /\ \A i \in 1..n : shifts'[i] = shifts[i]
      /\ shifts'[n + 1] = z
  BY <1>5, <1>6, <1>7
<1>9. Last' = z /\ ShiftOpen'
  BY <1>4, <1>8 DEF Last, ShiftOpen
<1>10. StockTypeOK'
  <2>1. Len(shifts') <= MaxShift
    BY <1>3, <1>7, <1>8, StockAssumption
  <2> QED BY <1>1, <1>3, <1>8, <2>1 DEF StockTypeOK
<1>11. meter = OpeningMeter /\ metered = 0 /\ tested = 0 /\ poured = FALSE
  BY <1>1, <1>3 DEF ShiftsInOrder
<1>12. Came' = Came /\ Net' = Net /\ Net = level + lost
  <2>1. Drawn = 0
    BY <1>3 DEF Drawn
  <2>2. Drawn' = 0
    BY <1>2, <1>3, <1>4, <1>9, <1>11 DEF Drawn
  <2> QED BY <1>2, <1>3, <2>1, <2>2 DEF Net, Came
<1>13. NothingLater'
  BY <1>1, <1>3 DEF NothingLater
<1>14. EachLitreOnce'
  BY <1>1, <1>3, <1>12 DEF EachLitreOnce, CameIn, Booked
<1>15. BookNeverNegative'
  BY <1>1, <1>3, AheadStays DEF BookNeverNegative, BookStockAt, Sum
<1>16. ShiftsInOrder'
  <2>1. ASSUME NEW i \in 1..(n + 1)
        PROVE  /\ shifts'[i].openedAt <= now
               /\ i < n + 1 => shifts'[i].closedAt # Unset
               /\ shifts'[i].closedAt # Unset =>
                    /\ shifts'[i].openedAt <= shifts'[i].closedAt /\ shifts'[i].closedAt <= now
                    /\ shifts'[i].closingDip \in Nat /\ shifts'[i].closingMeter \in Nat
    <3>1. CASE i = n + 1
      BY <1>2, <1>4, <1>8, <3>1
    <3>2. CASE i # n + 1
      <4>1. i \in 1..n /\ shifts'[i] = shifts[i]
        BY <1>8, <3>2
      <4>2. shifts[i].closedAt # Unset
        BY <1>1, <1>3, <1>7, <1>8, <4>1 DEF ShiftsInOrder, ShiftOpen, Last
      <4> QED BY <1>1, <1>8, <4>1, <4>2 DEF ShiftsInOrder
    <3> QED BY <3>1, <3>2
  <2>2. Last'.openingMeter + metered' + tested' <= meter'
    BY <1>2, <1>3, <1>4, <1>9, <1>11
  <2> QED BY <1>3, <1>8, <1>9, <2>1, <2>2 DEF ShiftsInOrder
<1>17. ClosedShifts'
  <2>1. ASSUME NEW i \in 1..(n + 1), shifts'[i].closedAt # Unset
        PROVE  i \in 1..n /\ shifts'[i] = shifts[i]
    BY <1>4, <1>8, <2>1
  <2> QED BY <1>1, <1>3, <1>8, <1>12, <2>1 DEF ClosedShifts
<1>18. SinceOpening'
  <2>1. Untested(rows["TESTING"], now, now)
    BY <1>2, NothingSince DEF WellPosted
  <2>2. still => Follows(now, lostThen + dip, Net, Came, now)
    <3>1. still => lostThen + dip = Net /\ Net \in Int
      BY <1>2, <1>12 DEF Dipped
    <3> QED BY <1>2, <3>1, NothingSince DEF WellPosted
  <2> QED BY <1>3, <1>4, <1>9, <1>12, <2>1, <2>2 DEF SinceOpening
<1>19. SinceClosing'
  BY <1>9 DEF SinceClosing
<1> QED BY <1>10, <1>13, <1>14, <1>15, <1>16, <1>17, <1>18, <1>19 DEF StockInv, LedgerInv, ShiftsInv

\* What a close posts: the sale the meter shows beyond those recorded, then
\* the testing that was kept.
ClosingPosts(left, kept) ==
  \E M : RowRaised(rows, M, "SALE", now, -left) /\ RowRaised(M, rows', "TESTING", now, -kept)

\* CloseTankShift posts so.
LEMMA ClosePosts ==
  ASSUME StockInv, NEW left \in Nat, NEW kept \in Nat,
         rows' = [rows EXCEPT !["SALE"][now] = @ - left, !["TESTING"][now] = @ - kept]
  PROVE  ClosingPosts(left, kept)
<1>1. rows \in [RowType -> [Time -> Int]] /\ now \in Time
  BY OpenTyped DEF StockInv, StockTypeOK
<1>2. PICK R, Q, n, dl, dk : R = rows /\ Q = rows' /\ n = now /\ dl = -left /\ dk = -kept
  OBVIOUS
<1>3. "SALE" \in RowType /\ "TESTING" \in RowType /\ dl \in Int /\ dk \in Int
  BY <1>2 DEF RowType
<1>4. R["SALE"][n] - left = R["SALE"][n] + dl /\ R["TESTING"][n] - kept = R["TESTING"][n] + dk
  BY <1>1, <1>2, <1>3
<1>5. PICK M : M = [R EXCEPT !["SALE"][n] = @ + dl]
  OBVIOUS
<1>6. RowRaised(R, M, "SALE", n, dl)
  BY <1>1, <1>2, <1>3, <1>5, PostRaises
<1>7. M \in [RowType -> [Time -> Int]] /\ M["TESTING"] = R["TESTING"]
  BY <1>3, <1>6 DEF RowRaised
<1>8. Q = [M EXCEPT !["TESTING"][n] = @ + dk]
  BY <1>1, <1>2, <1>4, <1>5, <1>7
<1>9. RowRaised(M, Q, "TESTING", n, dk)
  BY <1>1, <1>2, <1>3, <1>7, <1>8, PostRaises
<1> QED BY <1>2, <1>6, <1>9 DEF ClosingPosts

\* What that leaves of the ledger.
LEMMA ClosedLedger ==
  ASSUME StockInv, StockTypeOK', UNCHANGED <<now, outstanding, ahead>>,
         NEW left \in Nat, NEW kept \in Nat, ClosingPosts(left, kept)
  PROVE  /\ Came' = Came
         /\ \A t \in Time : t # now => \A k \in RowType : rows'[k][t] = rows[k][t]
         /\ NothingLater'
         /\ BookStockAt(now) \in Int /\ BookStockAt(now)' = BookStockAt(now) - left - kept
         /\ Booked("SALE", Time) \in Int /\ Booked("SALE", Time)' = Booked("SALE", Time) - left
         /\ Booked("TESTING", Time) \in Int /\ Booked("TESTING", Time)' = Booked("TESTING", Time) - kept
<1>1. StockTypeOK /\ NothingLater /\ WellPosted /\ now \in Nat /\ now \in Time
  BY PostedTyped, OpenTyped DEF StockInv, LedgerInv
<1>2. PICK M : RowRaised(rows, M, "SALE", now, -left) /\ RowRaised(M, rows', "TESTING", now, -kept)
  BY DEF ClosingPosts
<1>3. /\ "SALE" \in RowType /\ "TESTING" \in RowType /\ "RECEIPT" \in RowType /\ "ADJUSTMENT" \in RowType
  BY DEF RowType
<1>4. /\ \A j \in RowType : j # "SALE" => M[j] = rows[j]
      /\ \A j \in RowType : j # "TESTING" => rows'[j] = M[j]
      /\ \A t \in Time : t # now => M["SALE"][t] = rows["SALE"][t] /\ rows'["TESTING"][t] = M["TESTING"][t]
  BY <1>2 DEF RowRaised, Raised
<1>5. \A t \in Time : t # now => \A k \in RowType : rows'[k][t] = rows[k][t]
  BY <1>3, <1>4
<1>6. Came' = Came
  BY <1>3, <1>4 DEF Came
<1>7. NothingLater'
  <2>1. \A t \in Time : t > now => t # now
    BY <1>1
  <2> QED BY <1>1, <1>3, <1>5, <2>1 DEF NothingLater
<1>8. BookStockAt(now) = BookOf(rows, now) /\ BookStockAt(now)' = BookOf(rows', now)
  <2>1. \A n \in Time : BookStockAt(n)' = BookOf(rows', n)
    BY BookIsNext
  <2>2. \A n \in Time : BookStockAt(n) = BookOf(rows, n)
    BY <1>1, BookIs
  <2> QED BY <1>1, <2>1, <2>2 DEF BookStockAt, Sum
<1>9. BookOf(rows, now) \in Int /\ BookOf(rows', now) = BookOf(rows, now) - left - kept
  <2>1. now <= now
    BY <1>1
  <2>2. BookOf(M, now) = BookOf(rows, now) + (-left) /\ BookOf(rows, now) \in Int
    BY <1>1, <1>2, <2>1, BookMoves
  <2>3. BookOf(rows', now) = BookOf(M, now) + (-kept) /\ BookOf(M, now) \in Int
    BY <1>1, <1>2, <2>1, BookMoves
  <2> QED BY <2>2, <2>3
<1>10. /\ Booked("SALE", Time) \in Int /\ Booked("SALE", Time)' = Booked("SALE", Time) - left
       /\ Booked("TESTING", Time) \in Int /\ Booked("TESTING", Time)' = Booked("TESTING", Time) - kept
  <2>1. Span(Time)
    BY DEF Span
  <2>2. SumOf(Part(rows["SALE"], Time)) \in Int /\ SumOf(Part(rows["TESTING"], Time)) \in Int
    BY <1>1, <1>3, TimedSum DEF WellPosted
  <2>3. /\ SumOf(Part(M["SALE"], Time))
             = SumOf(Part(rows["SALE"], Time)) + (IF "SALE" = "SALE" /\ now \in Time THEN -left ELSE 0)
        /\ SumOf(Part(M["TESTING"], Time))
             = SumOf(Part(rows["TESTING"], Time)) + (IF "TESTING" = "SALE" /\ now \in Time THEN -left ELSE 0)
    BY <1>2, <1>3, <2>1, PostedMoves
  <2>4. /\ SumOf(Part(rows'["SALE"], Time))
             = SumOf(Part(M["SALE"], Time)) + (IF "SALE" = "TESTING" /\ now \in Time THEN -kept ELSE 0)
        /\ SumOf(Part(rows'["TESTING"], Time))
             = SumOf(Part(M["TESTING"], Time)) + (IF "TESTING" = "TESTING" /\ now \in Time THEN -kept ELSE 0)
    BY <1>2, <1>3, <2>1, PostedMoves
  <2> QED BY <1>1, <2>2, <2>3, <2>4 DEF Booked
<1> QED BY <1>5, <1>6, <1>7, <1>8, <1>9, <1>10

\* A shift is closed with the readings of the moment.
LEMMA CloseStep ==
  ASSUME StockInv, NEW dip, NEW lostThen, NEW still, Dipped(dip, lostThen, still),
         CloseTankShift(dip, NozzleShows, lostThen, still)
  PROVE  StockInv'
<1>1. StockTypeOK /\ ShiftsInOrder /\ NothingLater /\ EachLitreOnce /\ BookNeverNegative
      /\ ClosedShifts /\ SinceOpening
  BY DEF StockInv, LedgerInv, ShiftsInv
<1>2. /\ {now, level, meter, lost, metered, tested, events} \subseteq Nat
      /\ now \in Time /\ poured \in BOOLEAN /\ ahead \in [Time -> Nat] /\ WellPosted
      /\ Net \in Int /\ Drawn \in Int /\ ShiftOpen
      /\ Last \in ShiftRow /\ Last.openingMeter \in Nat /\ Last.openedAt \in Time /\ Last.openedAt <= now
  BY <1>1, OpenTyped, PostedTyped, NetIsInt DEF CloseTankShift, ShiftOpen
<1>3. PICK left, kept : left = LeftToSell(NozzleShows) /\ kept = Kept(NozzleShows)
  OBVIOUS
<1>4. NozzleShows.meter = meter /\ NozzleShows.tested = tested /\ NozzleShows.returned = poured
  BY DEF NozzleShows
<1>5. left = meter - Last.openingMeter - tested - metered /\ kept = (IF poured THEN 0 ELSE tested)
  BY <1>3, <1>4 DEF LeftToSell, Sold, Kept
<1>6. /\ left >= 0
      /\ left > 0 => AssertStockAvailable(left, now)
      /\ kept > 0 => AssertStockAvailable(left + kept, now)
      /\ rows' = [rows EXCEPT !["SALE"][now] = @ - left, !["TESTING"][now] = @ - kept]
      /\ metered' = 0 /\ tested' = 0 /\ poured' = FALSE
      /\ UNCHANGED <<now, level, meter, outstanding, lost, ahead, events>>
  BY <1>3 DEF CloseTankShift
<1>7. left \in Nat /\ kept \in Nat /\ left + kept = Drawn - metered
  <2>1. left \in Nat /\ kept \in Nat
    BY <1>2, <1>5, <1>6
  <2> QED BY <1>2, <1>5, <2>1 DEF Drawn
<1>8. ClosingPosts(left, kept)
  BY <1>6, <1>7, ClosePosts
<1>9. PICK z : z = [Last EXCEPT !.closedAt = now, !.closingDip = dip, !.closingMeter = meter,
                      !.testing = tested, !.returned = poured,
                      !.lostAfter = lostThen, !.still = @ /\ still]
  OBVIOUS
<1>10. /\ z.openedAt = Last.openedAt /\ z.closedAt = now
       /\ z.openingDip = Last.openingDip /\ z.closingDip = dip
       /\ z.openingMeter = Last.openingMeter /\ z.closingMeter = meter /\ z.testing = tested
       /\ z.returned = poured /\ z.lostBefore = Last.lostBefore /\ z.lostAfter = lostThen
       /\ (z.still <=> Last.still /\ still) /\ z.still \in BOOLEAN
  BY <1>2, <1>9 DEF ShiftRow, Dipped
<1>11. z \in ShiftRow
  BY <1>2, <1>9 DEF ShiftRow, Dipped
<1>12. PICK n \in Nat : n = Len(shifts)
  BY <1>1 DEF StockTypeOK
<1>13. shifts \in Seq(ShiftRow) /\ DOMAIN shifts = 1..n /\ n \in 1..n /\ Last = shifts[n]
  BY <1>1, <1>2, <1>12 DEF StockTypeOK, ShiftOpen, Last
<1>14. shifts' = [shifts EXCEPT ![n] = z]
  BY <1>4, <1>9, <1>12, <1>13 DEF CloseTankShift
<1>15. /\ shifts' \in Seq(ShiftRow) /\ Len(shifts') = n /\ shifts' # <<>> /\ DOMAIN shifts' = 1..n
       /\ shifts'[n] = z /\ \A i \in 1..n : i # n => shifts'[i] = shifts[i]
  BY <1>11, <1>12, <1>13, <1>14
<1>16. Last' = z /\ ~ShiftOpen' /\ OpeningMeter' = meter
  <2>1. now # Unset
    BY <1>2, StockAssumption
  <2> QED BY <1>10, <1>15, <2>1 DEF Last, ShiftOpen, OpeningMeter
<1>17. StockTypeOK'
  <2>1. PICK M : RowRaised(rows, M, "SALE", now, -left) /\ RowRaised(M, rows', "TESTING", now, -kept)
    BY <1>8 DEF ClosingPosts
  <2>2. rows' \in [RowType -> [Time -> Int]] /\ rows'["RECEIPT"] = rows["RECEIPT"]
    BY <2>1 DEF RowRaised, RowType
  <2>3. \A t \in Time : rows'["SALE"][t] <= 0 /\ rows'["TESTING"][t] <= 0
    <3>1. \A t \in Time : rows["SALE"][t] <= 0 /\ rows["SALE"][t] \in Int
                          /\ rows["TESTING"][t] <= 0 /\ rows["TESTING"][t] \in Int
      BY <1>1 DEF StockTypeOK, RowType
    <3>2. /\ rows'["SALE"] = M["SALE"] /\ M["TESTING"] = rows["TESTING"]
      BY <2>1 DEF RowRaised, RowType
    <3>3. /\ \A t \in Time : M["SALE"][t] = rows["SALE"][t] + (IF t = now THEN -left ELSE 0)
          /\ \A t \in Time : rows'["TESTING"][t] = M["TESTING"][t] + (IF t = now THEN -kept ELSE 0)
      BY <1>7, <2>1, <3>1, <3>2 DEF RowRaised, Raised, Timed
    <3> QED BY <1>7, <3>1, <3>2, <3>3
  <2>4. Len(shifts') <= MaxShift
    BY <1>1, <1>12, <1>15 DEF StockTypeOK
  <2>5. /\ metered' = 0 /\ tested' = 0 /\ poured' = FALSE
        /\ UNCHANGED <<now, level, meter, outstanding, lost, ahead, events>>
    BY <1>6
  <2>6. /\ now' \in 0..MaxTime /\ {level', meter', lost', metered', tested', events'} \subseteq Nat
        /\ metered' <= meter' /\ poured' \in BOOLEAN /\ ahead' \in [Time -> Nat]
    <3>1. now \in 0..MaxTime
      BY <1>1 DEF StockTypeOK
    <3>2. poured' \in BOOLEAN /\ ahead' \in [Time -> Nat]
      BY <1>2, <2>5
    <3>3. UNCHANGED <<now, level, meter, lost, events>> /\ metered' = 0 /\ tested' = 0
      BY <2>5
    <3> QED BY <1>2, <3>1, <3>2, <3>3
  <2>7. \A t \in Time : rows'["RECEIPT"][t] >= 0
    BY <1>1, <2>2 DEF StockTypeOK
  <2> QED BY <1>1, <1>15, <2>2, <2>3, <2>4, <2>5, <2>6, <2>7 DEF StockTypeOK
<1>18. /\ Came' = Came
       /\ \A t \in Time : t # now => \A k \in RowType : rows'[k][t] = rows[k][t]
       /\ NothingLater'
       /\ BookStockAt(now) \in Int /\ BookStockAt(now)' = BookStockAt(now) - left - kept
       /\ Booked("SALE", Time) \in Int /\ Booked("SALE", Time)' = Booked("SALE", Time) - left
       /\ Booked("TESTING", Time) \in Int /\ Booked("TESTING", Time)' = Booked("TESTING", Time) - kept
  BY <1>6, <1>7, <1>8, <1>17, ClosedLedger
<1>19. Net' = level + lost /\ Net = level + lost + Drawn
  BY <1>2, <1>6, <1>16 DEF Net, Drawn
<1>20. EachLitreOnce'
  <2>1. CameIn(Time)' = CameIn(Time)
    BY <1>18 DEF CameIn
  <2>2. OpeningStock \in Nat /\ CameIn(Time) \in Int
    BY <1>2, StockAssumption, TimedSum DEF CameIn, WellPosted
  <2> QED BY <1>1, <1>2, <1>6, <1>7, <1>18, <1>19, <2>1, <2>2 DEF EachLitreOnce
<1>21. BookNeverNegative'
  <2>1. SoldAhead' = SoldAhead /\ SoldAhead \in Nat
    BY <1>1, <1>6, AheadStays, AheadIs
  <2> QED BY <1>1, <1>6, <1>7, <1>18, <2>1 DEF BookNeverNegative, AssertStockAvailable
<1>22. ShiftsInOrder'
  <2>1. ASSUME NEW i \in 1..n
        PROVE  /\ shifts'[i].openedAt <= now
               /\ i < n => shifts'[i].closedAt # Unset
               /\ shifts'[i].closedAt # Unset =>
                    /\ shifts'[i].openedAt <= shifts'[i].closedAt /\ shifts'[i].closedAt <= now
                    /\ shifts'[i].closingDip \in Nat /\ shifts'[i].closingMeter \in Nat
    <3>1. CASE i = n
      BY <1>2, <1>10, <1>15, <3>1 DEF Dipped
    <3>2. CASE i # n
      BY <1>1, <1>12, <1>13, <1>15, <3>2 DEF ShiftsInOrder
    <3> QED BY <3>1, <3>2
  <2> QED BY <1>6, <1>15, <1>16, <2>1 DEF ShiftsInOrder
<1>23. ClosedShifts'
  <2>1. ASSUME NEW i \in 1..n, i # n, shifts[i].closedAt # Unset
        PROVE  Untested(rows'["TESTING"], shifts[i].openedAt, shifts[i].closedAt - 1)
    <3>1. PICK o \in Time, d \in Time : o = shifts[i].openedAt /\ d = shifts[i].closedAt /\ d <= now
      BY <1>1, <1>13, <2>1, RowsOfShifts DEF ShiftsTyped
    <3>2. Untested(rows["TESTING"], o, d - 1)
      BY <1>1, <1>13, <2>1, <3>1 DEF ClosedShifts
    <3>3. \A t \in (o + 1)..(d - 1) : t \in Time /\ t # now
      BY <1>2, <3>1, Instants
    <3>4. Untested(rows'["TESTING"], o, d - 1)
      BY <1>18, <3>2, <3>3 DEF Untested, RowType
    <3> QED BY <3>1, <3>4
  <2>2. PICK o : o = Last.openedAt /\ o \in Time
    BY <1>2
  <2>3. PICK I, J : I = (o + 1)..(now - 1) /\ J = (o + 1)..now
    OBVIOUS
  <2>4. I \subseteq Time /\ J \subseteq Time /\ \A t \in I : t \in J /\ t # now
    BY <1>2, <2>2, <2>3, Instants
  <2>5. Untested(rows'["TESTING"], z.openedAt, z.closedAt - 1)
    <3>1. \A t \in J : rows["TESTING"][t] = 0
      BY <1>1, <1>2, <2>2, <2>3 DEF SinceOpening, Untested
    <3> QED BY <1>10, <1>18, <2>2, <2>3, <2>4, <3>1 DEF Untested, RowType
  <2>6. ASSUME z.still PROVE DipsAgree(z, Came)
    <3> SUFFICES ASSUME o # now, Came[o] = 0, Came[now] = 0
                 PROVE  dip - Last.openingDip
                          = SumOf(Part(Came, I)) - DrawnIn(z) + Last.lostBefore - lostThen
      BY <1>10, <2>2, <2>3 DEF DipsAgree
    <3>1. Net - (Last.lostBefore + Last.openingDip) = SumOf(Part(Came, J))
      BY <1>1, <1>2, <1>10, <2>2, <2>3, <2>6 DEF SinceOpening, Follows
    <3>2. J = I \cup {now} /\ now \notin I
      BY <1>2, <2>2, <2>3, Instants
    <3>3. SumOf(Part(Came, J)) = Came[now] + SumOf(Part(Came, I))
      BY <1>2, <2>4, <3>2, TimedLonger DEF WellPosted
    <3>4. SumOf(Part(Came, I)) \in Int
      BY <1>2, <2>4, TimedSum DEF WellPosted
    <3>5. DrawnIn(z) = Drawn
      BY <1>2, <1>10 DEF DrawnIn, Drawn
    <3>6. Net = dip + lostThen + Drawn /\ dip \in Nat /\ lostThen \in Nat
      BY <1>2, <1>10, <1>19, <2>6 DEF Dipped
    <3>7. Last.openingDip \in Nat /\ Last.lostBefore \in Nat
      BY <1>2 DEF ShiftRow
    <3> QED BY <1>2, <3>1, <3>3, <3>4, <3>5, <3>6, <3>7
  <2>7. ASSUME NEW i \in 1..n, shifts'[i].closedAt # Unset
        PROVE  /\ Untested(rows'["TESTING"], shifts'[i].openedAt, shifts'[i].closedAt - 1)
               /\ shifts'[i].still => DipsAgree(shifts'[i], Came')
    <3>1. CASE i = n
      BY <1>15, <1>18, <2>5, <2>6, <3>1
    <3>2. CASE i # n
      <4>1. shifts'[i] = shifts[i] /\ i \in DOMAIN shifts
        BY <1>13, <1>15, <3>2
      <4>2. shifts[i].still => DipsAgree(shifts[i], Came)
        BY <1>1, <2>7, <4>1 DEF ClosedShifts
      <4> QED BY <1>18, <2>1, <2>7, <3>2, <4>1, <4>2
    <3> QED BY <3>1, <3>2
  <2> QED BY <1>15, <2>7 DEF ClosedShifts
<1>24. SinceOpening'
  BY <1>16 DEF SinceOpening
<1>25. SinceClosing'
  <2>1. \A u : Untested(u, now, now)
    BY <1>2, NothingSince DEF WellPosted
  <2>2. z.still => Follows(now, lostThen + dip, Net', Came, now)
    <3>1. z.still => lostThen + dip = Net' /\ Net' \in Int
      BY <1>2, <1>10, <1>19 DEF Dipped
    <3> QED BY <1>2, <3>1, NothingSince DEF WellPosted
  <2> QED BY <1>6, <1>10, <1>16, <1>18, <2>1, <2>2 DEF SinceClosing
<1>26. now' = now
  BY <1>6
<1> QED BY <1>17, <1>18, <1>20, <1>21, <1>22, <1>23, <1>24, <1>25 DEF StockInv, LedgerInv, ShiftsInv

-----------------------------------------------------------------------------
(* The page.                                                               *)

\* The form is typed, and what it was filled in with is known.
LEMMA FormTyped ==
  ASSUME TInv, page.kind # "away"
  PROVE  /\ page \in Form /\ page.nozzle \in Nozzle /\ page.shift \in Nat /\ page.shift <= Len(shifts)
         /\ page.lost \in Nat /\ page.still \in BOOLEAN /\ (DipTaken => page.dip \in Nat)
         /\ page.kind \in {"opening", "closing"} /\ page.nozzle.meter \in Nat
<1>1. page \in Form
  BY DEF TInv, TankTypeOK, Away
<1>2. page.shift <= Len(shifts)
  BY DEF TInv, PageReads
<1> QED BY <1>1, <1>2 DEF Form, DipTaken, Nozzle

\* A step that moves neither the tank nor the shifts nor the page.
LEMMA PageSame ==
  ASSUME TInv, UNCHANGED <<level, meter, lost, tested, poured, shifts, page>>
  PROVE  PageReads'
BY DEF TInv, PageReads, DipTaken, PumpStands, NozzleShows, ShiftOpen, Last

\* The page keeps its word while the pump works on another form.
LEMMA PagePump ==
  ASSUME TInv, UNCHANGED page, ~PumpStands, Draw \/ Test \/ PourBack
  PROVE  PageReads'
<1>1. StockTypeOK /\ ShiftsInOrder /\ PageReads
  BY DEF TInv, StockInv
<1>2. /\ {level, meter, lost, metered, tested} \subseteq Nat /\ UNCHANGED <<shifts, page>>
      /\ meter <= meter'
  BY <1>1, OpenTyped DEF Draw, Test, PourBack
<1>3. (ShiftOpen' <=> ShiftOpen) /\ Last' = Last /\ (DipTaken' <=> DipTaken)
  BY <1>2 DEF ShiftOpen, Last, DipTaken
<1>4. ~PumpStands'
  BY <1>2, <1>3 DEF PumpStands
<1>5. ShiftOpen /\ Last.openingMeter \in Nat /\ Last.openingMeter < meter' /\ meter' \in Nat
  <2>1. CASE Draw \/ Test
    BY <1>1, <1>2, <2>1, OpenTyped DEF Draw, Test
  <2>2. CASE PourBack
    <3>1. tested > 0 /\ meter' = meter
      BY <2>2 DEF PourBack
    <3>2. ShiftOpen
      BY <1>1, <3>1 DEF ShiftsInOrder
    <3> QED BY <1>1, <1>2, <3>1, <3>2, OpenTyped
  <2> QED BY <2>1, <2>2
<1>6. page.kind = "opening" => page.nozzle.meter <= Last.openingMeter /\ page.nozzle.meter \in Nat
  BY <1>1, <1>5, FormTyped DEF PageReads
<1>7. page.kind = "opening" => page.nozzle.meter # meter'
  BY <1>5, <1>6
<1>8. page.kind # "away" => page.shift <= Len(shifts)
  BY <1>1 DEF PageReads
<1> QED BY <1>2, <1>3, <1>4, <1>5, <1>6, <1>7, <1>8 DEF PageReads

\* A delivery makes the dip of the page old.
LEMMA ArriveStep ==
  ASSUME TInv, NEW q \in Nat, Arrive(q)
  PROVE  page' \in {Away} \cup Form /\ PageReads'
<1>1. PageReads /\ page \in {Away} \cup Form
  BY DEF TInv, TankTypeOK
<1>2. UNCHANGED <<meter, lost, tested, poured, shifts>>
  BY DEF Arrive, Deliver
<1>3. (ShiftOpen' <=> ShiftOpen) /\ Last' = Last /\ NozzleShows' = NozzleShows
  BY <1>2 DEF ShiftOpen, Last, NozzleShows
<1>4. CASE DipTaken
  <2>1. page' = [page EXCEPT !.still = FALSE] /\ page.kind # "away"
    BY <1>4 DEF Arrive, DipTaken
  <2>2. page \in Form
    BY <2>1, FormTyped
  <2>3. /\ page' \in Form /\ page'.kind = page.kind /\ page'.shift = page.shift
        /\ page'.nozzle = page.nozzle /\ page'.still = FALSE /\ page'.dip = page.dip
    BY <2>1, <2>2 DEF Form
  <2>4. PumpStands' => PumpStands
    BY <1>2, <1>3, <1>4, <2>3 DEF PumpStands
  <2> QED BY <1>1, <1>2, <1>3, <2>3, <2>4 DEF PageReads
<1>5. CASE ~DipTaken
  <2>1. page' = page /\ ~DipTaken' /\ ~PumpStands'
    BY <1>5 DEF Arrive, DipTaken, PumpStands
  <2> QED BY <1>1, <1>2, <1>3, <2>1 DEF PageReads
<1> QED BY <1>4, <1>5

\* The page is loaded.
LEMMA LoadStep ==
  ASSUME TInv, LoadPage
  PROVE  page' \in {Away} \cup Form /\ PageReads'
<1>1. StockTypeOK /\ ShiftsInOrder
  BY DEF TInv, StockInv
<1>2. /\ now \in Time /\ meter \in Nat
      /\ ~ShiftOpen => OpeningMeter = meter
      /\ ShiftOpen => Last.openingMeter \in Nat /\ Last.openedAt \in Time
  BY <1>1, OpenTyped DEF ShiftsInOrder
<1>3. /\ UNCHANGED <<level, meter, lost, tested, poured, shifts>>
      /\ (ShiftOpen' <=> ShiftOpen) /\ Last' = Last
  BY DEF LoadPage, stockVars, ShiftOpen, Last
<1>4. PICK k, n, b : /\ k = (IF ShiftOpen THEN "closing" ELSE "opening")
                     /\ n = [meter |-> IF ShiftOpen THEN Last.openingMeter ELSE OpeningMeter,
                             tested |-> 0, returned |-> TRUE]
                     /\ b = IF ShiftOpen THEN Bridge(Last.openedAt, now) ELSE 0
  OBVIOUS
<1>5. page' = [kind |-> k, shift |-> Len(shifts), nozzle |-> n, bridge |-> b,
               dip |-> Unset, lost |-> 0, still |-> TRUE]
  BY <1>4 DEF LoadPage, Bootstrap
<1>6. Len(shifts) \in 0..MaxShift
  BY <1>1 DEF StockTypeOK
<1>7. b \in Int
  <2>1. CASE ShiftOpen
    <3>1. BridgeInstants(Last.openedAt, now) \subseteq Time /\ RowsTyped
      BY <1>1, <1>2, <2>1, Instants, PostedTyped DEF BridgeInstants, WellPosted
    <3>2. \A r \in RowType : Booked(r, BridgeInstants(Last.openedAt, now)) \in Int
      BY <3>1, SumIsPosted
    <3> QED BY <1>4, <2>1, <3>1, <3>2, SumIsPosted DEF Bridge, RowType
  <2> QED BY <1>4, <2>1
<1>8. n \in Nozzle /\ n.meter = (IF ShiftOpen THEN Last.openingMeter ELSE OpeningMeter)
  BY <1>2, <1>4 DEF Nozzle
<1>9. page' \in Form
  BY <1>4, <1>5, <1>6, <1>7, <1>8 DEF Form
<1>10. ~DipTaken' /\ ~PumpStands'
  BY <1>5 DEF DipTaken, PumpStands
<1>11. page'.shift <= Len(shifts') /\ (page'.kind = "opening" => ~ShiftOpen /\ page'.nozzle.meter = meter)
  BY <1>2, <1>3, <1>4, <1>5, <1>6, <1>8
<1> QED BY <1>2, <1>3, <1>9, <1>10, <1>11 DEF PageReads

\* The form is filled in.
LEMMA TypeStep ==
  ASSUME TInv, TypeOpening \/ TypeClosing
  PROVE  page' \in {Away} \cup Form /\ PageReads'
<1>1. StockTypeOK /\ ShiftsInOrder /\ PageReads
  BY DEF TInv, StockInv
<1>2. {level, meter, lost, tested} \subseteq Nat /\ poured \in BOOLEAN
  BY <1>1, OpenTyped
<1>3. /\ UNCHANGED <<level, meter, lost, tested, poured, shifts>>
      /\ (ShiftOpen' <=> ShiftOpen) /\ Last' = Last /\ NozzleShows' = NozzleShows
  BY DEF TypeOpening, TypeClosing, stockVars, ShiftOpen, Last, NozzleShows
<1>4. page \in Form /\ page.shift <= Len(shifts)
  BY FormTyped DEF TypeOpening, TypeClosing
<1>5. CASE TypeOpening
  <2>1. page' = [page EXCEPT !.dip = level, !.lost = lost] /\ page.kind = "opening"
    BY <1>5 DEF TypeOpening, Measured
  <2>2. /\ page' \in Form /\ page'.kind = "opening" /\ page'.nozzle = page.nozzle
        /\ page'.shift = page.shift /\ page'.dip = level /\ page'.lost = lost
    BY <1>2, <1>4, <2>1 DEF Form
  <2>3. ~PumpStands'
    BY <2>2 DEF PumpStands
  <2>4. page'.nozzle.meter <= IF ShiftOpen THEN Last.openingMeter ELSE meter
    BY <1>1, <2>1, <2>2 DEF PageReads
  <2> QED BY <1>3, <1>4, <2>2, <2>3, <2>4 DEF PageReads
<1>6. CASE TypeClosing
  <2>1. page' = [[page EXCEPT !.dip = level, !.lost = lost] EXCEPT !.nozzle = NozzleShows]
        /\ page.kind = "closing"
    BY <1>6 DEF TypeClosing, Measured, WithMeters
  <2>2. NozzleShows \in Nozzle
    BY <1>2 DEF NozzleShows, Nozzle
  <2>3. /\ page' \in Form /\ page'.kind = "closing" /\ page'.nozzle = NozzleShows
        /\ page'.shift = page.shift /\ page'.dip = level /\ page'.lost = lost
    BY <1>2, <1>4, <2>1, <2>2 DEF Form
  <2> QED BY <1>3, <1>4, <2>3 DEF PageReads
<1> QED BY <1>5, <1>6

\* A shift opened or closed in another browser.
LEMMA ElsewhereStep ==
  ASSUME TInv, UNCHANGED page,
         OpenShift(level, meter, lost, TRUE) \/ CloseTankShift(level, NozzleShows, lost, TRUE)
  PROVE  StockInv' /\ PageReads'
<1>1. StockTypeOK /\ ShiftsInOrder /\ PageReads /\ StockInv
  BY DEF TInv, StockInv
<1>2. {level, meter, lost, metered, tested} \subseteq Nat
  BY <1>1, OpenTyped
<1>3. Dipped(level, lost, TRUE)
  BY <1>2 DEF Dipped
<1>4. CASE OpenShift(level, meter, lost, TRUE)
  <2>1. StockInv'
    BY <1>1, <1>3, <1>4, OpenStep
  <2>2. UNCHANGED <<level, meter, lost, page>> /\ ~ShiftOpen
    BY <1>4 DEF OpenShift, tank
  <2>3. Len(shifts) \in Nat /\ Len(shifts') = Len(shifts) + 1 /\ Last'.openingMeter = meter
    <3>1. PICK z : shifts' = Append(shifts, z) /\ z.openingMeter = meter
      BY <1>4 DEF OpenShift
    <3>2. shifts \in Seq(ShiftRow)
      BY <1>1 DEF StockTypeOK
    <3> QED BY <3>1, <3>2 DEF Last
  <2>4. ~PumpStands'
    <3>1. page.kind # "away" => page.shift \in Nat /\ page.shift <= Len(shifts)
      BY FormTyped
    <3>2. page.kind # "away" => page.shift # Len(shifts')
      BY <2>3, <3>1
    <3> QED BY <2>2, <3>2 DEF PumpStands, DipTaken
  <2>5. page.kind # "away" => page.shift <= Len(shifts')
    BY <2>3, FormTyped
  <2>6. page.kind = "opening" => page.nozzle.meter <= meter
    BY <1>1, <2>2 DEF PageReads
  <2> QED BY <1>1, <2>1, <2>2, <2>3, <2>4, <2>5, <2>6 DEF PageReads, DipTaken
<1>5. CASE CloseTankShift(level, NozzleShows, lost, TRUE)
  <2>1. StockInv'
    BY <1>1, <1>3, <1>5, CloseStep
  <2>2. UNCHANGED <<level, meter, lost, page>> /\ ShiftOpen
    BY <1>5 DEF CloseTankShift
  <2>3. Len(shifts') = Len(shifts) /\ ~ShiftOpen'
    <3>1. PICK z : shifts' = [shifts EXCEPT ![Len(shifts)] = z] /\ z.closedAt = now
      <4>1. PICK y : y = [Last EXCEPT !.closedAt = now, !.closingDip = level,
                             !.closingMeter = NozzleShows.meter, !.testing = NozzleShows.tested,
                             !.returned = NozzleShows.returned, !.lostAfter = lost, !.still = @ /\ TRUE]
        OBVIOUS
      <4>2. Last \in ShiftRow
        BY <1>1, <2>2, OpenTyped DEF ShiftOpen
      <4>3. y.closedAt = now
        BY <4>1, <4>2 DEF ShiftRow
      <4>4. shifts' = [shifts EXCEPT ![Len(shifts)] = y]
        BY <1>5, <4>1 DEF CloseTankShift
      <4> QED BY <4>3, <4>4
    <3>2. shifts \in Seq(ShiftRow) /\ shifts # <<>> /\ now # Unset
      BY <1>1, <2>2, OpenTyped, StockAssumption DEF StockTypeOK, ShiftOpen
    <3> QED BY <3>1, <3>2 DEF Last, ShiftOpen
  <2>4. ~PumpStands'
    BY <2>3 DEF PumpStands
  <2>5. page.kind = "opening" => page.nozzle.meter <= meter
    <3>1. page.kind = "opening" => page.nozzle.meter <= Last.openingMeter /\ page.nozzle.meter \in Nat
      BY <1>1, <2>2, FormTyped DEF PageReads
    <3>2. Last.openingMeter \in Nat /\ Last.openingMeter <= meter
      BY <1>1, <1>2, <2>2, OpenTyped
    <3> QED BY <1>2, <3>1, <3>2
  <2> QED BY <1>1, <2>1, <2>2, <2>3, <2>4, <2>5 DEF PageReads, DipTaken
<1> QED BY <1>4, <1>5

\* The form is sent.
LEMMA SubmitStep ==
  ASSUME TInv, SubmitOpening \/ SubmitClosing
  PROVE  StockInv' /\ page' = Away
<1>1. StockTypeOK /\ ShiftsInOrder /\ PageReads /\ StockInv
  BY DEF TInv, StockInv
<1>2. page.kind # "away" /\ DipTaken
  BY DEF SubmitOpening, SubmitClosing, PumpStands, DipTaken
<1>3. page.lost \in Nat /\ page.still \in BOOLEAN /\ page.dip \in Nat
  BY <1>2, FormTyped
<1>4. CASE SubmitOpening
  <2>1. OpenShift(page.dip, page.nozzle.meter, page.lost, page.still) /\ page.kind = "opening"
    BY <1>4 DEF SubmitOpening
  <2>2. page.nozzle.meter = meter
    BY <1>1, <2>1 DEF OpenShift, OpensAt, ShiftsInOrder
  <2>3. Dipped(page.dip, page.lost, page.still)
    BY <1>1, <1>2, <1>3, <2>1, <2>2 DEF PageReads, Dipped
  <2>4. StockInv'
    BY <1>1, <2>1, <2>2, <2>3, OpenStep
  <2> QED BY <1>4, <2>4 DEF SubmitOpening
<1>5. CASE SubmitClosing
  <2>1. CloseTankShift(page.dip, page.nozzle, page.lost, page.still) /\ PumpStands
    BY <1>5 DEF SubmitClosing
  <2>2. page.nozzle = NozzleShows
    BY <1>1, <2>1 DEF PageReads
  <2>3. Dipped(page.dip, page.lost, page.still)
    BY <1>1, <1>3, <2>1 DEF PageReads, Dipped
  <2>4. StockInv'
    BY <1>1, <2>1, <2>2, <2>3, CloseStep
  <2> QED BY <1>5, <2>4 DEF SubmitClosing
<1> QED BY <1>4, <1>5

-----------------------------------------------------------------------------
(* The tank's theorems.                                                    *)

\* The tank starts in the invariant.
LEMMA TankInvInit == TankInit => TInv
<1> SUFFICES ASSUME TankInit PROVE TInv
  OBVIOUS
<1>1. /\ now = 0 /\ level = OpeningStock /\ meter = 0 /\ lost = 0
      /\ outstanding = [t \in Time |-> 0]
      /\ rows = [k \in RowType |-> [t \in Time |-> 0]]
      /\ shifts = <<>> /\ metered = 0 /\ tested = 0 /\ poured = FALSE
      /\ ahead = [t \in Time |-> 0] /\ events = 0 /\ page = Away
  BY DEF TankInit, StockInit
<1>2. OpeningStock \in Nat /\ MaxShift \in Nat /\ MaxTime \in Nat /\ 0 \in Time
  BY StockAssumption DEF Time
<1>3. \A k \in RowType : \A t \in Time : rows[k][t] = 0
  BY <1>1
<1>4. "RECEIPT" \in RowType /\ "SALE" \in RowType /\ "TESTING" \in RowType /\ "ADJUSTMENT" \in RowType
  BY DEF RowType
<1>5. StockTypeOK
  <2>1. outstanding \in [Time -> Nat] /\ rows \in [RowType -> [Time -> Int]]
    BY <1>1
  <2>2. shifts \in Seq(ShiftRow) /\ Len(shifts) <= MaxShift
    BY <1>1, <1>2
  <2>3. poured \in BOOLEAN /\ ahead \in [Time -> Nat]
    BY <1>1
  <2>4. \A t \in Time : rows["RECEIPT"][t] >= 0 /\ rows["SALE"][t] <= 0 /\ rows["TESTING"][t] <= 0
    BY <1>3, <1>4
  <2>5. now \in 0..MaxTime /\ {level, meter, lost, metered, tested, events} \subseteq Nat /\ metered <= meter
    BY <1>1, <1>2
  <2> QED BY <2>1, <2>2, <2>3, <2>4, <2>5 DEF StockTypeOK
<1>6. WellPosted
  BY <1>5, PostedTyped
<1>7. NothingLater
  <2>1. \A t \in Time : outstanding[t] = 0 /\ ahead[t] = 0
    BY <1>1
  <2>2. 0 + 0 = 0
    OBVIOUS
  <2> QED BY <1>3, <1>4, <2>1, <2>2 DEF NothingLater
<1>8. ~ShiftOpen /\ Net = OpeningStock
  <2>1. ~ShiftOpen
    BY <1>1 DEF ShiftOpen
  <2> QED BY <1>1, <1>2, <2>1 DEF Net, Drawn
<1>9. EachLitreOnce
  <2>1. \A t \in Time : Came[t] = 0
    BY <1>1, <1>3, <1>4, <1>6 DEF WellPosted
  <2>2. Booked("SALE", Time) = 0 /\ Booked("TESTING", Time) = 0
    BY <1>3, <1>4, <1>6, TimedZeros DEF WellPosted, Booked
  <2>3. CameIn(Time) = 0
    BY <1>6, <2>1, TimedZeros DEF WellPosted, CameIn
  <2> QED BY <1>1, <1>2, <1>8, <2>2, <2>3 DEF EachLitreOnce
<1>10. BookNeverNegative
  <2>1. \A k \in RowType : SumOf(Part(rows[k], 0..0)) = 0
    BY <1>2, <1>3, <1>6, Instants, TimedZeros DEF WellPosted
  <2>2. BookOf(rows, 0) = OpeningStock
    BY <1>2, <1>4, <2>1 DEF BookOf
  <2>3. BookStockAt(0) = BookOf(rows, 0)
    BY <1>2, <1>5, BookIs
  <2>4. SoldAhead \in Nat
    BY <1>5, AheadIs
  <2> QED BY <1>1, <1>2, <2>2, <2>3, <2>4 DEF BookNeverNegative
<1>11. ShiftsInOrder
  BY <1>1, <1>8 DEF ShiftsInOrder, OpeningMeter
<1>12. ShiftsInv
  BY <1>1, <1>8 DEF ShiftsInv, ClosedShifts, SinceOpening, SinceClosing
<1>13. PageReads
  BY <1>1 DEF PageReads, PumpStands, DipTaken, Away
<1> QED BY <1>1, <1>5, <1>7, <1>9, <1>10, <1>11, <1>12, <1>13 DEF TInv, TankTypeOK, StockInv, LedgerInv

\* Every step keeps the invariant.
LEMMA TankInvNext == TInv /\ [TankNext]_tankVars => TInv'
<1> SUFFICES ASSUME TInv, [TankNext]_tankVars PROVE TInv'
  OBVIOUS
<1>1. StockInv /\ page \in {Away} \cup Form /\ StockTypeOK
  BY DEF TInv, TankTypeOK, StockInv
<1>2. ASSUME StockInv', page' \in {Away} \cup Form, PageReads' PROVE TInv'
  <2>1. StockTypeOK'
    BY <1>2 DEF StockInv
  <2>2. TankTypeOK'
    BY <1>2, <2>1 DEF TankTypeOK
  <2> QED BY <1>2, <2>2 DEF TInv
<1>3. ASSUME UNCHANGED stockVars PROVE StockInv'
  <2>1. StockTypeOK' /\ ShiftsInOrder' /\ Net' = Net
    BY <1>1, <1>3 DEF stockVars, StockInv, StockTypeOK, ShiftsInOrder, ShiftOpen, Last, OpeningMeter,
                      Net, Drawn
  <2> QED BY <1>1, <1>3, <2>1, QuietStep DEF stockVars
<1>4. CASE LoadPage
  BY <1>2, <1>3, <1>4, LoadStep DEF LoadPage
<1>5. CASE TypeOpening \/ TypeClosing
  BY <1>2, <1>3, <1>5, TypeStep DEF TypeOpening, TypeClosing
<1>6. CASE SubmitOpening \/ SubmitClosing
  <2>1. StockInv' /\ page' = Away
    BY <1>6, SubmitStep
  <2>2. PageReads'
    BY <2>1 DEF PageReads, PumpStands, DipTaken, Away
  <2> QED BY <1>2, <2>1, <2>2
<1>7. ASSUME NEW q \in 1..MaxQuantity, Arrive(q) PROVE TInv'
  <2>1. q \in Nat /\ Deliver(q)
    BY <1>7 DEF Arrive
  <2> QED BY <1>1, <1>2, <1>7, <2>1, DeliverStep, ArriveStep
<1>8. ASSUME UNCHANGED page, Lose \/ Tick PROVE TInv'
  <2>1. StockInv'
    BY <1>1, <1>8, PumpStep, TickStep
  <2>2. CASE Tick
    <3>1. UNCHANGED <<level, meter, lost, tested, poured, shifts, page>>
      BY <1>8, <2>2 DEF Tick, tank
    <3> QED BY <1>1, <1>2, <1>8, <2>1, <3>1, PageSame
  <2>3. CASE Lose
    <3>1. /\ UNCHANGED <<meter, tested, poured, shifts, page>> /\ level' + lost' = level + lost
      BY <1>1, <1>8, <2>3 DEF Lose, StockTypeOK
    <3>2. /\ (ShiftOpen' <=> ShiftOpen) /\ Last' = Last /\ NozzleShows' = NozzleShows
          /\ (DipTaken' <=> DipTaken) /\ (PumpStands' <=> PumpStands)
      BY <3>1 DEF ShiftOpen, Last, NozzleShows, DipTaken, PumpStands
    <3>3. PageReads'
      BY <3>1, <3>2 DEF TInv, PageReads
    <3> QED BY <1>1, <1>2, <1>8, <2>1, <3>3
  <2> QED BY <1>8, <2>2, <2>3
<1>9. ASSUME UNCHANGED page, ~PumpStands, Draw \/ Test \/ PourBack PROVE TInv'
  BY <1>1, <1>2, <1>9, PumpStep, PagePump
<1>10. ASSUME UNCHANGED page, NEW at \in Time, Receive(at) PROVE TInv'
  <2>1. UNCHANGED <<level, meter, lost, tested, poured, shifts, page>>
    BY <1>10 DEF Receive
  <2> QED BY <1>1, <1>2, <1>10, <2>1, ReceiveStep, PageSame
<1>11. ASSUME UNCHANGED page, NEW d \in {-1, 1}, Adjust(d) PROVE TInv'
  <2>1. UNCHANGED <<level, meter, lost, tested, poured, shifts, page>> /\ d \in Int
    BY <1>11 DEF Adjust, tank
  <2> QED BY <1>1, <1>2, <1>11, <2>1, AdjustStep, PageSame
<1>12. ASSUME UNCHANGED page, NEW q \in 1..MaxQuantity, NEW at \in Time, SellMetered(q, at) PROVE TInv'
  <2>1. UNCHANGED <<level, meter, lost, tested, poured, shifts, page>> /\ q \in Nat
    BY <1>12 DEF SellMetered, tank
  <2> QED BY <1>1, <1>2, <1>12, <2>1, SellStep, PageSame
<1>13. ASSUME UNCHANGED page,
              OpenShift(level, meter, lost, TRUE) \/ CloseTankShift(level, NozzleShows, lost, TRUE)
       PROVE  TInv'
  BY <1>1, <1>2, <1>13, ElsewhereStep
<1>14. CASE Others
  BY <1>8, <1>9, <1>10, <1>11, <1>12, <1>13, <1>14 DEF Others
<1>15. CASE UNCHANGED tankVars
  <2>1. UNCHANGED stockVars /\ UNCHANGED page
    BY <1>15 DEF tankVars
  <2> QED BY <1>1, <1>2, <1>3, <2>1, PageSame DEF stockVars
<1> QED BY <1>4, <1>5, <1>6, <1>7, <1>14, <1>15 DEF TankNext

\* At every moment the tank, its ledger, its shifts and the page agree in the
\* sense of TInv: what came is in the tank, lost, drawn or posted, and each dip
\* differs from the present level by what was delivered since.
THEOREM TankInvariant == TankSpec => []TInv
BY TankInvInit, TankInvNext, PTL DEF TankSpec

\* The book between shifts, by the invariant.
LEMMA LitresCounted == TInv => LedgerCountsEachLitreOnce
<1> SUFFICES ASSUME TInv PROVE LedgerCountsEachLitreOnce
  OBVIOUS
<1>1. StockTypeOK /\ ShiftsInOrder /\ EachLitreOnce
  BY DEF TInv, StockInv, LedgerInv
<1> SUFFICES ASSUME ~ShiftOpen, AllEntered
             PROVE  BookStockAt(MaxTime + ClockSkew) = level + lost + Sum({"ADJUSTMENT"}, Time)
  BY <1>1 DEF LedgerCountsEachLitreOnce
<1>2. WellPosted /\ {level, lost} \subseteq Nat /\ OpeningStock \in Nat
  BY <1>1, PostedTyped, OpenTyped, StockAssumption
<1>3. Time \subseteq Time /\ RowsTyped
  BY <1>2 DEF WellPosted
<1>4. /\ \A k \in RowType : Booked(k, Time) \in Int
      /\ Sum({"ADJUSTMENT"}, Time) = Booked("ADJUSTMENT", Time)
      /\ Sum(RowType, Time) = Booked("RECEIPT", Time) + Booked("SALE", Time)
                                + Booked("ADJUSTMENT", Time) + Booked("TESTING", Time)
  BY <1>3, SumIsPosted
<1>5. \A t \in Time : Came[t] = rows["RECEIPT"][t]
  <2>1. \A t \in Time : rows["RECEIPT"][t] \in Int
    BY <1>1 DEF StockTypeOK, RowType
  <2> QED BY <1>2, <2>1 DEF WellPosted, AllEntered
<1>6. CameIn(Time) = Booked("RECEIPT", Time)
  BY <1>5, TimedSame DEF CameIn, Booked
<1>7. Net = level + lost /\ metered = 0
  BY <1>1, <1>2 DEF Net, Drawn, ShiftsInOrder
<1>8. BookStockAt(MaxTime + ClockSkew) = OpeningStock + Sum(RowType, Time)
  BY DEF BookStockAt, Time
<1> QED BY <1>1, <1>2, <1>4, <1>6, <1>7, <1>8 DEF EachLitreOnce, RowType

\* Between shifts, once the deliveries are entered, the book differs from the
\* tank by the losses and the adjustments made by hand: every litre delivered
\* (receive), sold (persistSale, closeShift) or kept by testing is posted once.
THEOREM LitresCountedOnce == TankSpec => []LedgerCountsEachLitreOnce
BY TankInvariant, LitresCounted, PTL

\* No order of sales, closings, adjustments and late receipts takes the book
\* stock below zero by more than the litres sold with stamps that lay ahead of
\* the server's clock (assertStockAvailable).
THEOREM NeverNegative == TankSpec => []BookNeverNegative
<1>1. TInv => BookNeverNegative
  BY DEF TInv, StockInv, LedgerInv
<1> QED BY <1>1, TankInvariant, PTL

\* What came in some instants, once it is entered.
LEMMA CameIsReceived ==
  ASSUME StockTypeOK, AllEntered, NEW I, Span(I)
  PROVE  /\ SumOf(Part(Came, I)) = Booked("RECEIPT", I)
         /\ \A t \in Time : Came[t] = rows["RECEIPT"][t]
<1>1. WellPosted
  BY PostedTyped
<1>2. \A t \in Time : rows["RECEIPT"][t] \in Int
  BY DEF StockTypeOK, RowType
<1>3. \A t \in Time : Came[t] = rows["RECEIPT"][t]
  BY <1>1, <1>2 DEF WellPosted, AllEntered
<1>4. SumOf(Part(Came, I)) = SumOf(Part(rows["RECEIPT"], I))
  <2>1. PICK f, g : f = Came /\ g = rows["RECEIPT"]
    OBVIOUS
  <2>2. \A t \in I : f[t] = g[t]
    BY <1>3, <2>1 DEF Span
  <2>3. SumOf(Part(f, I)) = SumOf(Part(g, I))
    BY <2>2, TimedSame
  <2> QED BY <2>1, <2>3
<1> QED BY <1>3, <1>4 DEF Booked

\* The variance, by the invariant.
LEMMA VarianceLost == TInv => VarianceIsTheLoss
<1> SUFFICES ASSUME TInv PROVE VarianceIsTheLoss
  OBVIOUS
<1>1. StockTypeOK /\ ShiftsInOrder /\ ClosedShifts
  BY DEF TInv, StockInv, ShiftsInv
<1>2. WellPosted /\ ShiftsTyped /\ RowsTyped
  BY <1>1, PostedTyped, RowsOfShifts DEF WellPosted
<1> SUFFICES ASSUME NEW i \in DOMAIN shifts, NEW s, s = shifts[i],
                    s.closedAt # Unset, s.still, AllEntered,
                    NothingMoved(s.openedAt), s.openedAt # s.closedAt,
                    rows["RECEIPT"][s.closedAt] = 0, rows["ADJUSTMENT"][s.closedAt] = 0
             PROVE  s.closingDip - ExpectedClosing(s, Bridge(s.openedAt, s.closedAt), s.closingMeter,
                                                   s.testing, s.returned)
                      = s.lostBefore - s.lostAfter
                          - Sum({"ADJUSTMENT"}, BridgeInstants(s.openedAt, s.closedAt))
  BY DEF VarianceIsTheLoss
<1>3. PICK o, d : o = s.openedAt /\ d = s.closedAt
  OBVIOUS
<1>4. /\ o \in Time /\ d \in Time /\ o <= d /\ o # d
      /\ {s.openingDip, s.closingDip, s.openingMeter, s.closingMeter, s.testing, s.lostBefore,
          s.lostAfter} \subseteq Nat
      /\ s.returned \in BOOLEAN
  BY <1>2, <1>3 DEF ShiftsTyped
<1>5. PICK I, J : I = (o + 1)..(d - 1) /\ J = o..(d - 1)
  OBVIOUS
<1>6. I \subseteq Time /\ J \subseteq Time /\ J = I \cup {o} /\ o \notin I
  BY <1>4, <1>5, Instants
<1>7. /\ \A k \in RowType : Booked(k, J) \in Int
      /\ Sum({"ADJUSTMENT"}, J) = Booked("ADJUSTMENT", J)
      /\ Sum(BridgeKinds, J) = Booked("RECEIPT", J) + Booked("ADJUSTMENT", J) + Booked("TESTING", J)
  BY <1>2, <1>6, SumIsPosted
<1>8. rows["RECEIPT"][o] = 0 /\ rows["TESTING"][o] = 0
  BY <1>3 DEF NothingMoved, BridgeKinds
<1>9. Booked("TESTING", J) = 0
  <2>1. \A t \in I : rows["TESTING"][t] = 0
    BY <1>1, <1>3, <1>5 DEF ClosedShifts, Untested
  <2>2. \A t \in J : rows["TESTING"][t] = 0
    BY <1>6, <1>8, <2>1
  <2>3. Timed(rows["TESTING"])
    BY <1>2 DEF WellPosted, RowType
  <2> QED BY <1>6, <2>2, <2>3, TimedZeros DEF Booked
<1>10. Booked("RECEIPT", J) = SumOf(Part(Came, I)) /\ Booked("RECEIPT", J) \in Int
  <2>1. Timed(rows["RECEIPT"])
    BY <1>2 DEF WellPosted, RowType
  <2>2. SumOf(Part(rows["RECEIPT"], J)) = rows["RECEIPT"][o] + SumOf(Part(rows["RECEIPT"], I))
    BY <1>4, <1>6, <2>1, TimedLonger
  <2>3. SumOf(Part(rows["RECEIPT"], I)) \in Int
    BY <1>6, <2>1, TimedSum
  <2>4. SumOf(Part(Came, I)) = SumOf(Part(rows["RECEIPT"], I))
    BY <1>1, <1>6, CameIsReceived DEF Span, Booked
  <2> QED BY <1>8, <2>2, <2>3, <2>4 DEF Booked
<1>11. s.closingDip - s.openingDip
         = SumOf(Part(Came, I)) - DrawnIn(s) + s.lostBefore - s.lostAfter
  <2>1. Came[o] = 0 /\ Came[d] = 0
    <3>1. Span(Time)
      BY DEF Span
    <3>2. \A t \in Time : Came[t] = rows["RECEIPT"][t]
      BY <1>1, <3>1, CameIsReceived
    <3> QED BY <1>3, <1>4, <1>8, <3>2
  <2>2. DipsAgree(s, Came)
    BY <1>1 DEF ClosedShifts
  <2> QED BY <1>3, <1>4, <1>5, <2>1, <2>2 DEF DipsAgree
<1>12. BridgeInstants(s.openedAt, s.closedAt) = J
  BY <1>3, <1>5 DEF BridgeInstants
<1>13. Booked("ADJUSTMENT", J) \in Int
  BY <1>7 DEF RowType
<1>14. Bridge(s.openedAt, s.closedAt) = SumOf(Part(Came, I)) + Booked("ADJUSTMENT", J)
  BY <1>7, <1>9, <1>10, <1>12, <1>13 DEF Bridge
<1>15. SumOf(Part(Came, I)) \in Int
  BY <1>10
<1>16. ExpectedClosing(s, Bridge(s.openedAt, s.closedAt), s.closingMeter, s.testing, s.returned)
         = s.openingDip + Bridge(s.openedAt, s.closedAt) - DrawnIn(s) /\ DrawnIn(s) \in Int
  BY <1>4, <1>13, <1>14, <1>15 DEF ExpectedClosing, DrawnIn
<1> QED BY <1>4, <1>7, <1>11, <1>12, <1>13, <1>14, <1>15, <1>16

\* The variance of a closed shift, by the bridge recomputed at any later moment
\* (stockBridge), is what was lost between its dips less what was adjusted by
\* hand, as long as nothing was delivered between a dip and its submission, or
\* moved at the very instants of the opening and the closing.
THEOREM VarianceIsLost == TankSpec => []VarianceIsTheLoss
BY TankInvariant, VarianceLost, PTL

\* OpeningFollowsClose, of one step.
OpensOnClose ==
  LET opened == shifts'[Len(shifts')] IN
  Len(shifts') > Len(shifts) /\ shifts # <<>> /\ AllEntered /\ NoneAhead
    /\ Last.still /\ opened.still
    /\ rows["RECEIPT"][Last.closedAt] = 0 /\ rows["ADJUSTMENT"][Last.closedAt] = 0
  => opened.openingDip - ExpectedOpening
       = Last.lostAfter - opened.lostBefore - Sum({"ADJUSTMENT"}, (Last.closedAt + 1)..now)

\* Opening a shift is such a step.
LEMMA OpenFollows ==
  ASSUME StockInv, NEW dip, NEW lostThen, NEW still, Dipped(dip, lostThen, still),
         OpenShift(dip, meter, lostThen, still)
  PROVE  OpensOnClose
<1>1. StockTypeOK /\ ShiftsInOrder /\ SinceClosing
  BY DEF StockInv, ShiftsInv
<1>2. PICK z : /\ shifts' = Append(shifts, z)
               /\ z.openingDip = dip /\ z.lostBefore = lostThen /\ z.still = still
  BY DEF OpenShift
<1>3. shifts'[Len(shifts')] = z
  <2>1. shifts \in Seq(ShiftRow)
    BY <1>1 DEF StockTypeOK
  <2> QED BY <1>2, <2>1
<1> SUFFICES ASSUME shifts # <<>>, AllEntered, NoneAhead, Last.still, still,
                    rows["RECEIPT"][Last.closedAt] = 0
             PROVE  dip - ExpectedOpening
                      = Last.lostAfter - lostThen - Sum({"ADJUSTMENT"}, (Last.closedAt + 1)..now)
  BY <1>2, <1>3 DEF OpensOnClose
<1>4. ~ShiftOpen
  BY DEF OpenShift
<1>5. WellPosted /\ ShiftsTyped /\ RowsTyped /\ now \in Time /\ Net \in Int
      /\ {level, lost} \subseteq Nat
  BY <1>1, PostedTyped, RowsOfShifts, OpenTyped, NetIsInt DEF WellPosted
<1>6. PICK d : d = Last.closedAt
  OBVIOUS
<1>7. d \in Time /\ {Last.closingDip, Last.lostAfter} \subseteq Nat
  BY <1>4, <1>5, <1>6 DEF ShiftsTyped, ShiftOpen, Last
<1>8. PICK I : I = (d + 1)..now
  OBVIOUS
<1>9. I \subseteq Time
  BY <1>5, <1>7, <1>8, Instants
<1>10. /\ \A k \in RowType : Booked(k, I) \in Int
       /\ Sum({"ADJUSTMENT"}, I) = Booked("ADJUSTMENT", I)
       /\ Sum(RowType, I) = Booked("RECEIPT", I) + Booked("SALE", I)
                              + Booked("ADJUSTMENT", I) + Booked("TESTING", I)
  BY <1>5, <1>9, SumIsPosted
<1>11. Booked("SALE", I) = 0 /\ Booked("TESTING", I) = 0
  <2>1. \A t \in I : rows["SALE"][t] = 0 /\ rows["TESTING"][t] = 0
    BY <1>1, <1>4, <1>6, <1>8 DEF SinceClosing, Untested
  <2>2. Timed(rows["SALE"]) /\ Timed(rows["TESTING"])
    BY <1>5 DEF WellPosted, RowType
  <2> QED BY <1>9, <2>1, <2>2, TimedZeros DEF Booked
<1>12. SumOf(Part(Came, I)) = Booked("RECEIPT", I) /\ Came[d] = 0
  BY <1>1, <1>6, <1>7, <1>9, CameIsReceived DEF Span
<1>13. Net - (Last.lostAfter + Last.closingDip) = SumOf(Part(Came, I))
  BY <1>1, <1>4, <1>6, <1>8, <1>12 DEF SinceClosing, Follows
<1>14. Net = dip + lostThen /\ dip \in Nat /\ lostThen \in Nat
  BY <1>4, <1>5 DEF Net, Drawn, Dipped
<1>15. ExpectedOpening = Last.closingDip + Sum(RowType, I)
  BY <1>6, <1>8 DEF ExpectedOpening, MovementsBetween
<1>16. Booked("RECEIPT", I) \in Int /\ Booked("ADJUSTMENT", I) \in Int
  BY <1>10 DEF RowType
<1> QED BY <1>6, <1>7, <1>8, <1>10, <1>11, <1>12, <1>13, <1>14, <1>15, <1>16

\* So is every step.
LEMMA OpeningsFollow == TInv /\ [TankNext]_tankVars => OpensOnClose
<1> SUFFICES ASSUME TInv, [TankNext]_tankVars PROVE OpensOnClose
  OBVIOUS
<1>1. StockInv /\ StockTypeOK /\ ShiftsInOrder /\ PageReads /\ shifts \in Seq(ShiftRow)
  BY DEF TInv, StockInv, StockTypeOK
<1>2. {level, lost, meter} \subseteq Nat
  BY <1>1, OpenTyped
<1>3. ASSUME Len(shifts') = Len(shifts) PROVE OpensOnClose
  <2>1. ~(Len(shifts') > Len(shifts))
    BY <1>1, <1>3
  <2> QED BY <2>1 DEF OpensOnClose
<1>4. ASSUME UNCHANGED shifts PROVE OpensOnClose
  BY <1>3, <1>4
<1>5. ASSUME NEW dip, NEW nozzle, NEW lostThen, NEW still, CloseTankShift(dip, nozzle, lostThen, still)
      PROVE  OpensOnClose
  <2>1. PICK z : shifts' = [shifts EXCEPT ![Len(shifts)] = z]
    BY <1>5 DEF CloseTankShift
  <2>2. Len(shifts') = Len(shifts)
    BY <1>1, <2>1
  <2> QED BY <1>3, <2>2
<1>6. CASE SubmitOpening
  <2>1. OpenShift(page.dip, page.nozzle.meter, page.lost, page.still) /\ page.kind = "opening" /\ DipTaken
    BY <1>6 DEF SubmitOpening
  <2>2. page.nozzle.meter = meter
    BY <1>1, <2>1 DEF OpenShift, OpensAt, ShiftsInOrder
  <2>3. page.lost \in Nat /\ page.still \in BOOLEAN /\ page.dip \in Nat
    BY <2>1, FormTyped
  <2>4. Dipped(page.dip, page.lost, page.still)
    BY <1>1, <2>1, <2>2, <2>3 DEF PageReads, Dipped
  <2> QED BY <1>1, <2>1, <2>2, <2>4, OpenFollows
<1>7. CASE SubmitClosing
  BY <1>5, <1>7 DEF SubmitClosing
<1>8. CASE OpenShift(level, meter, lost, TRUE)
  <2>1. Dipped(level, lost, TRUE)
    BY <1>2 DEF Dipped
  <2> QED BY <1>1, <1>8, <2>1, OpenFollows
<1>9. CASE UNCHANGED tankVars \/ LoadPage \/ TypeOpening \/ TypeClosing
  BY <1>4, <1>9 DEF tankVars, stockVars, LoadPage, TypeOpening, TypeClosing
<1>10. ASSUME NEW q, Arrive(q) PROVE OpensOnClose
  BY <1>4, <1>10 DEF Arrive, Deliver
<1>11. CASE Others
  <2>1. ASSUME NEW at, Receive(at) PROVE OpensOnClose
    BY <1>4, <2>1 DEF Receive
  <2>2. ASSUME NEW d, Adjust(d) PROVE OpensOnClose
    BY <1>4, <2>2 DEF Adjust
  <2>3. ASSUME NEW q, NEW at, SellMetered(q, at) PROVE OpensOnClose
    BY <1>4, <2>3 DEF SellMetered
  <2>4. CASE Lose \/ Tick \/ Draw \/ Test \/ PourBack
    BY <1>4, <2>4 DEF Lose, Tick, Draw, Test, PourBack
  <2> QED BY <1>5, <1>8, <1>11, <2>1, <2>2, <2>3, <2>4 DEF Others
<1> QED BY <1>6, <1>7, <1>9, <1>10, <1>11 DEF TankNext

\* The dip a shift opens with is the one the last close and the movements since
\* lead to (tankMovementDeltasBetween), less the losses and the adjustments in
\* between, as long as the deliveries are entered and the dips were not old.
THEOREM OpeningsFollowClose == TankSpec => OpeningFollowsClose
<1>1. TInv /\ [TankNext]_tankVars => [OpensOnClose]_stockVars
  BY OpeningsFollow
<1> QED BY <1>1, TankInvariant, PTL DEF TankSpec, OpeningFollowsClose, OpensOnClose
=============================================================================
