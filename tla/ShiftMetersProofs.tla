-------------------------- MODULE ShiftMetersProofs --------------------------
(***************************************************************************)
(* ShiftMeters for any nozzles, sale submissions and bounds: the sales of  *)
(* every nozzle cover its meter, closing a shift accounts for every litre, *)
(* and a reconciliation's total stands.  The first half is what Litres, a  *)
(* sum over a set, adds up to.                                             *)
(***************************************************************************)
EXTENDS ShiftMeters, FiniteSetTheorems, SequenceTheorems, WellFoundedInduction, TLAPS

-----------------------------------------------------------------------------
(* Induction, with the property as a set.                                  *)

\* A set of numbers that holds 0 and every successor holds all.
LEMMA AllNumbers ==
  ASSUME NEW G \in SUBSET Nat, 0 \in G, \A n \in G : n + 1 \in G
  PROVE  G = Nat
<1> SUFFICES ASSUME G # Nat PROVE FALSE
  OBVIOUS
<1> DEFINE R == OpToRel(<, Nat)
           B == Nat \ G
<1>1. PICK a \in B : \A b \in B : ~ (<<b, a>> \in R)
  <2>1. B # {} /\ B \subseteq Nat
    OBVIOUS
  <2> QED BY <2>1, NatLessThanWellFounded, WFMin
<1>2. a # 0 /\ a \in Nat /\ a \notin G
  OBVIOUS
<1>3. a - 1 \in Nat /\ a - 1 < a /\ a - 1 + 1 = a
  BY <1>2
<1>4. <<a - 1, a>> \in R
  BY <1>2, <1>3 DEF OpToRel
<1>5. a - 1 \in G
  <2> HIDE DEF R
  <2> QED BY <1>1, <1>3, <1>4
<1>6. a - 1 + 1 \in G
  BY <1>5
<1> QED BY <1>2, <1>3, <1>6

\* A family of subsets of a finite set that holds each subset whose proper
\* subsets it holds is all of them.
LEMMA AllSubsets ==
  ASSUME NEW D, IsFiniteSet(D), NEW P \in SUBSET (SUBSET D),
         \A s \in SUBSET D : (\A t \in SUBSET s : t # s => t \in P) => s \in P
  PROVE  P = SUBSET D
<1>1. \A s \in SUBSET D : IsFiniteSet(s) /\ Cardinality(s) \in Nat
  BY FS_Subset, FS_CardinalityType
<1>2. ASSUME NEW s \in SUBSET D, NEW t \in SUBSET s, t # s
      PROVE  t \in SUBSET D /\ Cardinality(t) < Cardinality(s)
  <2>1. IsFiniteSet(s)
    BY <1>1
  <2>2. Cardinality(t) <= Cardinality(s) /\ (Cardinality(t) = Cardinality(s) => t = s)
    BY <2>1, FS_Subset
  <2>3. Cardinality(t) \in Nat /\ Cardinality(s) \in Nat
    BY <1>1
  <2> QED BY <1>2, <2>2, <2>3
<1> DEFINE G == {n \in Nat : \A s \in SUBSET D : Cardinality(s) < n => s \in P}
<1>3. 0 \in G
  BY <1>1
<1>4. ASSUME NEW n \in G PROVE n + 1 \in G
  <2> SUFFICES ASSUME NEW s \in SUBSET D, Cardinality(s) < n + 1 PROVE s \in P
    OBVIOUS
  <2>1. \A t \in SUBSET s : t # s => t \in P
    BY <1>1, <1>2
  <2> QED BY <2>1
<1>5. G = Nat
  <2> HIDE DEF G
  <2>1. G \in SUBSET Nat
    BY DEF G
  <2> QED BY <1>3, <1>4, <2>1, AllNumbers
<1>6. ASSUME NEW s \in SUBSET D PROVE s \in P
  <2>1. Cardinality(s) + 1 \in G /\ Cardinality(s) < Cardinality(s) + 1
    BY <1>1, <1>5
  <2> QED BY <2>1
<1> QED BY <1>6

-----------------------------------------------------------------------------
(* What Litres adds up.                                                    *)

\* The member MapThenSumSet takes first, and the table of sums it chooses.
First(s) == CHOOSE x \in s : TRUE
Sums(g, f, D) == g = [s \in SUBSET D |-> IF s = {} THEN 0 ELSE f[First(s)] + g[s \ {First(s)}]]

\* There is such a table.
LEMMA SumsExist ==
  ASSUME NEW D, IsFiniteSet(D), NEW f \in [D -> Int]
  PROVE  \E g \in [SUBSET D -> Int] : Sums(g, f, D)
<1> DEFINE A(n) == {s \in SUBSET D : Cardinality(s) <= n}
           Rest(g, s) == IF s = {} THEN 0 ELSE f[First(s)] + g[s \ {First(s)}]
           G == {n \in Nat : \E g \in [A(n) -> Int] : \A s \in A(n) : g[s] = Rest(g, s)}
<1>1. \A s \in SUBSET D : /\ IsFiniteSet(s) /\ Cardinality(s) \in Nat
                          /\ Cardinality(s) = 0 <=> s = {}
  BY FS_Subset, FS_CardinalityType, FS_EmptySet
<1>2. ASSUME NEW s \in SUBSET D, s # {}
      PROVE  /\ First(s) \in s /\ s \ {First(s)} \in SUBSET D
             /\ Cardinality(s \ {First(s)}) = Cardinality(s) - 1
  BY <1>1, <1>2, FS_RemoveElement DEF First
<1>3. 0 \in G
  <2> DEFINE g == [s \in A(0) |-> 0]
  <2>1. \A s \in A(0) : s = {}
    BY <1>1
  <2>2. g \in [A(0) -> Int] /\ \A s \in A(0) : g[s] = Rest(g, s)
    BY <2>1
  <2> QED BY <2>2
<1>4. ASSUME NEW n \in G PROVE n + 1 \in G
  <2>1. PICK g \in [A(n) -> Int] : \A s \in A(n) : g[s] = Rest(g, s)
    OBVIOUS
  <2> DEFINE h == [s \in A(n + 1) |-> Rest(g, s)]
  <2>2. ASSUME NEW s \in A(n + 1), s # {}
        PROVE  s \ {First(s)} \in A(n) /\ s \ {First(s)} \in A(n + 1) /\ f[First(s)] \in Int
    BY <1>1, <1>2, <2>2
  <2>3. \A t \in A(n) : t \in A(n + 1) /\ h[t] = g[t]
    BY <1>1, <2>1
  <2>4. h \in [A(n + 1) -> Int]
    BY <2>1, <2>2
  <2>5. \A s \in A(n + 1) : h[s] = Rest(h, s)
    BY <2>2, <2>3
  <2>6. \E w \in [A(n + 1) -> Int] : \A s \in A(n + 1) : w[s] = Rest(w, s)
    <3> HIDE DEF h, A, Rest
    <3> QED BY <2>4, <2>5
  <2> HIDE DEF A, Rest
  <2> QED BY <2>6
<1>5. G = Nat
  <2> HIDE DEF G
  <2>1. G \in SUBSET Nat
    BY DEF G
  <2> QED BY <1>3, <1>4, <2>1, AllNumbers
<1>6. PICK g \in [A(Cardinality(D)) -> Int] : \A s \in A(Cardinality(D)) : g[s] = Rest(g, s)
  BY <1>1, <1>5
<1>7. A(Cardinality(D)) = SUBSET D
  BY FS_Subset
<1> QED BY <1>6, <1>7 DEF Sums

\* Sums of the same values are the same.
LEMMA SumsAgree ==
  ASSUME NEW D, IsFiniteSet(D), NEW f, NEW g, Sums(g, f, D),
         NEW E, NEW e, NEW h, Sums(h, e, E),
         NEW S, S \subseteq D, S \subseteq E, \A x \in S : f[x] = e[x]
  PROVE  g[S] = h[S]
<1> DEFINE P == {s \in SUBSET S : g[s] = h[s]}
<1>1. IsFiniteSet(S)
  BY FS_Subset
<1>2. ASSUME NEW s \in SUBSET S, \A t \in SUBSET s : t # s => t \in P PROVE s \in P
  <2>1. s \in SUBSET D /\ s \in SUBSET E
    OBVIOUS
  <2>2. g[s] = IF s = {} THEN 0 ELSE f[First(s)] + g[s \ {First(s)}]
    BY <2>1 DEF Sums
  <2>3. h[s] = IF s = {} THEN 0 ELSE e[First(s)] + h[s \ {First(s)}]
    BY <2>1 DEF Sums
  <2>4. CASE s = {}
    BY <2>2, <2>3, <2>4
  <2>5. CASE s # {}
    <3>1. First(s) \in s
      BY <2>5 DEF First
    <3>2. f[First(s)] = e[First(s)] /\ g[s \ {First(s)}] = h[s \ {First(s)}]
      BY <1>2, <3>1
    <3> QED BY <2>2, <2>3, <2>5, <3>2
  <2> QED BY <2>4, <2>5
<1>3. P = SUBSET S
  <2>1. P \in SUBSET (SUBSET S)
    OBVIOUS
  <2> HIDE DEF P
  <2> QED BY <1>1, <1>2, <2>1, AllSubsets
<1> QED BY <1>3

\* The functions with a sum, and a set with one member less.
Numbers(f, D) == IsFiniteSet(D) /\ f \in [D -> Int]
Less(E, D, x) == x \in D /\ E = D \ {x}

\* Whichever member is taken out first.
LEMMA AnyFirst ==
  ASSUME NEW D, NEW f, Numbers(f, D), NEW g \in [SUBSET D -> Int], Sums(g, f, D),
         NEW x, NEW E, Less(E, D, x)
  PROVE  g[D] = f[x] + g[E]
<1> DEFINE P == {s \in SUBSET D : \A y \in s : g[s] = f[y] + g[s \ {y}]}
<1>0. IsFiniteSet(D) /\ f \in [D -> Int] /\ x \in D /\ E = D \ {x}
  BY DEF Numbers, Less
<1>1. ASSUME NEW s \in SUBSET D, s # {} PROVE g[s] = f[First(s)] + g[s \ {First(s)}] /\ First(s) \in s
  BY <1>1 DEF Sums, First
<1>2. ASSUME NEW s \in SUBSET D, \A t \in SUBSET s : t # s => t \in P PROVE s \in P
  <2> SUFFICES ASSUME NEW z \in s PROVE g[s] = f[z] + g[s \ {z}]
    OBVIOUS
  <2>1. PICK y : y = First(s)
    OBVIOUS
  <2>2. y \in s /\ g[s] = f[y] + g[s \ {y}]
    BY <1>1, <2>1
  <2>3. CASE z # y
    <3>1. s \ {y} \in P /\ s \ {z} \in P
      BY <1>2, <2>2
    <3>2. g[s \ {y}] = f[z] + g[(s \ {y}) \ {z}]
      BY <3>1, <2>3
    <3>3. g[s \ {z}] = f[y] + g[(s \ {z}) \ {y}]
      BY <2>2, <2>3, <3>1
    <3>4. (s \ {y}) \ {z} = (s \ {z}) \ {y}
      OBVIOUS
    <3>5. PICK u : u = g[(s \ {z}) \ {y}]
      OBVIOUS
    <3>6. f[z] \in Int /\ f[y] \in Int /\ u \in Int
      BY <1>0, <2>2, <3>5
    <3>7. g[s \ {y}] = f[z] + u /\ g[s \ {z}] = f[y] + u
      BY <3>2, <3>3, <3>4, <3>5
    <3> QED BY <2>2, <3>6, <3>7
  <2> QED BY <2>2, <2>3
<1>3. P = SUBSET D
  <2>1. P \in SUBSET (SUBSET D)
    OBVIOUS
  <2> HIDE DEF P
  <2> QED BY <1>0, <1>2, <2>1, AllSubsets
<1>4. D \in P
  BY <1>3
<1> QED BY <1>0, <1>4

Moved(x) == x.to - x.from
Sized(S) == IsFiniteSet(S) /\ \A x \in S : Moved(x) \in Int
Table(g, f, S) ==
    /\ g \in [SUBSET S -> Int] /\ Sums(g, f, S) /\ Numbers(f, S)
    /\ \A x \in S : f[x] = Moved(x)

\* What Litres returns: the whole of any table of sums.
LEMMA LitresIs ==
  ASSUME NEW S, Sized(S)
  PROVE  \E f, g : Table(g, f, S) /\ Litres(S) = g[S]
<1>1. PICK f : f = [x \in S |-> Moved(x)]
  OBVIOUS
<1>2. IsFiniteSet(S) /\ f \in [S -> Int] /\ \A x \in S : f[x] = Moved(x)
  BY <1>1 DEF Sized
<1>3. PICK g \in [SUBSET S -> Int] : Sums(g, f, S)
  BY <1>2, SumsExist
<1> DEFINE Rest(h, s) == IF s = {} THEN 0 ELSE Moved(First(s)) + h[s \ {First(s)}]
           chosen == CHOOSE h : h = [s \in SUBSET S |-> Rest(h, s)]
<1>4. \A s \in SUBSET S : s # {} => f[First(s)] = Moved(First(s))
  <2>1. ASSUME NEW s \in SUBSET S, s # {} PROVE First(s) \in S
    BY <2>1 DEF First
  <2> QED BY <1>2, <2>1
<1>5. Litres(S) = chosen[S]
  BY DEF Litres, MapThenSumSet, MapThenFoldSet, First, Moved
<1>6. ASSUME NEW h PROVE Sums(h, f, S) <=> h = [s \in SUBSET S |-> Rest(h, s)]
  <2>1. \A s \in SUBSET S : (IF s = {} THEN 0 ELSE f[First(s)] + h[s \ {First(s)}]) = Rest(h, s)
    BY <1>4
  <2>2. [s \in SUBSET S |-> IF s = {} THEN 0 ELSE f[First(s)] + h[s \ {First(s)}]] = [s \in SUBSET S |-> Rest(h, s)]
    <3> HIDE DEF Rest
    <3> QED BY <2>1
  <2> HIDE DEF Rest
  <2> QED BY <2>2 DEF Sums
<1>7. Sums(chosen, f, S)
  <2>1. g = [s \in SUBSET S |-> Rest(g, s)]
    BY <1>3, <1>6
  <2>2. chosen = [s \in SUBSET S |-> Rest(chosen, s)]
    <3> HIDE DEF Rest
    <3> QED BY <2>1
  <2> HIDE DEF chosen
  <2> QED BY <1>6, <2>2
<1> HIDE DEF chosen
<1>8. S \subseteq S /\ \A x \in S : f[x] = f[x]
  OBVIOUS
<1>9. chosen[S] = g[S]
  BY <1>2, <1>3, <1>7, <1>8, SumsAgree
<1> QED BY <1>2, <1>3, <1>5, <1>9 DEF Table, Numbers

\* Litres are a number, and nothing is none.
LEMMA LitresAre ==
  ASSUME NEW S, Sized(S)
  PROVE  Litres(S) \in Int /\ (S = {} => Litres(S) = 0)
<1>1. PICK f, g : Table(g, f, S) /\ Litres(S) = g[S]
  BY LitresIs
<1>2. g[S] \in Int /\ (S = {} => g[S] = 0)
  BY <1>1 DEF Table, Sums
<1> QED BY <1>1, <1>2

\* The table of a set takes out one sale.
LEMMA TableLess ==
  ASSUME NEW f, NEW g, NEW S, Table(g, f, S), NEW x, NEW T, Less(T, S, x)
  PROVE  g[S] = f[x] + g[T]
<1>1. Numbers(f, S) /\ g \in [SUBSET S -> Int] /\ Sums(g, f, S)
  BY DEF Table
<1> QED BY <1>1, AnyFirst

\* One sale more.
LEMMA LitresWith ==
  ASSUME NEW S, Sized(S), NEW x, NEW T, Less(T, S, x)
  PROVE  Sized(T) /\ Litres(S) = Litres(T) + Moved(x)
<1>1. PICK f, g : Table(g, f, S) /\ Litres(S) = g[S]
  BY LitresIs
<1>2. x \in S /\ T \subseteq S /\ Sized(T)
  <2>1. IsFiniteSet(T)
    BY FS_Subset DEF Less, Sized
  <2> QED BY <2>1 DEF Less, Sized
<1>3. PICK e, h : Table(h, e, T) /\ Litres(T) = h[T]
  BY <1>2, LitresIs
<1>4. g[S] = f[x] + g[T]
  BY <1>1, TableLess
<1>5. f[x] = Moved(x) /\ \A y \in T : f[y] = e[y]
  BY <1>1, <1>2, <1>3 DEF Table
<1>6. g[T] = h[T]
  <2>1. IsFiniteSet(S) /\ Sums(g, f, S) /\ Sums(h, e, T) /\ T \subseteq S /\ T \subseteq T
    BY <1>1, <1>2, <1>3 DEF Sized, Table
  <2> QED BY <1>5, <2>1, SumsAgree
<1>7. Moved(x) \in Int /\ Litres(T) \in Int
  BY <1>2, LitresAre DEF Sized
<1> QED BY <1>1, <1>2, <1>3, <1>4, <1>5, <1>6, <1>7

\* Litres of sales that each move the meter on.
LEMMA LitresNat ==
  ASSUME NEW S, Sized(S), \A x \in S : Moved(x) >= 0
  PROVE  Litres(S) \in Nat
<1> DEFINE P == {s \in SUBSET S : Litres(s) >= 0}
<1>0. ASSUME NEW s \in SUBSET S PROVE Sized(s)
  BY FS_Subset DEF Sized
<1>1. ASSUME NEW s \in SUBSET S, \A t \in SUBSET s : t # s => t \in P PROVE s \in P
  <2>1. CASE s = {}
    <3>1. Litres(s) = 0
      BY <1>0, <2>1, LitresAre
    <3> QED BY <3>1
  <2>2. CASE s # {}
    <3>1. PICK x : x \in s
      BY <2>2
    <3>2. PICK t : t = s \ {x}
      OBVIOUS
    <3>3. Litres(t) >= 0 /\ t \in SUBSET S
      BY <1>1, <3>1, <3>2
    <3>4. Less(t, s, x) /\ Moved(x) >= 0 /\ Moved(x) \in Int
      BY <3>1, <3>2 DEF Less, Sized
    <3>5. Sized(s) /\ Sized(t)
      BY <1>0, <3>3
    <3>6. Litres(s) = Litres(t) + Moved(x) /\ Litres(t) \in Int
      BY <3>4, <3>5, LitresWith, LitresAre
    <3>7. Litres(s) >= 0
      BY <3>3, <3>4, <3>6
    <3> QED BY <3>7
  <2> QED BY <2>1, <2>2
<1>2. P = SUBSET S
  <2>1. P \in SUBSET (SUBSET S) /\ IsFiniteSet(S)
    BY DEF Sized
  <2> HIDE DEF P
  <2> QED BY <1>1, <2>1, AllSubsets
<1>3. Litres(S) \in Int
  BY LitresAre
<1>4. S \in P
  BY <1>2
<1> QED BY <1>3, <1>4

-----------------------------------------------------------------------------
(* The inductive invariant.                                                *)

Top(S, o) == o + Litres(S)

\* The sales S of a nozzle that opened at o cover its meter up to Top(S, o),
\* and no further, without a gap or an overlap.
Filled(S, o) ==
    /\ IsFiniteSet(S)
    /\ \A x \in S : /\ x.from \in Nat /\ x.to \in Nat /\ x.from < x.to
                    /\ x.from = o \/ \E y \in S : y.to = x.from
                    /\ \A y \in S \ {x} : x.to <= y.from \/ y.to <= x.from
                    /\ x.to <= Top(S, o)
    /\ S # {} => \E x \in S : x.to = Top(S, o)

\* Sales are of shifts the station opened, on nozzles the shift has.
Placed(x) == x.shift \in DOMAIN shifts /\ x.nozzle \in NozzlesOf(x.shift)

\* A sale whose request is under way was checked against the shift's opening
\* reading, unless another one of its nozzle was recorded.
Checked(x) == /\ x.from < x.to
              /\ SalesOf(x.shift, x.nozzle) = {} => x.from = shifts[x.shift].opening[x.nozzle]

SalesFill ==
    \A s \in DOMAIN shifts : \A n \in NozzlesOf(s) :
        Filled(SalesOf(s, n), shifts[s].opening[n])

\* An open shift has not closed, and a closed one has its readings.
ShiftsRead ==
    \A s \in DOMAIN shifts :
        /\ IsOpen(s) => shifts[s].closedAt = None
        /\ IsClosed(s) => /\ shifts[s].closing \in [NozzlesOf(s) -> Meter]
                          /\ shifts[s].tested \in [NozzlesOf(s) -> Meter]

IInv == /\ TypeOK
        /\ IsFiniteSet(sales)
        /\ \A x \in sales \cup checked : Placed(x)
        /\ \A x \in checked : Checked(x)
        /\ SalesFill
        /\ ShiftsRead
        /\ ClosedMetersAreSold
        /\ LockedTotalStands

-----------------------------------------------------------------------------
(* One nozzle's sales.                                                     *)

\* Nothing sold: the meter is covered up to where it opened.
LEMMA FilledNone ==
  ASSUME NEW S, S = {}, NEW o \in Nat
  PROVE  Filled(S, o)
BY FS_EmptySet DEF Filled

\* Sales that cover a meter can be added up.
LEMMA FilledSized ==
  ASSUME NEW S, NEW o, Filled(S, o)
  PROVE  Sized(S) /\ Litres(S) \in Int
<1>1. Sized(S)
  BY DEF Filled, Sized, Moved
<1> QED BY <1>1, LitresAre

\* The next sale starts where the meter was covered to.
LEMMA FilledWith ==
  ASSUME NEW S, NEW o \in Nat, Filled(S, o),
         NEW x, x.from \in Nat, x.to \in Nat, x.from < x.to, x.from = Top(S, o),
         NEW T, T = S \cup {x}
  PROVE  Filled(T, o) /\ Litres(T) = Litres(S) + (x.to - x.from)
<1>1. Sized(S) /\ Litres(S) \in Int
  BY FilledSized
<1>2. x \notin S
  BY DEF Filled
<1>3. Less(S, T, x)
  BY <1>2 DEF Less
<1>4. Sized(T)
  <2>1. IsFiniteSet(T)
    BY <1>1, FS_AddElement DEF Sized
  <2> QED BY <1>1, <2>1 DEF Sized, Moved
<1>5. Litres(T) = Litres(S) + Moved(x)
  BY <1>3, <1>4, LitresWith
<1>6. PICK a : a = Top(S, o)
  OBVIOUS
<1>7. PICK b : b = Top(T, o)
  OBVIOUS
<1>8. b = x.to /\ a = x.from
  BY <1>1, <1>5, <1>6, <1>7 DEF Top, Moved
<1>9. \A y \in S : /\ y.from \in Nat /\ y.to \in Nat /\ y.from < y.to
                   /\ y.from = o \/ \E z \in S : z.to = y.from
                   /\ \A z \in S \ {y} : y.to <= z.from \/ z.to <= y.from
                   /\ y.to <= a
  BY <1>6 DEF Filled
<1>10. x.from = o \/ \E z \in S : z.to = x.from
  <2>1. CASE S = {}
    <3>1. Litres(S) = 0
      BY <1>1, <2>1, LitresAre
    <3> QED BY <3>1 DEF Top
  <2>2. CASE S # {}
    BY <2>2 DEF Filled
  <2> QED BY <2>1, <2>2
<1>11. ASSUME NEW y \in T
       PROVE  /\ y.from \in Nat /\ y.to \in Nat /\ y.from < y.to
              /\ y.from = o \/ \E z \in T : z.to = y.from
              /\ \A z \in T \ {y} : y.to <= z.from \/ z.to <= y.from
              /\ y.to <= b
  <2>1. CASE y = x
    BY <1>8, <1>9, <1>10, <2>1
  <2>2. CASE y \in S
    <3>1. y.to <= x.from
      BY <1>8, <1>9, <2>2
    <3> QED BY <1>8, <1>9, <2>2, <3>1
  <2> QED BY <2>1, <2>2
<1>12. IsFiniteSet(T) /\ x \in T
  BY <1>4 DEF Sized
<1>13. Filled(T, o)
  BY <1>7, <1>8, <1>11, <1>12 DEF Filled
<1> QED BY <1>5, <1>13 DEF Moved

\* The largest closing reading of the sales is where the meter is covered to.
LEMMA ReadsOn ==
  ASSUME NEW S, NEW o \in Nat, Filled(S, o),
         NEW x, \A y \in S : (\A z \in S : z.to <= y.to) => y.to = x.from,
         S = {} => x.from = o
  PROVE  x.from = Top(S, o)
<1>1. CASE S = {}
  <2>1. Litres(S) = 0
    BY <1>1, FilledSized, LitresAre
  <2> QED BY <1>1, <2>1 DEF Top
<1>2. CASE S # {}
  <2>1. PICK y \in S : y.to = Top(S, o)
    BY <1>2 DEF Filled
  <2>2. \A z \in S : z.to <= Top(S, o)
    BY DEF Filled
  <2> QED BY <2>1, <2>2
<1> QED BY <1>1, <1>2

-----------------------------------------------------------------------------
(* The initial state.                                                      *)

\* Nothing has happened yet.
LEMMA InitIInv == Init => IInv
<1> SUFFICES ASSUME Init PROVE IInv
  OBVIOUS
<1>1. now \in Time
  BY BoundsAssumption DEF Init, Time
<1>2. DOMAIN shifts = {} /\ shifts \in Seq(Shift) /\ Len(shifts) <= MaxShift
  BY BoundsAssumption DEF Init
<1>3. TypeOK
  BY <1>1, <1>2 DEF Init, TypeOK
<1>4. sales = {} /\ checked = {} /\ IsFiniteSet(sales)
  BY FS_EmptySet DEF Init
<1> QED BY <1>2, <1>3, <1>4 DEF IInv, SalesFill, ShiftsRead, ClosedMetersAreSold, LockedTotalStands

-----------------------------------------------------------------------------
(* What the actions leave alone.                                           *)

\* What the rows of a shift are.
LEMMA ShiftRow ==
  ASSUME TypeOK, NEW s \in DOMAIN shifts
  PROVE  /\ s \in ShiftNo /\ shifts[s] \in Shift
         /\ NozzlesOf(s) \in SUBSET Nozzle
         /\ shifts[s].opening \in [NozzlesOf(s) -> Meter]
<1>1. s \in 1..Len(shifts) /\ Len(shifts) \in Nat
  BY DEF TypeOK
<1>2. s \in ShiftNo /\ shifts[s] \in Shift
  BY <1>1, BoundsAssumption DEF TypeOK, ShiftNo
<1>3. PICK S \in SUBSET Nozzle : shifts[s].opening \in [S -> Meter]
  BY <1>2 DEF Shift, Readings
<1> QED BY <1>2, <1>3 DEF NozzlesOf

\* A step that writes neither shifts nor sales keeps what is true of them.
LEMMA BooksKept ==
  ASSUME IInv, UNCHANGED <<shifts, sales>>
  PROVE  /\ IsFiniteSet(sales') /\ SalesFill' /\ ShiftsRead'
         /\ ClosedMetersAreSold' /\ LockedTotalStands'
         /\ \A x \in sales' : Placed(x)'
BY DEF IInv, SalesFill, ShiftsRead, ClosedMetersAreSold, LockedTotalStands, Placed, NozzlesOf,
       SalesOf, IsOpen, IsClosed, Recorded, Sold

\* So do requests under way that the step does not add.
LEMMA RequestsKept ==
  ASSUME IInv, UNCHANGED <<shifts, sales>>, NEW x \in checked
  PROVE  Placed(x)' /\ Checked(x)'
BY DEF IInv, Placed, Checked, NozzlesOf, SalesOf

-----------------------------------------------------------------------------
(* Requests.                                                               *)

\* A sale is checked against what its nozzle has recorded.
LEMMA CheckSaleStep ==
  ASSUME IInv, NEW i \in SaleId, NEW s \in DOMAIN shifts, NEW n \in Nozzle, NEW to \in Meter,
         NEW at \in Time, CheckSale(i, s, n, to, at)
  PROVE  IInv'
<1>1. PICK from \in NextReading(s, n) :
        /\ to > from
        /\ checked' = checked \cup
             {[id |-> i, shift |-> s, nozzle |-> n, from |-> from, to |-> to,
               at |-> at, auto |-> FALSE]}
  BY DEF CheckSale
<1>2. PICK w : w = [id |-> i, shift |-> s, nozzle |-> n, from |-> from, to |-> to,
                    at |-> at, auto |-> FALSE]
  OBVIOUS
<1>3. n \in NozzlesOf(s) /\ UNCHANGED <<now, active, shifts, sales, custody, equipment>>
  BY DEF CheckSale
<1>4. s \in ShiftNo /\ shifts[s].opening \in [NozzlesOf(s) -> Meter]
  BY ShiftRow DEF IInv
<1>5. from \in Meter /\ (SalesOf(s, n) = {} => from = shifts[s].opening[n])
  <2>1. CASE SalesOf(s, n) = {}
    BY <1>3, <1>4, <2>1 DEF NextReading
  <2>2. CASE SalesOf(s, n) # {}
    <3>1. PICK x \in SalesOf(s, n) : from = x.to
      BY <2>2 DEF NextReading
    <3>2. x \in Sale
      BY DEF IInv, TypeOK, SalesOf
    <3> QED BY <2>2, <3>1, <3>2 DEF Sale
  <2> QED BY <2>1, <2>2
<1>6. w \in Sale /\ w.shift = s /\ w.nozzle = n /\ w.from = from /\ w.to = to
  BY <1>2, <1>4, <1>5 DEF Sale
<1>7. from < to
  BY <1>1, <1>5 DEF Meter
<1>8. checked' = checked \cup {w}
  BY <1>1, <1>2
<1>9. TypeOK'
  BY <1>3, <1>6, <1>8 DEF IInv, TypeOK
<1>10. Placed(w) /\ Checked(w)
  BY <1>3, <1>5, <1>6, <1>7 DEF Placed, Checked
<1>11. Placed(w)' /\ Checked(w)'
  BY <1>3, <1>10 DEF Placed, Checked, NozzlesOf, SalesOf
<1>12. \A x \in checked' : Placed(x)' /\ Checked(x)'
  BY <1>3, <1>8, <1>11, RequestsKept
<1>13. \A x \in (sales \cup checked)' : Placed(x)'
  BY <1>3, <1>12, BooksKept
<1> QED BY <1>3, <1>9, <1>12, <1>13, BooksKept DEF IInv

\* A step that writes neither shifts nor sales and adds no sale request.
LEMMA AsideStep ==
  ASSUME IInv, UNCHANGED <<shifts, sales>>, checked' \subseteq checked, TypeOK'
  PROVE  IInv'
<1>1. \A x \in checked' : Placed(x)' /\ Checked(x)'
  BY RequestsKept
<1>2. \A x \in (sales \cup checked)' : Placed(x)'
  BY <1>1, BooksKept
<1> QED BY <1>1, <1>2, BooksKept DEF IInv

\* A refused sale is forgotten.
LEMMA DropSaleStep ==
  ASSUME IInv, NEW x \in checked, DropSale(x)
  PROVE  IInv'
<1>1. TypeOK'
  BY DEF DropSale, IInv, TypeOK
<1> QED BY <1>1, AsideStep DEF DropSale

\* A custody change waits for its write.
LEMMA CheckCustodyStep ==
  ASSUME IInv, NEW s \in DOMAIN shifts, NEW A \in SUBSET Nozzle, CheckCustody(s, A)
  PROVE  IInv'
<1>1. [shift |-> s, assigned |-> A] \in [shift : ShiftNo, assigned : SUBSET Nozzle]
  BY ShiftRow DEF IInv
<1>2. TypeOK'
  BY <1>1 DEF CheckCustody, IInv, TypeOK
<1> QED BY <1>2, AsideStep DEF CheckCustody

\* An equipment change waits for its write, and is written.
LEMMA EquipmentStep ==
  ASSUME IInv, NEW N \in SUBSET Nozzle, CheckEquipment(N) \/ (N \in equipment /\ ApplyEquipment(N))
  PROVE  IInv'
<1>1. TypeOK'
  BY DEF CheckEquipment, ApplyEquipment, IInv, TypeOK
<1>2. UNCHANGED <<shifts, sales>> /\ checked' \subseteq checked
  BY DEF CheckEquipment, ApplyEquipment
<1> QED BY <1>1, <1>2, AsideStep

\* Time passes.
LEMMA TickStep ==
  ASSUME IInv, Tick
  PROVE  IInv'
<1>1. now' \in Time
  BY BoundsAssumption DEF Tick, IInv, TypeOK, Time
<1>2. TypeOK'
  BY <1>1 DEF Tick, IInv, TypeOK
<1> QED BY <1>2, AsideStep DEF Tick

-----------------------------------------------------------------------------
(* A sale is recorded.                                                     *)

\* What the invariant says of one shift's nozzle.
LEMMA NozzleRow ==
  ASSUME IInv, NEW s \in DOMAIN shifts, NEW n \in NozzlesOf(s)
  PROVE  /\ Filled(SalesOf(s, n), shifts[s].opening[n])
         /\ shifts[s].opening[n] \in Nat
         /\ IsClosed(s) => /\ shifts[s].closing[n] \in Nat /\ shifts[s].tested[n] \in Nat
                           /\ Recorded(s, n) = Sold(s, shifts[s].closing, shifts[s].tested, n)
<1>1. shifts[s].opening \in [NozzlesOf(s) -> Meter]
  BY ShiftRow DEF IInv
<1>2. shifts[s].opening[n] \in Nat
  BY <1>1 DEF Meter
<1>3. IsClosed(s) => shifts[s].closing[n] \in Meter /\ shifts[s].tested[n] \in Meter
  BY DEF IInv, ShiftsRead
<1> QED BY <1>2, <1>3 DEF IInv, SalesFill, ClosedMetersAreSold, Meter

\* The sale recorded goes on where its nozzle's meter was covered to; no other
\* nozzle's sales change.
LEMMA PersistWrites ==
  ASSUME IInv, NEW x \in checked, PersistSale(x)
  PROVE  /\ x \in Sale /\ IsOpen(x.shift)
         /\ x.shift \in DOMAIN shifts /\ x.nozzle \in NozzlesOf(x.shift)
         /\ x.from = Top(SalesOf(x.shift, x.nozzle), shifts[x.shift].opening[x.nozzle])
         /\ x.from \in Nat /\ x.to \in Nat /\ x.from < x.to
         /\ \A s, n : SalesOf(s, n)' = IF s = x.shift /\ n = x.nozzle
                                       THEN SalesOf(s, n) \cup {x} ELSE SalesOf(s, n)
<1>1. x \in Sale /\ IsOpen(x.shift) /\ ContinuesMeter(x) /\ sales' = sales \cup {x}
  BY DEF IInv, TypeOK, PersistSale, SaleAccepted
<1>2. x.shift \in DOMAIN shifts /\ x.nozzle \in NozzlesOf(x.shift) /\ Checked(x)
  BY DEF IInv, Placed
<1>3. x.from \in Nat /\ x.to \in Nat /\ x.from < x.to
  BY <1>1, <1>2 DEF Sale, Meter, Checked
<1>4. PICK S : S = SalesOf(x.shift, x.nozzle)
  OBVIOUS
<1>5. PICK o : o = shifts[x.shift].opening[x.nozzle]
  OBVIOUS
<1>6. Filled(S, o) /\ o \in Nat
  BY <1>2, <1>4, <1>5, NozzleRow
<1>7. \A y \in S : (\A z \in S : z.to <= y.to) => y.to = x.from
  BY <1>1, <1>4 DEF ContinuesMeter
<1>8. S = {} => x.from = o
  BY <1>2, <1>4, <1>5 DEF Checked
<1>9. x.from = Top(S, o)
  BY <1>6, <1>7, <1>8, ReadsOn
<1>10. \A s, n : SalesOf(s, n)' = IF s = x.shift /\ n = x.nozzle
                                  THEN SalesOf(s, n) \cup {x} ELSE SalesOf(s, n)
  BY <1>1 DEF SalesOf
<1> QED BY <1>1, <1>2, <1>3, <1>4, <1>5, <1>9, <1>10

\* A sale is recorded.
LEMMA PersistSaleStep ==
  ASSUME IInv, NEW x \in checked, PersistSale(x)
  PROVE  IInv'
<1>1. /\ x \in Sale /\ IsOpen(x.shift)
      /\ x.shift \in DOMAIN shifts /\ x.nozzle \in NozzlesOf(x.shift)
      /\ x.from = Top(SalesOf(x.shift, x.nozzle), shifts[x.shift].opening[x.nozzle])
      /\ x.from \in Nat /\ x.to \in Nat /\ x.from < x.to
  BY PersistWrites
<1>2. \A s, n : SalesOf(s, n)' = IF s = x.shift /\ n = x.nozzle
                                 THEN SalesOf(s, n) \cup {x} ELSE SalesOf(s, n)
  BY PersistWrites
<1>3. /\ sales' = sales \cup {x} /\ checked' = checked \ {x}
      /\ UNCHANGED <<now, active, shifts, custody, equipment>>
  BY DEF PersistSale
<1>4. TypeOK'
  BY <1>1, <1>3 DEF IInv, TypeOK
<1>5. IsFiniteSet(sales')
  BY <1>3, FS_AddElement DEF IInv
<1>6. \A y \in (sales \cup checked)' : Placed(y)'
  BY <1>3 DEF IInv, Placed, NozzlesOf
<1>7. \A y \in checked' : Checked(y)'
  <2> SUFFICES ASSUME NEW y \in checked' PROVE Checked(y)'
    OBVIOUS
  <2>1. Checked(y)
    BY <1>3 DEF IInv
  <2>2. SalesOf(y.shift, y.nozzle)' = {} => SalesOf(y.shift, y.nozzle) = {}
    BY <1>3 DEF SalesOf
  <2> QED BY <1>3, <2>1, <2>2 DEF Checked
<1>8. SalesFill'
  <2> SUFFICES ASSUME NEW s \in DOMAIN shifts, NEW n \in NozzlesOf(s)
               PROVE  Filled(SalesOf(s, n)', shifts[s].opening[n])
    BY <1>3 DEF SalesFill, NozzlesOf
  <2>1. Filled(SalesOf(s, n), shifts[s].opening[n]) /\ shifts[s].opening[n] \in Nat
    BY NozzleRow
  <2>2. CASE s = x.shift /\ n = x.nozzle
    <3>1. SalesOf(s, n)' = SalesOf(s, n) \cup {x}
      BY <1>2, <2>2
    <3>2. x.from = Top(SalesOf(s, n), shifts[s].opening[n])
      BY <1>1, <2>2
    <3> QED BY <1>1, <2>1, <3>1, <3>2, FilledWith
  <2>3. CASE ~ (s = x.shift /\ n = x.nozzle)
    BY <1>2, <2>1, <2>3
  <2> QED BY <2>2, <2>3
<1>9. ShiftsRead'
  BY <1>3 DEF IInv, ShiftsRead, IsOpen, IsClosed, NozzlesOf
<1>10. ClosedMetersAreSold'
  <2> SUFFICES ASSUME NEW s \in DOMAIN shifts, IsClosed(s), NEW n \in NozzlesOf(s)
               PROVE  Recorded(s, n)' = Sold(s, shifts[s].closing, shifts[s].tested, n)
    BY <1>3 DEF ClosedMetersAreSold, NozzlesOf, IsClosed, IsOpen, Sold
  <2>1. s # x.shift
    BY <1>1 DEF IsClosed
  <2>2. SalesOf(s, n)' = SalesOf(s, n)
    BY <1>2, <2>1
  <2> QED BY <2>2, NozzleRow DEF Recorded
<1>11. LockedTotalStands'
  <2> SUFFICES ASSUME NEW s \in DOMAIN shifts, shifts[s].status = "LOCKED"
               PROVE  shifts[s].total = Litres({y \in sales' : y.shift = s})
    BY <1>3 DEF LockedTotalStands
  <2>1. s # x.shift
    BY <1>1 DEF IsOpen
  <2>2. {y \in sales' : y.shift = s} = {y \in sales : y.shift = s}
    BY <1>3, <2>1
  <2> QED BY <2>2 DEF IInv, LockedTotalStands
<1> QED BY <1>4, <1>5, <1>6, <1>7, <1>8, <1>9, <1>10, <1>11 DEF IInv

-----------------------------------------------------------------------------
(* Shifts are written and sales are not.                                   *)

\* A row keeps its meters' readings and stays open, or closed.
RowKept(s) == /\ shifts'[s].opening = shifts[s].opening
              /\ shifts'[s].closing = shifts[s].closing
              /\ shifts'[s].tested = shifts[s].tested
              /\ shifts'[s].closedAt = shifts[s].closedAt
              /\ shifts'[s].status = "OPEN" <=> shifts[s].status = "OPEN"

\* A row is one of a shift just opened.
RowNew(s) == /\ s \notin DOMAIN shifts
             /\ shifts'[s].status = "OPEN" /\ shifts'[s].closedAt = None
             /\ \A n \in DOMAIN shifts'[s].opening : shifts'[s].opening[n] \in Nat

\* Such a step keeps the books.
LEMMA RowsStep ==
  ASSUME IInv, UNCHANGED <<sales, checked>>, TypeOK', LockedTotalStands',
         DOMAIN shifts \subseteq DOMAIN shifts',
         \A s \in DOMAIN shifts : RowKept(s),
         \A s \in DOMAIN shifts' : s \in DOMAIN shifts \/ RowNew(s)
  PROVE  IInv'
<1>1. IsFiniteSet(sales')
  BY DEF IInv
<1>2. \A x \in (sales \cup checked)' : Placed(x)'
  BY DEF IInv, Placed, NozzlesOf, RowKept
<1>3. \A x \in checked' : Checked(x)'
  <2> SUFFICES ASSUME NEW x \in checked PROVE Checked(x)'
    OBVIOUS
  <2>1. Checked(x) /\ x.shift \in DOMAIN shifts
    BY DEF IInv, Placed
  <2>2. SalesOf(x.shift, x.nozzle)' = SalesOf(x.shift, x.nozzle)
    BY DEF SalesOf
  <2> QED BY <2>1, <2>2 DEF Checked, RowKept
<1>4. \A s, n : SalesOf(s, n)' = SalesOf(s, n)
  BY DEF SalesOf
<1>5. SalesFill'
  <2> SUFFICES ASSUME NEW s \in DOMAIN shifts', NEW n \in DOMAIN shifts'[s].opening
               PROVE  Filled(SalesOf(s, n), shifts'[s].opening[n])
    BY <1>4 DEF SalesFill, NozzlesOf
  <2>1. CASE s \in DOMAIN shifts
    <3>1. shifts'[s].opening = shifts[s].opening
      BY <2>1 DEF RowKept
    <3> QED BY <2>1, <3>1 DEF IInv, SalesFill, NozzlesOf
  <2>2. CASE RowNew(s)
    <3>1. SalesOf(s, n) = {}
      BY <2>2 DEF IInv, Placed, SalesOf, RowNew
    <3>2. shifts'[s].opening[n] \in Nat
      BY <2>2 DEF RowNew
    <3> QED BY <3>1, <3>2, FilledNone
  <2> QED BY <2>1, <2>2
<1>6. ShiftsRead'
  BY DEF IInv, ShiftsRead, IsOpen, IsClosed, NozzlesOf, RowKept, RowNew
<1>7. ClosedMetersAreSold'
  <2> SUFFICES ASSUME NEW s \in DOMAIN shifts', shifts'[s].status # "OPEN",
                      NEW n \in DOMAIN shifts'[s].opening
               PROVE  Recorded(s, n)' = Sold(s, shifts[s].closing, shifts[s].tested, n)'
    BY DEF ClosedMetersAreSold, NozzlesOf, IsClosed, IsOpen
  <2>1. s \in DOMAIN shifts /\ RowKept(s)
    BY DEF RowNew
  <2>2. IsClosed(s) /\ n \in NozzlesOf(s)
    BY <2>1 DEF RowKept, IsClosed, IsOpen, NozzlesOf
  <2>3. Recorded(s, n) = Sold(s, shifts[s].closing, shifts[s].tested, n)
    BY <2>1, <2>2, NozzleRow
  <2>4. Recorded(s, n)' = Recorded(s, n)
    BY <1>4 DEF Recorded
  <2> QED BY <2>1, <2>3, <2>4 DEF RowKept, Sold
<1> QED BY <1>1, <1>2, <1>3, <1>5, <1>6, <1>7 DEF IInv

\* A nozzle opens at a reading of a meter.
LEMMA OpensAtReading ==
  ASSUME IInv, NEW n \in Nozzle
  PROVE  OpeningReading(n) \in Meter
<1>1. CASE \E s \in Previous : n \in NozzlesOf(s)
  <2>1. PICK s \in Previous : n \in NozzlesOf(s)
    BY <1>1
  <2>2. \A t \in Previous : t = s
    <3>1. \A t \in Previous : t \in DOMAIN shifts /\ t <= s /\ s <= t /\ s \in DOMAIN shifts
      BY DEF Previous, ClosedShifts
    <3>2. \A t \in DOMAIN shifts : t \in Int
      BY DEF IInv, TypeOK
    <3> QED BY <3>1, <3>2
  <2>3. OpeningReading(n) = shifts[s].closing[n]
    <3>1. (CHOOSE t \in Previous : TRUE) \in Previous
      BY <2>1
    <3>2. (CHOOSE t \in Previous : TRUE) = s
      BY <2>2, <3>1
    <3> QED BY <1>1, <3>2 DEF OpeningReading
  <2>4. s \in DOMAIN shifts /\ shifts[s].closedAt # None
    BY DEF Previous, ClosedShifts
  <2>5. IsClosed(s)
    BY <2>4 DEF IInv, ShiftsRead, IsClosed
  <2>6. shifts[s].closing \in [NozzlesOf(s) -> Meter]
    BY <2>4, <2>5 DEF IInv, ShiftsRead
  <2> QED BY <2>1, <2>3, <2>6
<1>2. CASE ~ \E s \in Previous : n \in NozzlesOf(s)
  <2>1. OpeningReading(n) = 0
    BY <1>2 DEF OpeningReading, ConfiguredMeter
  <2> QED BY <2>1, BoundsAssumption DEF Meter
<1> QED BY <1>1, <1>2

\* A shift opens.
LEMMA OpenShiftStep ==
  ASSUME IInv, NEW A \in SUBSET Nozzle, OpenShift(A)
  PROVE  IInv'
<1>1. PICK w : w = [status |-> "OPEN", openedAt |-> now, closedAt |-> None,
                    opening |-> [n \in active |-> OpeningReading(n)],
                    closing |-> None, tested |-> None,
                    assigned |-> A, total |-> None]
  OBVIOUS
<1>2. /\ shifts' = Append(shifts, w) /\ Len(shifts) < MaxShift
      /\ UNCHANGED <<now, active, sales, checked, custody, equipment>>
  BY <1>1 DEF OpenShift
<1>3. /\ active \in SUBSET Nozzle /\ now \in Time /\ shifts \in Seq(Shift)
      /\ Len(shifts) \in Nat
  BY DEF IInv, TypeOK
<1>4. [n \in active |-> OpeningReading(n)] \in [active -> Meter]
  BY <1>3, OpensAtReading
<1>5. PICK o : o = [n \in active |-> OpeningReading(n)]
  OBVIOUS
<1>6. o \in Readings
  BY <1>3, <1>4, <1>5 DEF Readings
<1>7. w = [status |-> "OPEN", openedAt |-> now, closedAt |-> None, opening |-> o,
           closing |-> None, tested |-> None, assigned |-> A, total |-> None]
  BY <1>1, <1>5
<1>8. w \in Shift
  BY <1>3, <1>6, <1>7 DEF Shift, Status
<1>9. /\ shifts' \in Seq(Shift) /\ Len(shifts') = Len(shifts) + 1
      /\ \A s \in DOMAIN shifts : s \in DOMAIN shifts' /\ shifts'[s] = shifts[s]
      /\ \A s \in DOMAIN shifts' : s \in DOMAIN shifts \/ (s \notin DOMAIN shifts /\ shifts'[s] = w)
  BY <1>2, <1>3, <1>8
<1>10. TypeOK'
  BY <1>2, <1>3, <1>9, BoundsAssumption DEF IInv, TypeOK
<1>11. \A n \in DOMAIN w.opening : w.opening[n] \in Nat
  BY <1>4, <1>5, <1>7 DEF Meter
<1>12. \A s \in DOMAIN shifts' : s \in DOMAIN shifts \/ RowNew(s)
  <2> SUFFICES ASSUME NEW s \in DOMAIN shifts', s \notin DOMAIN shifts PROVE RowNew(s)
    OBVIOUS
  <2>1. shifts'[s] = w
    BY <1>9
  <2> QED BY <1>7, <1>11, <2>1 DEF RowNew
<1>13. \A s \in DOMAIN shifts : RowKept(s)
  BY <1>9 DEF RowKept
<1>14. LockedTotalStands'
  <2> SUFFICES ASSUME NEW s \in DOMAIN shifts', shifts'[s].status = "LOCKED"
               PROVE  shifts'[s].total = Litres({x \in sales : x.shift = s})
    BY <1>2 DEF LockedTotalStands
  <2>1. s \in DOMAIN shifts /\ shifts'[s] = shifts[s]
    BY <1>9, <1>12 DEF RowNew
  <2> QED BY <2>1 DEF IInv, LockedTotalStands
<1> QED BY <1>2, <1>9, <1>10, <1>12, <1>13, <1>14, RowsStep

\* A row of shifts is replaced.
LEMMA RowWritten ==
  ASSUME NEW q \in Seq(Shift), NEW s \in DOMAIN q, NEW w \in Shift
  PROVE  /\ [q EXCEPT ![s] = w] \in Seq(Shift)
         /\ Len([q EXCEPT ![s] = w]) = Len(q)
         /\ DOMAIN [q EXCEPT ![s] = w] = DOMAIN q
OBVIOUS

\* The litres of a shift are a number.
LEMMA ShiftLitres ==
  ASSUME IInv, NEW s
  PROVE  Litres({x \in sales : x.shift = s}) \in Nat
<1> DEFINE S == {x \in sales : x.shift = s}
<1>1. IsFiniteSet(S)
  BY FS_Subset DEF IInv
<1>2. ASSUME NEW x \in S PROVE x.from \in Nat /\ x.to \in Nat /\ x.from < x.to
  <2>1. x.shift \in DOMAIN shifts /\ x.nozzle \in NozzlesOf(x.shift)
    BY DEF IInv, Placed
  <2>2. Filled(SalesOf(x.shift, x.nozzle), shifts[x.shift].opening[x.nozzle])
    BY <2>1, NozzleRow
  <2>3. x \in SalesOf(x.shift, x.nozzle)
    BY DEF SalesOf
  <2> QED BY <2>2, <2>3 DEF Filled
<1>3. \A x \in S : Moved(x) \in Int /\ Moved(x) >= 0
  BY <1>2 DEF Moved
<1> HIDE DEF S
<1>4. Sized(S)
  BY <1>1, <1>3 DEF Sized
<1>5. Litres(S) \in Nat
  BY <1>3, <1>4, LitresNat
<1> QED BY <1>5 DEF S

\* A closed shift is locked on the total of its sales.
LEMMA ReconcileStep ==
  ASSUME IInv, NEW s \in DOMAIN shifts, Reconcile(s)
  PROVE  IInv'
<1>1. PICK total : total = Litres({x \in sales : x.shift = s})
  OBVIOUS
<1>2. PICK w : w = [shifts[s] EXCEPT !.status = "LOCKED", !.total = total]
  OBVIOUS
<1>3. total \in Nat /\ shifts[s] \in Shift /\ shifts \in Seq(Shift)
  BY <1>1, ShiftLitres, ShiftRow DEF IInv, TypeOK
<1>4. /\ w \in Shift /\ w.opening = shifts[s].opening /\ w.closing = shifts[s].closing
      /\ w.tested = shifts[s].tested /\ w.closedAt = shifts[s].closedAt
      /\ w.status = "LOCKED" /\ w.total = total
  BY <1>2, <1>3 DEF Shift, Status
<1>5. shifts' = [shifts EXCEPT ![s] = w] /\ shifts[s].status = "RECONCILIATION_REQUIRED"
  BY <1>1, <1>2 DEF Reconcile
<1>6. UNCHANGED <<now, active, sales, checked, custody, equipment>>
  BY DEF Reconcile
<1>7. shifts' \in Seq(Shift) /\ Len(shifts') = Len(shifts) /\ DOMAIN shifts' = DOMAIN shifts
  BY <1>3, <1>4, <1>5, RowWritten
<1>8. \A t \in DOMAIN shifts : shifts'[t] = IF t = s THEN w ELSE shifts[t]
  BY <1>3, <1>5
<1>9. TypeOK'
  BY <1>6, <1>7 DEF IInv, TypeOK
<1>10. \A t \in DOMAIN shifts : RowKept(t)
  <2> SUFFICES ASSUME NEW t \in DOMAIN shifts PROVE RowKept(t)
    OBVIOUS
  <2>1. CASE t = s
    BY <1>4, <1>5, <1>8, <2>1 DEF RowKept
  <2>2. CASE t # s
    BY <1>8, <2>2 DEF RowKept
  <2> QED BY <2>1, <2>2
<1>11. LockedTotalStands'
  <2> SUFFICES ASSUME NEW t \in DOMAIN shifts, shifts'[t].status = "LOCKED"
               PROVE  shifts'[t].total = Litres({x \in sales : x.shift = t})
    BY <1>6, <1>7 DEF LockedTotalStands
  <2>1. CASE t = s
    BY <1>1, <1>4, <1>8, <2>1
  <2>2. CASE t # s
    BY <1>8, <2>2 DEF IInv, LockedTotalStands
  <2> QED BY <2>1, <2>2
<1> QED BY <1>6, <1>7, <1>9, <1>10, <1>11, RowsStep

\* The custodians of a shift are replaced, whatever it has become.
LEMMA ApplyCustodyStep ==
  ASSUME IInv, NEW c \in custody, ApplyCustody(c)
  PROVE  IInv'
<1>1. c.assigned \in SUBSET Nozzle /\ shifts \in Seq(Shift)
  BY DEF IInv, TypeOK
<1>2. /\ shifts' = [shifts EXCEPT ![c.shift].assigned = c.assigned]
      /\ custody' = custody \ {c} /\ UNCHANGED <<now, active, sales, checked, equipment>>
  BY DEF ApplyCustody
<1>3. CASE c.shift \in DOMAIN shifts
  <2>1. PICK s : s = c.shift
    OBVIOUS
  <2>2. PICK w : w = [shifts[s] EXCEPT !.assigned = c.assigned]
    OBVIOUS
  <2>3. s \in DOMAIN shifts /\ shifts[s] \in Shift
    BY <1>3, <2>1, ShiftRow DEF IInv
  <2>4. /\ w \in Shift /\ w.opening = shifts[s].opening /\ w.closing = shifts[s].closing
        /\ w.tested = shifts[s].tested /\ w.closedAt = shifts[s].closedAt
        /\ w.status = shifts[s].status /\ w.total = shifts[s].total
    BY <1>1, <2>2, <2>3 DEF Shift
  <2>5. shifts' = [shifts EXCEPT ![s] = w]
    BY <1>2, <2>1, <2>2
  <2>6. shifts' \in Seq(Shift) /\ Len(shifts') = Len(shifts) /\ DOMAIN shifts' = DOMAIN shifts
    BY <1>1, <2>3, <2>4, <2>5, RowWritten
  <2>7. \A t \in DOMAIN shifts : shifts'[t] = IF t = s THEN w ELSE shifts[t]
    BY <1>1, <2>5
  <2>8. \A t \in DOMAIN shifts : RowKept(t) /\ shifts'[t].status = shifts[t].status
                                 /\ shifts'[t].total = shifts[t].total
    <3> SUFFICES ASSUME NEW t \in DOMAIN shifts
                 PROVE  RowKept(t) /\ shifts'[t].status = shifts[t].status
                        /\ shifts'[t].total = shifts[t].total
      OBVIOUS
    <3>1. CASE t = s
      BY <2>4, <2>7, <3>1 DEF RowKept
    <3>2. CASE t # s
      BY <2>7, <3>2 DEF RowKept
    <3> QED BY <3>1, <3>2
  <2>9. TypeOK'
    BY <1>2, <2>6 DEF IInv, TypeOK
  <2>10. LockedTotalStands'
    BY <1>2, <2>6, <2>8 DEF IInv, LockedTotalStands
  <2> QED BY <1>2, <2>6, <2>8, <2>9, <2>10, RowsStep
<1>4. CASE c.shift \notin DOMAIN shifts
  <2>1. shifts' = shifts
    BY <1>1, <1>2, <1>4
  <2>2. TypeOK'
    BY <1>2, <2>1 DEF IInv, TypeOK
  <2> QED BY <1>2, <2>1, <2>2, AsideStep
<1> QED BY <1>3, <1>4

-----------------------------------------------------------------------------
(* A shift closes.                                                         *)

\* The sale the close posts covers a nozzle's meter from where its sales
\* covered it to.
LEMMA AutomaticSaleIs ==
  ASSUME IInv, NEW s \in DOMAIN shifts, NEW n \in NozzlesOf(s),
         NEW closing \in [NozzlesOf(s) -> Meter], NEW tested \in [NozzlesOf(s) -> Meter],
         tested[n] <= closing[n] - shifts[s].opening[n],
         NEW x, x = AutomaticSale(s, closing, tested, n),
         Missing(s, closing, tested, n) > 0
  PROVE  /\ x \in Sale /\ x.shift = s /\ x.nozzle = n
         /\ x.from \in Nat /\ x.to \in Nat /\ x.from < x.to
         /\ x.from = Top(SalesOf(s, n), shifts[s].opening[n])
         /\ Recorded(s, n) + (x.to - x.from) = Sold(s, closing, tested, n)
<1>1. PICK o : o = shifts[s].opening[n]
  OBVIOUS
<1>2. PICK r : r = Recorded(s, n)
  OBVIOUS
<1>3. PICK c : c = closing[n]
  OBVIOUS
<1>4. PICK d : d = tested[n]
  OBVIOUS
<1>5. c \in Meter /\ d \in Meter /\ o \in Nat /\ d <= c - o
  BY <1>1, <1>3, <1>4, NozzleRow
<1>6. r \in Nat
  <2>1. Filled(SalesOf(s, n), o) /\ Sized(SalesOf(s, n))
    BY <1>1, NozzleRow, FilledSized
  <2>2. \A y \in SalesOf(s, n) : Moved(y) >= 0
    BY <2>1 DEF Filled, Moved
  <2> QED BY <1>2, <2>1, <2>2, LitresNat DEF Recorded
<1>7. Sold(s, closing, tested, n) = c - o - d /\ Missing(s, closing, tested, n) = c - o - d - r
  BY <1>1, <1>2, <1>3, <1>4 DEF Sold, Missing
<1>8. x = [id |-> None, shift |-> s, nozzle |-> n, from |-> c - d - (c - o - d - r),
           to |-> c - d, at |-> now, auto |-> TRUE]
  BY <1>3, <1>4, <1>7 DEF AutomaticSale
<1>9. c - d - (c - o - d - r) = o + r /\ o + r < c - d /\ c - d \in Meter /\ o + r \in Meter
  BY <1>5, <1>6, <1>7, BoundsAssumption DEF Meter
<1>10. s \in ShiftNo /\ n \in Nozzle /\ now \in Time
  BY ShiftRow DEF IInv, TypeOK
<1>11. x \in Sale
  BY <1>8, <1>9, <1>10 DEF Sale
<1>12. x.from = o + r /\ x.to = c - d /\ x.shift = s /\ x.nozzle = n
  BY <1>8, <1>9
<1>13. r + (x.to - x.from) = c - o - d
  BY <1>5, <1>6, <1>9, <1>12 DEF Meter
<1>14. x.from = Top(SalesOf(s, n), shifts[s].opening[n])
  BY <1>1, <1>2, <1>12 DEF Top, Recorded
<1> QED BY <1>2, <1>7, <1>9, <1>11, <1>12, <1>13, <1>14 DEF Meter

\* What closing a shift writes: its row, and a sale for each nozzle whose
\* meter moved beyond its sales.
LEMMA CloseWrites ==
  ASSUME IInv, NEW s \in DOMAIN shifts,
         NEW closing \in [NozzlesOf(s) -> Meter], NEW tested \in [NozzlesOf(s) -> Meter],
         NEW R \in SUBSET Nozzle, CloseShift(s, closing, tested, R),
         NEW Q, Q = {n \in NozzlesOf(s) : Missing(s, closing, tested, n) > 0}
  PROVE  /\ sales' = sales \cup {AutomaticSale(s, closing, tested, n) : n \in Q}
         /\ UNCHANGED <<now, active, checked, custody, equipment>>
         /\ IsOpen(s)
         /\ shifts' \in Seq(Shift) /\ Len(shifts') = Len(shifts) /\ DOMAIN shifts' = DOMAIN shifts
         /\ \A t \in DOMAIN shifts : t # s => shifts'[t] = shifts[t]
         /\ shifts'[s].opening = shifts[s].opening /\ shifts'[s].closing = closing
         /\ shifts'[s].tested = tested /\ shifts'[s].status = "RECONCILIATION_REQUIRED"
<1>1. PICK w : w = [shifts[s] EXCEPT !.status = "RECONCILIATION_REQUIRED", !.closedAt = now,
                                     !.closing = closing, !.tested = tested]
  OBVIOUS
<1>2. shifts[s] \in Shift /\ shifts \in Seq(Shift) /\ now \in Time /\ NozzlesOf(s) \in SUBSET Nozzle
  BY ShiftRow DEF IInv, TypeOK
<1>3. closing \in Readings /\ tested \in Readings
  BY <1>2 DEF Readings
<1>4. /\ w \in Shift /\ w.opening = shifts[s].opening /\ w.closing = closing
      /\ w.tested = tested /\ w.status = "RECONCILIATION_REQUIRED"
  BY <1>1, <1>2, <1>3 DEF Shift, Status
<1>5. shifts' = [shifts EXCEPT ![s] = w]
  BY <1>1 DEF CloseShift
<1>6. shifts' \in Seq(Shift) /\ Len(shifts') = Len(shifts) /\ DOMAIN shifts' = DOMAIN shifts
  BY <1>2, <1>4, <1>5, RowWritten
<1>7. \A t \in DOMAIN shifts : shifts'[t] = IF t = s THEN w ELSE shifts[t]
  BY <1>2, <1>5
<1>8. /\ sales' = sales \cup {AutomaticSale(s, closing, tested, n) : n \in Q}
      /\ UNCHANGED <<now, active, checked, custody, equipment>>
      /\ IsOpen(s)
  BY DEF CloseShift, MayClose
<1> QED BY <1>4, <1>6, <1>7, <1>8

\* A finite set's images are finitely many.
LEMMA ImagesFinite ==
  ASSUME NEW Q, IsFiniteSet(Q), NEW f, NEW S, S = {f[n] : n \in Q}
  PROVE  IsFiniteSet(S)
<1>1. PICK g : g = [n \in Q |-> f[n]]
  OBVIOUS
<1>2. g \in Surjection(Q, S)
  BY <1>1 DEF Surjection
<1> QED BY <1>2, FS_Surjection

\* The nozzles closing a shift posts a sale for, and those sales.
Unsold(Q, s, closing, tested) == Q = {n \in NozzlesOf(s) : Missing(s, closing, tested, n) > 0}
Posted(a, s, closing, tested) == a = [n \in NozzlesOf(s) |-> AutomaticSale(s, closing, tested, n)]

\* What closing a shift adds to the sales of each nozzle.
LEMMA CloseSales ==
  ASSUME IInv, NEW s \in DOMAIN shifts,
         NEW closing \in [NozzlesOf(s) -> Meter], NEW tested \in [NozzlesOf(s) -> Meter],
         NEW R \in SUBSET Nozzle, CloseShift(s, closing, tested, R),
         NEW Q, Unsold(Q, s, closing, tested), NEW a, Posted(a, s, closing, tested)
  PROVE  /\ sales' = sales \cup {a[n] : n \in Q}
         /\ \A n \in Q : a[n].shift = s /\ a[n].nozzle = n
         /\ \A n \in Q : SalesOf(s, n)' = SalesOf(s, n) \cup {a[n]}
         /\ \A t, n : t # s \/ n \notin Q => SalesOf(t, n)' = SalesOf(t, n)
<1>1. sales' = sales \cup {AutomaticSale(s, closing, tested, n) : n \in Q}
  BY CloseWrites DEF Unsold
<1>2. \A n \in Q : n \in NozzlesOf(s) /\ a[n] = AutomaticSale(s, closing, tested, n)
  BY DEF Unsold, Posted
<1>3. sales' = sales \cup {a[n] : n \in Q}
  BY <1>1, <1>2
<1>4. \A n \in Q : a[n].shift = s /\ a[n].nozzle = n
  <2>1. \A n : AutomaticSale(s, closing, tested, n).shift = s /\ AutomaticSale(s, closing, tested, n).nozzle = n
    BY DEF AutomaticSale
  <2> QED BY <1>2, <2>1
<1>5. \A n \in Q : SalesOf(s, n)' = SalesOf(s, n) \cup {a[n]}
  <2> SUFFICES ASSUME NEW n \in Q, NEW y PROVE y \in SalesOf(s, n)' <=> y \in SalesOf(s, n) \/ y = a[n]
    OBVIOUS
  <2>1. y \in SalesOf(s, n)' <=> /\ y \in sales \/ \E m \in Q : y = a[m]
                                 /\ y.shift = s /\ y.nozzle = n
    BY <1>3 DEF SalesOf
  <2>2. y \in SalesOf(s, n) <=> y \in sales /\ y.shift = s /\ y.nozzle = n
    BY DEF SalesOf
  <2> QED BY <1>4, <2>1, <2>2
<1>6. ASSUME NEW t, NEW n, t # s \/ n \notin Q PROVE SalesOf(t, n)' = SalesOf(t, n)
  <2> SUFFICES ASSUME NEW y PROVE y \in SalesOf(t, n)' <=> y \in SalesOf(t, n)
    OBVIOUS
  <2>1. y \in SalesOf(t, n)' <=> /\ y \in sales \/ \E m \in Q : y = a[m]
                                 /\ y.shift = t /\ y.nozzle = n
    BY <1>3 DEF SalesOf
  <2>2. y \in SalesOf(t, n) <=> y \in sales /\ y.shift = t /\ y.nozzle = n
    BY DEF SalesOf
  <2> QED BY <1>4, <1>6, <2>1, <2>2
<1> QED BY <1>3, <1>4, <1>5, <1>6

\* A nozzle of a shift being closed: its sales go on covering its meter, and
\* add up to what was sold.
LEMMA CloseNozzle ==
  ASSUME IInv, NEW s \in DOMAIN shifts,
         NEW closing \in [NozzlesOf(s) -> Meter], NEW tested \in [NozzlesOf(s) -> Meter],
         NEW R \in SUBSET Nozzle, CloseShift(s, closing, tested, R),
         NEW n \in NozzlesOf(s)
  PROVE  /\ Filled(SalesOf(s, n)', shifts[s].opening[n])
         /\ Recorded(s, n)' = Sold(s, closing, tested, n)
<1>1. PICK Q : Unsold(Q, s, closing, tested)
  BY DEF Unsold
<1>2. PICK a : Posted(a, s, closing, tested)
  BY DEF Posted
<1>3. /\ tested[n] <= closing[n] - shifts[s].opening[n]
      /\ Missing(s, closing, tested, n) >= 0
  BY DEF CloseShift
<1>4. PICK o : o = shifts[s].opening[n]
  OBVIOUS
<1>5. PICK S : S = SalesOf(s, n)
  OBVIOUS
<1>6. Filled(S, o) /\ o \in Nat /\ Litres(S) \in Int
  BY <1>4, <1>5, NozzleRow, FilledSized
<1>7. CASE n \in Q
  <2>1. PICK x : x = a[n]
    OBVIOUS
  <2>2. x = AutomaticSale(s, closing, tested, n) /\ Missing(s, closing, tested, n) > 0
    BY <1>1, <1>2, <1>7, <2>1 DEF Unsold, Posted
  <2>3. /\ x.from \in Nat /\ x.to \in Nat /\ x.from < x.to
        /\ x.from = Top(SalesOf(s, n), shifts[s].opening[n])
        /\ Recorded(s, n) + (x.to - x.from) = Sold(s, closing, tested, n)
    BY <1>3, <2>2, AutomaticSaleIs
  <2>4. SalesOf(s, n)' = S \cup {x}
    BY <1>1, <1>2, <1>5, <1>7, <2>1, CloseSales
  <2>5. Filled(S \cup {x}, o) /\ Litres(S \cup {x}) = Litres(S) + (x.to - x.from)
    BY <1>4, <1>5, <1>6, <2>3, FilledWith
  <2> QED BY <1>4, <1>5, <2>3, <2>4, <2>5 DEF Recorded
<1>8. CASE n \notin Q
  <2>1. SalesOf(s, n)' = S
    BY <1>1, <1>2, <1>5, <1>8, CloseSales
  <2>2. Sold(s, closing, tested, n) - Litres(S) = 0
    <3>1. ~ (Missing(s, closing, tested, n) > 0)
      BY <1>1, <1>8 DEF Unsold
    <3>2. closing[n] \in Int /\ tested[n] \in Int
      BY DEF Meter
    <3>3. Missing(s, closing, tested, n) = Sold(s, closing, tested, n) - Litres(S)
      BY <1>5 DEF Missing, Recorded
    <3>4. Sold(s, closing, tested, n) \in Int
      BY <1>4, <1>6, <3>2 DEF Sold
    <3> QED BY <1>3, <1>6, <3>1, <3>3, <3>4
  <2>3. Sold(s, closing, tested, n) \in Int
    <3>1. closing[n] \in Int /\ tested[n] \in Int
      BY DEF Meter
    <3> QED BY <1>4, <1>6, <3>1 DEF Sold
  <2>4. Sold(s, closing, tested, n) = Litres(S)
    BY <1>6, <2>2, <2>3
  <2> QED BY <1>4, <1>6, <2>1, <2>4 DEF Recorded
<1> QED BY <1>7, <1>8

\* A shift closes.
LEMMA CloseShiftStep ==
  ASSUME IInv, NEW s \in DOMAIN shifts,
         NEW closing \in [NozzlesOf(s) -> Meter], NEW tested \in [NozzlesOf(s) -> Meter],
         NEW R \in SUBSET Nozzle, CloseShift(s, closing, tested, R)
  PROVE  IInv'
<1>1. PICK Q : Unsold(Q, s, closing, tested)
  BY DEF Unsold
<1>2. PICK a : Posted(a, s, closing, tested)
  BY DEF Posted
<1>3. /\ UNCHANGED <<now, active, checked, custody, equipment>>
      /\ IsOpen(s)
      /\ shifts' \in Seq(Shift) /\ Len(shifts') = Len(shifts) /\ DOMAIN shifts' = DOMAIN shifts
      /\ \A t \in DOMAIN shifts : t # s => shifts'[t] = shifts[t]
      /\ shifts'[s].opening = shifts[s].opening /\ shifts'[s].closing = closing
      /\ shifts'[s].tested = tested /\ shifts'[s].status = "RECONCILIATION_REQUIRED"
  BY <1>1, CloseWrites DEF Unsold
<1>4. /\ sales' = sales \cup {a[n] : n \in Q}
      /\ \A n \in Q : a[n].shift = s /\ a[n].nozzle = n
      /\ \A t, n : t # s \/ n \notin Q => SalesOf(t, n)' = SalesOf(t, n)
  BY <1>1, <1>2, CloseSales
<1>5. \A n \in Q : a[n] \in Sale
  <2> SUFFICES ASSUME NEW n \in Q PROVE a[n] \in Sale
    OBVIOUS
  <2>1. n \in NozzlesOf(s) /\ a[n] = AutomaticSale(s, closing, tested, n)
        /\ Missing(s, closing, tested, n) > 0
    BY <1>1, <1>2 DEF Unsold, Posted
  <2>2. tested[n] <= closing[n] - shifts[s].opening[n]
    BY <2>1 DEF CloseShift
  <2> QED BY <2>1, <2>2, AutomaticSaleIs
<1>6. TypeOK'
  <2>1. sales' \in SUBSET Sale
    BY <1>4, <1>5 DEF IInv, TypeOK
  <2> QED BY <1>3, <2>1 DEF IInv, TypeOK
<1>7. IsFiniteSet(sales')
  <2>1. IsFiniteSet(Q)
    <3>1. NozzlesOf(s) \in SUBSET Nozzle
      BY ShiftRow DEF IInv
    <3> QED BY <1>1, <3>1, NozzleAssumption, FS_Subset DEF Unsold
  <2>2. IsFiniteSet({a[n] : n \in Q})
    BY <2>1, ImagesFinite
  <2> QED BY <1>4, <2>2, FS_Union DEF IInv
<1>8. \A t \in DOMAIN shifts : shifts'[t].opening = shifts[t].opening
  BY <1>3
<1>9. \A x \in (sales \cup checked)' : Placed(x)'
  <2> SUFFICES ASSUME NEW x \in (sales \cup checked)' PROVE Placed(x)'
    OBVIOUS
  <2>1. Placed(x)
    <3>1. CASE x \in sales \cup checked
      BY <3>1 DEF IInv
    <3>2. CASE x \in {a[n] : n \in Q}
      BY <1>1, <1>4, <3>2 DEF Placed, Unsold
    <3> QED BY <1>3, <1>4, <3>1, <3>2
  <2> QED BY <1>3, <1>8, <2>1 DEF Placed, NozzlesOf
<1>10. \A x \in checked' : Checked(x)'
  <2> SUFFICES ASSUME NEW x \in checked PROVE Checked(x)'
    BY <1>3
  <2>1. Checked(x) /\ x.shift \in DOMAIN shifts
    BY DEF IInv, Placed
  <2>2. SalesOf(x.shift, x.nozzle)' = {} => SalesOf(x.shift, x.nozzle) = {}
    BY <1>4 DEF SalesOf
  <2> QED BY <1>8, <2>1, <2>2 DEF Checked
<1>11. SalesFill'
  <2> SUFFICES ASSUME NEW t \in DOMAIN shifts, NEW n \in NozzlesOf(t)
               PROVE  Filled(SalesOf(t, n)', shifts[t].opening[n])
    BY <1>3, <1>8 DEF SalesFill, NozzlesOf
  <2>1. CASE t = s
    BY <2>1, CloseNozzle
  <2>2. CASE t # s
    <3>1. SalesOf(t, n)' = SalesOf(t, n)
      BY <1>4, <2>2
    <3> QED BY <3>1, NozzleRow
  <2> QED BY <2>1, <2>2
<1>12. ShiftsRead'
  <2> SUFFICES ASSUME NEW t \in DOMAIN shifts
               PROVE  /\ shifts'[t].status = "OPEN" => shifts'[t].closedAt = None
                      /\ shifts'[t].status # "OPEN" =>
                           /\ shifts'[t].closing \in [DOMAIN shifts[t].opening -> Meter]
                           /\ shifts'[t].tested \in [DOMAIN shifts[t].opening -> Meter]
    BY <1>3, <1>8 DEF ShiftsRead, IsOpen, IsClosed, NozzlesOf
  <2>1. CASE t = s
    BY <1>3, <2>1 DEF NozzlesOf
  <2>2. CASE t # s
    BY <1>3, <2>2 DEF IInv, ShiftsRead, IsOpen, IsClosed, NozzlesOf
  <2> QED BY <2>1, <2>2
<1>13. ClosedMetersAreSold'
  <2> SUFFICES ASSUME NEW t \in DOMAIN shifts, shifts'[t].status # "OPEN", NEW n \in NozzlesOf(t)
               PROVE  Recorded(t, n)' = shifts'[t].closing[n] - shifts[t].opening[n] - shifts'[t].tested[n]
    BY <1>3, <1>8 DEF ClosedMetersAreSold, NozzlesOf, IsClosed, IsOpen, Sold
  <2>1. CASE t = s
    <3>1. Recorded(s, n)' = Sold(s, closing, tested, n)
      BY <2>1, CloseNozzle
    <3> QED BY <1>3, <2>1, <3>1 DEF Sold
  <2>2. CASE t # s
    <3>1. SalesOf(t, n)' = SalesOf(t, n) /\ shifts'[t] = shifts[t] /\ IsClosed(t)
      BY <1>3, <1>4, <2>2 DEF IsClosed, IsOpen
    <3>2. Recorded(t, n) = Sold(t, shifts[t].closing, shifts[t].tested, n)
      BY <3>1, NozzleRow
    <3> QED BY <3>1, <3>2 DEF Recorded, Sold
  <2> QED BY <2>1, <2>2
<1>14. LockedTotalStands'
  <2> SUFFICES ASSUME NEW t \in DOMAIN shifts, shifts'[t].status = "LOCKED"
               PROVE  shifts'[t].total = Litres({x \in sales' : x.shift = t})
    BY <1>3 DEF LockedTotalStands
  <2>1. t # s
    BY <1>3
  <2>2. {x \in sales' : x.shift = t} = {x \in sales : x.shift = t}
    BY <1>4, <2>1
  <2> QED BY <1>3, <2>1, <2>2 DEF IInv, LockedTotalStands
<1> QED BY <1>6, <1>7, <1>9, <1>10, <1>11, <1>12, <1>13, <1>14 DEF IInv

-----------------------------------------------------------------------------
(* The theorems.                                                           *)

\* The books of the meters hold together in every reachable state, for any
\* nozzles, shifts, meters, clocks and requests under way (ShiftMeters' IInv).
THEOREM MetersInvariant == Spec => []IInv
<1>1. IInv /\ [Next]_vars => IInv'
  <2> SUFFICES ASSUME IInv, [Next]_vars PROVE IInv'
    OBVIOUS
  <2>1. ASSUME NEW A \in SUBSET Nozzle, OpenShift(A) PROVE IInv'
    BY <2>1, OpenShiftStep
  <2>2. ASSUME NEW i \in SaleId, NEW s \in DOMAIN shifts, NEW n \in Nozzle, NEW to \in Meter,
               NEW at \in Time, CheckSale(i, s, n, to, at)
        PROVE  IInv'
    BY <2>2, CheckSaleStep
  <2>3. ASSUME NEW x \in checked, PersistSale(x) PROVE IInv'
    BY <2>3, PersistSaleStep
  <2>4. ASSUME NEW x \in checked, DropSale(x) PROVE IInv'
    BY <2>4, DropSaleStep
  <2>5. ASSUME NEW s \in DOMAIN shifts, NEW closing \in [NozzlesOf(s) -> Meter],
               NEW tested \in [NozzlesOf(s) -> Meter], NEW R \in SUBSET Nozzle,
               CloseShift(s, closing, tested, R)
        PROVE  IInv'
    BY <2>5, CloseShiftStep
  <2>6. ASSUME NEW s \in DOMAIN shifts, Reconcile(s) PROVE IInv'
    BY <2>6, ReconcileStep
  <2>7. ASSUME NEW s \in DOMAIN shifts, NEW A \in SUBSET Nozzle, CheckCustody(s, A) PROVE IInv'
    BY <2>7, CheckCustodyStep
  <2>8. ASSUME NEW c \in custody, ApplyCustody(c) PROVE IInv'
    BY <2>8, ApplyCustodyStep
  <2>9. ASSUME NEW N \in SUBSET Nozzle, CheckEquipment(N) PROVE IInv'
    BY <2>9, EquipmentStep
  <2>10. ASSUME NEW N \in equipment, ApplyEquipment(N) PROVE IInv'
    <3>1. N \in SUBSET Nozzle
      BY DEF IInv, TypeOK
    <3> QED BY <2>10, <3>1, EquipmentStep
  <2>11. CASE Tick
    BY <2>11, TickStep
  <2>12. CASE UNCHANGED vars
    <3>1. TypeOK'
      BY <2>12 DEF vars, IInv, TypeOK
    <3> QED BY <2>12, <3>1, AsideStep DEF vars
  <2> QED BY <2>1, <2>2, <2>3, <2>4, <2>5, <2>6, <2>7, <2>8, <2>9, <2>10, <2>11, <2>12 DEF Next
<1> QED BY InitIInv, <1>1, PTL DEF Spec

\* However sales are interleaved, delayed or stamped, and whatever the
\* equipment becomes meanwhile, a nozzle's sales cover its meter without a gap
\* or an overlap (createMeteredSale's check inside its transaction).
THEOREM MetersTiled == Spec => []SalesTileTheMeter
<1>1. IInv => SalesTileTheMeter
  <2> SUFFICES ASSUME IInv, NEW x \in sales
               PROVE  /\ x.from < x.to
                      /\ \/ x.from = shifts[x.shift].opening[x.nozzle]
                         \/ \E y \in SalesOf(x.shift, x.nozzle) : y.to = x.from
                      /\ \A y \in SalesOf(x.shift, x.nozzle) \ {x} :
                            x.to <= y.from \/ y.to <= x.from
    BY DEF SalesTileTheMeter, IInv
  <2>1. x.shift \in DOMAIN shifts /\ x.nozzle \in NozzlesOf(x.shift)
    BY DEF IInv, Placed
  <2>2. Filled(SalesOf(x.shift, x.nozzle), shifts[x.shift].opening[x.nozzle])
    BY <2>1, NozzleRow
  <2>3. x \in SalesOf(x.shift, x.nozzle)
    BY DEF SalesOf
  <2> QED BY <2>2, <2>3 DEF Filled
<1> QED BY MetersInvariant, <1>1, PTL

\* A closed shift's sales add up to what each meter moved less what was
\* tested, those it posted itself and those still under way included.
THEOREM MetersSold == Spec => []ClosedMetersAreSold
<1>1. IInv => ClosedMetersAreSold
  BY DEF IInv
<1> QED BY MetersInvariant, <1>1, PTL

\* A reconciliation's total stays its shift's: no request that was under way
\* adds a sale to a locked shift.
THEOREM LockedTotals == Spec => []LockedTotalStands
<1>1. IInv => LockedTotalStands
  BY DEF IInv
<1> QED BY MetersInvariant, <1>1, PTL
====
