---------------------------- MODULE BrowserProofs ----------------------------
(***************************************************************************)
(* What the browser keeps by itself.  The offline queue loses no record    *)
(* and posts the records of a user in the order they were saved, for any   *)
(* number of records, tabs and users, any number of lost answers, and      *)
(* however users come and go.  And a document imported from several        *)
(* browsers at once becomes at most one invoice, of what was ticked, for   *)
(* any number of dialogs, codes and changes made by hand meanwhile.        *)
(***************************************************************************)
EXTENDS OfflineSync, ImportTray, FiniteSetTheorems, SequenceTheorems, WellFoundedInduction, TLAPS

\* What a loop reads is taken from the list of saved records; the argument needs
\* nothing about it, only that a row goes after its record was posted.
Saved == ToSet(entered)

Shape == /\ entered \in Seq(Record)
         /\ queue \in [Record -> RowStatus \cup {None}]
         /\ posted \in [Record -> SUBSET (User \cup {None})]
         /\ cookie \in User \cup {None}

AckIsPosted == \A t \in Tab : \A r \in Record :
                 stage[t] = "ok" /\ r = Head(work[t]) => posted[r] # {}

KeepsAll == \A r \in Saved : queue[r] # None \/ posted[r] # {}

IInv == Shape /\ stage \in [Tab -> Stage] /\ AckIsPosted /\ KeepsAll

\* The saved records after one more is saved are the old ones and that one.
LEMMA SavedGrows ==
  ASSUME NEW s \in Seq(Record), NEW r \in Record
  PROVE  /\ Append(s, r) \in Seq(Record)
         /\ ToSet(Append(s, r)) = ToSet(s) \cup {r}
<1>1. /\ Append(s, r) \in Seq(Record)
      /\ Len(Append(s, r)) = Len(s) + 1
      /\ \A i \in 1..Len(s) : Append(s, r)[i] = s[i]
      /\ Append(s, r)[Len(s) + 1] = r
  BY AppendProperties
<1>2. Len(s) \in Nat /\ DOMAIN s = 1..Len(s) /\ DOMAIN Append(s, r) = 1..(Len(s) + 1)
  BY <1>1, LenProperties
<1>3. ToSet(Append(s, r)) \subseteq ToSet(s) \cup {r}
  BY <1>1, <1>2 DEF ToSet
<1>4. ToSet(s) \subseteq ToSet(Append(s, r))
  <2>1. ASSUME NEW i \in 1..Len(s)  PROVE s[i] \in ToSet(Append(s, r))
    BY <1>1, <1>2, <2>1, i \in 1..(Len(s) + 1), s[i] = Append(s, r)[i] DEF ToSet
  <2> QED BY <1>2, <2>1 DEF ToSet
<1>5. r \in ToSet(Append(s, r))
  BY <1>1, <1>2, Len(s) + 1 \in 1..(Len(s) + 1) DEF ToSet
<1> QED BY <1>1, <1>3, <1>4, <1>5

\* The strengthening holds at the start.
LEMMA InitHolds == Init => IInv
<1> SUFFICES ASSUME Init PROVE IInv
  OBVIOUS
<1>1. Shape
  BY DEF Init, Shape, RowStatus
<1>2. stage \in [Tab -> Stage] /\ AckIsPosted
  BY DEF Init, Stage, AckIsPosted
<1>3. KeepsAll
  BY DEF Init, KeepsAll, Saved, ToSet
<1> QED BY <1>1, <1>2, <1>3 DEF IInv

\* Posting a record for whoever is signed in leaves it posted, and the others as
\* they were.
LEMMA PostKeeps ==
  ASSUME Shape, KeepsAll, cookie # None, NEW r \in Record,
         posted' = [posted EXCEPT ![r] = @ \cup {cookie}]
  PROVE  /\ posted' \in [Record -> SUBSET (User \cup {None})]
         /\ posted'[r] # {}
         /\ \A x \in Record : posted[x] # {} => posted'[x] # {}
  BY DEF Shape

\* Every step keeps the strengthening.
LEMMA StepHolds == IInv /\ [Next]_vars => IInv'
<1> SUFFICES ASSUME IInv, [Next]_vars PROVE IInv'
  OBVIOUS
<1> USE DEF IInv
<1>0. \A r \in Saved : r \in Record
  BY DEF Saved, Shape, ToSet
<1>1. CASE UNCHANGED vars
  BY <1>1 DEF vars, Shape, AckIsPosted, KeepsAll, Saved, ToSet
<1>2. ASSUME NEW t \in Tab, NEW r \in Record, SaveOffline(t, r)  PROVE IInv'
  <2>1. entered' = Append(entered, r) /\ queue' = [queue EXCEPT ![r] = "pending"]
        /\ UNCHANGED <<cookie, work, stage, posted>>
    BY <1>2 DEF SaveOffline, New, session, tabVars, server
  <2>2. entered' \in Seq(Record) /\ Saved' = Saved \cup {r}
    BY <2>1, SavedGrows DEF Shape, Saved
  <2>3. Shape'
    BY <2>1, <2>2 DEF Shape, RowStatus
  <2>4. KeepsAll'
    BY <1>0, <2>1, <2>2, SyncAssumption DEF KeepsAll, Shape
  <2> QED BY <2>1, <2>3, <2>4 DEF AckIsPosted
<1>3. ASSUME NEW t \in Tab, NEW r \in Record, NEW lost \in BOOLEAN, SaveOnline(t, r, lost)
      PROVE IInv'
  <2>1. /\ entered' = Append(entered, r) /\ cookie # None
        /\ posted' = [posted EXCEPT ![r] = @ \cup {cookie}]
        /\ queue' = [queue EXCEPT ![r] = IF lost THEN "pending" ELSE None]
        /\ UNCHANGED <<cookie, work, stage>>
    BY <1>3 DEF SaveOnline, New, session, tabVars
  <2>2. entered' \in Seq(Record) /\ Saved' = Saved \cup {r}
    BY <2>1, SavedGrows DEF Shape, Saved
  <2>3. /\ posted' \in [Record -> SUBSET (User \cup {None})]
        /\ posted'[r] # {}
        /\ \A x \in Record : posted[x] # {} => posted'[x] # {}
    BY <2>1, PostKeeps
  <2>4. Shape'
    BY <2>1, <2>2, <2>3 DEF Shape, RowStatus
  <2>5. KeepsAll'
    BY <1>0, <2>1, <2>2, <2>3 DEF KeepsAll, Shape
  <2>6. AckIsPosted'
    BY <2>1, <2>3 DEF AckIsPosted
  <2> QED BY <2>1, <2>4, <2>5, <2>6
<1>4. ASSUME NEW t \in Tab, StartSync(t)  PROVE IInv'
  <2>1. UNCHANGED <<entered, queue, posted, cookie>>
        /\ stage[t] = "idle"
        /\ stage' = [stage EXCEPT ![t] = "send"]
        /\ work' = [work EXCEPT ![t] = PendingOf(t)]
    BY <1>4 DEF StartSync, MayStart, session, server
  <2>2. AckIsPosted'
    BY <2>1 DEF AckIsPosted
  <2> QED BY <2>1, <2>2 DEF Shape, KeepsAll, Saved, Stage
<1>5. ASSUME NEW t \in Tab, Accept(t)  PROVE IInv'
  <2> DEFINE h == Head(work[t])
  <2>1. /\ cookie # None /\ UNCHANGED <<entered, queue, cookie, work>>
        /\ posted' = [posted EXCEPT ![h] = @ \cup {cookie}]
        /\ stage' = [stage EXCEPT ![t] = "ok"]
    BY <1>5 DEF Accept, Post, Hears, session
  <2>2. CASE h \in Record
    <3>1. /\ posted' \in [Record -> SUBSET (User \cup {None})]
          /\ posted'[h] # {}
          /\ \A x \in Record : posted[x] # {} => posted'[x] # {}
      BY <2>1, <2>2, PostKeeps
    <3> QED BY <1>0, <2>1, <3>1 DEF Shape, AckIsPosted, KeepsAll, Saved, Stage
  <2>3. CASE h \notin Record
    <3>1. posted' = posted
      BY <2>1, <2>3 DEF Shape
    <3> QED BY <2>1, <2>3, <3>1 DEF Shape, AckIsPosted, KeepsAll, Saved, Stage
  <2> QED BY <2>2, <2>3
<1>6. ASSUME NEW t \in Tab, Refuse(t)  PROVE IInv'
  <2>1. UNCHANGED <<entered, queue, posted, cookie, work>>
        /\ stage' = [stage EXCEPT ![t] = "attention"]
    BY <1>6 DEF Refuse, Hears, OnRefusal, session, server
  <2> QED BY <2>1 DEF Shape, AckIsPosted, KeepsAll, Saved, Stage
<1>7. ASSUME NEW t \in Tab, Lose(t)  PROVE IInv'
  <2> DEFINE h == Head(work[t])
  <2>1. /\ UNCHANGED <<entered, queue, cookie, work>>
        /\ stage' = [stage EXCEPT ![t] = "pending"]
        /\ \/ cookie # None /\ posted' = [posted EXCEPT ![h] = @ \cup {cookie}]
           \/ posted' = posted
    BY <1>7 DEF Lose, Post, Hears, session, server
  <2>2. /\ posted' \in [Record -> SUBSET (User \cup {None})]
        /\ \A x \in Record : posted[x] # {} => posted'[x] # {}
    <3>1. CASE posted' = posted
      BY <3>1 DEF Shape
    <3>2. CASE h \notin Record
      BY <2>1, <3>2 DEF Shape
    <3>3. CASE h \in Record /\ posted' # posted
      BY <2>1, <3>3, PostKeeps
    <3> QED BY <3>1, <3>2, <3>3
  <2> QED BY <1>0, <2>1, <2>2 DEF Shape, AckIsPosted, KeepsAll, Saved, Stage
<1>8. ASSUME NEW t \in Tab, Drop(t)  PROVE IInv'
  <2> DEFINE h == Head(work[t])
  <2>1. /\ UNCHANGED <<entered, posted, cookie>> /\ stage[t] = "ok"
        /\ queue' = [queue EXCEPT ![h] = None]
        /\ work' = [work EXCEPT ![t] = Tail(work[t])]
        /\ stage' = [stage EXCEPT ![t] = IF Tail(work[t]) = <<>> THEN "idle" ELSE "send"]
    BY <1>8 DEF Drop, session, server
  <2>2. Shape' /\ stage' \in [Tab -> Stage]
    BY <2>1 DEF Shape, Stage
  <2>3. AckIsPosted'
    BY <2>1 DEF AckIsPosted
  <2>4. KeepsAll'
    BY <1>0, <2>1 DEF KeepsAll, Saved, Shape, AckIsPosted
  <2> QED BY <2>2, <2>3, <2>4
<1>9. ASSUME NEW t \in Tab, PutBack(t)  PROVE IInv'
  <2> DEFINE h == Head(work[t])
  <2>1. /\ UNCHANGED <<entered, posted, cookie>> /\ stage[t] \in RowStatus
        /\ queue' = [queue EXCEPT ![h] = stage[t]]
        /\ work' = [work EXCEPT ![t] = <<>>]
        /\ stage' = [stage EXCEPT ![t] = "idle"]
    BY <1>9 DEF PutBack, Rest, session, server
  <2>2. Shape' /\ stage' \in [Tab -> Stage]
    BY <2>1 DEF Shape, Stage
  <2>3. AckIsPosted'
    BY <2>1 DEF AckIsPosted
  <2>4. KeepsAll'
    BY <1>0, <2>1, SyncAssumption DEF KeepsAll, Saved, Shape, RowStatus
  <2> QED BY <2>2, <2>3, <2>4
<1>10. ASSUME NEW t \in Tab, Retry(t)  PROVE IInv'
  BY <1>10 DEF Retry, Shape, AckIsPosted, KeepsAll, Saved, session, server
<1>11. ASSUME NEW t \in Tab, NEW r \in Record, Revive(t, r)  PROVE IInv'
  <2>1. /\ UNCHANGED <<entered, posted, cookie, work, stage>>
        /\ queue' = [queue EXCEPT ![r] = "pending"]
    BY <1>11 DEF Revive, session, server
  <2>2. Shape'
    BY <2>1 DEF Shape, RowStatus
  <2>3. KeepsAll'
    BY <1>0, <2>1, SyncAssumption DEF KeepsAll, Saved, Shape
  <2> QED BY <2>1, <2>2, <2>3 DEF AckIsPosted
<1>12. ASSUME NEW t \in Tab, NEW u \in User, SignIn(t, u)  PROVE IInv'
  BY <1>12 DEF SignIn, Shape, AckIsPosted, KeepsAll, Saved, tabVars, server
<1>13. ASSUME NEW t \in Tab, SignOut(t)  PROVE IInv'
  BY <1>13 DEF SignOut, Shape, AckIsPosted, KeepsAll, Saved, tabVars, server
<1>14. ASSUME NEW t \in Tab, Reload(t)  PROVE IInv'
  <2>1. /\ UNCHANGED <<entered, posted, cookie, queue>>
        /\ work' = [work EXCEPT ![t] = <<>>]
        /\ stage' = [stage EXCEPT ![t] = "idle"]
    BY <1>14 DEF Reload, server
  <2> QED BY <2>1 DEF Shape, AckIsPosted, KeepsAll, Saved, Stage
<1>15. ASSUME NEW t \in Tab, FindNothing(t)  PROVE IInv'
  BY <1>15 DEF FindNothing, Shape, AckIsPosted, KeepsAll, Saved, session, tabVars, server
<1> QED
  BY <1>1, <1>2, <1>3, <1>4, <1>5, <1>6, <1>7, <1>8, <1>9, <1>10, <1>11, <1>12,
     <1>13, <1>14, <1>15
     DEF Next, Running, Answered, Reviving

\* The strengthening holds in every state.
THEOREM Inductive == Spec => []IInv
<1>1. Init => IInv
  BY InitHolds
<1>2. IInv /\ [Next]_vars => IInv'
  BY StepHolds
<1> QED BY <1>1, <1>2, PTL DEF Spec

\* A saved record is in the queue until the server has it, whatever any number
\* of tabs, users, lost answers, reloads and retries do (offline-sync.ts:171-211).
THEOREM QueueLosesNothing == Spec => []NothingLost
<1>1. IInv => NothingLost
  BY DEF IInv, KeepsAll, NothingLost, Saved
<1> QED BY <1>1, Inductive, PTL

-----------------------------------------------------------------------------
(* The rows a loop sends, in the order they were saved.                    *)

\* A set of numbers that holds 0 and every successor holds all.
LEMMA AllNumbers ==
  ASSUME NEW G \in SUBSET Nat, 0 \in G, \A n \in G : n + 1 \in G
  PROVE  G = Nat
<1> SUFFICES ASSUME G # Nat PROVE FALSE
  OBVIOUS
<1> DEFINE R == OpToRel(<, Nat)
           B == Nat \ G
<1>1. PICK a \in B : \A b \in B : ~ (<<b, a>> \in R)
  <2>1. B # {} /\ B \subseteq Nat
    OBVIOUS
  <2> QED BY <2>1, NatLessThanWellFounded, WFMin
<1>2. a # 0 /\ a \in Nat /\ a \notin G
  OBVIOUS
<1>3. a - 1 \in Nat /\ a - 1 < a /\ a - 1 + 1 = a
  BY <1>2
<1>4. <<a - 1, a>> \in R
  BY <1>2, <1>3 DEF OpToRel
<1>5. a - 1 \in G
  <2> HIDE DEF R
  <2> QED BY <1>1, <1>3, <1>4
<1>6. a - 1 + 1 \in G
  BY <1>5
<1> QED BY <1>2, <1>3, <1>6

\* Some of the first n numbers are finitely many.
LEMMA PartFinite ==
  ASSUME NEW n \in Nat, NEW T, T \subseteq 1..n
  PROVE  IsFiniteSet(T) /\ Cardinality(T) \in Nat
<1>1. PICK I : I = 1..n
  OBVIOUS
<1>2. IsFiniteSet(I)
  <2>1. 1 \in Int /\ n \in Int
    OBVIOUS
  <2> QED BY <1>1, <2>1, FS_Interval
<1>3. T \in SUBSET I
  BY <1>1
<1>4. IsFiniteSet(T)
  BY <1>2, <1>3, FS_Subset
<1> QED BY <1>4, FS_CardinalityType

\* f lists the m numbers of T in order.
Lists(f, m, T) == /\ f \in [1..m -> T]
                  /\ \A i, j \in 1..m : i < j => f[i] < f[j]
                  /\ \A p \in T : \E i \in 1..m : f[i] = p

\* A number beyond those listed comes last.
LEMMA ListsOne ==
  ASSUME NEW n \in Nat, NEW m \in Nat, NEW g, NEW U, U \subseteq 1..n, Lists(g, m, U),
         NEW T, T = U \cup {n + 1}
  PROVE  \E f : Lists(f, m + 1, T)
<1>1. PICK f : f = [i \in 1..(m + 1) |-> IF i = m + 1 THEN n + 1 ELSE g[i]]
  OBVIOUS
<1>2. f[m + 1] = n + 1 /\ \A i \in 1..m : f[i] = g[i] /\ g[i] \in U
  BY <1>1 DEF Lists
<1>3. f \in [1..(m + 1) -> T]
  BY <1>1 DEF Lists
<1>4. \A i, j \in 1..(m + 1) : i < j => f[i] < f[j]
  <2> SUFFICES ASSUME NEW i \in 1..(m + 1), NEW j \in 1..(m + 1), i < j PROVE f[i] < f[j]
    OBVIOUS
  <2>1. i \in 1..m
    OBVIOUS
  <2>2. CASE j \in 1..m
    BY <1>2, <2>1, <2>2 DEF Lists
  <2>3. CASE j = m + 1
    <3>1. g[i] \in 1..n
      BY <1>2, <2>1
    <3> QED BY <1>2, <2>1, <2>3, <3>1
  <2> QED BY <2>2, <2>3
<1>5. \A p \in T : \E i \in 1..(m + 1) : f[i] = p
  <2> SUFFICES ASSUME NEW p \in T PROVE \E i \in 1..(m + 1) : f[i] = p
    OBVIOUS
  <2>1. CASE p = n + 1
    BY <1>2, <2>1
  <2>2. CASE p \in U
    <3>1. PICK i \in 1..m : g[i] = p
      BY <2>2 DEF Lists
    <3> QED BY <1>2, <3>1
  <2> QED BY <2>1, <2>2
<1> QED BY <1>3, <1>4, <1>5 DEF Lists

\* Some of the first n numbers can be listed in order.
LEMMA ListsExist ==
  ASSUME NEW N \in Nat, NEW S, S \subseteq 1..N
  PROVE  \E f : Lists(f, Cardinality(S), S)
<1> DEFINE G == {n \in Nat : \A T : T \subseteq 1..n => \E f : Lists(f, Cardinality(T), T)}
<1>1. 0 \in G
  <2>1. ASSUME NEW T, T \subseteq 1..0 PROVE \E f : Lists(f, Cardinality(T), T)
    <3>1. T = {}
      BY <2>1
    <3>2. Cardinality(T) = 0
      BY <3>1, FS_EmptySet
    <3>3. Lists(<<>>, 0, T)
      BY <3>1 DEF Lists
    <3> QED BY <3>2, <3>3
  <2> QED BY <2>1
<1>2. ASSUME NEW n \in G PROVE n + 1 \in G
  <2>1. ASSUME NEW T, T \subseteq 1..(n + 1) PROVE \E f : Lists(f, Cardinality(T), T)
    <3>1. CASE n + 1 \notin T
      <4>1. T \subseteq 1..n
        BY <2>1, <3>1
      <4> QED BY <4>1
    <3>2. CASE n + 1 \in T
      <4>1. PICK U : U = T \ {n + 1}
        OBVIOUS
      <4>2. U \subseteq 1..n
        BY <2>1, <4>1
      <4>3. PICK m : m = Cardinality(U)
        OBVIOUS
      <4>4. PICK g : Lists(g, m, U)
        BY <4>2, <4>3
      <4>5. T = U \cup {n + 1} /\ n + 1 \notin U
        BY <3>2, <4>1
      <4>6. IsFiniteSet(U) /\ m \in Nat
        BY <4>2, <4>3, PartFinite
      <4>7. Cardinality(T) = m + 1
        BY <4>3, <4>5, <4>6, FS_AddElement
      <4>8. \E f : Lists(f, m + 1, T)
        <5> HIDE DEF G
        <5>1. n \in Nat
          BY DEF G
        <5> QED BY <4>2, <4>4, <4>5, <4>6, <5>1, ListsOne
      <4> QED BY <4>7, <4>8
    <3> QED BY <3>1, <3>2
  <2>2. n + 1 \in Nat
    OBVIOUS
  <2> QED BY <2>1, <2>2
<1>3. G = Nat
  <2> HIDE DEF G
  <2>1. G \in SUBSET Nat
    BY DEF G
  <2> QED BY <1>1, <1>2, <2>1, AllNumbers
<1>4. N \in G
  BY <1>3
<1> QED BY <1>4

\* So Sorted lists them.
LEMMA SortedLists ==
  ASSUME NEW N \in Nat, NEW S, S \subseteq 1..N
  PROVE  /\ Cardinality(S) \in Nat
         /\ DOMAIN Sorted(S) = 1..Cardinality(S)
         /\ Lists(Sorted(S), Cardinality(S), S)
<1>1. PICK m : m = Cardinality(S)
  OBVIOUS
<1>2. m \in Nat /\ IsFiniteSet(S)
  BY <1>1, PartFinite
<1>3. PICK f : Lists(f, m, S)
  BY <1>1, ListsExist
<1>4. \A i \in 1..m : f[i] \in 1..N
  BY <1>3 DEF Lists
<1>5. \A i, j \in 1..m : f[i] = f[j] => i = j
  <2> SUFFICES ASSUME NEW i \in 1..m, NEW j \in 1..m, f[i] = f[j], i < j PROVE FALSE
    BY <1>2
  <2>1. f[i] < f[j] /\ f[i] \in 1..N
    BY <1>3, <1>4 DEF Lists
  <2> QED BY <2>1
<1>6. DOMAIN f = 1..m /\ f \in [1..m -> S] /\ \A i, j \in 1..m : i < j => f[i] < f[j]
  BY <1>3 DEF Lists
<1>7. f \in Bijection(1..m, S)
  BY <1>3, <1>5, <1>6 DEF Lists, Bijection, Injection, Surjection, IsInjective
<1>8. PICK h : h = Sorted(S)
  OBVIOUS
<1>9. h \in Bijection(1..m, S) /\ \A i, j \in DOMAIN h : i < j => h[i] < h[j]
  BY <1>1, <1>6, <1>7, <1>8 DEF Sorted
<1>10. h \in [1..m -> S] /\ \A p \in S : \E i \in 1..m : h[i] = p
  BY <1>9 DEF Bijection, Injection, Surjection
<1>11. DOMAIN h = 1..m
  BY <1>10
<1>12. Lists(h, m, S)
  BY <1>9, <1>10, <1>11 DEF Lists
<1> QED BY <1>1, <1>2, <1>8, <1>11, <1>12

\* What a loop reads are saved records, and before each of them every pending
\* record its user saved earlier.
LEMMA PendingIs ==
  ASSUME entered \in Seq(Record), IsInjective(entered), NEW t \in Tab,
         NEW q, q = PendingOf(t)
  PROVE  /\ q \in Seq(Record)
         /\ \A j \in DOMAIN q :
              /\ q[j] \in Saved /\ queue[q[j]] = "pending" /\ author[q[j]] = scope[t]
              /\ \A r \in Record :
                   Before(r, q[j]) /\ queue[r] = "pending" /\ author[r] = scope[t] =>
                     \E i \in DOMAIN q : i < j /\ q[i] = r
<1>1. PICK mine : mine = {i \in DOMAIN entered :
                            queue[entered[i]] = "pending" /\ author[entered[i]] = scope[t]}
  OBVIOUS
<1>2. PICK N \in Nat : DOMAIN entered = 1..N /\ N = Len(entered)
  BY LenProperties
<1>3. mine \subseteq 1..N
  BY <1>1, <1>2
<1>4. PICK f : f = Sorted(mine)
  OBVIOUS
<1>5. PICK m \in Nat : DOMAIN f = 1..m /\ Lists(f, m, mine)
  BY <1>3, <1>4, SortedLists
<1>6. f \in [1..m -> mine] /\ \A p \in mine : \E i \in 1..m : f[i] = p
  BY <1>5 DEF Lists
<1>7. q = [i \in 1..m |-> entered[f[i]]]
  BY <1>1, <1>4, <1>5 DEF PendingOf
<1>8. q \in Seq(Record) /\ DOMAIN q = 1..m
  <2>1. \A i \in 1..m : q[i] \in Record
    <3> SUFFICES ASSUME NEW i \in 1..m PROVE entered[f[i]] \in Record
      BY <1>7
    <3>1. f[i] \in DOMAIN entered
      BY <1>1, <1>6
    <3> QED BY <3>1
  <2> QED BY <1>7, <2>1
<1>9. ASSUME NEW j \in 1..m
       PROVE  q[j] \in Saved /\ queue[q[j]] = "pending" /\ author[q[j]] = scope[t]
  <2>1. f[j] \in mine /\ q[j] = entered[f[j]]
    BY <1>6, <1>7
  <2> QED BY <1>1, <2>1 DEF Saved, ToSet
<1>10. ASSUME NEW j \in 1..m, NEW r \in Record, Before(r, q[j]), queue[r] = "pending",
              author[r] = scope[t]
       PROVE  \E i \in 1..m : i < j /\ q[i] = r
  <2>1. PICK a, b \in DOMAIN entered : a < b /\ entered[a] = r /\ entered[b] = q[j]
    BY <1>10 DEF Before
  <2>2. f[j] \in mine /\ f[j] \in DOMAIN entered /\ q[j] = entered[f[j]]
    BY <1>1, <1>6, <1>7
  <2>3. b = f[j]
    BY <2>1, <2>2 DEF IsInjective
  <2>4. a \in mine
    BY <1>1, <1>10, <2>1
  <2>5. PICK i \in 1..m : f[i] = a
    BY <1>6, <2>4
  <2>6. i < j
    <3>1. i = j => f[i] = f[j]
      OBVIOUS
    <3>2. j < i => f[j] < f[i]
      BY <1>5 DEF Lists
    <3>3. a \in Nat /\ b \in Nat
      BY <1>2
    <3> QED BY <2>1, <2>3, <2>5, <3>1, <3>2, <3>3
  <2>7. q[i] = r
    BY <1>7, <2>1, <2>5
  <2> QED BY <2>6, <2>7
<1> QED BY <1>8, <1>9, <1>10

-----------------------------------------------------------------------------
(* The order of a user's records.                                          *)

\* The server has the record, or somebody has to look at it.
Done(r) == posted[r] # {} \/ r \in flagged

\* A loop sends saved records, and whatever was saved before one of them by the
\* same user is done or comes before it.
WorkInOrder ==
    \A t \in Tab : \A j \in DOMAIN work[t] :
        /\ work[t][j] \in Saved
        /\ \A r \in Record :
             Before(r, work[t][j]) /\ author[r] = author[work[t][j]] =>
               Done(r) \/ \E i \in DOMAIN work[t] : i < j /\ work[t][i] = r

RepliesInOrder ==
    \A r, s \in Record :
        Before(r, s) /\ author[r] = author[s] /\ s \in replayed => Done(r)

OInv == /\ TypeOK
        /\ WorkInOrder
        /\ RepliesInOrder
        /\ \A r \in Record : queue[r] = "attention" => r \in flagged
        /\ replayed \subseteq Saved

\* What was saved before a record stays what was saved before it when one more
\* record is saved.
LEMMA BeforeGrows ==
  ASSUME entered \in Seq(Record), NEW x \in Record, x \notin Saved,
         entered' = Append(entered, x), NEW r, NEW s, s # x
  PROVE  Before(r, s)' => Before(r, s) /\ r # x
<1>1. PICK N \in Nat : /\ DOMAIN entered = 1..N /\ DOMAIN entered' = 1..(N + 1)
                       /\ \A i \in 1..N : entered'[i] = entered[i]
                       /\ entered'[N + 1] = x
  BY LenProperties, AppendProperties
<1> SUFFICES ASSUME Before(r, s)' PROVE Before(r, s) /\ r # x
  OBVIOUS
<1>2. PICK i, j \in 1..(N + 1) : i < j /\ entered'[i] = r /\ entered'[j] = s
  BY <1>1 DEF Before
<1>3. j \in 1..N /\ i \in 1..N
  BY <1>1, <1>2
<1>4. entered[i] = r /\ entered[j] = s /\ r \in Saved
  BY <1>1, <1>2, <1>3 DEF Saved, ToSet
<1> QED BY <1>1, <1>2, <1>3, <1>4 DEF Before

\* One more record saved is one more.
LEMMA NewKeeps ==
  ASSUME OInv, NEW t \in Tab, NEW x \in Record, New(t, x)
  PROVE  /\ entered' \in Seq(Record) /\ IsInjective(entered')
         /\ author' \in [Record -> User \cup {None}]
         /\ Saved \subseteq Saved' /\ x \notin Saved
         /\ \A r \in Record : r # x => author'[r] = author[r]
         /\ \A r, s : s # x /\ Before(r, s)' => Before(r, s) /\ r # x
<1>1. /\ entered \in Seq(Record) /\ IsInjective(entered)
      /\ author \in [Record -> User \cup {None}] /\ scope \in [Tab -> User \cup {None}]
  BY DEF OInv, TypeOK
<1>2. /\ x \notin Saved /\ entered' = Append(entered, x)
      /\ author' = [author EXCEPT ![x] = scope[t]]
  BY DEF New, Saved
<1>3. Saved' = Saved \cup {x} /\ entered' \in Seq(Record)
  BY <1>1, <1>2, SavedGrows DEF Saved
<1>4. PICK N \in Nat : /\ DOMAIN entered = 1..N /\ DOMAIN entered' = 1..(N + 1)
                       /\ \A i \in 1..N : entered'[i] = entered[i]
                       /\ entered'[N + 1] = x
  BY <1>1, <1>2, LenProperties, AppendProperties
<1>5. IsInjective(entered')
  <2> SUFFICES ASSUME NEW i \in 1..(N + 1), NEW j \in 1..(N + 1), entered'[i] = entered'[j]
               PROVE  i = j
    BY <1>4 DEF IsInjective
  <2>1. \A k \in 1..N : entered[k] # x
    BY <1>2, <1>4 DEF Saved, ToSet
  <2>2. CASE i \in 1..N /\ j \in 1..N
    BY <1>1, <1>4, <2>2 DEF IsInjective
  <2>3. CASE i = N + 1 /\ j \in 1..N
    BY <1>4, <2>1, <2>3
  <2>4. CASE j = N + 1 /\ i \in 1..N
    BY <1>4, <2>1, <2>4
  <2>5. CASE i = N + 1 /\ j = N + 1
    BY <2>5
  <2> QED BY <2>2, <2>3, <2>4, <2>5
<1>6. \A r, s : s # x /\ Before(r, s)' => Before(r, s) /\ r # x
  BY <1>1, <1>2, BeforeGrows
<1> QED BY <1>1, <1>2, <1>3, <1>5, <1>6

\* Saving keeps the order.
LEMMA SavedInOrder ==
  ASSUME OInv, NEW t \in Tab, NEW x \in Record, New(t, x),
         \A r \in Record : Done(r) => Done(r)',
         UNCHANGED <<work, replayed>>
  PROVE  WorkInOrder' /\ RepliesInOrder' /\ replayed' \subseteq Saved'
<1>1. /\ Saved \subseteq Saved' /\ x \notin Saved
      /\ \A r \in Record : r # x => author'[r] = author[r]
      /\ \A r, s : s # x /\ Before(r, s)' => Before(r, s) /\ r # x
  BY NewKeeps
<1>2. WorkInOrder'
  <2> SUFFICES ASSUME NEW u \in Tab, NEW j \in DOMAIN work[u]
               PROVE  /\ work[u][j] \in Saved'
                      /\ \A r \in Record :
                           Before(r, work[u][j])' /\ author'[r] = author'[work[u][j]] =>
                             Done(r)' \/ \E i \in DOMAIN work[u] : i < j /\ work[u][i] = r
    BY DEF WorkInOrder
  <2>1. PICK s : s = work[u][j]
    OBVIOUS
  <2>2. s \in Saved /\ s # x
    BY <1>1, <2>1 DEF OInv, WorkInOrder
  <2>3. s \in Record
    BY <2>2 DEF OInv, TypeOK, Saved, ToSet
  <2>4. ASSUME NEW r \in Record, Before(r, s)', author'[r] = author'[s]
        PROVE  Done(r)' \/ \E i \in DOMAIN work[u] : i < j /\ work[u][i] = r
    <3>1. Before(r, s) /\ author[r] = author[s]
      BY <1>1, <2>2, <2>3, <2>4
    <3>2. Done(r) \/ \E i \in DOMAIN work[u] : i < j /\ work[u][i] = r
      BY <2>1, <3>1 DEF OInv, WorkInOrder
    <3> QED BY <3>2
  <2> QED BY <1>1, <2>1, <2>2, <2>4
<1>3. RepliesInOrder'
  <2> SUFFICES ASSUME NEW r \in Record, NEW s \in Record, Before(r, s)', author'[r] = author'[s],
                      s \in replayed
               PROVE  Done(r)'
    BY DEF RepliesInOrder
  <2>1. s # x
    BY <1>1 DEF OInv
  <2>2. Before(r, s) /\ author[r] = author[s]
    BY <1>1, <2>1
  <2> QED BY <2>2 DEF OInv, RepliesInOrder
<1>4. replayed' \subseteq Saved'
  BY <1>1 DEF OInv
<1> QED BY <1>2, <1>3, <1>4

\* A loop's list is in order.
InOrder(u) ==
    \A j \in DOMAIN work[u] : \A s : s = work[u][j] =>
        /\ s \in Saved
        /\ \A r \in Record :
             Before(r, s) /\ author[r] = author[s] =>
               Done(r) \/ \E i \in DOMAIN work[u] : i < j /\ work[u][i] = r

\* The order of the loops is that of each.
LEMMA LoopsInOrder == WorkInOrder <=> \A u \in Tab : InOrder(u)
BY DEF WorkInOrder, InOrder

\* A step that saves nothing keeps the order of the loops it does not start.
LEMMA LoopKeeps ==
  ASSUME OInv, UNCHANGED <<entered, author>>,
         \A r \in Record : Done(r) => Done(r)',
         NEW u \in Tab, work'[u] = work[u] \/ work'[u] = <<>>
  PROVE  InOrder(u)'
<1>1. CASE work'[u] = <<>>
  BY <1>1 DEF InOrder
<1>2. CASE work'[u] = work[u]
  <2>1. InOrder(u)
    BY LoopsInOrder DEF OInv
  <2>2. \A r, s : Before(r, s)' <=> Before(r, s)
    BY DEF Before
  <2>3. Saved' = Saved
    BY DEF Saved
  <2> SUFFICES ASSUME NEW j \in DOMAIN work[u], NEW s, s = work[u][j]
               PROVE  /\ s \in Saved'
                      /\ \A r \in Record :
                           Before(r, s)' /\ author'[r] = author'[s] =>
                             Done(r)' \/ \E i \in DOMAIN work[u] : i < j /\ work[u][i] = r
    BY <1>2 DEF InOrder
  <2>4. s \in Saved
    BY <2>1 DEF InOrder
  <2>5. ASSUME NEW r \in Record, Before(r, s)', author'[r] = author'[s]
        PROVE  Done(r)' \/ \E i \in DOMAIN work[u] : i < j /\ work[u][i] = r
    <3>1. Before(r, s) /\ author[r] = author[s]
      BY <2>2, <2>5
    <3>2. Done(r) \/ \E i \in DOMAIN work[u] : i < j /\ work[u][i] = r
      BY <2>1, <3>1 DEF InOrder
    <3> QED BY <3>2
  <2> QED BY <2>3, <2>4, <2>5
<1> QED BY <1>1, <1>2

\* Records posted from the queue stay in order as long as no other is.
LEMMA RepliesKeep ==
  ASSUME OInv, UNCHANGED <<entered, author>>, replayed' \subseteq replayed,
         \A r \in Record : Done(r) => Done(r)'
  PROVE  RepliesInOrder' /\ replayed' \subseteq Saved'
<1>1. \A r, s : Before(r, s)' <=> Before(r, s)
  BY DEF Before
<1>2. Saved' = Saved
  BY DEF Saved
<1> QED BY <1>1, <1>2 DEF OInv, RepliesInOrder

\* The first record of a loop's list is posted: what its user saved before it is
\* done.
LEMMA PostedInOrder ==
  ASSUME OInv, UNCHANGED <<entered, author>>, NEW t \in Tab, work[t] # <<>>,
         NEW h, h = Head(work[t]), replayed' = replayed \cup {h},
         \A r \in Record : Done(r) => Done(r)'
  PROVE  h \in Saved /\ RepliesInOrder' /\ replayed' \subseteq Saved'
<1>1. work[t] \in Seq(Record) /\ 1 \in DOMAIN work[t] /\ h = work[t][1]
  BY DEF OInv, TypeOK
<1>2. /\ h \in Saved
      /\ \A r \in Record : Before(r, h) /\ author[r] = author[h] =>
           Done(r) \/ \E i \in DOMAIN work[t] : i < 1 /\ work[t][i] = r
  BY <1>1, LoopsInOrder DEF OInv, InOrder
<1>3. \A i \in DOMAIN work[t] : ~ (i < 1)
  BY <1>1
<1>4. \A r \in Record : Before(r, h) /\ author[r] = author[h] => Done(r)
  BY <1>2, <1>3
<1>5. \A r, s : Before(r, s)' <=> Before(r, s)
  BY DEF Before
<1>6. Saved' = Saved
  BY DEF Saved
<1>7. RepliesInOrder'
  <2> SUFFICES ASSUME NEW r \in Record, NEW s \in Record, Before(r, s)', author'[r] = author'[s],
                      s \in replayed'
               PROVE  Done(r)'
    BY DEF RepliesInOrder
  <2>1. Before(r, s) /\ author[r] = author[s]
    BY <1>5
  <2>2. Done(r)
    <3>1. CASE s = h
      BY <1>4, <2>1, <3>1
    <3>2. CASE s \in replayed
      BY <2>1, <3>2 DEF OInv, RepliesInOrder
    <3> QED BY <3>1, <3>2
  <2> QED BY <2>2
<1> QED BY <1>2, <1>6, <1>7 DEF OInv

-----------------------------------------------------------------------------
(* Every step keeps the order.                                             *)

\* Steps that touch neither the records nor what a loop has left to send, other
\* than to end it.
LEMMA OtherStep ==
  ASSUME OInv, TypeOK', UNCHANGED <<entered, author>>, replayed' \subseteq replayed,
         \A r \in Record : Done(r) => Done(r)',
         \A u \in Tab : work'[u] = work[u] \/ work'[u] = <<>>,
         \A r \in Record : queue'[r] = "attention" => r \in flagged'
  PROVE  OInv'
<1>1. \A u \in Tab : InOrder(u)'
  BY LoopKeeps
<1>2. WorkInOrder'
  BY <1>1 DEF WorkInOrder, InOrder
<1> QED BY <1>2, RepliesKeep DEF OInv

\* A record is saved without a connection.
LEMMA OfflineStep ==
  ASSUME OInv, NEW t \in Tab, NEW x \in Record, SaveOffline(t, x), counted' \subseteq Tab
  PROVE  OInv'
<1>1. /\ New(t, x) /\ queue' = [queue EXCEPT ![x] = "pending"]
      /\ UNCHANGED <<session, tabVars, server, flagged, bounds>>
  BY DEF SaveOffline
<1>2. /\ entered' \in Seq(Record) /\ IsInjective(entered')
      /\ author' \in [Record -> User \cup {None}]
  BY <1>1, NewKeeps
<1>3. TypeOK'
  BY <1>1, <1>2 DEF OInv, TypeOK, RowStatus, session, tabVars, server, bounds
<1>4. \A r \in Record : Done(r) => Done(r)'
  BY <1>1 DEF Done, server
<1>5. WorkInOrder' /\ RepliesInOrder' /\ replayed' \subseteq Saved'
  BY <1>1, <1>4, SavedInOrder DEF tabVars, server
<1>6. \A r \in Record : queue'[r] = "attention" => r \in flagged'
  BY <1>1 DEF OInv, TypeOK
<1> QED BY <1>3, <1>5, <1>6 DEF OInv

\* A record is saved and sent at once.
LEMMA OnlineStep ==
  ASSUME OInv, NEW t \in Tab, NEW x \in Record, NEW lost \in BOOLEAN, SaveOnline(t, x, lost), counted' \subseteq Tab
  PROVE  OInv'
<1>1. /\ New(t, x) /\ cookie # None
      /\ posted' = [posted EXCEPT ![x] = @ \cup {cookie}]
      /\ queue' = [queue EXCEPT ![x] = IF lost THEN "pending" ELSE None]
      /\ IF lost THEN Fault ELSE UNCHANGED bounds
      /\ UNCHANGED <<session, tabVars, replayed, flagged>>
  BY DEF SaveOnline
<1>2. /\ entered' \in Seq(Record) /\ IsInjective(entered')
      /\ author' \in [Record -> User \cup {None}]
  BY <1>1, NewKeeps
<1>3. faults' \in 0..MaxFaults /\ retries' \in 0..MaxRetries
  BY <1>1, SyncAssumption DEF OInv, TypeOK, Fault, bounds
<1>4. posted' \in [Record -> SUBSET User] /\ \A r \in Record : posted[r] # {} => posted'[r] # {}
  BY <1>1 DEF OInv, TypeOK
<1>5. queue' \in [Record -> RowStatus \cup {None}]
  BY <1>1 DEF OInv, TypeOK, RowStatus
<1>6. TypeOK'
  BY <1>1, <1>2, <1>3, <1>4, <1>5 DEF OInv, TypeOK, session, tabVars
<1>7. \A r \in Record : Done(r) => Done(r)'
  BY <1>1, <1>4 DEF Done
<1>8. WorkInOrder' /\ RepliesInOrder' /\ replayed' \subseteq Saved'
  BY <1>1, <1>7, SavedInOrder DEF tabVars
<1>9. \A r \in Record : queue'[r] = "attention" => r \in flagged'
  BY <1>1, SyncAssumption DEF OInv, TypeOK
<1> QED BY <1>6, <1>8, <1>9 DEF OInv

\* A loop starts on what is pending: what its user saved before is pending too, or
\* done.
LEMMA StartStep ==
  ASSUME IInv, OInv, NEW t \in Tab, StartSync(t), counted' \subseteq Tab
  PROVE  OInv'
<1>1. /\ PendingOf(t) # <<>>
      /\ work' = [work EXCEPT ![t] = PendingOf(t)]
      /\ stage' = [stage EXCEPT ![t] = "send"]
      /\ UNCHANGED <<session, queue, author, entered, reviving, server, flagged, bounds>>
  BY DEF StartSync
<1>2. PICK q : q = PendingOf(t)
  OBVIOUS
<1>3. entered \in Seq(Record) /\ IsInjective(entered)
  BY DEF OInv, TypeOK
<1>4. /\ q \in Seq(Record)
      /\ \A j \in DOMAIN q :
           /\ q[j] \in Saved /\ queue[q[j]] = "pending" /\ author[q[j]] = scope[t]
           /\ \A r \in Record :
                Before(r, q[j]) /\ queue[r] = "pending" /\ author[r] = scope[t] =>
                  \E i \in DOMAIN q : i < j /\ q[i] = r
  BY <1>2, <1>3, PendingIs
<1>5. TypeOK'
  <2>1. work' \in [Tab -> Seq(Record)] /\ stage' \in [Tab -> Stage]
    BY <1>1, <1>2, <1>4 DEF OInv, TypeOK, Stage
  <2>2. \A u \in Tab : stage'[u] # "idle" => work'[u] # <<>>
    BY <1>1 DEF OInv, TypeOK
  <2> QED BY <1>1, <2>1, <2>2 DEF OInv, TypeOK, session, server, bounds
<1>6. \A r, s : Before(r, s)' <=> Before(r, s)
  BY <1>1 DEF Before
<1>7. Saved' = Saved
  BY <1>1 DEF Saved
<1>8. work'[t] = q /\ author' = author /\ \A r \in Record : Done(r)' <=> Done(r)
  BY <1>1, <1>2 DEF OInv, TypeOK, Done, server
<1>9. ASSUME NEW r \in Record, NEW j \in DOMAIN q, Before(r, q[j]), author[r] = author[q[j]]
      PROVE  Done(r) \/ \E i \in DOMAIN q : i < j /\ q[i] = r
  <2>1. author[r] = scope[t]
    BY <1>4, <1>9
  <2>2. r \in Saved
    BY <1>9 DEF Before, Saved, ToSet
  <2>3. CASE queue[r] = "pending"
    BY <1>4, <1>9, <2>1, <2>3
  <2>4. CASE queue[r] = "attention"
    BY <2>4 DEF OInv, Done
  <2>5. CASE queue[r] = None
    BY <2>2, <2>5 DEF IInv, KeepsAll, Done
  <2>6. queue[r] \in {"pending", "attention"} \cup {None}
    BY DEF OInv, TypeOK, RowStatus
  <2> QED BY <2>3, <2>4, <2>5, <2>6
<1>10. InOrder(t)'
  <2> SUFFICES ASSUME NEW j \in DOMAIN q, NEW s, s = q[j]
               PROVE  /\ s \in Saved'
                      /\ \A r \in Record :
                           Before(r, s)' /\ author'[r] = author'[s] =>
                             Done(r)' \/ \E i \in DOMAIN q : i < j /\ q[i] = r
    BY <1>8 DEF InOrder
  <2> QED BY <1>4, <1>6, <1>7, <1>8, <1>9
<1>11. \A u \in Tab : u # t => InOrder(u)'
  <2>1. \A u \in Tab : u # t => work'[u] = work[u]
    BY <1>1 DEF OInv, TypeOK
  <2> QED BY <1>1, <1>8, <2>1, LoopKeeps
<1>12. WorkInOrder'
  BY <1>10, <1>11 DEF WorkInOrder, InOrder
<1>13. RepliesInOrder' /\ replayed' \subseteq Saved'
  BY <1>1, <1>8, RepliesKeep DEF server
<1>14. \A r \in Record : queue'[r] = "attention" => r \in flagged'
  BY <1>1 DEF OInv
<1> QED BY <1>5, <1>12, <1>13, <1>14 DEF OInv

\* A record is posted for whoever is signed in.
LEMMA PostKeepsTypes ==
  ASSUME OInv, cookie # None, NEW h \in Record, posted' = [posted EXCEPT ![h] = @ \cup {cookie}]
  PROVE  /\ posted' \in [Record -> SUBSET User]
         /\ \A r \in Record : posted[r] # {} => posted'[r] # {}
BY DEF OInv, TypeOK

\* The answer of a loop's request: a success, a refusal, or none.
LEMMA AnsweredStep ==
  ASSUME OInv, NEW t \in Tab, Answered(t), counted' \subseteq Tab
  PROVE  OInv'
<1>1. PICK h : h = Head(work[t])
  OBVIOUS
<1>2. stage[t] = "send" /\ work[t] # <<>> /\ work[t] \in Seq(Record) /\ h \in Record
  <2>1. stage[t] = "send"
    BY DEF Answered, Accept, Refuse, Lose, Reaches
  <2>2. work[t] # <<>> /\ work[t] \in Seq(Record)
    BY <2>1 DEF OInv, TypeOK
  <2> QED BY <1>1, <2>1, <2>2
<1>3. PICK result \in Stage : stage' = [stage EXCEPT ![t] = result]
  BY DEF Answered, Accept, Refuse, Lose, Hears, OnRefusal, Stage
<1>4. UNCHANGED <<session, queue, author, entered, work, reviving, flagged, retries>>
  BY DEF Answered, Accept, Refuse, Lose, Fault, bounds
<1>5. faults' \in 0..MaxFaults
  BY SyncAssumption DEF Answered, Accept, Refuse, Lose, Fault, bounds, OInv, TypeOK
<1>6. \/ /\ cookie # None /\ posted' = [posted EXCEPT ![h] = @ \cup {cookie}]
         /\ replayed' = replayed \cup {h}
      \/ posted' = posted /\ replayed' = replayed
  BY <1>1 DEF Answered, Accept, Refuse, Lose, Post, server
<1>7. /\ posted' \in [Record -> SUBSET User]
      /\ \A r \in Record : posted[r] # {} => posted'[r] # {}
  <2>1. CASE posted' = posted
    BY <2>1 DEF OInv, TypeOK
  <2>2. CASE cookie # None /\ posted' = [posted EXCEPT ![h] = @ \cup {cookie}]
    BY <1>2, <2>2, PostKeepsTypes
  <2> QED BY <1>6, <2>1, <2>2
<1>8. replayed' \subseteq Record
  BY <1>2, <1>6 DEF OInv, TypeOK
<1>9. stage' \in [Tab -> Stage] /\ \A u \in Tab : stage'[u] # "idle" => work[u] # <<>>
  BY <1>2, <1>3 DEF OInv, TypeOK
<1>10. TypeOK'
  BY <1>4, <1>5, <1>7, <1>8, <1>9 DEF OInv, TypeOK, session
<1>11. \A r \in Record : Done(r) => Done(r)'
  BY <1>4, <1>7 DEF Done
<1>12. RepliesInOrder' /\ replayed' \subseteq Saved'
  <2>1. CASE replayed' = replayed
    BY <1>4, <1>11, <2>1, RepliesKeep
  <2>2. CASE replayed' = replayed \cup {h}
    BY <1>1, <1>2, <1>4, <1>11, <2>2, PostedInOrder
  <2> QED BY <1>6, <2>1, <2>2
<1>13. \A u \in Tab : InOrder(u)'
  BY <1>4, <1>11, LoopKeeps
<1>14. WorkInOrder'
  BY <1>13 DEF WorkInOrder, InOrder
<1>15. \A r \in Record : queue'[r] = "attention" => r \in flagged'
  BY <1>4 DEF OInv
<1> QED BY <1>10, <1>12, <1>14, <1>15 DEF OInv

\* A posted record leaves the queue and the loop goes on with the next.
LEMMA DropStep ==
  ASSUME IInv, OInv, NEW t \in Tab, Drop(t), counted' \subseteq Tab
  PROVE  OInv'
<1>1. PICK w : w = work[t]
  OBVIOUS
<1>2. PICK h : h = Head(w)
  OBVIOUS
<1>3. /\ stage[t] = "ok"
      /\ queue' = [queue EXCEPT ![h] = None]
      /\ work' = [work EXCEPT ![t] = Tail(w)]
      /\ stage' = [stage EXCEPT ![t] = IF Tail(w) = <<>> THEN "idle" ELSE "send"]
      /\ UNCHANGED <<session, author, entered, reviving, server, flagged, bounds>>
  BY <1>1, <1>2 DEF Drop
<1>4. w # <<>> /\ w \in Seq(Record)
  BY <1>1, <1>3 DEF OInv, TypeOK
<1>5. PICK N \in Nat : /\ DOMAIN w = 1..(N + 1) /\ DOMAIN Tail(w) = 1..N
                       /\ \A i \in 1..N : Tail(w)[i] = w[i + 1]
                       /\ h = w[1] /\ h \in Record /\ Tail(w) \in Seq(Record)
  <2>1. Len(w) \in Nat /\ Len(w) # 0 /\ DOMAIN w = 1..Len(w)
    BY <1>4, EmptySeq, LenProperties
  <2>2. PICK N \in Nat : Len(w) = N + 1
    <3>1. Len(w) - 1 \in Nat /\ Len(w) = (Len(w) - 1) + 1
      BY <2>1
    <3> QED BY <3>1
  <2>3. /\ Tail(w) \in Seq(Record) /\ Len(Tail(w)) = N
        /\ \A i \in 1..N : Tail(w)[i] = w[i + 1]
    BY <1>4, <2>2, HeadTailProperties
  <2>4. h = w[1] /\ h \in Record
    BY <1>2, <1>4
  <2> QED BY <2>1, <2>2, <2>3, <2>4, LenProperties
<1>6. Done(h)
  BY <1>1, <1>2, <1>3, <1>5 DEF IInv, AckIsPosted, Done
<1>7. TypeOK'
  <2>1. work' \in [Tab -> Seq(Record)] /\ stage' \in [Tab -> Stage]
    BY <1>3, <1>5 DEF OInv, TypeOK, Stage
  <2>2. \A u \in Tab : stage'[u] # "idle" => work'[u] # <<>>
    BY <1>3 DEF OInv, TypeOK
  <2>3. queue' \in [Record -> RowStatus \cup {None}]
    BY <1>3 DEF OInv, TypeOK
  <2> QED BY <1>3, <2>1, <2>2, <2>3 DEF OInv, TypeOK, session, server, bounds
<1>8. \A r \in Record : Done(r)' <=> Done(r)
  BY <1>3 DEF Done, server
<1>9. \A r, s : Before(r, s)' <=> Before(r, s)
  BY <1>3 DEF Before
<1>10. Saved' = Saved /\ author' = author /\ work'[t] = Tail(w)
  BY <1>3 DEF Saved, OInv, TypeOK
<1>11. \A j \in DOMAIN w : \A s : s = w[j] =>
         /\ s \in Saved
         /\ \A r \in Record : Before(r, s) /\ author[r] = author[s] =>
              Done(r) \/ \E i \in DOMAIN w : i < j /\ w[i] = r
  BY <1>1, LoopsInOrder DEF OInv, InOrder
<1>12. ASSUME NEW j \in 1..N, NEW s, s = Tail(w)[j]
       PROVE  /\ s \in Saved
              /\ \A r \in Record : Before(r, s) /\ author[r] = author[s] =>
                   Done(r) \/ \E i \in 1..N : i < j /\ Tail(w)[i] = r
  <2>1. s = w[j + 1] /\ j + 1 \in DOMAIN w
    BY <1>5, <1>12
  <2>2. ASSUME NEW r \in Record, Before(r, s), author[r] = author[s], ~ Done(r)
        PROVE  \E i \in 1..N : i < j /\ Tail(w)[i] = r
    <3>1. PICK k \in DOMAIN w : k < j + 1 /\ w[k] = r
      BY <1>11, <2>1, <2>2
    <3>2. k # 1 /\ k \in 1..(N + 1)
      BY <1>5, <1>6, <2>2, <3>1
    <3>3. PICK i \in 1..N : k = i + 1
      <4>1. k - 1 \in 1..N /\ k = (k - 1) + 1
        BY <3>2
      <4> QED BY <4>1
    <3>4. i < j /\ Tail(w)[i] = r
      BY <1>5, <3>1, <3>3
    <3> QED BY <3>4
  <2> QED BY <1>11, <2>1, <2>2
<1>13. InOrder(t)'
  <2>1. PICK v : v = Tail(w)
    OBVIOUS
  <2>2. work'[t] = v /\ DOMAIN v = 1..N
    BY <1>5, <1>10, <2>1
  <2> SUFFICES ASSUME NEW j \in DOMAIN v, NEW s, s = v[j]
               PROVE  /\ s \in Saved'
                      /\ \A r \in Record :
                           Before(r, s)' /\ author'[r] = author'[s] =>
                             Done(r)' \/ \E i \in DOMAIN v : i < j /\ v[i] = r
    BY <2>2 DEF InOrder
  <2>3. /\ s \in Saved
        /\ \A r \in Record : Before(r, s) /\ author[r] = author[s] =>
             Done(r) \/ \E i \in 1..N : i < j /\ Tail(w)[i] = r
    <3>1. j \in 1..N /\ s = Tail(w)[j]
      BY <2>1, <2>2
    <3> QED BY <1>12, <3>1
  <2>4. \A r \in Record : Before(r, s) /\ author[r] = author[s] =>
             Done(r) \/ \E i \in DOMAIN v : i < j /\ v[i] = r
    BY <2>1, <2>2, <2>3
  <2> QED BY <1>8, <1>9, <1>10, <2>3, <2>4
<1>14. \A u \in Tab : u # t => InOrder(u)'
  <2>1. \A u \in Tab : u # t => work'[u] = work[u]
    BY <1>3 DEF OInv, TypeOK
  <2> QED BY <1>3, <1>8, <2>1, LoopKeeps
<1>15. WorkInOrder'
  BY <1>13, <1>14 DEF WorkInOrder, InOrder
<1>16. RepliesInOrder' /\ replayed' \subseteq Saved'
  BY <1>3, <1>8, RepliesKeep DEF server
<1>17. \A r \in Record : queue'[r] = "attention" => r \in flagged'
  BY <1>3, SyncAssumption DEF OInv, TypeOK
<1> QED BY <1>7, <1>15, <1>16, <1>17 DEF OInv

\* A record that could not be posted is written back and the loop ends.
LEMMA PutBackStep ==
  ASSUME OInv, NEW t \in Tab, PutBack(t), counted' \subseteq Tab
  PROVE  OInv'
<1>1. PICK h : h = Head(work[t])
  OBVIOUS
<1>2. /\ stage[t] \in RowStatus
      /\ queue' = [queue EXCEPT ![h] = stage[t]]
      /\ flagged' = IF stage[t] = "attention" THEN flagged \cup {h} ELSE flagged
      /\ work' = [work EXCEPT ![t] = <<>>]
      /\ stage' = [stage EXCEPT ![t] = "idle"]
      /\ UNCHANGED <<session, author, entered, reviving, server, bounds>>
  BY <1>1 DEF PutBack, Rest
<1>3. h \in Record
  <2>1. stage[t] # "idle"
    BY <1>2 DEF RowStatus
  <2>2. work[t] # <<>> /\ work[t] \in Seq(Record)
    BY <2>1 DEF OInv, TypeOK
  <2> QED BY <1>1, <2>2
<1>4. TypeOK'
  <2>1. work' \in [Tab -> Seq(Record)] /\ stage' \in [Tab -> Stage]
    BY <1>2 DEF OInv, TypeOK, Stage
  <2>2. \A u \in Tab : stage'[u] # "idle" => work'[u] # <<>>
    BY <1>2 DEF OInv, TypeOK
  <2>3. queue' \in [Record -> RowStatus \cup {None}] /\ flagged' \subseteq Record
    BY <1>2, <1>3 DEF OInv, TypeOK
  <2> QED BY <1>2, <2>1, <2>2, <2>3 DEF OInv, TypeOK, session, server, bounds
<1>5. \A r \in Record : Done(r) => Done(r)'
  BY <1>2 DEF Done, server
<1>6. \A u \in Tab : work'[u] = work[u] \/ work'[u] = <<>>
  BY <1>2 DEF OInv, TypeOK
<1>7. \A r \in Record : queue'[r] = "attention" => r \in flagged'
  BY <1>2, <1>3 DEF OInv, TypeOK
<1> QED BY <1>2, <1>4, <1>5, <1>6, <1>7, OtherStep DEF server

\* Loops that find nothing, retries, sign-ins, sign-outs and reloads.
LEMMA PersonStep ==
  ASSUME OInv, NEW t \in Tab, counted' \subseteq Tab,
         \/ FindNothing(t) \/ Retry(t) \/ Reviving(t) \/ SignOut(t) \/ Reload(t)
         \/ \E u \in User : SignIn(t, u)
  PROVE  OInv'
<1>1. UNCHANGED <<author, entered, posted, replayed, flagged>>
  BY DEF FindNothing, Retry, Reviving, Revive, SignIn, SignOut, Reload, server
<1>2. queue' \in [Record -> RowStatus \cup {None}]
      /\ \A r \in Record : queue'[r] = "attention" => queue[r] = "attention"
  <2>1. CASE queue' = queue
    BY <2>1 DEF OInv, TypeOK
  <2>2. CASE Reviving(t)
    <3>1. PICK r \in Record : queue' = [queue EXCEPT ![r] = "pending"]
      BY <2>2 DEF Reviving, Revive
    <3> QED BY <3>1 DEF OInv, TypeOK, RowStatus
  <2> QED BY <2>1, <2>2 DEF FindNothing, Retry, SignIn, SignOut, Reload
<1>3. \A u \in Tab : work'[u] = work[u] \/ work'[u] = <<>>
  BY DEF FindNothing, Retry, Reviving, Revive, SignIn, SignOut, Reload, tabVars, OInv, TypeOK
<1>4. cookie' \in User \cup {None} /\ scope' \in [Tab -> User \cup {None}]
  BY DEF FindNothing, Retry, Reviving, Revive, SignIn, SignOut, Reload, session, OInv, TypeOK
<1>5. faults' \in 0..MaxFaults /\ switches' \in 0..MaxSwitches /\ retries' \in 0..MaxRetries
  <2>1. CASE UNCHANGED <<faults, switches, retries>>
    BY <2>1 DEF OInv, TypeOK
  <2>2. CASE Retry(t)
    BY <2>2, SyncAssumption DEF Retry, session, OInv, TypeOK
  <2>3. CASE Switch /\ UNCHANGED bounds
    BY <2>3, SyncAssumption DEF Switch, bounds, OInv, TypeOK
  <2> QED BY <2>1, <2>2, <2>3 DEF FindNothing, Reviving, Revive, SignIn, SignOut, Reload, session, bounds
<1>6. reviving' \in [Tab -> SUBSET Record]
  <2>1. CASE Retry(t)
    <3>1. PICK S \in SUBSET Record : reviving' = [reviving EXCEPT ![t] = S]
      BY <2>1 DEF Retry
    <3> QED BY <3>1 DEF OInv, TypeOK
  <2>2. CASE Reviving(t)
    BY <2>2 DEF Reviving, Revive, OInv, TypeOK
  <2>3. CASE Reload(t)
    BY <2>3 DEF Reload, OInv, TypeOK
  <2>4. CASE UNCHANGED reviving
    BY <2>4 DEF OInv, TypeOK
  <2> QED BY <2>1, <2>2, <2>3, <2>4 DEF FindNothing, SignIn, SignOut, tabVars
<1>7. /\ work' \in [Tab -> Seq(Record)] /\ stage' \in [Tab -> Stage]
      /\ \A u \in Tab : stage'[u] # "idle" => work'[u] # <<>>
  <2>1. CASE UNCHANGED <<work, stage>>
    BY <2>1 DEF OInv, TypeOK
  <2>2. CASE Reload(t)
    BY <2>2 DEF Reload, OInv, TypeOK, Stage
  <2> QED BY <2>1, <2>2 DEF FindNothing, Retry, Reviving, Revive, SignIn, SignOut, tabVars
<1>8. TypeOK'
  BY <1>1, <1>2, <1>4, <1>5, <1>6, <1>7 DEF OInv, TypeOK
<1>9. \A r \in Record : Done(r) => Done(r)'
  BY <1>1 DEF Done
<1>10. \A r \in Record : queue'[r] = "attention" => r \in flagged'
  BY <1>1, <1>2 DEF OInv
<1> QED BY <1>1, <1>3, <1>8, <1>9, <1>10, OtherStep

\* Whatever a tab counts, tabs are counted.
LEMMA CountsKept ==
  ASSUME OInv, [Next]_vars
  PROVE  counted' \subseteq Tab
<1>1. counted \subseteq Tab
  BY DEF OInv, TypeOK
<1>2. ASSUME NEW t \in Tab, NEW changed \in BOOLEAN, CountIf(t, changed) PROVE counted' \subseteq Tab
  BY <1>1, <1>2 DEF CountIf
<1>3. ASSUME NEW t \in Tab, NEW r \in Record, NEW lost \in BOOLEAN,
             SaveOffline(t, r) \/ SaveOnline(t, r, lost)
      PROVE  counted' \subseteq Tab
  BY <1>2, <1>3 DEF SaveOffline, SaveOnline
<1>4. ASSUME NEW t \in Tab, FindNothing(t) \/ Reload(t) \/ \E u \in User : SignIn(t, u)
      PROVE  counted' \subseteq Tab
  BY <1>2, <1>4 DEF FindNothing, Reload, SignIn
<1>5. ASSUME NEW t \in Tab, Drop(t) \/ PutBack(t) \/ Reviving(t) PROVE counted' \subseteq Tab
  BY <1>2, <1>5 DEF Drop, PutBack, Reviving, Revive
<1>6. ASSUME NEW t \in Tab, StartSync(t) \/ Answered(t) \/ Retry(t) \/ SignOut(t)
      PROVE  counted' \subseteq Tab
  BY <1>1, <1>6 DEF StartSync, Answered, Accept, Refuse, Lose, Retry, SignOut
<1>7. CASE UNCHANGED vars
  BY <1>1, <1>7 DEF vars
<1> QED BY <1>3, <1>4, <1>5, <1>6, <1>7 DEF Next, Running

\* Nothing happens.
LEMMA StutterStep ==
  ASSUME OInv, UNCHANGED vars
  PROVE  OInv'
<1>1. TypeOK'
  BY DEF vars, OInv, TypeOK
<1>2. \A r \in Record : Done(r) => Done(r)'
  BY DEF vars, Done
<1>3. \A r \in Record : queue'[r] = "attention" => r \in flagged'
  BY DEF vars, OInv
<1> QED BY <1>1, <1>2, <1>3, OtherStep DEF vars

\* The order holds at the start.
LEMMA InitInOrder == Init => OInv
<1> SUFFICES ASSUME Init PROVE OInv
  OBVIOUS
<1>1. TypeOK
  <2>1. IsInjective(<<>>)
    BY DEF IsInjective
  <2> QED BY <2>1, SyncAssumption DEF Init, TypeOK, Stage
<1>2. \A r \in Record : queue[r] # "attention"
  BY SyncAssumption DEF Init
<1> QED BY <1>1, <1>2 DEF Init, OInv, WorkInOrder, RepliesInOrder

\* The queue's order and every variable's type are kept by every step of any
\* number of tabs: what a loop has still to send is in the order it was saved, and
\* whatever is missing from it is done.
THEOREM OrderInvariant == Spec => []OInv
<1>1. IInv /\ OInv /\ [Next]_vars => OInv'
  <2> SUFFICES ASSUME IInv, OInv, [Next]_vars PROVE OInv'
    OBVIOUS
  <2>0. counted' \subseteq Tab
    BY CountsKept
  <2>1. ASSUME NEW t \in Tab, NEW r \in Record, SaveOffline(t, r) PROVE OInv'
    BY <2>0, <2>1, OfflineStep
  <2>2. ASSUME NEW t \in Tab, NEW r \in Record, NEW lost \in BOOLEAN, SaveOnline(t, r, lost)
        PROVE  OInv'
    BY <2>0, <2>2, OnlineStep
  <2>3. ASSUME NEW t \in Tab, StartSync(t) PROVE OInv'
    BY <2>0, <2>3, StartStep
  <2>4. ASSUME NEW t \in Tab, Answered(t) PROVE OInv'
    BY <2>0, <2>4, AnsweredStep
  <2>5. ASSUME NEW t \in Tab, Drop(t) PROVE OInv'
    BY <2>0, <2>5, DropStep
  <2>6. ASSUME NEW t \in Tab, PutBack(t) PROVE OInv'
    BY <2>0, <2>6, PutBackStep
  <2>7. ASSUME NEW t \in Tab,
               \/ FindNothing(t) \/ Retry(t) \/ Reviving(t) \/ SignOut(t) \/ Reload(t)
               \/ \E u \in User : SignIn(t, u)
        PROVE  OInv'
    BY <2>0, <2>7, PersonStep
  <2>8. CASE UNCHANGED vars
    BY <2>8, StutterStep
  <2> QED BY <2>1, <2>2, <2>3, <2>4, <2>5, <2>6, <2>7, <2>8 DEF Next, Running
<1> QED BY InitInOrder, Inductive, <1>1, PTL DEF Spec

\* The queue posts the records of one user in the order they were saved, from any
\* number of tabs, until one of them needs attention (offline-sync.ts:171-196).
THEOREM QueueInOrder == Spec => []QueueKeepsOrder
<1>1. OInv => QueueKeepsOrder
  BY DEF OInv, RepliesInOrder, Done, QueueKeepsOrder
<1> QED BY OrderInvariant, <1>1, PTL

-----------------------------------------------------------------------------
(* One document imported from several browsers.                            *)

\* A dialog's tick is on what it shows, what it posts had been ticked, and the
\* rows it shows and posts are among those of S suppliers and I invoices.
Fits(dialog, S, I) ==
    dialog.phase = "open" =>
        /\ dialog.ticked # Nothing => dialog.ticked = dialog.screen
        /\ DOMAIN dialog.suppliers \subseteq S /\ DOMAIN dialog.duplicates \subseteq I
        /\ dialog.screen.supplier \in DOMAIN dialog.suppliers \cup {Nothing}
        /\ dialog.screen.product \in DOMAIN dialog.products \cup {Nothing}
        /\ dialog.posting # Nothing =>
             /\ dialog.posting.what = dialog.posting.ticked
             /\ dialog.posting.what.supplier \in S
             /\ dialog.posting.kind = "receive" => dialog.posting.what.supplier \in I

ImportInv ==
    /\ TrayTypeOK
    /\ \A d \in Dialog : Fits(dialogs[d], DOMAIN suppliers, DOMAIN invoices)

ActiveOf(rows) == [c \in {c \in DOMAIN rows : rows[c].active} |-> rows[c]]

\* Whom a document with or without a GSTIN is found to be from.
FoundIn(gstin, rows) ==
    LET sameGstin == {c \in DOMAIN rows : gstin /\ rows[c].taxId}
        sameName == {c \in DOMAIN rows : rows[c].named}
    IN IF Only(sameGstin) # Nothing THEN Only(sameGstin) ELSE Only(sameName)

\* The supplier of the document, among the rows there are.
Him(s, rows) == FoundIn(s.gstin, ActiveOf(rows))

\* The row a dialog adds when it shows the suppliers of the start.
NewSupplier(s) == [named |-> TRUE, taxId |-> s.gstin, active |-> TRUE]
NewCode(s) == LeastFree(DOMAIN ActiveOf(s.suppliers))

\* The suppliers are those of the start, or they and the one a dialog added when
\* the start has none for the document.
Grown(s, rows) ==
    \/ rows = s.suppliers
    \/ /\ Him(s, s.suppliers) = Nothing
       /\ NewCode(s) \in Code \ DOMAIN s.suppliers
       /\ rows = Put(s.suppliers, NewCode(s), NewSupplier(s))

\* A dialog shows the suppliers of the start or those of now, and the one found
\* in them; it adds one only if it finds none; it posts for the one found now.
Finds(dialog, s, rows) ==
    dialog.phase = "open" =>
        /\ dialog.suppliers \in {ActiveOf(s.suppliers), ActiveOf(rows)}
        /\ dialog.screen.supplier = FoundIn(s.gstin, dialog.suppliers)
        /\ dialog.creating = "supplier" => dialog.screen.supplier = Nothing
        /\ dialog.posting # Nothing => dialog.posting.what.supplier = Him(s, rows)

OneSupplier ==
    "supplier" \notin byHand =>
        /\ Grown(start, suppliers)
        /\ \A s \in DOMAIN invoices : s = Him(start, suppliers)
        /\ \A d \in Dialog : Finds(dialogs[d], start, suppliers)

\* At the start at most one active supplier has the document's name.
NamedOnce ==
    \A s \in Start :
        Cardinality({c \in DOMAIN ActiveOf(s.suppliers) : ActiveOf(s.suppliers)[c].named}) <= 1

\* Rows and their keys.
LEMMA RowsAre ==
  ASSUME NEW K, NEW R, NEW f
  PROVE  f \in Rows(K, R) <=> DOMAIN f \subseteq K /\ f \in [DOMAIN f -> R]
<1>1. ASSUME f \in Rows(K, R) PROVE DOMAIN f \subseteq K /\ f \in [DOMAIN f -> R]
  <2>1. PICK D \in SUBSET K : f \in [D -> R]
    BY <1>1 DEF Rows
  <2> QED BY <2>1
<1>2. ASSUME DOMAIN f \subseteq K, f \in [DOMAIN f -> R] PROVE f \in Rows(K, R)
  BY <1>2 DEF Rows
<1> QED BY <1>1, <1>2

\* A row put among rows of a table leaves a table, and the others as they were.
LEMMA RowPut ==
  ASSUME NEW K, NEW R, NEW f \in Rows(K, R), NEW k \in K, NEW row \in R
  PROVE  /\ Put(f, k, row) \in Rows(K, R) /\ DOMAIN Put(f, k, row) = DOMAIN f \cup {k}
         /\ Put(f, k, row)[k] = row /\ \A x \in DOMAIN f : x # k => Put(f, k, row)[x] = f[x]
<1>1. DOMAIN f \subseteq K /\ f \in [DOMAIN f -> R]
  BY RowsAre
<1>2. PICK g : g = Put(f, k, row)
  OBVIOUS
<1>3. DOMAIN g = DOMAIN f \cup {k} /\ g \in [DOMAIN f \cup {k} -> R]
      /\ g[k] = row /\ \A x \in DOMAIN f : x # k => g[x] = f[x]
  BY <1>1, <1>2 DEF Put
<1>4. g \in Rows(K, R)
  BY <1>1, <1>3, RowsAre
<1> QED BY <1>2, <1>3, <1>4

\* Some of the rows.
LEMMA SomeRows ==
  ASSUME NEW K, NEW R, NEW f \in Rows(K, R), NEW D \in SUBSET DOMAIN f
  PROVE  [x \in D |-> f[x]] \in Rows(K, R)
<1>1. DOMAIN f \subseteq K /\ f \in [DOMAIN f -> R]
  BY RowsAre
<1>2. PICK g : g = [x \in D |-> f[x]]
  OBVIOUS
<1>3. DOMAIN g \subseteq K /\ g \in [DOMAIN g -> R]
  BY <1>1, <1>2
<1> QED BY <1>2, <1>3, RowsAre

\* What a search finds.
LEMMA OnlyOne ==
  ASSUME NEW S
  PROVE  /\ Only(S) \in S \cup {Nothing}
         /\ Only(S) # Nothing => Only(S) \in S
<1>1. ASSUME Cardinality(S) = 1 PROVE \E c \in S : TRUE
  <2>1. S # {}
    BY <1>1, FS_EmptySet
  <2> QED BY <2>1
<1>2. CASE Cardinality(S) = 1
  <2>1. Only(S) = CHOOSE c \in S : TRUE
    BY <1>2 DEF Only
  <2> QED BY <1>1, <1>2, <2>1
<1>3. CASE Cardinality(S) # 1
  BY <1>3 DEF Only
<1> QED BY <1>2, <1>3

\* A supplier found is one of those looked through.
LEMMA Found ==
  ASSUME NEW gstin, NEW rows
  PROVE  FoundIn(gstin, rows) \in DOMAIN rows \cup {Nothing}
<1>1. PICK S, N : /\ S = {c \in DOMAIN rows : gstin /\ rows[c].taxId}
                  /\ N = {c \in DOMAIN rows : rows[c].named}
  OBVIOUS
<1>2. FoundIn(gstin, rows) = IF Only(S) # Nothing THEN Only(S) ELSE Only(N)
  BY <1>1 DEF FoundIn
<1>3. S \subseteq DOMAIN rows /\ N \subseteq DOMAIN rows
  BY <1>1
<1>4. Only(S) \in S \cup {Nothing} /\ Only(N) \in N \cup {Nothing}
  BY OnlyOne
<1> QED BY <1>2, <1>3, <1>4

\* findMatchingSupplier is FoundIn for the document being imported.
LEMMA FoundIsFound ==
  ASSUME NEW rows
  PROVE  FindMatchingSupplier(rows) = FoundIn(start.gstin, rows)
BY DEF FindMatchingSupplier, FoundIn

\* A product found is one of those looked through.
LEMMA ProductFound ==
  ASSUME NEW rows, NEW hsn
  PROVE  FindMatchingProduct(rows, hsn) \in DOMAIN rows \cup {Nothing}
<1>1. PICK S, N : /\ S = {c \in DOMAIN rows : hsn # Nothing /\ rows[c].hsn = hsn}
                  /\ N = {c \in DOMAIN rows : rows[c].named}
  OBVIOUS
<1>2. FindMatchingProduct(rows, hsn) = IF Only(S) # Nothing THEN Only(S) ELSE Only(N)
  BY <1>1 DEF FindMatchingProduct
<1>3. S \subseteq DOMAIN rows /\ N \subseteq DOMAIN rows
  BY <1>1
<1>4. Only(S) \in S \cup {Nothing} /\ Only(N) \in N \cup {Nothing}
  BY OnlyOne
<1> QED BY <1>2, <1>3, <1>4

\* The only compatible tank is a tank.
LEMMA TankFound ==
  ASSUME NEW rows, NEW p
  PROVE  OnlyCompatibleTank(rows, p) \in Tank \cup {Nothing}
<1>1. CompatibleTanks(rows, p) \subseteq Tank
  BY DEF CompatibleTanks
<1> QED BY <1>1, OnlyOne DEF OnlyCompatibleTank

\* The rows of an open dialog.
LEMMA DialogTyped ==
  ASSUME ImportInv, NEW d \in Dialog, IsOpen(d)
  PROVE  /\ dialogs[d] \in Open /\ dialogs[d].hsn \in Hsn \cup {Nothing}
         /\ dialogs[d].phase = "open"
         /\ dialogs[d].suppliers \in Rows(Code, Supplier)
         /\ dialogs[d].products \in Rows(ProductCode, Product)
         /\ dialogs[d].duplicates \in Rows(Code, Invoice)
         /\ dialogs[d].screen \in Screen /\ dialogs[d].ticked \in Screen \cup {Nothing}
         /\ dialogs[d].creating \in {"no", "supplier", "product"}
         /\ dialogs[d].posting \in Posting \cup {Nothing}
         /\ DOMAIN dialogs[d].suppliers \subseteq Code
         /\ DOMAIN dialogs[d].products \subseteq ProductCode
         /\ Fits(dialogs[d], DOMAIN suppliers, DOMAIN invoices)
         /\ tray[d].at = "confirm"
<1>1. dialogs[d] \in Open
  BY DEF ImportInv, TrayTypeOK, ImportTypeOK, IsOpen, Closed
<1>2. /\ dialogs[d].hsn \in Hsn \cup {Nothing} /\ dialogs[d].phase = "open"
      /\ dialogs[d].suppliers \in Rows(Code, Supplier)
      /\ dialogs[d].products \in Rows(ProductCode, Product)
      /\ dialogs[d].duplicates \in Rows(Code, Invoice)
      /\ dialogs[d].screen \in Screen /\ dialogs[d].ticked \in Screen \cup {Nothing}
      /\ dialogs[d].creating \in {"no", "supplier", "product"}
      /\ dialogs[d].posting \in Posting \cup {Nothing}
  BY <1>1 DEF Open
<1>3. DOMAIN dialogs[d].suppliers \subseteq Code /\ DOMAIN dialogs[d].products \subseteq ProductCode
  BY <1>2, RowsAre
<1> QED BY <1>1, <1>2, <1>3 DEF ImportInv, TrayTypeOK

-----------------------------------------------------------------------------
(* One dialog changes, and the rows grow.                                  *)

RowsGrow ==
    /\ start' = start /\ byHand \subseteq byHand' /\ byHand' \subseteq start.byHand
    /\ suppliers' \in Rows(Code, Supplier) /\ products' \in Rows(ProductCode, Product)
    /\ invoices' \in Rows(Code, Invoice)
    /\ DOMAIN suppliers \subseteq DOMAIN suppliers' /\ DOMAIN invoices \subseteq DOMAIN invoices'
    /\ DOMAIN invoices' \subseteq DOMAIN suppliers'

\* What fits the rows there are fits more of them.
LEMMA FitsStill ==
  ASSUME NEW x, NEW S, NEW I, NEW S1, NEW I1, S \subseteq S1, I \subseteq I1, Fits(x, S, I)
  PROVE  Fits(x, S1, I1)
BY DEF Fits

\* A dialog that fits, over rows that only grow, keeps the invariant.
LEMMA DialogStepKeeps ==
  ASSUME ImportInv, RowsGrow, NEW d \in Dialog, NEW new \in Open \cup {Closed},
         dialogs' = [dialogs EXCEPT ![d] = new],
         Fits(new, DOMAIN suppliers', DOMAIN invoices'),
         tray' \in [Dialog -> Tray], \A e \in Dialog : e # d => tray'[e] = tray[e],
         new.phase = "open" => tray'[d].at = "confirm"
  PROVE  ImportInv'
<1>1. /\ dialogs \in [Dialog -> Open \cup {Closed}] /\ start \in Start
      /\ \A e \in Dialog : IsOpen(e) => tray[e].at = "confirm"
      /\ \A e \in Dialog : Fits(dialogs[e], DOMAIN suppliers, DOMAIN invoices)
  BY DEF ImportInv, TrayTypeOK, ImportTypeOK
<1>2. /\ dialogs' \in [Dialog -> Open \cup {Closed}] /\ dialogs'[d] = new
      /\ \A e \in Dialog : e # d => dialogs'[e] = dialogs[e]
  BY <1>1
<1>3. \A e \in Dialog : Fits(dialogs'[e], DOMAIN suppliers', DOMAIN invoices')
  BY <1>1, <1>2, FitsStill DEF RowsGrow
<1>4. \A e \in Dialog : IsOpen(e)' => tray'[e].at = "confirm"
  BY <1>1, <1>2 DEF IsOpen
<1>5. ImportTypeOK'
  BY <1>1, <1>2 DEF ImportTypeOK, RowsGrow
<1> QED BY <1>3, <1>4, <1>5 DEF ImportInv, TrayTypeOK

\* The rows change, and the dialogs stay.
LEMMA RowsStepKeeps ==
  ASSUME ImportInv, RowsGrow, dialogs' = dialogs, tray' = tray
  PROVE  ImportInv'
<1>1. /\ dialogs \in [Dialog -> Open \cup {Closed}] /\ start \in Start /\ tray \in [Dialog -> Tray]
      /\ \A e \in Dialog : IsOpen(e) => tray[e].at = "confirm"
      /\ \A e \in Dialog : Fits(dialogs[e], DOMAIN suppliers, DOMAIN invoices)
  BY DEF ImportInv, TrayTypeOK, ImportTypeOK
<1>2. \A e \in Dialog : Fits(dialogs'[e], DOMAIN suppliers', DOMAIN invoices')
  BY <1>1, FitsStill DEF RowsGrow
<1>3. ImportTypeOK'
  BY <1>1 DEF ImportTypeOK, RowsGrow
<1> QED BY <1>1, <1>2, <1>3 DEF ImportInv, TrayTypeOK, IsOpen

\* The tray changes, and everything else stays.
LEMMA TrayStepKeeps ==
  ASSUME ImportInv, RowsStay, NEW d \in Dialog, NEW t \in Tray, tray' = [tray EXCEPT ![d] = t],
         IsOpen(d) => t.at = "confirm"
  PROVE  ImportInv'
<1>1. /\ ImportTypeOK /\ tray \in [Dialog -> Tray]
      /\ \A e \in Dialog : IsOpen(e) => tray[e].at = "confirm"
      /\ \A e \in Dialog : Fits(dialogs[e], DOMAIN suppliers, DOMAIN invoices)
  BY DEF ImportInv, TrayTypeOK
<1>2. start' = start /\ suppliers' = suppliers /\ products' = products /\ invoices' = invoices
      /\ dialogs' = dialogs /\ byHand' = byHand
  BY DEF RowsStay
<1>3. ImportTypeOK'
  BY <1>1, <1>2 DEF ImportTypeOK
<1>4. tray' \in [Dialog -> Tray] /\ \A e \in Dialog : IsOpen(e)' => tray'[e].at = "confirm"
  BY <1>1, <1>2 DEF IsOpen
<1> QED BY <1>1, <1>2, <1>3, <1>4 DEF ImportInv, TrayTypeOK

\* Rows that stay have grown.
LEMMA RowsStayGrow ==
  ASSUME ImportInv, UNCHANGED <<start, suppliers, products, invoices>>,
         byHand \subseteq byHand', byHand' \subseteq start.byHand
  PROVE  RowsGrow
BY DEF ImportInv, TrayTypeOK, ImportTypeOK, RowsGrow

-----------------------------------------------------------------------------
(* What a dialog does by itself.                                           *)

DialogStep(d, new) ==
    /\ new \in Open \cup {Closed} /\ dialogs' = [dialogs EXCEPT ![d] = new]
    /\ UNCHANGED <<start, suppliers, products, invoices>>
    /\ byHand \subseteq byHand' /\ byHand' \subseteq start.byHand
    /\ Fits(new, DOMAIN suppliers, DOMAIN invoices)
    /\ OneSupplier /\ "supplier" \notin byHand' => Finds(new, start, suppliers)

\* A step of one dialog over rows that stay keeps both invariants.
LEMMA DialogStepSafe ==
  ASSUME ImportInv, NEW d \in Dialog, NEW new, DialogStep(d, new),
         tray' \in [Dialog -> Tray], \A e \in Dialog : e # d => tray'[e] = tray[e],
         new.phase = "open" => tray'[d].at = "confirm"
  PROVE  ImportInv' /\ (OneSupplier => OneSupplier')
<1>1. RowsGrow
  BY RowsStayGrow DEF DialogStep
<1>2. ImportInv'
  BY <1>1, DialogStepKeeps DEF DialogStep
<1>3. ASSUME OneSupplier PROVE OneSupplier'
  <2>1. dialogs \in [Dialog -> Open \cup {Closed}]
    BY DEF ImportInv, TrayTypeOK, ImportTypeOK
  <2>2. dialogs'[d] = new /\ \A e \in Dialog : e # d => dialogs'[e] = dialogs[e]
    BY <2>1 DEF DialogStep
  <2>3. start' = start /\ suppliers' = suppliers /\ invoices' = invoices /\ byHand \subseteq byHand'
    BY DEF DialogStep
  <2> SUFFICES ASSUME "supplier" \notin byHand'
               PROVE  /\ Grown(start', suppliers')
                      /\ \A s \in DOMAIN invoices' : s = Him(start', suppliers')
                      /\ \A e \in Dialog : Finds(dialogs'[e], start', suppliers')
    BY DEF OneSupplier
  <2>4. Finds(new, start, suppliers)
    BY <1>3 DEF DialogStep
  <2> QED BY <1>3, <2>2, <2>3, <2>4 DEF OneSupplier
<1> QED BY <1>2, <1>3

\* Of a dialog that is open, what is found holds.
LEMMA FoundHolds ==
  ASSUME OneSupplier, "supplier" \notin byHand, NEW d \in Dialog, IsOpen(d)
  PROVE  /\ Grown(start, suppliers)
         /\ \A s \in DOMAIN invoices : s = Him(start, suppliers)
         /\ dialogs[d].suppliers \in {ActiveOf(start.suppliers), ActiveOf(suppliers)}
         /\ dialogs[d].screen.supplier = FoundIn(start.gstin, dialogs[d].suppliers)
         /\ dialogs[d].creating = "supplier" => dialogs[d].screen.supplier = Nothing
         /\ dialogs[d].posting # Nothing => dialogs[d].posting.what.supplier = Him(start, suppliers)
BY DEF OneSupplier, Finds, IsOpen

\* Opening shows the rows there are and the supplier found in them.
LEMMA OpenDialogStep ==
  ASSUME ImportInv, NEW d \in Dialog, NEW hsn \in Hsn \cup {Nothing}, OpenDialog(d, hsn)
  PROVE  \E new : DialogStep(d, new)
<1>1. /\ start \in Start /\ suppliers \in Rows(Code, Supplier) /\ products \in Rows(ProductCode, Product)
      /\ invoices \in Rows(Code, Invoice) /\ byHand \subseteq start.byHand
  BY DEF ImportInv, TrayTypeOK, ImportTypeOK
<1>2. PICK known \in {{}, DOMAIN invoices} :
        LET p == FindMatchingProduct(products, hsn)
        IN dialogs' = [dialogs EXCEPT ![d] =
               [phase |-> "open", hsn |-> hsn, suppliers |-> Active, products |-> products,
                duplicates |-> [s \in known |-> invoices[s]],
                screen |-> [supplier |-> FindMatchingSupplier(Active), product |-> p,
                            tank |-> OnlyCompatibleTank(products, p), receiveNow |-> TRUE],
                ticked |-> Nothing, creating |-> "no", posting |-> Nothing]]
  BY DEF OpenDialog
<1>3. PICK p, m, rows, dup, t : /\ p = FindMatchingProduct(products, hsn)
                                /\ m = FindMatchingSupplier(Active)
                                /\ rows = Active
                                /\ dup = [s \in known |-> invoices[s]]
                                /\ t = OnlyCompatibleTank(products, p)
  OBVIOUS
<1>4. PICK screen : screen = [supplier |-> m, product |-> p, tank |-> t, receiveNow |-> TRUE]
  OBVIOUS
<1>5. PICK new : new = [phase |-> "open", hsn |-> hsn, suppliers |-> rows, products |-> products,
                        duplicates |-> dup, screen |-> screen,
                        ticked |-> Nothing, creating |-> "no", posting |-> Nothing]
  OBVIOUS
<1>6. dialogs' = [dialogs EXCEPT ![d] = new]
  BY <1>2, <1>3, <1>4, <1>5
<1>7. rows = ActiveOf(suppliers) /\ rows \in Rows(Code, Supplier) /\ DOMAIN rows \subseteq DOMAIN suppliers
  <2>1. rows = [c \in {c \in DOMAIN suppliers : suppliers[c].active} |-> suppliers[c]]
    BY <1>3 DEF Active
  <2>2. {c \in DOMAIN suppliers : suppliers[c].active} \in SUBSET DOMAIN suppliers
    OBVIOUS
  <2> QED BY <1>1, <2>1, <2>2, SomeRows DEF ActiveOf
<1>8. dup \in Rows(Code, Invoice) /\ DOMAIN dup \subseteq DOMAIN invoices
  <2>1. known \in SUBSET DOMAIN invoices
    OBVIOUS
  <2> QED BY <1>1, <1>3, <2>1, SomeRows
<1>9. m = FoundIn(start.gstin, rows) /\ m \in DOMAIN rows \cup {Nothing} /\ m \in Code \cup {Nothing}
  BY <1>3, <1>7, Found, FoundIsFound, RowsAre
<1>10. p \in DOMAIN products \cup {Nothing} /\ p \in ProductCode \cup {Nothing}
  BY <1>1, <1>3, ProductFound, RowsAre
<1>11. t \in Tank \cup {Nothing}
  BY <1>3, TankFound
<1>12. screen \in Screen
  BY <1>4, <1>9, <1>10, <1>11 DEF Screen
<1>13. new \in Open
  BY <1>1, <1>5, <1>7, <1>8, <1>12 DEF Open
<1>14. Fits(new, DOMAIN suppliers, DOMAIN invoices)
  BY <1>4, <1>5, <1>7, <1>8, <1>9, <1>10 DEF Fits
<1>15. Finds(new, start, suppliers)
  BY <1>4, <1>5, <1>7, <1>9 DEF Finds
<1> QED BY <1>1, <1>6, <1>13, <1>14, <1>15 DEF DialogStep, OpenDialog

\* The dialog is gone.
LEMMA Closes ==
  ASSUME ImportInv, NEW d \in Dialog, dialogs' = [dialogs EXCEPT ![d] = Closed],
         UNCHANGED <<start, suppliers, products, invoices, byHand>>
  PROVE  DialogStep(d, Closed)
<1>1. byHand \subseteq start.byHand
  BY DEF ImportInv, TrayTypeOK, ImportTypeOK
<1> QED BY <1>1 DEF DialogStep, Fits, Finds, Closed

\* A change of the form shows it, without a tick, and leaves the rest.
LEMMA Shows ==
  ASSUME ImportInv, NEW d \in Dialog, NEW scr \in Screen, Show(d, scr)
  PROVE  \E new \in Open : /\ dialogs' = [dialogs EXCEPT ![d] = new]
                           /\ new.screen = scr /\ new.ticked = Nothing /\ new.posting = Nothing
                           /\ new.suppliers = dialogs[d].suppliers /\ new.products = dialogs[d].products
                           /\ new.duplicates = dialogs[d].duplicates
                           /\ new.creating = dialogs[d].creating /\ new.phase = "open"
<1>1. dialogs[d] \in Open /\ IsOpen(d) /\ dialogs[d].posting = Nothing
  BY DialogTyped DEF Show
<1>2. PICK new : new = [[dialogs[d] EXCEPT !.screen = scr] EXCEPT !.ticked = Nothing]
  OBVIOUS
<1>3. /\ new \in Open /\ new.screen = scr /\ new.ticked = Nothing /\ new.posting = Nothing
      /\ new.suppliers = dialogs[d].suppliers /\ new.products = dialogs[d].products
      /\ new.duplicates = dialogs[d].duplicates
      /\ new.creating = dialogs[d].creating /\ new.phase = "open"
  BY <1>1, <1>2 DEF Open
<1>4. dialogs' = [dialogs EXCEPT ![d] = new]
  BY <1>2 DEF Show, ImportInv, TrayTypeOK, ImportTypeOK
<1> QED BY <1>3, <1>4

\* A screen with rows of the dialog is shown.
LEMMA ShowStep ==
  ASSUME ImportInv, NEW d \in Dialog, NEW scr \in Screen, Show(d, scr),
         UNCHANGED <<start, suppliers, products, invoices>>,
         byHand \subseteq byHand', byHand' \subseteq start.byHand,
         scr.supplier \in DOMAIN dialogs[d].suppliers \cup {Nothing},
         scr.product \in DOMAIN dialogs[d].products \cup {Nothing},
         "supplier" \in byHand' \/ scr.supplier = dialogs[d].screen.supplier
  PROVE  \E new : DialogStep(d, new)
<1>1. PICK new \in Open : /\ dialogs' = [dialogs EXCEPT ![d] = new]
                          /\ new.screen = scr /\ new.ticked = Nothing /\ new.posting = Nothing
                          /\ new.suppliers = dialogs[d].suppliers /\ new.products = dialogs[d].products
                          /\ new.duplicates = dialogs[d].duplicates
                          /\ new.creating = dialogs[d].creating /\ new.phase = "open"
  BY Shows
<1>2. IsOpen(d) /\ Fits(dialogs[d], DOMAIN suppliers, DOMAIN invoices) /\ dialogs[d].phase = "open"
  BY DialogTyped DEF Show
<1>3. Fits(new, DOMAIN suppliers, DOMAIN invoices)
  BY <1>1, <1>2 DEF Fits
<1>4. OneSupplier /\ "supplier" \notin byHand' => Finds(new, start, suppliers)
  <2> SUFFICES ASSUME OneSupplier, "supplier" \notin byHand' PROVE Finds(new, start, suppliers)
    OBVIOUS
  <2>1. "supplier" \notin byHand
    OBVIOUS
  <2> QED BY <1>1, <1>2, <2>1, FoundHolds DEF Finds
<1> QED BY <1>1, <1>3, <1>4 DEF DialogStep

\* Choosing the supplier by hand is such a step, and counts as by hand.
LEMMA ChooseSupplierStep ==
  ASSUME ImportInv, NEW d \in Dialog, NEW s \in Code \cup {Nothing}, ChooseSupplier(d, s)
  PROVE  \E new : DialogStep(d, new)
<1>1. /\ IsOpen(d) /\ dialogs[d].screen \in Screen
      /\ Fits(dialogs[d], DOMAIN suppliers, DOMAIN invoices) /\ dialogs[d].phase = "open"
  BY DialogTyped DEF ChooseSupplier
<1>2. PICK scr : scr = [dialogs[d].screen EXCEPT !.supplier = s]
  OBVIOUS
<1>3. scr \in Screen /\ scr.supplier = s /\ scr.product = dialogs[d].screen.product
  BY <1>1, <1>2 DEF Screen
<1>4. Show(d, scr) /\ "supplier" \in byHand' /\ byHand \subseteq byHand' /\ byHand' \subseteq start.byHand
      /\ s \in DOMAIN dialogs[d].suppliers \cup {Nothing}
      /\ UNCHANGED <<start, suppliers, products, invoices>>
  BY <1>2 DEF ChooseSupplier, ChangeByHand, ImportInv, TrayTypeOK, ImportTypeOK
<1>5. scr.product \in DOMAIN dialogs[d].products \cup {Nothing}
  BY <1>1, <1>3 DEF Fits
<1> QED BY <1>3, <1>4, <1>5, ShowStep

\* Choosing the product is such a step.
LEMMA ChooseProductStep ==
  ASSUME ImportInv, NEW d \in Dialog, NEW p \in ProductCode \cup {Nothing}, ChooseProduct(d, p)
  PROVE  \E new : DialogStep(d, new)
<1>1. /\ IsOpen(d) /\ dialogs[d].screen \in Screen /\ byHand \subseteq start.byHand
      /\ Fits(dialogs[d], DOMAIN suppliers, DOMAIN invoices) /\ dialogs[d].phase = "open"
  BY DialogTyped DEF ChooseProduct, ImportInv, TrayTypeOK, ImportTypeOK
<1>2. PICK t : t = OnlyCompatibleTank(dialogs[d].products, p)
  OBVIOUS
<1>3. t \in Tank \cup {Nothing}
  BY <1>2, TankFound
<1>4. PICK scr : scr = [[dialogs[d].screen EXCEPT !.product = p] EXCEPT !.tank = t]
  OBVIOUS
<1>5. scr \in Screen /\ scr.supplier = dialogs[d].screen.supplier /\ scr.product = p
  BY <1>1, <1>3, <1>4 DEF Screen
<1>6. Show(d, scr) /\ p \in DOMAIN dialogs[d].products \cup {Nothing}
      /\ UNCHANGED <<start, suppliers, products, invoices, byHand>>
  BY <1>2, <1>4 DEF ChooseProduct
<1>7. scr.supplier \in DOMAIN dialogs[d].suppliers \cup {Nothing}
  BY <1>1, <1>5 DEF Fits
<1> QED BY <1>1, <1>5, <1>6, <1>7, ShowStep

\* Choosing the tank is such a step.
LEMMA ChooseTankStep ==
  ASSUME ImportInv, NEW d \in Dialog, NEW t \in Tank \cup {Nothing}, ChooseTank(d, t)
  PROVE  \E new : DialogStep(d, new)
<1>1. /\ IsOpen(d) /\ dialogs[d].screen \in Screen /\ byHand \subseteq start.byHand
      /\ Fits(dialogs[d], DOMAIN suppliers, DOMAIN invoices) /\ dialogs[d].phase = "open"
  BY DialogTyped DEF ChooseTank, ImportInv, TrayTypeOK, ImportTypeOK
<1>2. PICK scr : scr = [dialogs[d].screen EXCEPT !.tank = t]
  OBVIOUS
<1>3. scr \in Screen /\ scr.supplier = dialogs[d].screen.supplier /\ scr.product = dialogs[d].screen.product
  BY <1>1, <1>2 DEF Screen
<1>4. Show(d, scr) /\ UNCHANGED <<start, suppliers, products, invoices, byHand>>
  BY <1>2 DEF ChooseTank
<1>5. /\ scr.supplier \in DOMAIN dialogs[d].suppliers \cup {Nothing}
      /\ scr.product \in DOMAIN dialogs[d].products \cup {Nothing}
  BY <1>1, <1>3 DEF Fits
<1> QED BY <1>1, <1>3, <1>4, <1>5, ShowStep

\* Choosing whether to receive now is such a step.
LEMMA ChooseReceiveNowStep ==
  ASSUME ImportInv, NEW d \in Dialog, ChooseReceiveNow(d)
  PROVE  \E new : DialogStep(d, new)
<1>1. /\ IsOpen(d) /\ dialogs[d].screen \in Screen /\ byHand \subseteq start.byHand
      /\ Fits(dialogs[d], DOMAIN suppliers, DOMAIN invoices) /\ dialogs[d].phase = "open"
  BY DialogTyped DEF ChooseReceiveNow, ImportInv, TrayTypeOK, ImportTypeOK
<1>2. PICK scr : scr = [dialogs[d].screen EXCEPT !.receiveNow = ~dialogs[d].screen.receiveNow]
  OBVIOUS
<1>3. scr \in Screen /\ scr.supplier = dialogs[d].screen.supplier /\ scr.product = dialogs[d].screen.product
  BY <1>1, <1>2 DEF Screen
<1>4. Show(d, scr) /\ UNCHANGED <<start, suppliers, products, invoices, byHand>>
  BY <1>2 DEF ChooseReceiveNow
<1>5. /\ scr.supplier \in DOMAIN dialogs[d].suppliers \cup {Nothing}
      /\ scr.product \in DOMAIN dialogs[d].products \cup {Nothing}
  BY <1>1, <1>3 DEF Fits
<1> QED BY <1>1, <1>3, <1>4, <1>5, ShowStep

\* A dialog that shows what it showed, and posts nothing new.
LEMMA SameShownStep ==
  ASSUME ImportInv, NEW d \in Dialog, IsOpen(d), NEW new \in Open,
         dialogs' = [dialogs EXCEPT ![d] = new],
         UNCHANGED <<start, suppliers, products, invoices, byHand>>,
         new.screen = dialogs[d].screen, new.suppliers = dialogs[d].suppliers,
         new.products = dialogs[d].products, new.duplicates = dialogs[d].duplicates,
         new.ticked \in {dialogs[d].ticked, dialogs[d].screen, Nothing},
         new.creating = "supplier" => dialogs[d].creating = "supplier" \/ new.screen.supplier = Nothing,
         new.posting = Nothing \/ new.posting = dialogs[d].posting
  PROVE  DialogStep(d, new)
<1>1. Fits(dialogs[d], DOMAIN suppliers, DOMAIN invoices) /\ dialogs[d].phase = "open"
      /\ byHand \subseteq start.byHand
  BY DialogTyped DEF ImportInv, TrayTypeOK, ImportTypeOK
<1>2. Fits(new, DOMAIN suppliers, DOMAIN invoices)
  BY <1>1 DEF Fits
<1>3. OneSupplier /\ "supplier" \notin byHand' => Finds(new, start, suppliers)
  BY FoundHolds DEF Finds
<1> QED BY <1>1, <1>2, <1>3 DEF DialogStep

\* A tick is put on what is shown, or taken away.
LEMMA TickStep ==
  ASSUME ImportInv, NEW d \in Dialog, Tick(d)
  PROVE  \E new : DialogStep(d, new)
<1>1. IsOpen(d) /\ dialogs[d] \in Open
  BY DialogTyped DEF Tick
<1>2. PICK t \in {dialogs[d].screen, Nothing} : dialogs' = [dialogs EXCEPT ![d].ticked = t]
  BY DEF Tick
<1>3. PICK new : new = [dialogs[d] EXCEPT !.ticked = t]
  OBVIOUS
<1>4. /\ new \in Open /\ new.ticked = t /\ new.screen = dialogs[d].screen
      /\ new.suppliers = dialogs[d].suppliers /\ new.products = dialogs[d].products
      /\ new.duplicates = dialogs[d].duplicates /\ new.creating = dialogs[d].creating
      /\ new.posting = dialogs[d].posting
  BY <1>1, <1>2, <1>3 DEF Open
<1>5. dialogs' = [dialogs EXCEPT ![d] = new]
  BY <1>2, <1>3
<1> QED BY <1>1, <1>2, <1>4, <1>5, SameShownStep DEF Tick

\* The dialog begins or stops to add a row.
LEMMA CreatingStep ==
  ASSUME ImportInv, NEW d \in Dialog, IsOpen(d), NEW what \in {"no", "supplier", "product"},
         dialogs' = [dialogs EXCEPT ![d].creating = what],
         UNCHANGED <<start, suppliers, products, invoices, byHand>>,
         what = "supplier" => dialogs[d].screen.supplier = Nothing
  PROVE  \E new : DialogStep(d, new)
<1>1. dialogs[d] \in Open
  BY DialogTyped
<1>2. PICK new : new = [dialogs[d] EXCEPT !.creating = what]
  OBVIOUS
<1>3. /\ new \in Open /\ new.ticked = dialogs[d].ticked /\ new.screen = dialogs[d].screen
      /\ new.suppliers = dialogs[d].suppliers /\ new.products = dialogs[d].products
      /\ new.duplicates = dialogs[d].duplicates /\ new.creating = what
      /\ new.posting = dialogs[d].posting
  BY <1>1, <1>2 DEF Open
<1>4. dialogs' = [dialogs EXCEPT ![d] = new]
  BY <1>2
<1> QED BY <1>3, <1>4, SameShownStep

\* A row is asked for only where none is shown.
LEMMA CreateStep ==
  ASSUME ImportInv, NEW d \in Dialog, NEW what \in {"supplier", "product"}, Create(d, what)
  PROVE  \E new : DialogStep(d, new)
BY CreatingStep DEF Create

\* A refused row leaves the form as it is.
LEMMA CreateRefusedStep ==
  ASSUME ImportInv, NEW d \in Dialog, CreateRefused(d)
  PROVE  \E new : DialogStep(d, new)
BY CreatingStep DEF CreateRefused

-----------------------------------------------------------------------------
\* A posting is sent, read for, or refused.
LEMMA PostingIs ==
  ASSUME ImportInv, NEW d \in Dialog, IsOpen(d), NEW posting \in Posting \cup {Nothing},
         dialogs' = [dialogs EXCEPT ![d].posting = posting]
  PROVE  \E new \in Open : /\ dialogs' = [dialogs EXCEPT ![d] = new]
                           /\ new.ticked = dialogs[d].ticked /\ new.screen = dialogs[d].screen
                           /\ new.suppliers = dialogs[d].suppliers /\ new.products = dialogs[d].products
                           /\ new.duplicates = dialogs[d].duplicates
                           /\ new.creating = dialogs[d].creating /\ new.phase = "open"
                           /\ new.posting = posting
<1>1. dialogs[d] \in Open
  BY DialogTyped
<1>2. PICK new : new = [dialogs[d] EXCEPT !.posting = posting]
  OBVIOUS
<1>3. /\ new \in Open /\ new.ticked = dialogs[d].ticked /\ new.screen = dialogs[d].screen
      /\ new.suppliers = dialogs[d].suppliers /\ new.products = dialogs[d].products
      /\ new.duplicates = dialogs[d].duplicates /\ new.creating = dialogs[d].creating
      /\ new.phase = "open" /\ new.posting = posting
  BY <1>1, <1>2 DEF Open
<1>4. dialogs' = [dialogs EXCEPT ![d] = new]
  BY <1>2
<1> QED BY <1>3, <1>4

\* A refused posting leaves the form as it is.
LEMMA PostingRefusedStep ==
  ASSUME ImportInv, NEW d \in Dialog, PostingRefused(d)
  PROVE  \E new : DialogStep(d, new)
<1>1. IsOpen(d)
  BY DEF PostingRefused
<1>2. PICK new \in Open : /\ dialogs' = [dialogs EXCEPT ![d] = new]
                          /\ new.ticked = dialogs[d].ticked /\ new.screen = dialogs[d].screen
                          /\ new.suppliers = dialogs[d].suppliers /\ new.products = dialogs[d].products
                          /\ new.duplicates = dialogs[d].duplicates
                          /\ new.creating = dialogs[d].creating /\ new.phase = "open"
                          /\ new.posting = Nothing
  BY <1>1, PostingIs DEF PostingRefused
<1> QED BY <1>1, <1>2, SameShownStep DEF PostingRefused

\* A dialog shows and posts one supplier.
LEMMA FoundNow ==
  ASSUME NEW s, NEW rows, Grown(s, rows), NEW shown \in {ActiveOf(s.suppliers), ActiveOf(rows)},
         FoundIn(s.gstin, shown) # Nothing
  PROVE  FoundIn(s.gstin, shown) = Him(s, rows)
BY DEF Grown, Him

\* What is submitted is what is shown and ticked.
LEMMA SubmitStep ==
  ASSUME ImportInv, NEW d \in Dialog, Submit(d)
  PROVE  \E new : DialogStep(d, new)
<1>1. /\ IsOpen(d) /\ dialogs[d].screen \in Screen /\ dialogs[d].ticked \in Screen \cup {Nothing}
      /\ Fits(dialogs[d], DOMAIN suppliers, DOMAIN invoices) /\ dialogs[d].phase = "open"
      /\ byHand \subseteq start.byHand
  BY DialogTyped DEF Submit, ImportInv, TrayTypeOK, ImportTypeOK
<1>2. PICK kind : kind = IF CanReceiveExisting(d) THEN "receive" ELSE "create"
  OBVIOUS
<1>3. PICK posting : posting = [kind |-> kind, read |-> FALSE, what |-> dialogs[d].screen,
                                ticked |-> dialogs[d].ticked, planned |-> Nothing]
  OBVIOUS
<1>4. /\ posting \in Posting /\ posting.what = dialogs[d].screen /\ posting.ticked = dialogs[d].ticked
      /\ posting.kind = kind /\ posting # Nothing
  <2>1. kind \in {"create", "receive"}
    BY <1>2
  <2>2. posting \in Posting
    BY <1>1, <1>3, <2>1 DEF Posting
  <2> QED BY <1>3, <2>2, ImportAssumption
<1>5. dialogs' = [dialogs EXCEPT ![d].posting = posting]
  BY <1>2, <1>3 DEF Submit
<1>6. PICK new \in Open : /\ dialogs' = [dialogs EXCEPT ![d] = new]
                          /\ new.ticked = dialogs[d].ticked /\ new.screen = dialogs[d].screen
                          /\ new.suppliers = dialogs[d].suppliers /\ new.products = dialogs[d].products
                          /\ new.duplicates = dialogs[d].duplicates
                          /\ new.creating = dialogs[d].creating /\ new.phase = "open"
                          /\ new.posting = posting
  BY <1>1, <1>4, <1>5, PostingIs
<1>7. /\ dialogs[d].ticked # Nothing /\ dialogs[d].screen.supplier # Nothing
      /\ kind = "receive" => dialogs[d].screen.supplier \in DOMAIN dialogs[d].duplicates
  BY <1>2 DEF Submit, Submittable, Valid, CanReceiveExisting, IsDuplicate
<1>8. Fits(new, DOMAIN suppliers, DOMAIN invoices)
  BY <1>1, <1>4, <1>6, <1>7 DEF Fits
<1>9. OneSupplier /\ "supplier" \notin byHand' => Finds(new, start, suppliers)
  <2> SUFFICES ASSUME OneSupplier, "supplier" \notin byHand' PROVE Finds(new, start, suppliers)
    OBVIOUS
  <2>1. /\ Grown(start, suppliers)
        /\ dialogs[d].suppliers \in {ActiveOf(start.suppliers), ActiveOf(suppliers)}
        /\ dialogs[d].screen.supplier = FoundIn(start.gstin, dialogs[d].suppliers)
        /\ dialogs[d].creating = "supplier" => dialogs[d].screen.supplier = Nothing
    BY <1>1, FoundHolds DEF Submit
  <2>2. dialogs[d].screen.supplier = Him(start, suppliers)
    BY <1>7, <2>1, FoundNow
  <2> QED BY <1>4, <1>6, <2>1, <2>2 DEF Finds
<1> QED BY <1>1, <1>6, <1>8, <1>9 DEF DialogStep, Submit

\* What a handler reads leaves the posting what it was.
LEMMA ReadStep ==
  ASSUME ImportInv, NEW d \in Dialog, IsOpen(d), dialogs[d].posting # Nothing,
         NEW hsn \in Hsn \cup {Nothing},
         dialogs' = [dialogs EXCEPT ![d].posting.read = TRUE, ![d].posting.planned = hsn],
         UNCHANGED <<start, suppliers, products, invoices, byHand>>
  PROVE  \E new : DialogStep(d, new)
<1>1. /\ dialogs[d] \in Open /\ dialogs[d].posting \in Posting /\ dialogs[d].phase = "open"
      /\ Fits(dialogs[d], DOMAIN suppliers, DOMAIN invoices) /\ byHand \subseteq start.byHand
      /\ dialogs \in [Dialog -> Open \cup {Closed}]
  BY DialogTyped DEF ImportInv, TrayTypeOK, ImportTypeOK
<1>2. PICK posting : posting = [[dialogs[d].posting EXCEPT !.read = TRUE] EXCEPT !.planned = hsn]
  OBVIOUS
<1>3. /\ posting \in Posting /\ posting.what = dialogs[d].posting.what /\ posting # Nothing
      /\ posting.ticked = dialogs[d].posting.ticked /\ posting.kind = dialogs[d].posting.kind
  BY <1>1, <1>2, ImportAssumption DEF Posting
<1>4. dialogs' = [dialogs EXCEPT ![d].posting = posting]
  <2>1. PICK mid : mid = [dialogs EXCEPT ![d].posting.read = TRUE]
    OBVIOUS
  <2>2. dialogs' = [mid EXCEPT ![d].posting.planned = hsn]
    BY <2>1
  <2>3. PICK half : half = [dialogs[d].posting EXCEPT !.read = TRUE]
    OBVIOUS
  <2>4. PICK x : x = [dialogs[d] EXCEPT !.posting = half]
    OBVIOUS
  <2>5. mid = [dialogs EXCEPT ![d] = x]
    BY <2>1, <2>3, <2>4
  <2>6. mid[d] = x /\ x.posting = half
    BY <1>1, <2>4, <2>5 DEF Open
  <2>7. PICK y : y = [x EXCEPT !.posting = posting]
    OBVIOUS
  <2>8. dialogs' = [mid EXCEPT ![d] = y]
    BY <1>2, <2>2, <2>3, <2>6, <2>7
  <2>9. y = [dialogs[d] EXCEPT !.posting = posting]
    BY <1>1, <2>4, <2>7 DEF Open
  <2> QED BY <1>1, <2>5, <2>8, <2>9
<1>5. PICK new \in Open : /\ dialogs' = [dialogs EXCEPT ![d] = new]
                          /\ new.ticked = dialogs[d].ticked /\ new.screen = dialogs[d].screen
                          /\ new.suppliers = dialogs[d].suppliers /\ new.products = dialogs[d].products
                          /\ new.duplicates = dialogs[d].duplicates
                          /\ new.creating = dialogs[d].creating /\ new.phase = "open"
                          /\ new.posting = posting
  BY <1>1, <1>3, <1>4, PostingIs
<1>6. Fits(new, DOMAIN suppliers, DOMAIN invoices)
  BY <1>1, <1>3, <1>5 DEF Fits
<1>7. OneSupplier /\ "supplier" \notin byHand' => Finds(new, start, suppliers)
  BY <1>3, <1>5, FoundHolds DEF Finds
<1> QED BY <1>1, <1>5, <1>6, <1>7 DEF DialogStep

\* The reads before a new invoice change the plan of its posting only.
LEMMA ReadForCreateStep ==
  ASSUME ImportInv, NEW d \in Dialog, ReadForCreate(d)
  PROVE  \E new : DialogStep(d, new)
<1>1. IsOpen(d) /\ dialogs[d].posting # Nothing
  BY DEF ReadForCreate, Posted
<1>2. PICK hsn : hsn = PlannedHsn(dialogs[d].posting.what.product, dialogs[d].hsn)
  OBVIOUS
<1>3. hsn \in Hsn \cup {Nothing}
  BY <1>1, <1>2, DialogTyped DEF PlannedHsn
<1> QED BY <1>1, <1>2, <1>3, ReadStep DEF ReadForCreate

\* The reads before a receipt change the plan of its posting only.
LEMMA ReadForReceiveStep ==
  ASSUME ImportInv, NEW d \in Dialog, ReadForReceive(d)
  PROVE  \E new : DialogStep(d, new)
<1>1. IsOpen(d) /\ dialogs[d].posting # Nothing /\ dialogs[d].posting.kind = "receive"
  BY DEF ReadForReceive, Posted
<1>2. PICK s : s = dialogs[d].posting.what.supplier
  OBVIOUS
<1>3. s \in DOMAIN invoices
  BY <1>1, <1>2, DialogTyped DEF Fits
<1>4. invoices[s] \in Invoice
  BY <1>3, RowsAre DEF ImportInv, TrayTypeOK, ImportTypeOK
<1>5. PICK hsn : hsn = PlannedHsn(invoices[s].product, invoices[s].hsn)
  OBVIOUS
<1>6. hsn \in Hsn \cup {Nothing}
  BY <1>4, <1>5 DEF PlannedHsn, Invoice
<1> QED BY <1>1, <1>2, <1>5, <1>6, ReadStep DEF ReadForReceive

-----------------------------------------------------------------------------
(* The supplier.                                                           *)

\* Codes are numbers, and few.
LEMMA CodesAreFew == IsFiniteSet(Code) /\ Nothing \notin Code /\ Code \subseteq Nat
<1>1. MaxCode \in Nat /\ Nothing \notin Nat
  BY ImportAssumption
<1>2. IsFiniteSet(0..MaxCode)
  BY <1>1, FS_Interval
<1>3. Code \subseteq Nat
  BY <1>1 DEF Code
<1> QED BY <1>1, <1>2, <1>3 DEF Code

\* Of one row at most, all is known.
LEMMA NoneOrOne ==
  ASSUME NEW S \in SUBSET Code, Only(S) = Nothing, Cardinality(S) <= 1
  PROVE  S = {}
<1>1. IsFiniteSet(S)
  BY CodesAreFew, FS_Subset
<1>2. Cardinality(S) \in Nat /\ (Cardinality(S) = 0 <=> S = {})
  BY <1>1, FS_CardinalityType, FS_EmptySet
<1>3. Cardinality(S) # 1
  <2>1. SUFFICES ASSUME Cardinality(S) = 1 PROVE FALSE
    OBVIOUS
  <2>2. \E c \in S : TRUE
    BY <1>2, <2>1
  <2>3. Only(S) = CHOOSE c \in S : TRUE
    BY <2>1 DEF Only
  <2>4. Only(S) \in S
    BY <2>2, <2>3
  <2> QED BY <2>4, CodesAreFew
<1> QED BY <1>2, <1>3

\* One alone is the only one.
LEMMA JustOne ==
  ASSUME NEW c
  PROVE  Only({c}) = c
<1>1. Cardinality({c}) = 1
  BY FS_Singleton
<1> QED BY <1>1 DEF Only

\* The rows in force of those that get one more.
LEMMA ActivePut ==
  ASSUME NEW rows \in Rows(Code, Supplier), NEW c \in Code \ DOMAIN rows, NEW row \in Supplier, row.active
  PROVE  ActiveOf(Put(rows, c, row)) = Put(ActiveOf(rows), c, row)
<1>1. PICK r : r = Put(rows, c, row)
  OBVIOUS
<1>2. DOMAIN r = DOMAIN rows \cup {c} /\ r[c] = row /\ \A x \in DOMAIN rows : r[x] = rows[x]
  BY <1>1, RowPut
<1>3. PICK D : D = {x \in DOMAIN rows : rows[x].active}
  OBVIOUS
<1>4. {x \in DOMAIN r : r[x].active} = D \cup {c}
  BY <1>2, <1>3
<1>5. ActiveOf(r) = [x \in D \cup {c} |-> r[x]]
  BY <1>4 DEF ActiveOf
<1>6. ActiveOf(rows) = [x \in D |-> rows[x]] /\ DOMAIN ActiveOf(rows) = D
  BY <1>3 DEF ActiveOf
<1>7. Put(ActiveOf(rows), c, row) = [x \in D \cup {c} |-> IF x = c THEN row ELSE ActiveOf(rows)[x]]
  BY <1>6 DEF Put
<1>8. \A x \in D \cup {c} : r[x] = (IF x = c THEN row ELSE ActiveOf(rows)[x])
  BY <1>2, <1>3, <1>6
<1> QED BY <1>1, <1>5, <1>7, <1>8

\* The supplier a dialog adds, when it finds none, is the one found from then on.
LEMMA NewIsFound ==
  ASSUME NamedOnce, NEW s \in Start, Him(s, s.suppliers) = Nothing,
         NEW c \in Code \ DOMAIN s.suppliers
  PROVE  Him(s, Put(s.suppliers, c, NewSupplier(s))) = c
<1> DEFINE row == NewSupplier(s)
           old == ActiveOf(s.suppliers)
<1>1. s.suppliers \in Rows(Code, Supplier) /\ row \in Supplier /\ row.active /\ s.gstin \in BOOLEAN
  BY ImportAssumption DEF NewSupplier, Supplier
<1>2. PICK now : now = ActiveOf(Put(s.suppliers, c, row))
  OBVIOUS
<1>3. /\ DOMAIN old \subseteq DOMAIN s.suppliers /\ DOMAIN old \subseteq Code /\ c \notin DOMAIN old
      /\ now = Put(old, c, row)
  BY <1>1, <1>2, ActivePut, RowsAre DEF ActiveOf
<1>4. DOMAIN now = DOMAIN old \cup {c} /\ now[c] = row /\ \A x \in DOMAIN old : now[x] = old[x]
  BY <1>3 DEF Put
<1>5. PICK S, N : /\ S = {x \in DOMAIN old : s.gstin /\ old[x].taxId}
                  /\ N = {x \in DOMAIN old : old[x].named}
  OBVIOUS
<1>6. Only(S) = Nothing /\ Only(N) = Nothing
  <2>1. FoundIn(s.gstin, old) = IF Only(S) # Nothing THEN Only(S) ELSE Only(N)
    BY <1>5 DEF FoundIn
  <2> QED BY <2>1 DEF Him
<1>7. N = {}
  <2>1. Cardinality(N) <= 1
    BY <1>5 DEF NamedOnce
  <2> QED BY <1>3, <1>5, <1>6, <2>1, NoneOrOne
<1>8. PICK S1, N1 : /\ S1 = {x \in DOMAIN now : s.gstin /\ now[x].taxId}
                    /\ N1 = {x \in DOMAIN now : now[x].named}
  OBVIOUS
<1>9. N1 = {c}
  BY <1>4, <1>5, <1>7, <1>8 DEF NewSupplier
<1>10. S1 = IF s.gstin THEN S \cup {c} ELSE {}
  BY <1>1, <1>4, <1>5, <1>8 DEF NewSupplier
<1>11. Only(S1) \in {c, Nothing}
  <2>1. CASE S1 = {}
    BY <2>1, OnlyOne
  <2>2. CASE Cardinality(S1) # 1
    BY <2>2 DEF Only
  <2>3. CASE S1 = S \cup {c} /\ Cardinality(S1) = 1
    <3>1. IsFiniteSet(S) /\ c \notin S
      <4>1. S \in SUBSET Code /\ c \notin S
        BY <1>3, <1>5
      <4> QED BY <4>1, CodesAreFew, FS_Subset
    <3>2. Cardinality(S) \in Nat /\ Cardinality(S1) = Cardinality(S) + 1
      BY <2>3, <3>1, FS_AddElement, FS_CardinalityType
    <3>3. S = {}
      BY <2>3, <3>1, <3>2, FS_EmptySet
    <3> QED BY <2>3, <3>3, JustOne
  <2> QED BY <1>10, <2>1, <2>2, <2>3
<1>12. FoundIn(s.gstin, now) = IF Only(S1) # Nothing THEN Only(S1) ELSE Only(N1)
  BY <1>8 DEF FoundIn
<1>13. Only(N1) = c
  BY <1>9, JustOne
<1> QED BY <1>2, <1>11, <1>12, <1>13 DEF Him

-----------------------------------------------------------------------------
(* Adding the supplier or the product.                                     *)

\* Whatever rows there are, one more is among them.
LEMMA PutRow ==
  ASSUME NEW f, NEW k, NEW row
  PROVE  /\ DOMAIN Put(f, k, row) = DOMAIN f \cup {k} /\ Put(f, k, row)[k] = row
         /\ \A x \in DOMAIN f : x # k => Put(f, k, row)[x] = f[x]
BY DEF Put

\* One more supplier.
LEMMA SupplierPut ==
  ASSUME NEW f \in Rows(Code, Supplier), NEW k \in Code, NEW row \in Supplier
  PROVE  Put(f, k, row) \in Rows(Code, Supplier)
BY RowPut

\* One more product.
LEMMA ProductPut ==
  ASSUME NEW f \in Rows(ProductCode, Product), NEW k \in ProductCode, NEW row \in Product
  PROVE  Put(f, k, row) \in Rows(ProductCode, Product)
BY RowPut

\* One more invoice.
LEMMA InvoicePut ==
  ASSUME NEW f \in Rows(Code, Invoice), NEW k \in Code, NEW row \in Invoice
  PROVE  Put(f, k, row) \in Rows(Code, Invoice)
BY RowPut

\* A supplier added is the one that will be found from now on.
LEMMA CreateSupplierKeeps ==
  ASSUME ImportInv, NEW d \in Dialog, CreateSupplier(d), UNCHANGED tray
  PROVE  ImportInv' /\ (NamedOnce /\ OneSupplier => OneSupplier')
<1>1. /\ dialogs[d] \in Open /\ dialogs[d].phase = "open" /\ IsOpen(d) /\ dialogs[d].creating = "supplier"
      /\ dialogs[d].suppliers \in Rows(Code, Supplier) /\ dialogs[d].screen \in Screen
      /\ Fits(dialogs[d], DOMAIN suppliers, DOMAIN invoices) /\ tray[d].at = "confirm"
      /\ tray \in [Dialog -> Tray] /\ dialogs \in [Dialog -> Open \cup {Closed}]
      /\ start \in Start /\ suppliers \in Rows(Code, Supplier)
  BY DialogTyped DEF CreateSupplier, ImportInv, TrayTypeOK, ImportTypeOK
<1>2. PICK c, row : c = UniqueCode(d) /\ row = [named |-> TRUE, taxId |-> start.gstin, active |-> TRUE]
  OBVIOUS
<1>3. /\ c \in Code \ DOMAIN suppliers /\ suppliers' = Put(suppliers, c, row)
      /\ UNCHANGED <<start, products, invoices, byHand>>
  BY <1>2 DEF CreateSupplier
<1>4. row = NewSupplier(start) /\ row \in Supplier /\ row.active
  BY <1>1, <1>2, ImportAssumption DEF NewSupplier, Supplier
<1>5. /\ suppliers' \in Rows(Code, Supplier) /\ DOMAIN suppliers' = DOMAIN suppliers \cup {c}
      /\ suppliers'[c] = row /\ \A x \in DOMAIN suppliers : suppliers'[x] = suppliers[x]
  <2>1. c \in Code /\ c \notin DOMAIN suppliers
    BY <1>3
  <2>2. /\ Put(suppliers, c, row) \in Rows(Code, Supplier)
        /\ DOMAIN Put(suppliers, c, row) = DOMAIN suppliers \cup {c} /\ Put(suppliers, c, row)[c] = row
        /\ \A x \in DOMAIN suppliers : x # c => Put(suppliers, c, row)[x] = suppliers[x]
    <3>1. Put(suppliers, c, row) \in Rows(Code, Supplier)
      BY <1>1, <1>4, <2>1, SupplierPut
    <3>2. /\ DOMAIN Put(suppliers, c, row) = DOMAIN suppliers \cup {c} /\ Put(suppliers, c, row)[c] = row
          /\ \A x \in DOMAIN suppliers : x # c => Put(suppliers, c, row)[x] = suppliers[x]
      BY DEF Put
    <3> QED BY <3>1, <3>2
  <2> QED BY <1>3, <2>1, <2>2
<1>6. RowsGrow
  BY <1>3, <1>5 DEF RowsGrow, ImportInv, TrayTypeOK, ImportTypeOK
<1>7. PICK shown : shown = Put(dialogs[d].suppliers, c, row)
  OBVIOUS
<1>8. shown \in Rows(Code, Supplier) /\ DOMAIN shown = DOMAIN dialogs[d].suppliers \cup {c}
  <2>1. c \in Code
    BY <1>3
  <2>2. shown \in Rows(Code, Supplier)
    BY <1>1, <1>4, <1>7, <2>1, SupplierPut
  <2> QED BY <1>7, <2>2, PutRow
<1>9. PICK new \in Open :
        /\ dialogs' = [dialogs EXCEPT ![d] = new]
        /\ new.phase = "open" /\ new.creating = "no" /\ new.posting = dialogs[d].posting
        /\ new.products = dialogs[d].products /\ new.duplicates = dialogs[d].duplicates
        /\ \/ /\ new.suppliers = shown /\ new.ticked = Nothing
              /\ new.screen.supplier = c /\ new.screen.product = dialogs[d].screen.product
           \/ /\ new.suppliers = dialogs[d].suppliers /\ new.ticked = dialogs[d].ticked
              /\ new.screen = dialogs[d].screen
  <2>1. \/ dialogs' = [dialogs EXCEPT ![d] = WithSupplier(dialogs[d], c, row)]
        \/ dialogs' = [dialogs EXCEPT ![d] = [dialogs[d] EXCEPT !.creating = "no"]]
    BY <1>2 DEF CreateSupplier
  <2>2. CASE dialogs' = [dialogs EXCEPT ![d] = [dialogs[d] EXCEPT !.creating = "no"]]
    <3>1. PICK new : new = [dialogs[d] EXCEPT !.creating = "no"]
      OBVIOUS
    <3>2. /\ new \in Open /\ new.phase = "open" /\ new.creating = "no" /\ new.posting = dialogs[d].posting
          /\ new.products = dialogs[d].products /\ new.duplicates = dialogs[d].duplicates
          /\ new.suppliers = dialogs[d].suppliers /\ new.ticked = dialogs[d].ticked
          /\ new.screen = dialogs[d].screen
      BY <1>1, <3>1 DEF Open
    <3> QED BY <2>2, <3>1, <3>2
  <2>3. CASE dialogs' = [dialogs EXCEPT ![d] = WithSupplier(dialogs[d], c, row)]
    <3>1. PICK scr : scr = [dialogs[d].screen EXCEPT !.supplier = c]
      OBVIOUS
    <3>2. scr \in Screen /\ scr.supplier = c /\ scr.product = dialogs[d].screen.product
      BY <1>1, <1>3, <3>1 DEF Screen
    <3>3. PICK new : new = [dialogs[d] EXCEPT !.creating = "no", !.ticked = Nothing,
                                              !.suppliers = shown, !.screen = scr]
      OBVIOUS
    <3>4. /\ new \in Open /\ new.phase = "open" /\ new.creating = "no" /\ new.posting = dialogs[d].posting
          /\ new.products = dialogs[d].products /\ new.duplicates = dialogs[d].duplicates
          /\ new.suppliers = shown /\ new.ticked = Nothing /\ new.screen = scr
      BY <1>1, <1>8, <3>2, <3>3 DEF Open
    <3>5. WithSupplier(dialogs[d], c, row) = new
      BY <1>1, <1>7, <3>1, <3>3 DEF WithSupplier, Open
    <3> QED BY <2>3, <3>2, <3>4, <3>5
  <2> QED BY <2>1, <2>2, <2>3
<1>10. Fits(new, DOMAIN suppliers', DOMAIN invoices')
  BY <1>1, <1>3, <1>5, <1>8, <1>9 DEF Fits
<1>11. ImportInv'
  BY <1>1, <1>6, <1>9, <1>10, DialogStepKeeps
<1>12. ASSUME NamedOnce, OneSupplier PROVE OneSupplier'
  <2> SUFFICES ASSUME "supplier" \notin byHand'
               PROVE  /\ Grown(start', suppliers')
                      /\ \A s \in DOMAIN invoices' : s = Him(start', suppliers')
                      /\ \A e \in Dialog : Finds(dialogs'[e], start', suppliers')
    BY DEF OneSupplier
  <2>1. "supplier" \notin byHand /\ start' = start /\ invoices' = invoices
    BY <1>3
  <2>2. /\ Grown(start, suppliers) /\ \A s \in DOMAIN invoices : s = Him(start, suppliers)
        /\ dialogs[d].suppliers \in {ActiveOf(start.suppliers), ActiveOf(suppliers)}
        /\ FoundIn(start.gstin, dialogs[d].suppliers) = Nothing
    BY <1>1, <1>12, <2>1, FoundHolds
  <2>3. Him(start, suppliers) # Nothing \/ suppliers = start.suppliers
    <3>1. ASSUME Him(start, start.suppliers) = Nothing, NewCode(start) \in Code \ DOMAIN start.suppliers,
                 suppliers = Put(start.suppliers, NewCode(start), NewSupplier(start))
          PROVE  Him(start, suppliers) # Nothing
      BY <1>1, <1>12, <3>1, NewIsFound, CodesAreFew
    <3> QED BY <2>2, <3>1 DEF Grown
  <2>4. Him(start, start.suppliers) = Nothing /\ dialogs[d].suppliers = ActiveOf(start.suppliers)
    <3>1. CASE dialogs[d].suppliers = ActiveOf(start.suppliers)
      BY <2>2, <3>1 DEF Him
    <3>2. CASE dialogs[d].suppliers = ActiveOf(suppliers)
      <4>1. Him(start, suppliers) = Nothing
        BY <2>2, <3>2 DEF Him
      <4>2. suppliers = start.suppliers
        BY <2>3, <4>1
      <4> QED BY <3>2, <4>1, <4>2
    <3> QED BY <2>2, <3>1, <3>2
  <2>5. c = NewCode(start)
    BY <1>2, <2>4 DEF UniqueCode, NewCode
  <2>6. suppliers = start.suppliers
    <3>1. NewCode(start) \notin DOMAIN suppliers
      BY <1>3, <2>5
    <3>2. ASSUME suppliers = Put(start.suppliers, NewCode(start), NewSupplier(start))
          PROVE  FALSE
      BY <3>1, <3>2 DEF Put
    <3> QED BY <2>2, <3>2 DEF Grown
  <2>7. Him(start, suppliers) = Nothing
    BY <2>4, <2>6
  <2>8. Him(start, suppliers') = c
    BY <1>1, <1>3, <1>4, <1>12, <2>4, <2>6, NewIsFound
  <2>9. Grown(start, suppliers')
    BY <1>3, <1>4, <2>4, <2>5, <2>6 DEF Grown
  <2>10. shown = ActiveOf(suppliers') /\ FoundIn(start.gstin, shown) = c
    <3>1. shown = ActiveOf(suppliers')
      BY <1>1, <1>3, <1>4, <1>7, <2>4, <2>6, ActivePut
    <3> QED BY <2>8, <3>1 DEF Him
  <2>11. DOMAIN invoices = {}
    <3>1. DOMAIN invoices \subseteq Code
      BY RowsAre DEF ImportInv, TrayTypeOK, ImportTypeOK
    <3> QED BY <2>2, <2>7, <3>1, CodesAreFew
  <2>12. ASSUME NEW e \in Dialog, IsOpen(e) PROVE dialogs[e].posting = Nothing
    <3>1. dialogs[e].posting # Nothing => dialogs[e].posting.what.supplier = Nothing
      BY <1>12, <2>1, <2>7, <2>12, FoundHolds
    <3>2. dialogs[e].posting # Nothing => dialogs[e].posting.what.supplier \in DOMAIN suppliers
      BY <2>12, DialogTyped DEF Fits
    <3>3. DOMAIN suppliers \subseteq Code
      BY <1>1, RowsAre
    <3> QED BY <3>1, <3>2, <3>3, CodesAreFew
  <2>13. Finds(new, start, suppliers')
    <3>1. new.posting = Nothing
      BY <1>1, <1>9, <2>12
    <3>2. CASE new.suppliers = shown /\ new.screen.supplier = c
      BY <1>9, <2>10, <3>1, <3>2 DEF Finds
    <3>3. CASE new.suppliers = dialogs[d].suppliers /\ new.screen = dialogs[d].screen
      <4>1. dialogs[d].screen.supplier = FoundIn(start.gstin, dialogs[d].suppliers)
        BY <1>1, <1>12, <2>1, FoundHolds
      <4> QED BY <1>9, <2>4, <3>1, <3>3, <4>1 DEF Finds
    <3> QED BY <1>9, <3>2, <3>3
  <2>14. ASSUME NEW e \in Dialog, e # d PROVE Finds(dialogs[e], start, suppliers')
    <3> SUFFICES ASSUME dialogs[e].phase = "open" PROVE Finds(dialogs[e], start, suppliers')
      BY DEF Finds
    <3>1. IsOpen(e)
      BY DEF IsOpen
    <3>2. /\ dialogs[e].suppliers = ActiveOf(start.suppliers)
          /\ dialogs[e].screen.supplier = FoundIn(start.gstin, dialogs[e].suppliers)
          /\ dialogs[e].creating = "supplier" => dialogs[e].screen.supplier = Nothing
      BY <1>12, <2>1, <2>6, <3>1, FoundHolds
    <3>3. dialogs[e].posting = Nothing
      BY <2>12, <3>1
    <3> QED BY <3>2, <3>3 DEF Finds
  <2>15. \A e \in Dialog : dialogs'[e] = IF e = d THEN new ELSE dialogs[e]
    BY <1>1, <1>9
  <2> QED BY <2>1, <2>9, <2>11, <2>13, <2>14, <2>15
<1> QED BY <1>11, <1>12

\* A product added, heard of or not, keeps both invariants.
LEMMA CreateProductKeeps ==
  ASSUME ImportInv, NEW d \in Dialog, CreateProduct(d), UNCHANGED tray
  PROVE  ImportInv' /\ (OneSupplier => OneSupplier')
<1>1. /\ dialogs[d] \in Open /\ dialogs[d].phase = "open" /\ IsOpen(d) /\ dialogs[d].creating = "product"
      /\ dialogs[d].products \in Rows(ProductCode, Product) /\ dialogs[d].screen \in Screen
      /\ dialogs[d].hsn \in Hsn \cup {Nothing}
      /\ Fits(dialogs[d], DOMAIN suppliers, DOMAIN invoices) /\ tray[d].at = "confirm"
      /\ tray \in [Dialog -> Tray] /\ dialogs \in [Dialog -> Open \cup {Closed}]
      /\ products \in Rows(ProductCode, Product)
  BY DialogTyped DEF CreateProduct, ImportInv, TrayTypeOK, ImportTypeOK
<1>2. PICK p, row : /\ p = LeastFree(DOMAIN dialogs[d].products)
                    /\ row = [named |-> TRUE, hsn |-> dialogs[d].hsn, tankLinked |-> FALSE]
  OBVIOUS
<1>3. /\ p \in ProductCode \ DOMAIN products /\ products' = Put(products, p, row)
      /\ UNCHANGED <<start, suppliers, invoices, byHand>>
  BY <1>2 DEF CreateProduct
<1>4. row \in Product
  BY <1>1, <1>2 DEF Product
<1>5. products' \in Rows(ProductCode, Product)
  BY <1>1, <1>3, <1>4, ProductPut, PutRow
<1>6. RowsGrow
  BY <1>3, <1>5 DEF RowsGrow, ImportInv, TrayTypeOK, ImportTypeOK
<1>7. PICK shown : shown = Put(dialogs[d].products, p, row)
  OBVIOUS
<1>8. shown \in Rows(ProductCode, Product) /\ DOMAIN shown = DOMAIN dialogs[d].products \cup {p}
  <2>1. p \in ProductCode
    BY <1>3
  <2>2. shown \in Rows(ProductCode, Product)
    BY <1>1, <1>4, <1>7, <2>1, ProductPut
  <2> QED BY <1>7, <2>2, PutRow
<1>9. PICK new \in Open :
        /\ dialogs' = [dialogs EXCEPT ![d] = new]
        /\ new.phase = "open" /\ new.creating = "no" /\ new.posting = dialogs[d].posting
        /\ new.suppliers = dialogs[d].suppliers /\ new.duplicates = dialogs[d].duplicates
        /\ new.screen.supplier = dialogs[d].screen.supplier
        /\ \/ new.products = shown /\ new.ticked = Nothing /\ new.screen.product = p
           \/ /\ new.products = dialogs[d].products /\ new.ticked = dialogs[d].ticked
              /\ new.screen = dialogs[d].screen
  <2>1. \/ dialogs' = [dialogs EXCEPT ![d] = WithProduct(dialogs[d], p, row)]
        \/ dialogs' = [dialogs EXCEPT ![d] = [dialogs[d] EXCEPT !.creating = "no"]]
    BY <1>2 DEF CreateProduct
  <2>2. CASE dialogs' = [dialogs EXCEPT ![d] = [dialogs[d] EXCEPT !.creating = "no"]]
    <3>1. PICK new : new = [dialogs[d] EXCEPT !.creating = "no"]
      OBVIOUS
    <3>2. /\ new \in Open /\ new.phase = "open" /\ new.creating = "no" /\ new.posting = dialogs[d].posting
          /\ new.products = dialogs[d].products /\ new.duplicates = dialogs[d].duplicates
          /\ new.suppliers = dialogs[d].suppliers /\ new.ticked = dialogs[d].ticked
          /\ new.screen = dialogs[d].screen
      BY <1>1, <3>1 DEF Open
    <3> QED BY <2>2, <3>1, <3>2
  <2>3. CASE dialogs' = [dialogs EXCEPT ![d] = WithProduct(dialogs[d], p, row)]
    <3>1. PICK scr : scr = [dialogs[d].screen EXCEPT !.product = p, !.tank = Nothing]
      OBVIOUS
    <3>2. scr \in Screen /\ scr.product = p /\ scr.supplier = dialogs[d].screen.supplier
      BY <1>1, <1>3, <3>1 DEF Screen
    <3>3. PICK new : new = [dialogs[d] EXCEPT !.creating = "no", !.ticked = Nothing,
                                              !.products = shown, !.screen = scr]
      OBVIOUS
    <3>4. /\ new \in Open /\ new.phase = "open" /\ new.creating = "no" /\ new.posting = dialogs[d].posting
          /\ new.suppliers = dialogs[d].suppliers /\ new.duplicates = dialogs[d].duplicates
          /\ new.products = shown /\ new.ticked = Nothing /\ new.screen = scr
      BY <1>1, <1>8, <3>2, <3>3 DEF Open
    <3>5. WithProduct(dialogs[d], p, row) = new
      BY <1>1, <1>7, <3>1, <3>3 DEF WithProduct, Open, Screen
    <3> QED BY <2>3, <3>2, <3>4, <3>5
  <2> QED BY <2>1, <2>2, <2>3
<1>10. Fits(new, DOMAIN suppliers', DOMAIN invoices')
  BY <1>1, <1>3, <1>8, <1>9 DEF Fits
<1>11. ImportInv'
  BY <1>1, <1>6, <1>9, <1>10, DialogStepKeeps
<1>12. ASSUME OneSupplier PROVE OneSupplier'
  <2>1. \A e \in Dialog : dialogs'[e] = IF e = d THEN new ELSE dialogs[e]
    BY <1>1, <1>9
  <2>2. "supplier" \notin byHand => Finds(new, start, suppliers)
    BY <1>1, <1>9, <1>12, FoundHolds DEF Finds
  <2> QED BY <1>3, <1>12, <2>1, <2>2 DEF OneSupplier
<1> QED BY <1>11, <1>12

-----------------------------------------------------------------------------
(* The transactions, and changes by hand.                                  *)

\* A product's code is put on it, or not.
LEMMA SyncTyped ==
  ASSUME products \in Rows(ProductCode, Product), NEW p, NEW planned \in Hsn \cup {Nothing},
         SyncHsn(p, planned)
  PROVE  products' \in Rows(ProductCode, Product)
<1>1. DOMAIN products \subseteq ProductCode /\ products \in [DOMAIN products -> Product]
  BY RowsAre
<1>2. CASE products' = products
  BY <1>2
<1>3. CASE products' = [products EXCEPT ![p].hsn = planned] /\ p \in DOMAIN products
  <2>1. PICK row : row = [products[p] EXCEPT !.hsn = planned]
    OBVIOUS
  <2>2. row \in Product
    BY <1>1, <1>3, <2>1 DEF Product
  <2>3. products' = [products EXCEPT ![p] = row]
    BY <1>3, <2>1
  <2>4. DOMAIN products' = DOMAIN products /\ products' \in [DOMAIN products -> Product]
    BY <1>1, <2>2, <2>3
  <2> QED BY <1>1, <2>4, RowsAre
<1>4. CASE products' = [products EXCEPT ![p].hsn = planned] /\ p \notin DOMAIN products
  <2>1. products' = products
    BY <1>1, <1>4
  <2> QED BY <2>1
<1> QED BY <1>2, <1>3, <1>4 DEF SyncHsn

\* A posting that succeeds closes its dialog.
LEMMA CommitSafe ==
  ASSUME ImportInv, RowsGrow, NEW d \in Dialog, dialogs' = [dialogs EXCEPT ![d] = Closed],
         suppliers' = suppliers,
         tray' \in [Dialog -> Tray], \A e \in Dialog : e # d => tray'[e] = tray[e],
         IsOpen(d), dialogs[d].posting # Nothing,
         \A s \in DOMAIN invoices' : s \in DOMAIN invoices \/ s = dialogs[d].posting.what.supplier
  PROVE  ImportInv' /\ (OneSupplier => OneSupplier')
<1>1. Closed.phase # "open"
  BY DEF Closed
<1>2. Fits(Closed, DOMAIN suppliers', DOMAIN invoices') /\ Finds(Closed, start, suppliers)
  BY <1>1 DEF Fits, Finds
<1>3. ImportInv'
  BY <1>1, <1>2, DialogStepKeeps
<1>4. ASSUME OneSupplier PROVE OneSupplier'
  <2>1. dialogs \in [Dialog -> Open \cup {Closed}] /\ start' = start /\ byHand \subseteq byHand'
    BY DEF ImportInv, TrayTypeOK, ImportTypeOK, RowsGrow
  <2>2. \A e \in Dialog : dialogs'[e] = IF e = d THEN Closed ELSE dialogs[e]
    BY <2>1
  <2>3. "supplier" \notin byHand => \A s \in DOMAIN invoices' : s = Him(start, suppliers)
    BY <1>4, FoundHolds
  <2> QED BY <1>2, <1>4, <2>1, <2>2, <2>3 DEF OneSupplier
<1> QED BY <1>3, <1>4

\* A new invoice is of the supplier that is found now.
LEMMA CommitCreateSafe ==
  ASSUME ImportInv, NEW d \in Dialog, CommitCreate(d),
         tray' \in [Dialog -> Tray], \A e \in Dialog : e # d => tray'[e] = tray[e]
  PROVE  ImportInv' /\ (OneSupplier => OneSupplier')
<1>1. IsOpen(d) /\ dialogs[d].posting # Nothing
  BY DEF CommitCreate, Posted
<1>2. /\ dialogs[d].posting \in Posting /\ dialogs[d].hsn \in Hsn \cup {Nothing}
      /\ dialogs[d].posting.what.supplier \in DOMAIN suppliers
      /\ suppliers \in Rows(Code, Supplier) /\ products \in Rows(ProductCode, Product)
      /\ invoices \in Rows(Code, Invoice) /\ DOMAIN invoices \subseteq DOMAIN suppliers
      /\ byHand \subseteq start.byHand
  BY <1>1, DialogTyped DEF Fits, ImportInv, TrayTypeOK, ImportTypeOK
<1>3. PICK what, posting : posting = dialogs[d].posting /\ what = posting.what
  OBVIOUS
<1>4. what \in Screen /\ posting.planned \in Hsn \cup {Nothing} /\ what.supplier \in DOMAIN suppliers
  BY <1>2, <1>3 DEF Posting
<1>5. PICK row : row = [product |-> what.product, hsn |-> dialogs[d].hsn,
                        received |-> what.receiveNow,
                        tank |-> IF what.receiveNow THEN what.tank ELSE Nothing]
  OBVIOUS
<1>6. row \in Invoice
  BY <1>2, <1>4, <1>5 DEF Invoice, Screen
<1>7. what.supplier \in Code
  BY <1>2, <1>4, RowsAre
<1>8. /\ SyncHsn(what.product, posting.planned) /\ invoices' = Put(invoices, what.supplier, row)
      /\ dialogs' = [dialogs EXCEPT ![d] = Closed] /\ UNCHANGED <<start, suppliers, byHand>>
  BY <1>3, <1>5 DEF CommitCreate
<1>9. products' \in Rows(ProductCode, Product)
  BY <1>2, <1>4, <1>8, SyncTyped
<1>10. invoices' \in Rows(Code, Invoice)
  BY <1>2, <1>6, <1>7, <1>8, InvoicePut
<1>11. DOMAIN invoices' = DOMAIN invoices \cup {what.supplier}
  BY <1>8 DEF Put
<1>12. RowsGrow
  BY <1>2, <1>4, <1>8, <1>9, <1>10, <1>11 DEF RowsGrow
<1> QED BY <1>1, <1>3, <1>8, <1>11, <1>12, CommitSafe

\* A receipt adds no invoice.
LEMMA CommitReceiveSafe ==
  ASSUME ImportInv, NEW d \in Dialog, CommitReceive(d),
         tray' \in [Dialog -> Tray], \A e \in Dialog : e # d => tray'[e] = tray[e]
  PROVE  ImportInv' /\ (OneSupplier => OneSupplier')
<1>1. IsOpen(d) /\ dialogs[d].posting # Nothing /\ dialogs[d].posting.kind = "receive"
  BY DEF CommitReceive, Posted
<1>2. /\ dialogs[d].posting \in Posting
      /\ dialogs[d].posting.what.supplier \in DOMAIN invoices
      /\ suppliers \in Rows(Code, Supplier) /\ products \in Rows(ProductCode, Product)
      /\ invoices \in Rows(Code, Invoice) /\ DOMAIN invoices \subseteq DOMAIN suppliers
      /\ byHand \subseteq start.byHand
  BY <1>1, DialogTyped DEF Fits, ImportInv, TrayTypeOK, ImportTypeOK
<1>3. PICK what, posting, s : posting = dialogs[d].posting /\ what = posting.what /\ s = what.supplier
  OBVIOUS
<1>4. what \in Screen /\ posting.planned \in Hsn \cup {Nothing} /\ s \in DOMAIN invoices
  BY <1>2, <1>3 DEF Posting
<1>5. DOMAIN invoices \subseteq Code /\ invoices \in [DOMAIN invoices -> Invoice]
  BY <1>2, RowsAre
<1>6. /\ SyncHsn(what.product, posting.planned)
      /\ invoices' = [invoices EXCEPT ![s].received = TRUE, ![s].tank = what.tank]
      /\ dialogs' = [dialogs EXCEPT ![d] = Closed] /\ UNCHANGED <<start, suppliers, byHand>>
  BY <1>3 DEF CommitReceive
<1>7. products' \in Rows(ProductCode, Product)
  BY <1>2, <1>4, <1>6, SyncTyped
<1>8. PICK row : row = [[invoices[s] EXCEPT !.received = TRUE] EXCEPT !.tank = what.tank]
  OBVIOUS
<1>9. row \in Invoice
  BY <1>4, <1>5, <1>8 DEF Invoice, Screen
<1>10. invoices' = [invoices EXCEPT ![s] = row]
  BY <1>4, <1>5, <1>6, <1>8
<1>11. DOMAIN invoices' = DOMAIN invoices /\ invoices' \in [DOMAIN invoices -> Invoice]
  BY <1>5, <1>9, <1>10
<1>12. invoices' \in Rows(Code, Invoice)
  BY <1>5, <1>11, RowsAre
<1>13. RowsGrow
  BY <1>2, <1>6, <1>7, <1>11, <1>12 DEF RowsGrow
<1> QED BY <1>1, <1>6, <1>11, <1>13, CommitSafe

\* A supplier added by hand keeps the first; the second then asks nothing.
LEMMA AddSupplierSafe ==
  ASSUME ImportInv, NEW named \in BOOLEAN, NEW taxId \in BOOLEAN, AddSupplier(named, taxId), tray' = tray
  PROVE  ImportInv' /\ OneSupplier'
<1>1. /\ suppliers \in Rows(Code, Supplier) /\ products \in Rows(ProductCode, Product)
      /\ invoices \in Rows(Code, Invoice) /\ DOMAIN invoices \subseteq DOMAIN suppliers
      /\ byHand \subseteq start.byHand
  BY DEF ImportInv, TrayTypeOK, ImportTypeOK
<1>2. PICK c, row : /\ c = IF named THEN 1 ELSE 0
                    /\ row = [named |-> named, taxId |-> taxId, active |-> TRUE]
  OBVIOUS
<1>3. /\ suppliers' = Put(suppliers, c, row) /\ ChangeByHand("supplier")
      /\ UNCHANGED <<start, products, invoices, dialogs>>
  BY <1>2 DEF AddSupplier
<1>4. c \in Code /\ row \in Supplier
  BY <1>2, ImportAssumption DEF Code, Supplier
<1>5. suppliers' \in Rows(Code, Supplier)
  BY <1>1, <1>3, <1>4, SupplierPut
<1>6. DOMAIN suppliers' = DOMAIN suppliers \cup {c}
  BY <1>3 DEF Put
<1>7. "supplier" \in byHand' /\ byHand \subseteq byHand' /\ byHand' \subseteq start.byHand
  BY <1>1, <1>3 DEF ChangeByHand
<1>8. RowsGrow
  BY <1>1, <1>3, <1>5, <1>6, <1>7 DEF RowsGrow
<1> QED BY <1>3, <1>7, <1>8, RowsStepKeeps DEF OneSupplier

\* A supplier edited by hand keeps the first; the second then asks nothing.
LEMMA UpdateSupplierSafe ==
  ASSUME ImportInv, NEW c \in DOMAIN suppliers, UpdateSupplier(c), tray' = tray
  PROVE  ImportInv' /\ OneSupplier'
<1>1. /\ suppliers \in Rows(Code, Supplier) /\ products \in Rows(ProductCode, Product)
      /\ invoices \in Rows(Code, Invoice) /\ DOMAIN invoices \subseteq DOMAIN suppliers
      /\ byHand \subseteq start.byHand
  BY DEF ImportInv, TrayTypeOK, ImportTypeOK
<1>2. DOMAIN suppliers \subseteq Code /\ suppliers \in [DOMAIN suppliers -> Supplier]
  BY <1>1, RowsAre
<1>3. ChangeByHand("supplier") /\ UNCHANGED <<start, products, invoices, dialogs>>
  BY DEF UpdateSupplier
<1>4. PICK row \in Supplier : suppliers' = [suppliers EXCEPT ![c] = row]
  <2>1. PICK x, y, z : /\ x = [suppliers[c] EXCEPT !.named = ~suppliers[c].named]
                       /\ y = [suppliers[c] EXCEPT !.taxId = ~suppliers[c].taxId]
                       /\ z = [suppliers[c] EXCEPT !.active = ~suppliers[c].active]
    OBVIOUS
  <2>2. x \in Supplier /\ y \in Supplier /\ z \in Supplier
    BY <1>2, <2>1 DEF Supplier
  <2>3. \/ suppliers' = [suppliers EXCEPT ![c] = x]
        \/ suppliers' = [suppliers EXCEPT ![c] = y]
        \/ suppliers' = [suppliers EXCEPT ![c] = z]
    BY <2>1 DEF UpdateSupplier
  <2> QED BY <2>2, <2>3
<1>5. DOMAIN suppliers' = DOMAIN suppliers /\ suppliers' \in [DOMAIN suppliers -> Supplier]
  BY <1>2, <1>4
<1>6. suppliers' \in Rows(Code, Supplier)
  BY <1>2, <1>5, RowsAre
<1>7. "supplier" \in byHand' /\ byHand \subseteq byHand' /\ byHand' \subseteq start.byHand
  BY <1>1, <1>3 DEF ChangeByHand
<1>8. RowsGrow
  BY <1>1, <1>3, <1>5, <1>6, <1>7 DEF RowsGrow
<1> QED BY <1>3, <1>7, <1>8, RowsStepKeeps DEF OneSupplier

\* A product edited by hand keeps both.
LEMMA UpdateProductSafe ==
  ASSUME ImportInv, NEW p \in DOMAIN products, NEW hsn \in Hsn \cup {Nothing}, UpdateProduct(p, hsn),
         tray' = tray
  PROVE  ImportInv' /\ (OneSupplier => OneSupplier')
<1>1. /\ suppliers \in Rows(Code, Supplier) /\ products \in Rows(ProductCode, Product)
      /\ invoices \in Rows(Code, Invoice) /\ DOMAIN invoices \subseteq DOMAIN suppliers
      /\ byHand \subseteq start.byHand
  BY DEF ImportInv, TrayTypeOK, ImportTypeOK
<1>2. DOMAIN products \subseteq ProductCode /\ products \in [DOMAIN products -> Product]
  BY <1>1, RowsAre
<1>3. /\ products' = [products EXCEPT ![p].hsn = hsn] /\ ChangeByHand("product")
      /\ UNCHANGED <<start, suppliers, invoices, dialogs>>
  BY DEF UpdateProduct
<1>4. PICK row : row = [products[p] EXCEPT !.hsn = hsn]
  OBVIOUS
<1>5. row \in Product
  BY <1>2, <1>4 DEF Product
<1>6. DOMAIN products' = DOMAIN products /\ products' \in [DOMAIN products -> Product]
  <2>1. products' = [products EXCEPT ![p] = row]
    BY <1>3, <1>4
  <2> QED BY <1>2, <1>5, <2>1
<1>7. products' \in Rows(ProductCode, Product)
  BY <1>2, <1>6, RowsAre
<1>8. byHand \subseteq byHand' /\ byHand' \subseteq start.byHand
  BY <1>1, <1>3 DEF ChangeByHand
<1>9. RowsGrow
  BY <1>1, <1>3, <1>7, <1>8 DEF RowsGrow
<1>10. OneSupplier => OneSupplier'
  BY <1>3, <1>8 DEF OneSupplier
<1> QED BY <1>3, <1>9, <1>10, RowsStepKeeps

-----------------------------------------------------------------------------
(* The tray.                                                               *)

\* What is loaded are records, and an empty tray is a tray.
LEMMA LoadedTyped ==
  ASSUME suppliers \in Rows(Code, Supplier), NEW records \in Loaded
  PROVE  EmptyTray(records) \in Tray /\ EmptyTray(records).at = "tray"
<1>1. PICK s : s = FindMatchingSupplier(Active)
  OBVIOUS
<1>2. s \in Code \cup {Nothing}
  <2>1. s \in DOMAIN Active \cup {Nothing}
    BY <1>1, FoundIsFound, Found
  <2>2. DOMAIN Active \subseteq DOMAIN suppliers
    BY DEF Active
  <2>3. DOMAIN suppliers \subseteq Code
    BY RowsAre
  <2> QED BY <2>1, <2>2, <2>3
<1>3. records \in Records
  <2> DEFINE isShown == s \in DOMAIN invoices
  <2>0. isShown \in BOOLEAN
    OBVIOUS
  <2>1a. records \in {[supplier |-> s, shown |-> shown] : shown \in {FALSE, isShown}}
    BY <1>1, Zenon DEF Loaded
  <2> HIDE DEF isShown
  <2>1. PICK shown \in BOOLEAN : records = [supplier |-> s, shown |-> shown]
    BY <2>0, <2>1a, Zenon
  <2> QED BY <1>2, <2>1 DEF Records
<1> QED BY <1>3 DEF EmptyTray, Tray, Status

\* A change of station leaves an empty tray.
LEMMA SwitchStationStep ==
  ASSUME ImportInv, NEW d \in Dialog, SwitchStation(d)
  PROVE  ImportInv'
<1>1. suppliers \in Rows(Code, Supplier) /\ ~IsOpen(d)
  BY DEF ImportInv, TrayTypeOK, ImportTypeOK, SwitchStation, At
<1>2. PICK records \in Loaded : tray' = [tray EXCEPT ![d] = EmptyTray(records)]
  BY DEF SwitchStation
<1>3. PICK t : t = EmptyTray(records)
  OBVIOUS
<1> QED BY <1>1, <1>2, <1>3, LoadedTyped, TrayStepKeeps DEF SwitchStation

\* A document removed leaves an empty tray.
LEMMA RemoveInvoiceStep ==
  ASSUME ImportInv, NEW d \in Dialog, RemoveInvoice(d)
  PROVE  ImportInv'
<1>1. tray[d] \in Tray /\ ~IsOpen(d)
  BY DEF ImportInv, TrayTypeOK, RemoveInvoice, At
<1>2. PICK t : t = EmptyTray(tray[d].records)
  OBVIOUS
<1>3. t \in Tray
  BY <1>1, <1>2 DEF EmptyTray, Tray, Status
<1> QED BY <1>1, <1>2, <1>3, TrayStepKeeps DEF RemoveInvoice

\* How far the document is read.
LEMMA BecomesStep ==
  ASSUME ImportInv, NEW d \in Dialog, NEW status \in Status, Becomes(d, status), RowsStay
  PROVE  ImportInv'
<1>1. tray[d] \in Tray /\ (IsOpen(d) => tray[d].at = "confirm")
  BY DEF ImportInv, TrayTypeOK
<1>2. PICK t : t = [tray[d] EXCEPT !.status = status]
  OBVIOUS
<1>3. t \in Tray /\ t.at = tray[d].at
  BY <1>1, <1>2 DEF Tray
<1>4. tray' = [tray EXCEPT ![d] = t]
  BY <1>2 DEF Becomes
<1> QED BY <1>1, <1>3, <1>4, TrayStepKeeps

\* Choosing and reading a document changes its status.
LEMMA ReadingSteps ==
  ASSUME ImportInv, NEW d \in Dialog, ChooseInvoice(d) \/ ReadText(d) \/ Recognize(d)
  PROVE  ImportInv'
<1>1. \E status \in Status : Becomes(d, status)
  BY DEF ChooseInvoice, ReadText, Recognize, Status
<1> QED BY <1>1, BecomesStep DEF ChooseInvoice, ReadText, Recognize

\* Another dialog of the page is shown: not while the confirmation is.
LEMMA GoToStep ==
  ASSUME ImportInv, NEW d \in Dialog, NEW place \in {"tray", "review", "preview", "confirm"},
         GoTo(d, place), RowsStay, IsOpen(d) => place = "confirm"
  PROVE  ImportInv'
<1>1. tray[d] \in Tray
  BY DEF ImportInv, TrayTypeOK
<1>2. PICK t : t = [tray[d] EXCEPT !.at = place]
  OBVIOUS
<1>3. t \in Tray /\ t.at = place
  BY <1>1, <1>2 DEF Tray
<1>4. tray' = [tray EXCEPT ![d] = t]
  BY <1>2 DEF GoTo
<1> QED BY <1>3, <1>4, TrayStepKeeps

\* The confirmation is open only where the tray is at it.
LEMMA NotConfirming ==
  ASSUME ImportInv, NEW d \in Dialog, tray[d].at # "confirm"
  PROVE  ~IsOpen(d)
BY DEF ImportInv, TrayTypeOK

\* Review and preview change what the page shows.
LEMMA ShowingSteps ==
  ASSUME ImportInv, NEW d \in Dialog,
         Review(d) \/ CancelReview(d) \/ Preview(d) \/ LeavePreview(d) \/ Continue(d)
  PROVE  ImportInv'
<1>1. ~IsOpen(d)
  BY NotConfirming DEF Review, CancelReview, Preview, LeavePreview, Continue, Offered, At
<1>2. \E place \in {"tray", "review", "preview", "confirm"} : GoTo(d, place)
  BY DEF Review, CancelReview, Preview, LeavePreview, Continue
<1>3. RowsStay
  BY DEF Review, CancelReview, Preview, LeavePreview, Continue
<1> QED BY <1>1, <1>2, <1>3, GoToStep

\* A kept draft is a reviewed document of the tray.
LEMMA KeepDraftStep ==
  ASSUME ImportInv, NEW d \in Dialog, KeepDraft(d)
  PROVE  ImportInv'
<1>1. tray[d] \in Tray /\ ~IsOpen(d)
  BY NotConfirming DEF ImportInv, TrayTypeOK, KeepDraft, At
<1>2. PICK hsn, status : /\ tray' = [tray EXCEPT ![d] = [tray[d] EXCEPT !.status = status, !.hsn = hsn, !.at = "tray"]]
                         /\ hsn \in Hsn \cup {Nothing} /\ status \in Status
  <2>1. Reading[d] \subseteq Hsn \cup {Nothing}
    BY TrayAssumption
  <2>2. CASE \E hsn \in Reading[d] :
               tray' = [tray EXCEPT ![d] = [tray[d] EXCEPT !.status = "reviewed", !.hsn = hsn, !.at = "tray"]]
    BY <2>1, <2>2 DEF Status
  <2>3. CASE tray' = [tray EXCEPT ![d] = [tray[d] EXCEPT !.status = "ready", !.hsn = Nothing, !.at = "tray"]]
    BY <2>3 DEF Status
  <2> QED BY <2>2, <2>3 DEF KeepDraft
<1>3. PICK t : t = [tray[d] EXCEPT !.status = status, !.hsn = hsn, !.at = "tray"]
  OBVIOUS
<1>4. t \in Tray
  BY <1>1, <1>2, <1>3 DEF Tray
<1> QED BY <1>1, <1>2, <1>3, <1>4, TrayStepKeeps DEF KeepDraft

\* While the tray alone changes, the one supplier stays so.
LEMMA RowsStaySafe ==
  ASSUME RowsStay, OneSupplier
  PROVE  OneSupplier'
BY DEF RowsStay, OneSupplier

\* Nothing before the confirmation touches rows or dialogs.
LEMMA PrepareSafe ==
  ASSUME ImportInv, NEW d \in Dialog, Prepare(d)
  PROVE  ImportInv' /\ (OneSupplier => OneSupplier')
<1>1. ImportInv'
  BY SwitchStationStep, RemoveInvoiceStep, ReadingSteps, ShowingSteps, KeepDraftStep DEF Prepare
<1>2. RowsStay
  BY DEF Prepare, SwitchStation, ChooseInvoice, ReadText, Recognize, RemoveInvoice, Review, CancelReview,
         KeepDraft, Preview, LeavePreview
<1> QED BY <1>1, <1>2, RowsStaySafe

\* The tray when the confirmation is left.
LEMMA LeaveSafe ==
  ASSUME ImportInv, NEW d \in Dialog, Leave(d)
  PROVE  ImportInv' /\ (OneSupplier => OneSupplier')
<1>1. PICK place \in {"tray", "review", "preview", "confirm"} : GoTo(d, place)
  BY DEF Leave
<1>2. CASE dialogs[d] = Closed /\ RowsStay
  <2>1. ~IsOpen(d)
    BY <1>2 DEF IsOpen, Closed
  <2> QED BY <1>1, <1>2, <2>1, GoToStep, RowsStaySafe
<1>3. CASE CloseDialog(d)
  <2>1. DialogStep(d, Closed)
    BY <1>3, Closes DEF CloseDialog
  <2>2. tray \in [Dialog -> Tray] /\ tray[d] \in Tray
    BY DEF ImportInv, TrayTypeOK
  <2>3. PICK t : t = [tray[d] EXCEPT !.at = place]
    OBVIOUS
  <2>4. t \in Tray /\ tray' = [tray EXCEPT ![d] = t]
    BY <1>1, <2>2, <2>3 DEF GoTo, Tray
  <2>5. tray' \in [Dialog -> Tray] /\ \A e \in Dialog : e # d => tray'[e] = tray[e]
    BY <2>2, <2>4
  <2> QED BY <2>1, <2>5, DialogStepSafe DEF Closed
<1> QED BY <1>2, <1>3 DEF Leave

\* A posting that the page hears of also changes the tray.
LEMMA SubmittedSafe ==
  ASSUME ImportInv, NEW d \in Dialog, Submitted(d)
  PROVE  ImportInv' /\ (OneSupplier => OneSupplier')
<1>1. tray \in [Dialog -> Tray] /\ tray[d] \in Tray /\ tray[d].records \in Records
  BY DEF ImportInv, TrayTypeOK, Tray
<1>2. PICK shown : shown = (tray[d].records.shown \/ dialogs[d].posting.what.supplier = tray[d].records.supplier)
  OBVIOUS
<1>3. PICK records : records = [tray[d].records EXCEPT !.shown = shown]
  OBVIOUS
<1>4. records \in Records
  <2>1. shown \in BOOLEAN
    BY <1>2
  <2> QED BY <1>1, <1>3, <2>1 DEF Records
<1>5. PICK t : t = [tray[d] EXCEPT !.status = "submitted", !.hsn = Nothing, !.at = "tray", !.records = records]
  OBVIOUS
<1>6. t \in Tray
  BY <1>1, <1>4, <1>5 DEF Tray, Status
<1>7. tray' = [tray EXCEPT ![d] = t]
  <2>1. [tray[d] EXCEPT !.status = "submitted", !.hsn = Nothing, !.at = "tray", !.records.shown = shown] = t
    BY <1>1, <1>3, <1>5 DEF Tray
  <2> QED BY <1>2, <2>1 DEF Submitted
<1>8. tray' \in [Dialog -> Tray] /\ \A e \in Dialog : e # d => tray'[e] = tray[e]
  BY <1>1, <1>6, <1>7
<1> QED BY <1>8, CommitCreateSafe, CommitReceiveSafe DEF Submitted, Commit

\* The confirmation opens with the draft it is for.
LEMMA LoadSafe ==
  ASSUME ImportInv, NEW d \in Dialog, Load(d)
  PROVE  ImportInv' /\ (OneSupplier => OneSupplier')
<1>1. tray \in [Dialog -> Tray] /\ tray[d].hsn \in Hsn \cup {Nothing} /\ tray[d].at = "confirm" /\ tray' = tray
  BY DEF ImportInv, TrayTypeOK, Tray, Load, At
<1>2. PICK new : DialogStep(d, new)
  BY <1>1, OpenDialogStep DEF Load
<1> QED BY <1>1, <1>2, DialogStepSafe

\* A dialog at work.
LEMMA DialogSafe ==
  ASSUME ImportInv, NEW d \in Dialog, Fill(d) \/ Add(d) \/ PostIt(d), UNCHANGED tray
  PROVE  ImportInv' /\ (NamedOnce /\ OneSupplier => OneSupplier')
<1>1. tray \in [Dialog -> Tray]
  BY DEF ImportInv, TrayTypeOK
<1>2. CASE CreateSupplier(d)
  BY <1>2, CreateSupplierKeeps
<1>3. CASE CreateProduct(d)
  BY <1>3, CreateProductKeeps
<1>4. CASE ~CreateSupplier(d) /\ ~CreateProduct(d)
  <2>1. IsOpen(d)
    BY <1>4 DEF Fill, Add, PostIt, ChooseSupplier, ChooseProduct, ChooseTank, ChooseReceiveNow, Tick, Create,
       CreateRefused, Submit, ReadForCreate, ReadForReceive, Posted, PostingRefused
  <2>2. PICK new : DialogStep(d, new)
    BY <1>4, ChooseSupplierStep, ChooseProductStep, ChooseTankStep, ChooseReceiveNowStep, TickStep, CreateStep,
       CreateRefusedStep, SubmitStep, ReadForCreateStep, ReadForReceiveStep, PostingRefusedStep
       DEF Fill, Add, PostIt
  <2>3. tray[d].at = "confirm"
    BY <2>1, DialogTyped
  <2> QED BY <1>1, <2>2, <2>3, DialogStepSafe
<1> QED BY <1>2, <1>3, <1>4

\* Whatever is changed by hand keeps both invariants.
LEMMA ByHandSafe ==
  ASSUME ImportInv, ByHand, UNCHANGED tray
  PROVE  ImportInv' /\ (OneSupplier => OneSupplier')
BY AddSupplierSafe, UpdateSupplierSafe, UpdateProductSafe DEF ByHand

\* Every step keeps the first invariant, and with NamedOnce the second.
LEMMA TrayStepSafe ==
  ASSUME ImportInv, [TrayNext]_trayVars
  PROVE  ImportInv' /\ (NamedOnce /\ OneSupplier => OneSupplier')
<1>1. ASSUME NEW d \in Dialog, Prepare(d) \/ Confirm(d)
      PROVE  ImportInv' /\ (NamedOnce /\ OneSupplier => OneSupplier')
  <2>1. CASE Prepare(d)
    BY <2>1, PrepareSafe
  <2>2. CASE Continue(d)
    BY <2>2, ShowingSteps, RowsStaySafe DEF Continue
  <2>3. CASE (Fill(d) \/ Add(d) \/ PostIt(d)) /\ UNCHANGED tray
    BY <2>3, DialogSafe
  <2> QED BY <1>1, <2>1, <2>2, <2>3, LoadSafe, LeaveSafe, SubmittedSafe DEF Confirm
<1>2. CASE UNCHANGED trayVars
  <2>1. RowsStay /\ tray' = tray
    BY <1>2 DEF trayVars, RowsStay
  <2>2. ImportInv'
    BY <2>1, RowsStayGrow, RowsStepKeeps DEF RowsStay, ImportInv, TrayTypeOK, ImportTypeOK
  <2> QED BY <2>1, <2>2, RowsStaySafe
<1> QED BY <1>1, <1>2, ByHandSafe DEF TrayNext

\* Both hold at the start, when no dialog is open and nothing is posted.
LEMMA ImportStarts ==
  ASSUME TrayInit
  PROVE  ImportInv /\ OneSupplier
<1>1. start \in Start /\ suppliers = start.suppliers /\ products = start.products /\ byHand = {}
      /\ dialogs = [d \in Dialog |-> Closed] /\ DOMAIN invoices = {}
  BY DEF TrayInit, ImportInit
<1>2. suppliers \in Rows(Code, Supplier) /\ products \in Rows(ProductCode, Product)
  BY <1>1, ImportAssumption
<1>3. invoices \in Rows(Code, Invoice)
  <2>1. invoices \in [{} -> Invoice]
    BY DEF TrayInit, ImportInit
  <2> QED BY <2>1 DEF Rows
<1>4. ImportTypeOK
  BY <1>1, <1>2, <1>3 DEF ImportTypeOK
<1>5. \A d \in Dialog : dialogs[d] = Closed /\ ~IsOpen(d)
  BY <1>1 DEF IsOpen, Closed
<1>6. tray \in [Dialog -> Tray]
  <2>1. \A records \in Loaded : EmptyTray(records) \in Tray
    BY <1>2, LoadedTyped
  <2>2. tray \in [Dialog -> {EmptyTray(records) : records \in Loaded}]
    BY DEF TrayInit
  <2> QED BY <2>1, <2>2
<1>7. \A d \in Dialog : /\ Fits(dialogs[d], DOMAIN suppliers, DOMAIN invoices)
                        /\ Finds(dialogs[d], start, suppliers)
  BY <1>5 DEF Fits, Finds, IsOpen
<1> QED BY <1>1, <1>4, <1>5, <1>6, <1>7 DEF ImportInv, TrayTypeOK, OneSupplier, Grown

-----------------------------------------------------------------------------
\* Whatever the browsers read, add, tick, post and lose: what is ticked is what
\* is shown, and rows shown and posted are there
\* (ConfirmedPurchaseDialog.tsx, purchases/service.ts).
THEOREM ImportInvariant == TraySpec => []ImportInv
BY ImportStarts, TrayStepSafe, PTL DEF TraySpec

\* A dialog posts what its user ticked, although answers change the form.
THEOREM TickedIsPosted == TraySpec => []PostsWhatWasTicked
<1>1. ImportInv => PostsWhatWasTicked
  BY DEF ImportInv, Fits, PostsWhatWasTicked, IsOpen
<1> QED BY <1>1, ImportInvariant, PTL

\* A document becomes one invoice however many browsers import it, if at most one
\* active supplier has its name to begin with; with two of them and no GSTIN to
\* tell them apart every browser may add another.
THEOREM OneInvoice == ASSUME NamedOnce PROVE TraySpec => []OneInvoicePerDocument
<1>1. ImportInv /\ OneSupplier => OneInvoicePerDocument
  <2> SUFFICES ASSUME ImportInv, OneSupplier, "supplier" \notin byHand
               PROVE  Cardinality(DOMAIN invoices) <= 1
    BY DEF OneInvoicePerDocument
  <2>1. PICK c : c = Him(start, suppliers)
    OBVIOUS
  <2>2. DOMAIN invoices \subseteq {c}
    BY <2>1 DEF OneSupplier
  <2>3. DOMAIN invoices = {} \/ DOMAIN invoices = {c}
    BY <2>2
  <2> QED BY <2>3, FS_EmptySet, FS_Singleton
<1>2. ImportInv /\ OneSupplier /\ [TrayNext]_trayVars => (ImportInv /\ OneSupplier)'
  BY TrayStepSafe
<1> QED BY <1>1, <1>2, ImportStarts, PTL DEF TraySpec

\* An import never changes a code a product has.
THEOREM CodesStand == TraySpec => HsnStands
<1>1. ASSUME ImportInv, [TrayNext]_trayVars, NEW p \in DOMAIN products,
             products[p].hsn # Nothing, products'[p].hsn # products[p].hsn
      PROVE  byHand' # byHand
  <2>1. ASSUME NEW q, NEW planned, SyncHsn(q, planned) PROVE FALSE
    BY <1>1, <2>1 DEF SyncHsn, StillWithoutHsn
  <2>2. ASSUME NEW d \in Dialog, CreateProduct(d) PROVE FALSE
    <3>1. PICK q, row : q \notin DOMAIN products /\ products' = Put(products, q, row)
      BY <2>2 DEF CreateProduct
    <3> QED BY <1>1, <3>1 DEF Put
  <2>3. ASSUME NEW d \in Dialog, Commit(d) PROVE FALSE
    BY <2>1, <2>3 DEF Commit, CommitCreate, CommitReceive
  <2>4. ASSUME ByHand PROVE byHand' # byHand
    BY <2>4 DEF ByHand, AddSupplier, UpdateSupplier, UpdateProduct, ChangeByHand
  <2>5. ASSUME products' = products PROVE FALSE
    BY <1>1, <2>5
  <2>6. ASSUME NEW d \in Dialog, Prepare(d) \/ Confirm(d) PROVE FALSE
    <3>1. CASE Prepare(d)
      BY <2>5, <3>1 DEF Prepare, SwitchStation, ChooseInvoice, ReadText, Recognize, RemoveInvoice, Review,
         CancelReview, KeepDraft, Preview, LeavePreview, RowsStay
    <3>2. CASE Continue(d) \/ Load(d) \/ Leave(d)
      BY <2>5, <3>2 DEF Continue, Load, Leave, RowsStay, OpenDialog, CloseDialog
    <3>3. CASE Submitted(d)
      BY <2>3, <3>3 DEF Submitted
    <3>4. CASE Fill(d) \/ PostIt(d)
      BY <2>5, <3>4 DEF Fill, PostIt, ChooseSupplier, ChooseProduct, ChooseTank, ChooseReceiveNow, Tick, Submit,
         ReadForCreate, ReadForReceive, PostingRefused
    <3>5. CASE Add(d)
      BY <2>2, <2>5, <3>5 DEF Add, Create, CreateSupplier, CreateRefused
    <3> QED BY <2>6, <3>1, <3>2, <3>3, <3>4, <3>5 DEF Confirm
  <2> QED BY <1>1, <2>4, <2>5, <2>6 DEF TrayNext, trayVars
<1>2. ImportInv /\ [TrayNext]_trayVars =>
        [\A p \in DOMAIN products :
           (products[p].hsn # Nothing /\ products'[p].hsn # products[p].hsn) => byHand' # byHand]_products
  BY <1>1
<1> QED BY <1>2, ImportInvariant, PTL DEF TraySpec, HsnStands

==============================================================================
