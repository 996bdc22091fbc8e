-------------------------- MODULE ProductDeskProofs ---------------------------
(***************************************************************************)
(* The prices on the product's row are those in force, for every number of *)
(* invoices, every prices and every clock.  RowIsPriceInForce is not       *)
(* inductive by itself: the next write must know that the history it adds  *)
(* to has a latest entry, and that the row shows that entry; and the prices*)
(* the form's transaction has read must still be the ones in force when it *)
(* writes them.  The second                                                *)
(* part puts the products page before it: a save of the page opens the form*)
(* of ProductPrices on prices the page showed or the owner typed, and every*)
(* other step of it is a step there or leaves the prices alone.  The third *)
(* says what a write changes: a price put at a date shows from then to the *)
(* next dated price, so that the form, the approval and the pricing of an  *)
(* invoice change what they mean to and leave the rest of the past alone.  *)
(***************************************************************************)
EXTENDS ProductDesk, WellFoundedInduction, TLAPS

\* The row shows the latest entry of the history, and no entry is still to come.
Shows(history, row, now) ==
  \E m \in DOMAIN history :
    m <= now /\ history[m] = row /\ \A t \in DOMAIN history : t <= m

\* What the form's transaction has read is what it would read now.
FoundStands ==
  /\ found.selling # None => found.selling = InForce(FormSellings, edit.selling, edit.now)
  /\ found.cost # None => found.cost = InForce(FormCosts, edit.cost, edit.now)

IInv ==
  /\ TypeOK
  /\ settled => Shows(costs, cost, clock) /\ Shows(sellings, selling, clock)
  /\ settled => FoundStands

-----------------------------------------------------------------------------
(* Histories *)

NatLess == OpToRel(<, Nat)

\* A set of naturals that is not empty has a least member.
LEMMA SmallestNat ==
  ASSUME NEW T \in SUBSET Nat, T # {}
  PROVE  \E a \in T : \A b \in T : a <= b
<1>1. PICK a \in T : \A b \in T : ~ (<<b, a>> \in NatLess)
  BY NatLessThanWellFounded, WFMin DEF NatLess
<1>2. \A b \in Nat : b < a => <<b, a>> \in NatLess
  BY DEF NatLess, OpToRel
<1>3. ASSUME NEW b \in T PROVE ~ (b < a)
  <2>1. b \in Nat
    OBVIOUS
  <2>2. ~ (<<b, a>> \in NatLess)
    BY <1>1
  <2> QED BY <2>1, <2>2, <1>2, Zenon
<1>4. ASSUME NEW b \in T PROVE a <= b
  <2>1. ~ (b < a)
    BY <1>3, Zenon
  <2>2. a \in Int /\ b \in Int
    OBVIOUS
  <2> QED BY <2>1, <2>2
<1> QED BY <1>4, Zenon

\* A set of times that is not empty has a latest member.
LEMMA LatestExists ==
  ASSUME NEW n \in Nat, NEW S \in SUBSET (0..n), S # {}
  PROVE  \E x \in S : \A y \in S : x >= y
<1> DEFINE T == {n - x : x \in S}
<1>1. T \in SUBSET Nat /\ T # {}
  <2>1. ASSUME NEW x \in S PROVE n - x \in Nat
    BY x \in 0..n
  <2> QED BY <2>1
<1>2. PICK a \in T : \A b \in T : a <= b
  <2> HIDE DEF T
  <2> QED BY <1>1, SmallestNat
<1>3. PICK x \in S : a = n - x
  OBVIOUS
<1>4. ASSUME NEW y \in S PROVE x >= y
  <2>1. n - y \in T
    OBVIOUS
  <2>2. a <= n - y
    BY <1>2, <2>1, Zenon
  <2>3. n \in Int /\ x \in Int /\ y \in Int
    OBVIOUS
  <2> HIDE DEF T
  <2> QED BY <1>3, <2>2, <2>3
<1> QED BY <1>4

\* Max chooses a member that no other exceeds.
LEMMA MaxIsLatest ==
  ASSUME NEW n \in Nat, NEW S \in SUBSET (0..n), S # {}
  PROVE  Max(S) \in S /\ \A y \in S : Max(S) >= y
BY LatestExists DEF Max

\* The price in force at any time is a price.
LEMMA InForceIsPrice ==
  ASSUME NEW h, History(h), NEW row \in Price, NEW t, MaxTime \in Nat
  PROVE  InForce(h, row, t) \in Price
<1>1. CASE Begun(h, t) = {}
  BY <1>1 DEF InForce
<1>2. CASE Begun(h, t) # {}
  <2>1. Begun(h, t) \in SUBSET (0..MaxTime)
    BY DEF Begun, History, Times
  <2>2. Max(Begun(h, t)) \in Begun(h, t)
    BY <1>2, <2>1, MaxIsLatest
  <2>3. Max(Begun(h, t)) \in DOMAIN h
    BY <2>2 DEF Begun
  <2> QED BY <1>2, <2>3 DEF InForce, History
<1> QED BY <1>1, <1>2

\* If the row shows the latest entry, it is the price in force.
LEMMA ShownIsInForce ==
  ASSUME NEW h, History(h), NEW row, NEW t \in Nat, MaxTime \in Nat, Shows(h, row, t)
  PROVE  InForce(h, row, t) = row
<1>1. PICK m \in DOMAIN h : m <= t /\ h[m] = row /\ \A x \in DOMAIN h : x <= m
  BY DEF Shows
<1>2. DOMAIN h \in SUBSET (0..MaxTime)
  BY DEF History, Times
<1>3. Begun(h, t) \in SUBSET (0..MaxTime) /\ m \in Begun(h, t)
  BY <1>1, <1>2 DEF Begun
<1>4. Max(Begun(h, t)) \in Begun(h, t) /\ Max(Begun(h, t)) >= m
  BY <1>3, MaxIsLatest
<1>5. Max(Begun(h, t)) \in DOMAIN h
  BY <1>4 DEF Begun
<1>6. Max(Begun(h, t)) = m
  <2> DEFINE x == Max(Begun(h, t))
  <2>1. x \in Int /\ m \in Int
    BY <1>2, <1>5
  <2>2. x <= m /\ x >= m
    BY <1>1, <1>4, <1>5
  <2> HIDE DEF x
  <2>3. x = m
    BY <2>1, <2>2
  <2> QED BY <2>3 DEF x
<1> QED BY <1>1, <1>3, <1>6 DEF InForce

\* Adding an entry at a time leaves a history.
LEMMA PutIsHistory ==
  ASSUME NEW h, History(h), NEW t \in Times, NEW price \in Price
  PROVE  History(Put(h, t, price))
BY DEF Put, History

\* After an entry at or past the latest one, the row that takes its price shows it.
LEMMA PutLatestShows ==
  ASSUME NEW h, History(h), NEW t \in Times, NEW price, NEW now \in Times, t <= now,
         MaxTime \in Nat, \A x \in DOMAIN h : x <= t
  PROVE  Shows(Put(h, t, price), price, now)
<1>1. t \in DOMAIN Put(h, t, price) /\ Put(h, t, price)[t] = price
  BY DEF Put
<1>2. \A x \in DOMAIN Put(h, t, price) : x <= t
  BY DEF Put, Times
<1> QED BY <1>1, <1>2 DEF Shows

\* An entry before the latest one leaves the row that shows it.
LEMMA PutEarlierKeeps ==
  ASSUME NEW h, History(h), NEW t \in Times, NEW price, NEW row, NEW now \in Times,
         MaxTime \in Nat, Shows(h, row, now), \E x \in DOMAIN h : x > t
  PROVE  Shows(Put(h, t, price), row, now)
<1>1. PICK m \in DOMAIN h : m <= now /\ h[m] = row /\ \A x \in DOMAIN h : x <= m
  BY DEF Shows
<1>2. DOMAIN h \subseteq Int /\ t \in Int
  BY DEF History, Times
<1>3. t < m
  BY <1>1, <1>2
<1>4. m \in DOMAIN Put(h, t, price) /\ Put(h, t, price)[m] = row
  BY <1>1, <1>3, <1>2 DEF Put
<1>5. \A x \in DOMAIN Put(h, t, price) : x <= m
  BY <1>1, <1>2, <1>3 DEF Put
<1> QED BY <1>1, <1>4, <1>5 DEF Shows

\* Adding an entry that has begun, and taking the row from the price in force,
\* leaves a row that shows the latest entry.
LEMMA PutThenInForceShows ==
  ASSUME NEW h, History(h), NEW t \in Times, NEW price \in Price, NEW other, NEW row,
         NEW now \in Times, MaxTime \in Nat, t <= now, Shows(h, row, now)
  PROVE  Shows(Put(h, t, price), InForce(Put(h, t, price), other, now), now)
<1> DEFINE g == Put(h, t, price)
<1>1. History(g) /\ t \in DOMAIN g
  BY PutIsHistory DEF Put
<1>2. \A x \in DOMAIN g : x <= now
  BY DEF Put, Shows, History, Times
<1>3. DOMAIN g \in SUBSET (0..MaxTime) /\ DOMAIN g # {}
  <2> HIDE DEF g
  <2> QED BY <1>1 DEF History, Times
<1> HIDE DEF g
<1>4. Begun(g, now) = DOMAIN g
  BY <1>2 DEF Begun
<1>5. Max(DOMAIN g) \in DOMAIN g /\ \A x \in DOMAIN g : Max(DOMAIN g) >= x
  BY <1>3, MaxIsLatest
<1>6. InForce(g, other, now) = g[Max(DOMAIN g)]
  BY <1>3, <1>4 DEF InForce
<1>7. \A x \in DOMAIN g : x <= Max(DOMAIN g)
  <2> DEFINE m == Max(DOMAIN g)
  <2>1. m \in Int /\ DOMAIN g \subseteq Int
    BY <1>3, <1>5
  <2>2. \A x \in DOMAIN g : m >= x
    BY <1>5
  <2> HIDE DEF m
  <2>3. \A x \in DOMAIN g : x <= m
    BY <2>1, <2>2
  <2> QED BY <2>3 DEF m
<1>8. Max(DOMAIN g) <= now
  BY <1>2, <1>5
<1>9. Shows(g, InForce(g, other, now), now)
  BY <1>5, <1>6, <1>7, <1>8 DEF Shows
<1> QED BY <1>9 DEF g

-----------------------------------------------------------------------------
(* The steps *)

\* The opening prices are the first entries of their histories.
LEMMA InitHolds == Init => IInv
<1> SUFFICES ASSUME Init PROVE IInv
  OBVIOUS
<1>1. TypeOK
  BY PricesAssumption DEF Init, NotRead, TypeOK, Times, Price, History
<1>2. Shows(costs, cost, clock) /\ Shows(sellings, selling, clock)
  BY DEF Init, Shows
<1>3. FoundStands
  BY DEF Init, NotRead, FoundStands
<1> QED BY <1>1, <1>2, <1>3 DEF IInv

\* What a saved invoice and its pricing hold, and the price that keeps the margin.
LEMMA InvoiceTypes ==
  ASSUME TypeOK, NEW i \in Invoices, invoice[i] # None
  PROVE  /\ invoice[i] \in InvoiceRow
         /\ invoice[i].price \in Price /\ invoice[i].date \in Times
         /\ \A now \in Times : Activation(i, now) \in Times
<1>1. invoice[i] \in InvoiceRow
  BY DEF TypeOK
<1>2. invoice[i].price \in Price /\ invoice[i].date \in Times
  BY <1>1, PricesAssumption DEF InvoiceRow, Price
<1> QED BY <1>1, <1>2 DEF Activation, Later

\* A form whose transaction has read nothing has nothing to keep.
LEMMA NothingFound ==
  ASSUME TypeOK, ~FormReading, UNCHANGED found
  PROVE  FoundStands'
BY DEF TypeOK, FormReading, FoundStands

\* Pricing an invoice writes prices, and its row shows the latest of them.
LEMMA RepriceKeeps ==
  ASSUME IInv, NEW i \in Invoices, Reprice(i)
  PROVE  IInv'
<1> USE DEF IInv
<1> DEFINE now == pricing[i].now
           price == invoice[i].price
           from == Activation(i, now)
<1>1. invoice[i] # None
  BY DEF TypeOK, Reprice
<1>2. /\ price \in Price /\ invoice[i].date \in Times
      /\ \A x \in Times : Activation(i, x) \in Times
  BY <1>1, InvoiceTypes
<1>3. /\ now \in Times /\ pricing[i].cost \in Price /\ pricing[i].selling \in Price
  BY DEF TypeOK, Reprice, PricingStep
<1>4. from \in Times /\ from >= now /\ from >= invoice[i].date
  BY <1>2, <1>3 DEF Activation, Later, Times
<1>5. Suggested(i) \in Price
  BY <1>2, <1>3 DEF Suggested, Later, Price
<1>6. /\ costs' = Put(Put(costs, invoice[i].date, price), from, price)
      /\ sellings' = Put(sellings, from, Suggested(i))
      /\ cost' = IF from <= now THEN price ELSE cost
      /\ selling' = IF from <= now THEN Suggested(i) ELSE selling
      /\ settled' = (Settles(now, {from}) /\ ~FormReading)
      /\ pricing' = [pricing EXCEPT ![i] = None]
      /\ UNCHANGED <<clock, invoice, request, edit, found, edits>>
  BY DEF Reprice
<1> HIDE DEF now, price, from
<1>7. History(Put(costs, invoice[i].date, price))
  BY <1>2, PutIsHistory DEF TypeOK
<1>8. History(costs') /\ History(sellings')
  BY <1>2, <1>4, <1>5, <1>6, <1>7, PutIsHistory DEF TypeOK
<1>9. TypeOK'
  <2>1. cost' \in Price /\ selling' \in Price
    BY <1>2, <1>5, <1>6 DEF TypeOK
  <2>2. settled' \in BOOLEAN
    BY <1>6 DEF Settles, TypeOK
  <2>3. pricing' \in [Invoices -> PricingStep \cup {None}]
    BY <1>6 DEF TypeOK
  <2>4. \A j \in Invoices : pricing'[j] # None \/ request'[j] # None => invoice'[j] # None
    BY <1>6 DEF TypeOK
  <2> QED BY <1>6, <1>8, <2>1, <2>2, <2>3, <2>4 DEF TypeOK, History
<1>10. ASSUME settled'
       PROVE  (Shows(costs, cost, clock) /\ Shows(sellings, selling, clock))'
  <2>1. settled /\ now = clock /\ from <= clock
    BY <1>6, <1>10 DEF Settles
  <2>2. from = clock
    BY <2>1, <1>3, <1>4 DEF Times
  <2>3. MaxTime \in Nat
    BY PricesAssumption
  <2>4. \A x \in DOMAIN sellings : x <= from
    BY <2>1, <2>2 DEF TypeOK, Shows, History, Times
  <2>5. \A x \in DOMAIN Put(costs, invoice[i].date, price) : x <= from
    BY <2>1, <2>2, <1>2, <1>4 DEF TypeOK, Shows, History, Times, Put
  <2>6. Shows(Put(sellings, from, Suggested(i)), Suggested(i), clock)
    BY <2>1, <2>3, <2>4, <1>4, PutLatestShows DEF TypeOK
  <2>7. Shows(Put(Put(costs, invoice[i].date, price), from, price), price, clock)
    BY <2>1, <2>3, <2>5, <1>4, <1>7, PutLatestShows DEF TypeOK
  <2>8. cost' = price /\ selling' = Suggested(i)
    BY <1>6, <2>1
  <2> QED BY <2>6, <2>7, <2>8, <1>6
<1>11. settled' => FoundStands'
  BY <1>6, NothingFound
<1> QED BY <1>9, <1>10, <1>11

\* An approval writes prices, and a price dated before the latest leaves the row.
LEMMA ApproveKeeps ==
  ASSUME IInv, NEW i \in Invoices, NEW price \in Sellings, NEW from \in Times,
         Approve(i, price, from)
  PROVE  IInv'
<1> USE DEF IInv
<1> DEFINE paid == invoice[i].price
           date == invoice[i].date
           times == CostDates(i)
<1>1. invoice[i] # None
  BY DEF TypeOK, Approve, Pending
<1>2. paid \in Price /\ date \in Times /\ Activation(i, clock) \in Times
  BY <1>1, InvoiceTypes DEF TypeOK
<1>3. times \subseteq Times
  BY <1>2 DEF CostDates
<1>4. price \in Price /\ MaxTime \in Nat
  BY PricesAssumption DEF Price
<1>5. /\ costs' = PutAll(costs, times, paid)
      /\ sellings' = Put(sellings, from, price)
      /\ cost' = IF date <= clock THEN paid ELSE cost
      /\ selling' = IF Latest(from) THEN price ELSE selling
      /\ request' = [request EXCEPT ![i].status = "APPROVED"]
      /\ settled' = (Settles(clock, {from, Activation(i, clock)}) /\ ~FormReading)
      /\ UNCHANGED <<clock, invoice, pricing, edit, found, edits>>
      /\ request[i] # None
  BY DEF Approve, Pending
<1>6. times = {date, Activation(i, clock)}
  BY DEF CostDates
<1>7. Activation(i, clock) >= clock /\ Activation(i, clock) >= date
  BY <1>2 DEF Activation, Later, TypeOK, Times
<1> HIDE DEF paid, date, times
<1>8. History(costs')
  BY <1>2, <1>3, <1>5 DEF PutAll, History, TypeOK
<1>9. History(sellings')
  BY <1>4, <1>5, PutIsHistory DEF TypeOK
<1>10. TypeOK'
  <2>1. cost' \in Price /\ selling' \in Price
    BY <1>2, <1>4, <1>5 DEF TypeOK
  <2>2. settled' \in BOOLEAN
    BY <1>5 DEF Settles, TypeOK
  <2>3. request' \in [Invoices -> Request \cup {None}]
    <3>1. request[i] \in Request
      BY <1>5 DEF TypeOK
    <3>2. [request[i] EXCEPT !.status = "APPROVED"] \in Request
      BY <3>1 DEF Request
    <3>3. request' = [request EXCEPT ![i] = [request[i] EXCEPT !.status = "APPROVED"]]
      BY <1>5
    <3> QED BY <3>2, <3>3 DEF TypeOK
  <2>4. \A j \in Invoices : pricing'[j] # None \/ request'[j] # None => invoice'[j] # None
    BY <1>1, <1>5 DEF TypeOK
  <2> QED BY <1>5, <1>8, <1>9, <2>1, <2>2, <2>3, <2>4 DEF TypeOK, History
<1>11. ASSUME settled'
       PROVE  (Shows(costs, cost, clock) /\ Shows(sellings, selling, clock))'
  <2>1. settled /\ from <= clock /\ Activation(i, clock) <= clock
    BY <1>5, <1>11 DEF Settles
  <2>2. Activation(i, clock) = clock /\ date <= clock
    BY <2>1, <1>2, <1>7 DEF Times, TypeOK
  <2>3. Shows(costs, cost, clock)'
    <3>1. clock \in DOMAIN costs' /\ costs'[clock] = paid
      BY <1>5, <1>6, <2>2 DEF PutAll
    <3>2. \A x \in DOMAIN costs' : x <= clock
      BY <1>5, <1>6, <2>1, <2>2 DEF PutAll, Shows, TypeOK, History, Times
    <3>3. cost' = paid /\ clock' = clock /\ clock <= clock
      BY <1>5, <2>2 DEF TypeOK, Times
    <3> QED BY <3>1, <3>2, <3>3 DEF Shows
  <2>4. Shows(Put(sellings, from, price), selling', clock)
    <3>1. CASE Latest(from)
      <4>1. \A x \in DOMAIN sellings : x <= from
        BY <2>1, <3>1 DEF Latest, Begun, Shows, History, Times, TypeOK
      <4>2. Shows(Put(sellings, from, price), price, clock)
        BY <2>1, <4>1, <1>4, PutLatestShows DEF TypeOK
      <4> QED BY <3>1, <4>2, <1>5
    <3>2. CASE ~ Latest(from)
      <4>1. \E x \in DOMAIN sellings : x > from
        BY <2>1, <3>2 DEF Latest, Begun, History, Times, TypeOK
      <4>2. Shows(Put(sellings, from, price), selling, clock)
        BY <2>1, <4>1, <1>4, PutEarlierKeeps DEF TypeOK
      <4> QED BY <3>2, <4>2, <1>5
    <3> QED BY <3>1, <3>2
  <2> QED BY <2>3, <2>4, <1>5
<1>12. settled' => FoundStands'
  BY <1>5, NothingFound
<1> QED BY <1>10, <1>11, <1>12

\* A form's price, put into a history or left out, leaves a history of prices.
LEMMA FormIsHistory ==
  ASSUME NEW h, History(h), NEW now \in Times, NEW t \in Times, NEW price \in Price,
         NEW g, g = Put(h, t, price) \/ g = h
  PROVE  History(g) /\ InForce(g, price, now) \in Price
<1>1. History(g)
  BY PutIsHistory
<1> QED BY <1>1, InForceIsPrice, PricesAssumption

\* If the row showed the latest entry and the form's has begun, the row that
\* takes the price in force shows the latest entry again.
LEMMA FormShows ==
  ASSUME NEW h, History(h), NEW row, NEW now \in Times, NEW t \in Times, NEW price \in Price,
         NEW g, g = Put(h, t, price) \/ g = h, Shows(h, row, now), t <= now
  PROVE  Shows(g, InForce(g, price, now), now)
<1>1. CASE g = Put(h, t, price)
  BY <1>1, PutThenInForceShows, PricesAssumption
<1>2. CASE g = h
  <2>1. now \in Nat
    BY DEF Times
  <2>2. PICK m \in DOMAIN h : m <= now
    BY DEF Shows
  <2>3. m \in Begun(h, now)
    BY <2>2 DEF Begun
  <2>4. InForce(h, row, now) = row
    BY <2>1, ShownIsInForce, PricesAssumption
  <2>5. InForce(h, price, now) = InForce(h, row, now)
    BY <2>3 DEF InForce
  <2> QED BY <1>2, <2>4, <2>5
<1> QED BY <1>1, <1>2

\* What a form being saved holds, and the histories its transaction sees.
LEMMA FormTypes ==
  ASSUME TypeOK, edit # None
  PROVE  /\ edit.cost \in Price /\ edit.selling \in Price /\ edit.now \in Times
         /\ SellingFrom \in Times /\ CostFrom \in Times
         /\ FormSellings = Put(sellings, SellingFrom, edit.selling) \/ FormSellings = sellings
         /\ FormCosts = Put(costs, CostFrom, edit.cost) \/ FormCosts = costs
         /\ History(FormSellings) /\ InForce(FormSellings, edit.selling, edit.now) \in Price
         /\ History(FormCosts) /\ InForce(FormCosts, edit.cost, edit.now) \in Price
<1>1. edit \in Form
  BY DEF TypeOK
<1>2. /\ edit.cost \in Price /\ edit.selling \in Price /\ edit.now \in Times
      /\ SellingFrom \in Times /\ CostFrom \in Times
  BY <1>1, PricesAssumption DEF Form, SellingFrom, CostFrom, Times
<1>3. /\ FormSellings = Put(sellings, SellingFrom, edit.selling) \/ FormSellings = sellings
      /\ FormCosts = Put(costs, CostFrom, edit.cost) \/ FormCosts = costs
  BY DEF FormSellings, FormCosts
<1> QED BY <1>2, <1>3, FormIsHistory DEF TypeOK

\* The reads of the form's transaction find prices in force.
LEMMA ReadsKeep ==
  ASSUME IInv, ReadSelling \/ ReadCost
  PROVE  IInv'
<1> USE DEF IInv
<1>1. edit # None /\ UNCHANGED <<clock, prices, invoice, pricing, request, edit, edits>>
  BY DEF ReadSelling, ReadCost, FormReading, TypeOK
<1>2. UNCHANGED <<clock, cost, selling, costs, sellings, settled, edit>>
  BY <1>1 DEF prices
<1>3. PICK s \in Price : s = InForce(FormSellings, edit.selling, edit.now)
  BY <1>1, FormTypes
<1>4. PICK c \in Price : c = InForce(FormCosts, edit.cost, edit.now)
  BY <1>1, FormTypes
<1>5. None \notin Price
  BY PricesAssumption DEF Price
<1>6. /\ s = InForce(FormSellings, edit.selling, edit.now)'
      /\ c = InForce(FormCosts, edit.cost, edit.now)'
  BY <1>2, <1>3, <1>4 DEF FormSellings, FormCosts, EditsSelling, EditsCost, SellingFrom, CostFrom
<1>7. CASE ReadSelling
  <2>1. found'.selling = s /\ found'.cost = None
        /\ found' \in [cost : Price \cup {None}, selling : Price \cup {None}]
    BY <1>3, <1>7 DEF ReadSelling, TypeOK
  <2>2. TypeOK'
    BY <1>1, <1>2, <1>5, <2>1 DEF TypeOK, History
  <2> QED BY <1>2, <1>6, <2>1, <2>2 DEF FoundStands
<1>8. CASE ReadCost
  <2>1. found'.cost = c /\ found'.selling = found.selling /\ found.selling # None
        /\ found' \in [cost : Price \cup {None}, selling : Price \cup {None}]
    BY <1>4, <1>8 DEF ReadCost, FormReading, TypeOK
  <2>2. TypeOK'
    BY <1>1, <1>2, <1>5, <2>1 DEF TypeOK, History
  <2>3. settled => found.selling = s
    BY <1>3, <2>1 DEF FoundStands
  <2> QED BY <1>2, <1>6, <2>1, <2>2, <2>3 DEF FoundStands
<1> QED BY <1>7, <1>8

\* Saving the product form leaves the row showing what its histories put in force.
LEMMA SaveEditKeeps ==
  ASSUME IInv, SaveEdit
  PROVE  IInv'
<1> USE DEF IInv
<1>1. edit # None /\ found.cost \in Price /\ found.selling \in Price
  BY DEF TypeOK, SaveEdit
<1>5. /\ sellings' = FormSellings
      /\ costs' = FormCosts
      /\ selling' = found.selling
      /\ cost' = found.cost
      /\ settled' = Settles(edit.now, {SellingFrom, CostFrom})
      /\ edit' = None /\ found' = NotRead
      /\ UNCHANGED <<clock, invoice, pricing, request, edits>>
  BY DEF SaveEdit
<1>6. settled' \in BOOLEAN
  BY <1>5 DEF Settles, TypeOK
<1>8. History(costs') /\ cost' \in Price /\ History(sellings') /\ selling' \in Price
  BY <1>1, <1>5, FormTypes
<1>9. ASSUME settled'
      PROVE  (Shows(costs, cost, clock) /\ Shows(sellings, selling, clock))'
  <2>1. settled /\ edit.now = clock /\ CostFrom <= clock /\ SellingFrom <= clock
    BY <1>5, <1>9 DEF Settles
  <2>2. Shows(costs, cost, clock) /\ Shows(sellings, selling, clock)
    BY <2>1
  <2>3. Shows(FormCosts, InForce(FormCosts, edit.cost, clock), clock)
    BY <1>1, FormTypes, <2>1, <2>2, FormShows DEF TypeOK
  <2>4. Shows(FormSellings, InForce(FormSellings, edit.selling, clock), clock)
    BY <1>1, FormTypes, <2>1, <2>2, FormShows DEF TypeOK
  <2>5. found.cost = InForce(FormCosts, edit.cost, clock)
        /\ found.selling = InForce(FormSellings, edit.selling, clock)
    BY <1>1, <2>1, PricesAssumption DEF FoundStands, Price
  <2> QED BY <1>5, <2>3, <2>4, <2>5
<1>10. found' \in [cost : Price \cup {None}, selling : Price \cup {None}]
       /\ found'.selling = None /\ found'.cost = None
  BY <1>5 DEF NotRead
<1>11. TypeOK'
  BY <1>5, <1>6, <1>8, <1>10 DEF TypeOK, History
<1> QED BY <1>9, <1>10, <1>11 DEF FoundStands

\* Time passes over entries that have begun.
LEMMA TickKeeps ==
  ASSUME IInv, Tick
  PROVE  IInv'
<1> USE DEF IInv
<1>1. TypeOK'
  BY PricesAssumption DEF TypeOK, Tick, prices, Times, History
<1>2. ASSUME NEW h, History(h), NEW row, Shows(h, row, clock)
      PROVE  Shows(h, row, clock')
  <2>1. clock' = clock + 1 /\ clock \in Int /\ DOMAIN h \subseteq Int
    BY <1>2 DEF Tick, TypeOK, Times, History
  <2> QED BY <1>2, <2>1 DEF Shows
<1>3. settled' => settled /\ costs' = costs /\ sellings' = sellings
                  /\ cost' = cost /\ selling' = selling
  BY DEF Tick, prices
<1>4. settled' => (Shows(costs, cost, clock) /\ Shows(sellings, selling, clock))'
  BY <1>2, <1>3 DEF TypeOK
<1>5. settled' => FoundStands'
  BY <1>3 DEF Tick, FoundStands, FormSellings, FormCosts, EditsSelling, EditsCost,
              SellingFrom, CostFrom
<1> QED BY <1>1, <1>4, <1>5

\* A step that leaves the prices and the clock keeps what the row shows.
LEMMA PricesStand ==
  ASSUME IInv, UNCHANGED <<clock, prices, found>>, UNCHANGED edit \/ ~FormReading
  PROVE  /\ settled' => (Shows(costs, cost, clock) /\ Shows(sellings, selling, clock))'
         /\ settled' => FoundStands'
<1>1. settled' => (Shows(costs, cost, clock) /\ Shows(sellings, selling, clock))'
  BY DEF IInv, prices
<1>2. CASE UNCHANGED edit
  BY <1>2 DEF IInv, prices, FoundStands, FormSellings, FormCosts, EditsSelling, EditsCost,
              SellingFrom, CostFrom
<1>3. CASE ~FormReading
  <2>1. UNCHANGED found
    OBVIOUS
  <2> QED BY <1>1, <1>3, <2>1, NothingFound DEF IInv
<1> QED BY <1>1, <1>2, <1>3

\* The steps that write no price keep the types.
LEMMA TypesStand ==
  ASSUME TypeOK, NEW i \in Invoices,
         \/ \E price \in Costs, date \in Times, received \in BOOLEAN :
              SaveInvoice(i, price, date, received)
         \/ ReceiveStock(i) \/ LeavePrice(i) \/ RequestPrice(i)
         \/ BeginReprice(i) \/ Reject(i)
  PROVE  TypeOK'
<1>1. Reading \in PricingStep
  BY DEF Reading, PricingStep, TypeOK
<1>2. None \notin InvoiceRow
  BY PricesAssumption DEF InvoiceRow, Times
<1>3. ASSUME NEW price \in Costs, NEW date \in Times, NEW received \in BOOLEAN,
             SaveInvoice(i, price, date, received)
      PROVE  TypeOK'
  <2>1. [price |-> price, date |-> date, received |-> received] \in InvoiceRow
    BY DEF InvoiceRow
  <2> QED BY <1>1, <1>2, <1>3, <2>1 DEF SaveInvoice, TypeOK, prices, History
<1>4. CASE ReceiveStock(i)
  <2>1. invoice[i] \in InvoiceRow
    BY <1>4 DEF ReceiveStock, TypeOK
  <2>2. [invoice[i] EXCEPT !.received = TRUE] \in InvoiceRow
    BY <2>1 DEF InvoiceRow
  <2>3. invoice' = [invoice EXCEPT ![i] = [invoice[i] EXCEPT !.received = TRUE]]
    BY <1>4 DEF ReceiveStock
  <2> HIDE DEF InvoiceRow
  <2>4. invoice' \in [Invoices -> InvoiceRow \cup {None}] /\ invoice'[i] # None
    BY <1>2, <2>2, <2>3 DEF TypeOK
  <2>5. \A j \in Invoices : invoice[j] # None => invoice'[j] # None
    BY <2>3, <2>4 DEF TypeOK
  <2> QED BY <1>1, <1>4, <2>4, <2>5 DEF ReceiveStock, TypeOK, prices, History
<1>5. CASE LeavePrice(i)
  BY <1>5 DEF LeavePrice, TypeOK, prices, History
<1>6. CASE RequestPrice(i)
  <2>1. pricing[i] \in PricingStep /\ invoice[i] # None
    BY <1>6 DEF RequestPrice, TypeOK
  <2>2. pricing[i].cost \in Price /\ pricing[i].selling \in Price
    BY <2>1 DEF PricingStep
  <2>3. [status |-> "PENDING", cost |-> pricing[i].cost, selling |-> pricing[i].selling] \in Request
    BY <2>2 DEF Request
  <2>4. request' \in [Invoices -> Request \cup {None}]
    BY <1>6, <2>3 DEF RequestPrice, TypeOK
  <2>5. pricing' \in [Invoices -> PricingStep \cup {None}]
    BY <1>6 DEF RequestPrice, TypeOK
  <2>6. \A j \in Invoices : pricing'[j] # None \/ request'[j] # None => invoice'[j] # None
    BY <1>6, <2>1 DEF RequestPrice, TypeOK
  <2> QED BY <1>6, <2>4, <2>5, <2>6 DEF RequestPrice, TypeOK, prices, History
<1>7. CASE BeginReprice(i)
  <2>1. pricing[i] \in PricingStep /\ invoice[i] # None
    BY <1>7 DEF BeginReprice, TypeOK
  <2>2. pricing' = [pricing EXCEPT ![i] = [[pricing[i] EXCEPT !.stage = "write"] EXCEPT !.now = clock]]
    BY <1>7 DEF BeginReprice
  <2>3. [[pricing[i] EXCEPT !.stage = "write"] EXCEPT !.now = clock] \in PricingStep
    BY <2>1 DEF PricingStep, TypeOK
  <2>4. pricing' \in [Invoices -> PricingStep \cup {None}]
    BY <2>2, <2>3 DEF TypeOK
  <2>5. \A j \in Invoices : pricing'[j] # None => invoice'[j] # None
    BY <1>7, <2>1, <2>2 DEF BeginReprice, TypeOK
  <2> QED BY <1>7, <2>4, <2>5 DEF BeginReprice, TypeOK, prices, History
<1>8. CASE Reject(i)
  <2>1. request[i] \in Request
    BY <1>8 DEF Reject, Pending, TypeOK
  <2>2. [request[i] EXCEPT !.status = "REJECTED"] \in Request
    BY <2>1 DEF Request
  <2>3. request' = [request EXCEPT ![i] = [request[i] EXCEPT !.status = "REJECTED"]]
    BY <1>8 DEF Reject
  <2>4. request' \in [Invoices -> Request \cup {None}]
    BY <2>2, <2>3 DEF TypeOK
  <2>5. \A j \in Invoices : request'[j] # None => invoice'[j] # None
    BY <1>8, <2>3 DEF Reject, Pending, TypeOK
  <2> QED BY <1>8, <2>4, <2>5 DEF Reject, TypeOK, prices, History
<1> QED BY <1>3, <1>4, <1>5, <1>6, <1>7, <1>8

\* Opening the product form notes what it shows.
LEMMA OpenEditTypes ==
  ASSUME TypeOK, NEW newCost \in Price, NEW newSelling \in Price,
         NEW costFrom \in FormDates \cup {None}, NEW sellingFrom \in FormDates \cup {None},
         OpenEdit(newCost, newSelling, costFrom, sellingFrom)
  PROVE  TypeOK'
<1>1. SellingNow \in Price
  BY InForceIsPrice, PricesAssumption DEF SellingNow, TypeOK
<1>3. edit' \in Form
  BY <1>1 DEF OpenEdit, Form, TypeOK
<1>4. edits' \in 0..MaxEdits
  BY PricesAssumption DEF OpenEdit, TypeOK
<1> QED BY <1>3, <1>4 DEF OpenEdit, TypeOK, prices, History

\* The form's read keeps the invariant, whatever the form holds.
LEMMA OpenEditKeeps ==
  ASSUME IInv, NEW newCost \in Price, NEW newSelling \in Price,
         NEW costFrom \in FormDates \cup {None}, NEW sellingFrom \in FormDates \cup {None},
         OpenEdit(newCost, newSelling, costFrom, sellingFrom)
  PROVE  IInv'
<1>1. UNCHANGED <<clock, prices>> /\ ~FormReading /\ UNCHANGED found
  BY DEF OpenEdit, FormReading, IInv, TypeOK
<1>2. TypeOK'
  BY OpenEditTypes DEF IInv
<1> QED BY <1>1, <1>2, PricesStand DEF IInv

\* Time, the invoices and the owner's decisions keep the invariant.
LEMMA OthersKeep ==
  ASSUME IInv, Others
  PROVE  IInv'
<1>1. CASE Tick
  BY <1>1, TickKeeps
<1>2. ASSUME NEW i \in Invoices,
             \/ \E price \in Costs, date \in Times, received \in BOOLEAN :
                  SaveInvoice(i, price, date, received)
             \/ ReceiveStock(i) \/ LeavePrice(i) \/ RequestPrice(i)
             \/ BeginReprice(i) \/ Reject(i)
      PROVE  IInv'
  <2>1. UNCHANGED <<clock, prices, edit, found>>
    BY <1>2 DEF SaveInvoice, ReceiveStock, LeavePrice, RequestPrice, BeginReprice, Reject
  <2>2. TypeOK'
    BY <1>2, TypesStand DEF IInv
  <2> QED BY <2>1, <2>2, PricesStand DEF IInv
<1>3. ASSUME NEW i \in Invoices, Reprice(i) PROVE IInv'
  BY <1>3, RepriceKeeps
<1>4. ASSUME NEW i \in Invoices, NEW price \in Sellings, NEW from \in Times,
             Approve(i, price, from)
      PROVE  IInv'
  BY <1>4, ApproveKeeps
<1> QED BY <1>1, <1>2, <1>3, <1>4 DEF Others

\* Every step keeps the invariant.
LEMMA StepHolds == IInv /\ [Next]_vars => IInv'
<1> SUFFICES ASSUME IInv, [Next]_vars PROVE IInv'
  OBVIOUS
<1>1. CASE Others
  BY <1>1, OthersKeep
<1>2. ASSUME NEW newCost \in Costs, NEW newSelling \in Sellings,
             NEW costFrom \in FormDates, NEW sellingFrom \in FormDates,
             OpenEdit(newCost, newSelling, costFrom, sellingFrom)
      PROVE  IInv'
  <2>1. newCost \in Price /\ newSelling \in Price
    BY PricesAssumption DEF Price
  <2> QED BY <1>2, <2>1, OpenEditKeeps
<1>3. CASE SaveEdit
  BY <1>3, SaveEditKeeps
<1>5. CASE ReadSelling \/ ReadCost
  BY <1>5, ReadsKeep
<1>4. CASE UNCHANGED vars
  <2>1. TypeOK'
    BY <1>4 DEF vars, TypeOK, IInv, History
  <2> QED BY <1>4, <2>1, PricesStand DEF vars, prices, IInv
<1> QED BY <1>1, <1>2, <1>3, <1>4, <1>5 DEF Next

\* The invariant gives the property: a row that shows the latest entry of its
\* history, none of which is still to come, is the price in force.
LEMMA ShownSuffices == IInv => RowIsPriceInForce
<1> SUFFICES ASSUME IInv PROVE RowIsPriceInForce
  OBVIOUS
<1>1. clock \in Nat /\ MaxTime \in Nat
  BY PricesAssumption DEF IInv, TypeOK, Times
<1>2. ASSUME settled PROVE cost = CostNow /\ selling = SellingNow
  BY <1>1, <1>2, ShownIsInForce DEF IInv, TypeOK, CostNow, SellingNow
<1> QED BY <1>2 DEF RowIsPriceInForce, IInv

\* The invariant holds in every behaviour.
THEOREM Inductive == Spec => []IInv
BY InitHolds, StepHolds, PTL DEF Spec

\* The prices on the product's row are typed and, as long as no price was dated
\* ahead and no write came late, in force: whatever the three writers do.
THEOREM RowFollowsHistory == Spec => []RowIsPriceInForce
BY Inductive, ShownSuffices, PTL

-----------------------------------------------------------------------------
(* Behind the page.                                                       *)

\* The prices hold and the page shows prices.
DeskHolds == IInv /\ PageTypeOK

\* The page starts over prices as they start.
LEMMA DeskInitHolds == DeskInit => DeskHolds
BY InitHolds DEF DeskInit, DeskHolds, PageTypeOK, Page

\* What the page loads are prices.
LEMMA ShownNow ==
  ASSUME IInv
  PROVE  PricesNow \in Shown
<1>1. CostNow \in Price /\ SellingNow \in Price
  BY InForceIsPrice, PricesAssumption DEF CostNow, SellingNow, IInv, TypeOK
<1> QED BY <1>1 DEF PricesNow, Shown

\* What the page sends is a form of ProductPrices.
LEMMA SaveKeeps ==
  ASSUME DeskHolds, page.form # None, NEW typed \in Typed, NEW date \in Dates,
         Save(typed, date)
  PROVE  DeskHolds'
<1>1. page \in Page /\ page.form \in Shown /\ page.catalog \in Shown
  BY DEF DeskHolds, PageTypeOK, Page
<1>2. typed.cost \in Price /\ typed.selling \in Price
  BY <1>1, PricesAssumption DEF Typed, Shown, Price
<1>3. date \in FormDates /\ date \in Times
  BY PricesAssumption DEF Dates, Times
<1>4. \A price, shown : DateSent(price, shown, date) \in FormDates \cup {None}
  BY <1>3 DEF DateSent
<1>5. IInv'
  BY <1>2, <1>4, OpenEditKeeps DEF Save, DeskHolds
<1>6. page' = [page EXCEPT !.sent = [catalog |-> page.catalog, date |-> date]]
  BY DEF Save
<1>7. PageTypeOK'
  BY <1>1, <1>3, <1>6 DEF PageTypeOK, Page, Sent
<1> QED BY <1>5, <1>7 DEF DeskHolds

\* Every step of the page, and beside it, keeps them.
LEMMA DeskStepHolds == DeskHolds /\ [DeskNext]_deskVars => DeskHolds'
<1> SUFFICES ASSUME DeskHolds, [DeskNext]_deskVars PROVE DeskHolds'
  OBVIOUS
<1> USE DEF DeskHolds
<1>1. CASE Elsewhere
  BY <1>1, OthersKeep DEF Elsewhere, PageTypeOK
<1>2. CASE Saved
  <2>1. IInv'
    BY <1>2, SaveEditKeeps DEF Saved
  <2>2. PageTypeOK'
    BY <1>2 DEF Saved, PageTypeOK, Page
  <2> QED BY <2>1, <2>2
<1>8. CASE Saving
  BY <1>8, ReadsKeep DEF Saving, PageTypeOK
<1>3. ASSUME UNCHANGED vars PROVE IInv'
  BY <1>3, StepHolds
<1>4. CASE Load
  <2>1. PageTypeOK'
    BY <1>4, ShownNow DEF Load, PageTypeOK, Page
  <2> QED BY <1>3, <1>4, <2>1 DEF Load
<1>5. CASE EditRow
  <2>1. PageTypeOK'
    BY <1>5 DEF EditRow, PageTypeOK, Page
  <2> QED BY <1>3, <1>5, <2>1 DEF EditRow
<1>6. ASSUME page.form # None, NEW typed \in Typed, NEW date \in Dates, Save(typed, date)
      PROVE  DeskHolds'
  BY <1>6, SaveKeeps
<1>7. CASE UNCHANGED deskVars
  BY <1>3, <1>7 DEF deskVars, PageTypeOK
<1> QED BY <1>1, <1>2, <1>4, <1>5, <1>6, <1>7, <1>8 DEF DeskNext

\* The invariant holds in every behaviour of the page.
THEOREM DeskInductive == DeskSpec => []DeskHolds
BY DeskInitHolds, DeskStepHolds, PTL DEF DeskSpec

\* The types of the page's state and of the prices beneath it.
THEOREM ProductDeskTypeCorrect == DeskSpec => []DeskTypeOK
<1>1. DeskHolds => DeskTypeOK
  BY DEF DeskHolds, DeskTypeOK, IInv
<1> QED BY <1>1, DeskInductive, PTL

\* Whatever the page shows and sends, and whoever writes prices meanwhile, the
\* row shows the price in force until a price is dated ahead or written late.
THEOREM DeskRowFollowsHistory == DeskSpec => []RowIsPriceInForce
<1>1. DeskHolds => RowIsPriceInForce
  BY ShownSuffices DEF DeskHolds
<1> QED BY <1>1, DeskInductive, PTL

-----------------------------------------------------------------------------
(* What a dated price changes.                                             *)

\* A history with an entry at the start decides every price.
LEMMA RowAside ==
  ASSUME NEW h, 0 \in DOMAIN h, NEW t \in Times, NEW one, NEW other, MaxTime \in Nat
  PROVE  InForce(h, one, t) = InForce(h, other, t)
<1>1. 0 \in Begun(h, t)
  BY DEF Begun, Times
<1> QED BY <1>1 DEF InForce

\* A price put at a date shows from then to the next entry and nowhere else.
LEMMA PutShows ==
  ASSUME NEW h, History(h), 0 \in DOMAIN h, MaxTime \in Nat, NEW d \in Times, NEW t \in Times,
         NEW price, NEW row, NEW other
  PROVE  InForce(Put(h, d, price), row, t) =
           IF Reaches(h, d, t) THEN price ELSE InForce(h, other, t)
<1>1. PICK g : g = Put(h, d, price)
  OBVIOUS
<1>2. /\ DOMAIN g = DOMAIN h \cup {d} /\ g[d] = price
      /\ \A x \in DOMAIN h : x # d => g[x] = h[x]
  BY <1>1 DEF Put
<1>3. PICK B : B = Begun(h, t)
  OBVIOUS
<1>4. PICK C : C = Begun(g, t)
  OBVIOUS
<1>5. B \in SUBSET (0..MaxTime) /\ C \in SUBSET (0..MaxTime) /\ 0 \in B /\ 0 \in C
  BY <1>2, <1>3, <1>4 DEF Begun, History, Times
<1>6. C = IF d <= t THEN B \cup {d} ELSE B
  BY <1>2, <1>3, <1>4 DEF Begun
<1>7. PICK m \in B : m = Max(B) /\ \A y \in B : m >= y
  BY <1>5, MaxIsLatest
<1>8. PICK k \in C : k = Max(C) /\ \A y \in C : k >= y
  BY <1>5, MaxIsLatest
<1>9. m \in Int /\ k \in Int /\ d \in Int /\ t \in Int /\ B \subseteq Int
  BY <1>5 DEF Times
<1>10. InForce(g, row, t) = g[k] /\ InForce(h, other, t) = h[m]
  BY <1>3, <1>4, <1>5, <1>7, <1>8 DEF InForce
<1>11. CASE Reaches(h, d, t)
  <2>1. d <= t /\ \A x \in B : x <= d
    BY <1>3, <1>11 DEF Reaches
  <2>2. k = d
    BY <1>6, <1>8, <1>9, <2>1
  <2> QED BY <1>1, <1>2, <1>10, <1>11, <2>2
<1>12. CASE ~ Reaches(h, d, t)
  <2>1. ~ (d <= t) \/ \E x \in B : ~ (x <= d)
    BY <1>3, <1>12 DEF Reaches
  <2>2. k = m /\ m # d
    <3>1. CASE ~ (d <= t)
      <4>1. C = B
        BY <1>6, <3>1
      <4>2. k = m
        BY <1>7, <1>8, <1>9, <4>1
      <4>3. m <= t
        BY <1>3, <1>7 DEF Begun
      <4> QED BY <1>9, <3>1, <4>2, <4>3
    <3>2. CASE d <= t /\ \E x \in B : ~ (x <= d)
      <4>1. C = B \cup {d}
        BY <1>6, <3>2
      <4>2. PICK x \in B : ~ (x <= d)
        BY <3>2
      <4>3. m >= x /\ k >= m /\ k >= x
        BY <1>7, <1>8, <4>1
      <4>4. k # d /\ m # d
        BY <1>9, <4>2, <4>3
      <4>5. k \in B
        BY <1>8, <4>1, <4>4
      <4> QED BY <1>7, <1>9, <4>3, <4>4, <4>5
    <3> QED BY <2>1, <3>1, <3>2
  <2>3. m \in DOMAIN h
    BY <1>3, <1>7 DEF Begun
  <2> QED BY <1>1, <1>2, <1>10, <1>12, <2>2, <2>3
<1> QED BY <1>11, <1>12

\* Putting a price at two times is putting it at one and then the other.
LEMMA PutAllTwo ==
  ASSUME NEW h, NEW d, NEW a, NEW price
  PROVE  PutAll(h, {d, a}, price) = Put(Put(h, d, price), a, price)
BY DEF PutAll, Put

-----------------------------------------------------------------------------
(* The page's save and the form it opened.                                 *)

\* The form waiting to be saved brings the dates the page sent: one with each
\* price that was not the catalog's.  And both histories start at the start.
FormIsSent ==
  edit # None =>
    /\ page.sent \in Sent
    /\ edit.costFrom = DateSent(edit.cost, page.sent.catalog.cost, page.sent.date)
    /\ edit.sellingFrom = DateSent(edit.selling, page.sent.catalog.selling, page.sent.date)
    /\ page.sent.date # None

Begins == 0 \in DOMAIN costs /\ 0 \in DOMAIN sellings

DInv == DeskHolds /\ Begins /\ FormIsSent

\* No writer takes an entry out of a history.
LEMMA BeginsKept ==
  ASSUME Begins, Others \/ SaveEdit \/ UNCHANGED prices
  PROVE  Begins'
<1>1. \A h, t, price : DOMAIN h \subseteq DOMAIN Put(h, t, price)
  BY DEF Put
<1>2. \A h, S, price : DOMAIN h \subseteq DOMAIN PutAll(h, S, price)
  BY DEF PutAll
<1>3. CASE UNCHANGED prices
  BY <1>3 DEF prices, Begins
<1>4. CASE SaveEdit
  BY <1>1, <1>4 DEF SaveEdit, FormSellings, FormCosts, Begins
<1>5. ASSUME NEW i \in Invoices, Reprice(i) PROVE Begins'
  BY <1>1, <1>5 DEF Reprice, Begins
<1>6. ASSUME NEW i \in Invoices, NEW price \in Sellings, NEW from \in Times, Approve(i, price, from)
      PROVE  Begins'
  BY <1>1, <1>2, <1>6 DEF Approve, Begins
<1> QED BY <1>3, <1>4, <1>5, <1>6 DEF Others, Tick, SaveInvoice, ReceiveStock, LeavePrice,
                                    RequestPrice, BeginReprice, Reject

\* Only the form's save touches the form.
LEMMA OthersLeaveForm ==
  ASSUME Others
  PROVE  UNCHANGED edit
BY DEF Others, Tick, SaveInvoice, ReceiveStock, LeavePrice, RequestPrice, BeginReprice, Reject,
       Reprice, Approve

\* Every step of the page keeps them.
LEMMA DInvStep == DInv /\ [DeskNext]_deskVars => DInv'
<1> SUFFICES ASSUME DInv, [DeskNext]_deskVars PROVE DInv'
  OBVIOUS
<1>1. DeskHolds'
  BY DeskStepHolds DEF DInv
<1>2. CASE Elsewhere
  BY <1>1, <1>2, BeginsKept, OthersLeaveForm DEF Elsewhere, DInv, FormIsSent
<1>3. CASE Saved
  <2>1. edit' = None
    BY <1>3 DEF Saved, SaveEdit
  <2>2. Begins'
    BY <1>3, BeginsKept DEF Saved, DInv
  <2> QED BY <1>1, <2>1, <2>2 DEF DInv, FormIsSent
<1>7. CASE Saving
  <2>1. UNCHANGED <<edit, prices, page>>
    BY <1>7 DEF Saving, ReadSelling, ReadCost
  <2> QED BY <1>1, <2>1, BeginsKept DEF DInv, FormIsSent
<1>4. CASE Load \/ EditRow
  <2>1. UNCHANGED <<edit, prices>> /\ page'.sent = page.sent
    BY <1>4 DEF Load, EditRow, vars, prices, DInv, DeskHolds, PageTypeOK, Page
  <2> QED BY <1>1, <2>1, BeginsKept DEF DInv, FormIsSent
<1>5. ASSUME page.form # None, NEW typed \in Typed, NEW date \in Dates, Save(typed, date)
      PROVE  DInv'
  <2>1. page \in Page /\ page.catalog \in Shown
    BY <1>5 DEF DInv, DeskHolds, PageTypeOK
  <2>2. page'.sent = [catalog |-> page.catalog, date |-> date]
    BY <1>5, <2>1 DEF Save, Page
  <2>3. date \in Times /\ date # None
    BY PricesAssumption DEF Dates, Times
  <2>4. /\ edit'.cost = typed.cost /\ edit'.selling = typed.selling
        /\ edit'.costFrom = DateSent(typed.cost, page.catalog.cost, date)
        /\ edit'.sellingFrom = DateSent(typed.selling, page.catalog.selling, date)
        /\ UNCHANGED prices
    BY <1>5 DEF Save, OpenEdit
  <2>5. page'.sent \in Sent /\ page'.sent.catalog = page.catalog /\ page'.sent.date = date
    BY <2>1, <2>2, <2>3 DEF Sent
  <2>6. FormIsSent'
    BY <2>3, <2>4, <2>5 DEF FormIsSent, DateSent
  <2> QED BY <1>1, <2>4, <2>6, BeginsKept DEF DInv
<1>6. CASE UNCHANGED deskVars
  <2>1. UNCHANGED <<edit, prices, page>>
    BY <1>6 DEF deskVars, vars, prices
  <2> QED BY <1>1, <2>1, BeginsKept DEF DInv, FormIsSent
<1> QED BY <1>2, <1>3, <1>4, <1>5, <1>6, <1>7 DEF DeskNext

\* The form of the page is the one it sent, and the histories start at the start.
THEOREM FormFollowsPage == DeskSpec => []DInv
<1>1. DeskInit => DInv
  <2> SUFFICES ASSUME DeskInit PROVE DInv
    OBVIOUS
  <2>1. DeskHolds
    BY DeskInitHolds
  <2> QED BY <2>1 DEF DInv, DeskInit, Init, Begins, FormIsSent
<1> QED BY <1>1, DInvStep, PTL DEF DeskSpec

-----------------------------------------------------------------------------
(* What the owner decides takes effect.                                    *)

\* What is read off a history off the page: typed, with an entry at the start.
LEMMA Written ==
  ASSUME DInv
  PROVE  /\ TypeOK /\ MaxTime \in Nat /\ clock \in Times
         /\ History(costs) /\ 0 \in DOMAIN costs
         /\ History(sellings) /\ 0 \in DOMAIN sellings
BY PricesAssumption DEF DInv, DeskHolds, IInv, TypeOK, Begins

\* A price put at a time is the one in force at that time.
LEMMA PutTakesEffect ==
  ASSUME NEW h, History(h), 0 \in DOMAIN h, MaxTime \in Nat, NEW t \in Times, NEW price, NEW row
  PROVE  InForce(Put(h, t, price), row, t) = price
<1>1. Reaches(h, t, t)
  BY DEF Reaches, Begun, Times
<1> QED BY <1>1, PutShows

\* Later of two times is one of them.
LEMMA LaterIsTime ==
  ASSUME NEW a \in Times, NEW b \in Times
  PROVE  Later(a, b) \in Times
BY DEF Later

\* An approval puts the invoice's price in force, whatever the history held.
LEMMA ApproveTakesEffect ==
  ASSUME DInv, NEW i \in Invoices, NEW price \in Sellings, NEW from \in Times,
         Approve(i, price, from)
  PROVE  InForce(costs', cost', Activation(i, clock)) = invoice[i].price
<1>1. invoice[i] \in InvoiceRow
  BY Written DEF Approve, Pending, TypeOK
<1>2. PICK d \in Times : d = invoice[i].date
  BY <1>1 DEF InvoiceRow
<1>3. PICK a \in Times : a = Activation(i, clock)
  BY <1>2, LaterIsTime, Written DEF Activation
<1>4. PICK p \in Price : p = invoice[i].price
  BY <1>1, PricesAssumption DEF InvoiceRow, Price
<1>5. costs' = Put(Put(costs, d, p), a, p)
  BY <1>2, <1>3, <1>4, PutAllTwo DEF Approve, CostDates
<1>6. History(Put(costs, d, p)) /\ 0 \in DOMAIN Put(costs, d, p)
  <2>1. History(Put(costs, d, p))
    BY Written, PutIsHistory
  <2> QED BY <2>1, Written DEF Put
<1> QED BY <1>3, <1>4, <1>5, <1>6, Written, PutTakesEffect

\* An approval is given on the row, and so on the prices in force if the row
\* shows them.
LEMMA ApproveSeesPrices ==
  ASSUME DInv, NEW i \in Invoices, NEW price, NEW from, Approve(i, price, from), settled
  PROVE  request[i].cost = CostNow /\ request[i].selling = SellingNow
<1>1. cost = CostNow /\ selling = SellingNow
  BY ShownSuffices DEF DInv, DeskHolds, RowIsPriceInForce
<1> QED BY <1>1 DEF Approve, EvidenceStands

\* Once its form is saved without a date, a price is the one in force.
LEMMA FormTakesEffect ==
  ASSUME NEW h, History(h), 0 \in DOMAIN h, MaxTime \in Nat, NEW t \in Times, NEW price,
         NEW row, NEW after, NEW g,
         g = IF price # InForce(h, row, t) THEN Put(h, t, price) ELSE h
  PROVE  InForce(g, after, t) = price
<1>1. CASE price # InForce(h, row, t)
  BY <1>1, PutTakesEffect
<1>2. CASE price = InForce(h, row, t)
  BY <1>2, RowAside
<1> QED BY <1>1, <1>2

\* A form saved without dates on prices that stand puts both in force.
LEMMA SaveEditTakesEffect ==
  ASSUME DInv, SaveEdit
  PROVE  EditTakesEffect
<1> SUFFICES ASSUME FormStands, edit.costFrom = None, edit.sellingFrom = None
             PROVE  CostNow' = edit.cost /\ SellingNow' = edit.selling
  BY DEF EditTakesEffect
<1>1. SellingFrom = clock /\ CostFrom = clock
  BY DEF SellingFrom, CostFrom, FormStands
<1>2. EditsSelling <=> edit.selling # InForce(sellings, selling, clock)
  BY DEF EditsSelling, FormStands, SellingNow
<1>3. EditsCost <=> edit.cost # InForce(costs, cost, clock)
  BY DEF EditsCost, FormStands, CostNow
<1>4. sellings' = IF edit.selling # InForce(sellings, selling, clock)
                  THEN Put(sellings, clock, edit.selling) ELSE sellings
  BY <1>1, <1>2 DEF SaveEdit, FormSellings
<1>5. costs' = IF edit.cost # InForce(costs, cost, clock)
               THEN Put(costs, clock, edit.cost) ELSE costs
  BY <1>1, <1>3 DEF SaveEdit, FormCosts
<1>6. InForce(sellings', selling', clock) = edit.selling
  BY <1>4, Written, FormTakesEffect
<1>7. InForce(costs', cost', clock) = edit.cost
  BY <1>5, Written, FormTakesEffect
<1>8. clock' = clock
  BY DEF SaveEdit
<1> QED BY <1>6, <1>7, <1>8 DEF CostNow, SellingNow

\* Only the owner's approval approves.
LEMMA OthersLeaveRequests ==
  ASSUME DInv, Others, NEW i \in Invoices, Pending(i), request'[i].status = "APPROVED"
  PROVE  \E price \in Sellings, from \in Times : Approve(i, price, from)
<1>1. request \in [Invoices -> Request \cup {None}]
  BY Written DEF TypeOK
<1>2. request[i].status # "APPROVED"
  BY DEF Pending
<1>3. request' # request
  BY <1>2
<1>4. PICK j \in Invoices : \/ RequestPrice(j) \/ Reject(j)
                            \/ \E price \in Sellings, from \in Times : Approve(j, price, from)
  BY <1>3 DEF Others, Tick, SaveInvoice, ReceiveStock, LeavePrice, BeginReprice, Reprice
<1>5. j = i
  <2>1. CASE j # i
    <3>1. request'[i] = request[i]
      BY <1>1, <1>4, <2>1 DEF RequestPrice, Reject, Approve
    <3> QED BY <1>2, <3>1
  <2> QED BY <2>1
<1>6. ~ RequestPrice(i)
  BY <1>2 DEF RequestPrice, Pending
<1>7. ~ Reject(i)
  <2>1. CASE Reject(i)
    <3>1. request[i] \in Request
      BY <1>1 DEF Pending
    <3>2. request'[i].status = "REJECTED"
      BY <1>1, <2>1, <3>1 DEF Reject, Request
    <3> QED BY <3>2
  <2> QED BY <2>1
<1> QED BY <1>4, <1>5, <1>6, <1>7

\* Whatever the histories held and whoever wrote meanwhile, what the owner
\* approves is in force from the invoice's date or from now, and a form saved
\* without dates puts its prices in force if those it read still stand.
THEOREM OwnersPriceStands == DeskSpec => OwnerPriceTakesEffect
<1>1. ASSUME DInv, [DeskNext]_deskVars
      PROVE  [EditTakesEffect /\ \A i \in Invoices : ApprovalTakesEffect(i)]_vars
  <2>1. CASE UNCHANGED vars
    BY <2>1
  <2>2. CASE Others
    <3>1. EditTakesEffect
      BY <2>2, OthersLeaveForm DEF EditTakesEffect
    <3>2. ASSUME NEW i \in Invoices PROVE ApprovalTakesEffect(i)
      BY <1>1, <2>2, OthersLeaveRequests, ApproveTakesEffect, ApproveSeesPrices DEF ApprovalTakesEffect
    <3> QED BY <3>1, <3>2
  <2>5. CASE Saving
    <3>1. UNCHANGED <<edit, request>>
      BY <2>5 DEF Saving, ReadSelling, ReadCost
    <3> QED BY <3>1 DEF EditTakesEffect, ApprovalTakesEffect, Pending
  <2>3. CASE SaveEdit
    <3>1. ASSUME NEW i \in Invoices PROVE ApprovalTakesEffect(i)
      BY <2>3 DEF SaveEdit, ApprovalTakesEffect, Pending
    <3> QED BY <1>1, <2>3, <3>1, SaveEditTakesEffect
  <2>4. ASSUME NEW typed, NEW date, Save(typed, date)
        PROVE  EditTakesEffect /\ \A i \in Invoices : ApprovalTakesEffect(i)
    <3>1. edit = None /\ UNCHANGED request
      BY <2>4 DEF Save, OpenEdit
    <3> QED BY <3>1 DEF EditTakesEffect, ApprovalTakesEffect, Pending
  <2> QED BY <1>1, <2>1, <2>2, <2>3, <2>4, <2>5 DEF DeskNext, Elsewhere, Saved, Load, EditRow, deskVars
<1> QED BY <1>1, FormFollowsPage, PTL DEF DeskSpec, OwnerPriceTakesEffect

-----------------------------------------------------------------------------
(* Pricing by an invoice.                                                  *)

\* A price put at a date changes nothing before the date.
LEMMA PutLeavesPast ==
  ASSUME NEW h, History(h), 0 \in DOMAIN h, MaxTime \in Nat, NEW d \in Times, NEW t \in Times,
         t < d, NEW price, NEW row, NEW other
  PROVE  InForce(Put(h, d, price), row, t) = InForce(h, other, t)
<1>1. ~ Reaches(h, d, t)
  BY DEF Reaches, Times
<1> QED BY <1>1, PutShows

\* A pricing that waits to be written read its prices, of an invoice saved.
LEMMA Waiting ==
  ASSUME DInv, NEW i \in Invoices, pricing[i] # None, pricing[i].stage = "write"
  PROVE  /\ pricing[i].now \in Times
         /\ pricing[i].cost \in Int /\ pricing[i].selling \in Int
         /\ invoice[i].date \in Times /\ invoice[i].price \in Int
<1>1. pricing[i] \in PricingStep /\ invoice[i] \in InvoiceRow
  BY Written DEF TypeOK
<1>2. pricing[i] \in [stage : {"write"}, cost : Price, selling : Price, now : Times]
  BY <1>1 DEF PricingStep
<1>3. Price \subseteq Int /\ Costs \subseteq Int
  BY PricesAssumption DEF Price
<1> QED BY <1>1, <1>2, <1>3 DEF InvoiceRow

\* It leaves every selling price before it, however far back the invoice goes.
LEMMA RepriceLeavesPast ==
  ASSUME DInv, NEW i \in Invoices, Reprice(i)
  PROVE  LeavesPast(i)
<1>1. PICK now \in Times : now = pricing[i].now
  BY Waiting DEF Reprice
<1>2. PICK d \in Times : d = invoice[i].date
  BY Waiting DEF Reprice
<1>3. PICK a \in Times : a = Activation(i, now)
  BY <1>2, LaterIsTime DEF Activation
<1>4. a >= now
  BY <1>2, <1>3 DEF Activation, Later, Times
<1>5. sellings' = Put(sellings, a, Suggested(i))
  BY <1>1, <1>3 DEF Reprice
<1>6. ASSUME NEW t \in Times, t < now
      PROVE  InForce(sellings', selling', t) = InForce(sellings, selling, t)
  <2>1. t < a
    BY <1>4, <1>6 DEF Times
  <2> QED BY <1>5, <2>1, Written, PutLeavesPast
<1> QED BY <1>1, <1>6 DEF LeavesPast

\* On prices that stand, it keeps their difference or stops at zero.
LEMMA RepriceKeepsMargin ==
  ASSUME DInv, NEW i \in Invoices, Reprice(i)
  PROVE  KeepsMargin(i)
<1> SUFFICES ASSUME Fresh(i)
             PROVE  SellingNow' - CostNow' = SellingNow - CostNow \/ SellingNow' = 0
  BY DEF KeepsMargin
<1>1. PICK d \in Times : d = invoice[i].date
  BY Waiting DEF Reprice
<1>2. pricing[i].now = clock /\ Activation(i, clock) = clock
  BY <1>1, Written DEF Fresh, Activation, Later, Times
<1>3. PICK p \in Int : p = invoice[i].price
  BY Waiting DEF Reprice
<1>4. PICK s \in Int : s = Suggested(i)
  BY Waiting DEF Reprice, Suggested, Later
<1>5. costs' = Put(Put(costs, d, p), clock, p) /\ sellings' = Put(sellings, clock, s)
  BY <1>1, <1>2, <1>3, <1>4 DEF Reprice
<1>6. p \in Price
  BY <1>3, Written, PricesAssumption DEF Reprice, TypeOK, InvoiceRow, Price
<1>7. History(Put(costs, d, p)) /\ 0 \in DOMAIN Put(costs, d, p)
  <2>1. History(Put(costs, d, p))
    BY <1>6, Written, PutIsHistory
  <2> QED BY <2>1, Written DEF Put
<1>8. InForce(costs', cost', clock) = p /\ InForce(sellings', selling', clock) = s
  BY <1>5, <1>7, Written, PutTakesEffect
<1>9. clock' = clock
  BY DEF Reprice
<1>10. CostNow' = p /\ SellingNow' = s
  BY <1>8, <1>9 DEF CostNow, SellingNow
<1>11. PICK c \in Int : c = CostNow
  BY Waiting DEF Reprice, Fresh
<1>12. PICK v \in Int : v = SellingNow
  BY Waiting DEF Reprice, Fresh
<1>13. s = p + v - c \/ s = 0
  BY <1>3, <1>4, <1>11, <1>12 DEF Suggested, Later, Fresh
<1>14. s - p = v - c \/ s = 0
  BY <1>13
<1> QED BY <1>10, <1>11, <1>12, <1>14

\* Only the write of the new prices ends a pricing that waits to be written.
LEMMA OnlyRepriceEnds ==
  ASSUME DInv, Others, NEW i \in Invoices, Repriced(i)
  PROVE  Reprice(i)
<1>1. pricing \in [Invoices -> PricingStep \cup {None}]
  BY Written DEF TypeOK
<1>2. pricing[i] # None /\ pricing[i].stage = "write" /\ pricing'[i] # pricing[i]
  BY DEF Repriced
<1>3. PICK j \in Invoices : \/ \E price \in Costs, date \in Times, received \in BOOLEAN :
                                 SaveInvoice(j, price, date, received)
                            \/ ReceiveStock(j) \/ LeavePrice(j) \/ RequestPrice(j)
                            \/ BeginReprice(j) \/ Reprice(j)
  BY <1>2 DEF Others, Tick, Reject, Approve
<1>4. CASE j # i
  <2>1. pricing'[i] = pricing[i]
    BY <1>1, <1>3, <1>4 DEF SaveInvoice, ReceiveStock, LeavePrice, RequestPrice, BeginReprice, Reprice
  <2> QED BY <1>2, <2>1
<1>5. CASE j = i
  <2>1. invoice[i] # None
    BY <1>2, Written DEF TypeOK
  <2>2. \A price, date, received : ~ SaveInvoice(i, price, date, received)
    BY <2>1 DEF SaveInvoice
  <2>3. ~ ReceiveStock(i) /\ ~ LeavePrice(i) /\ ~ RequestPrice(i) /\ ~ BeginReprice(i)
    BY <1>2 DEF ReceiveStock, LeavePrice, RequestPrice, BeginReprice
  <2> QED BY <1>3, <1>5, <2>2, <2>3
<1> QED BY <1>4, <1>5

\* Automatic pricing keeps the confirmed margin where the prices it read still
\* stand, and rewrites no selling price of the past.
THEOREM MarginKept == DeskSpec => InvoiceKeepsMargin
<1>1. ASSUME DInv, [DeskNext]_deskVars
      PROVE  [\A i \in Invoices : Repriced(i) => KeepsMargin(i) /\ LeavesPast(i)]_vars
  <2>1. CASE Others
    BY <1>1, <2>1, OnlyRepriceEnds, RepriceKeepsMargin, RepriceLeavesPast
  <2>2. CASE UNCHANGED vars
    BY <2>2
  <2>3. CASE SaveEdit \/ Saving
    BY <2>3 DEF SaveEdit, Saving, ReadSelling, ReadCost, Repriced
  <2>4. ASSUME NEW typed, NEW date, Save(typed, date)
        PROVE  \A i \in Invoices : ~ Repriced(i)
    BY <2>4 DEF Save, OpenEdit, Repriced
  <2> QED BY <1>1, <2>1, <2>2, <2>3, <2>4 DEF DeskNext, Elsewhere, Saved, Load, EditRow, deskVars
<1> QED BY <1>1, FormFollowsPage, PTL DEF DeskSpec, InvoiceKeepsMargin

-----------------------------------------------------------------------------
(* The form changes what was typed.                                        *)

\* On prices that stand, the form's save changes what the page sent.
LEMMA SaveEditShowsTyped ==
  ASSUME DInv, SaveEdit, PageStands, NEW t \in Times
  PROVE  /\ ShowsTyped(costs, cost, costs', cost', edit.cost, t)
         /\ ShowsTyped(sellings, selling, sellings', selling', edit.selling, t)
<1>1. edit # None /\ FormIsSent
  BY Written DEF SaveEdit, TypeOK, DInv
<1>2. PICK d \in Times : d = page.sent.date /\ d # None
  BY <1>1 DEF FormIsSent, Sent
<1>3. page.sent.catalog.cost = CostNow /\ page.sent.catalog.selling = SellingNow
  BY DEF PageStands, PricesNow
<1>4. /\ edit.costFrom = IF edit.cost # CostNow THEN d ELSE None
      /\ edit.sellingFrom = IF edit.selling # SellingNow THEN d ELSE None
  BY <1>1, <1>2, <1>3 DEF FormIsSent, DateSent
<1>5. EditsCost <=> edit.cost # CostNow
  BY <1>2, <1>4 DEF EditsCost, PageStands
<1>6. EditsSelling <=> edit.selling # SellingNow
  BY <1>2, <1>4 DEF EditsSelling, PageStands
<1>7. costs' = IF edit.cost # CostNow THEN Put(costs, d, edit.cost) ELSE costs
  BY <1>2, <1>4, <1>5 DEF SaveEdit, FormCosts, CostFrom
<1>8. sellings' = IF edit.selling # SellingNow THEN Put(sellings, d, edit.selling) ELSE sellings
  BY <1>2, <1>4, <1>6 DEF SaveEdit, FormSellings, SellingFrom
<1>9. ASSUME NEW now, now = CostNow
      PROVE  InForce(costs', cost', t) =
               IF edit.cost # now /\ Reaches(costs, d, t) THEN edit.cost ELSE InForce(costs, cost, t)
  <2>1. CASE edit.cost # now
    <3>1. costs' = Put(costs, d, edit.cost)
      BY <1>7, <1>9, <2>1
    <3> QED BY <2>1, <3>1, Written, PutShows
  <2>2. CASE edit.cost = now
    <3>1. costs' = costs
      BY <1>7, <1>9, <2>2
    <3> QED BY <2>2, <3>1, Written, RowAside
  <2> QED BY <2>1, <2>2
<1>10. ASSUME NEW now, now = SellingNow
       PROVE  InForce(sellings', selling', t) =
                IF edit.selling # now /\ Reaches(sellings, d, t)
                THEN edit.selling ELSE InForce(sellings, selling, t)
  <2>1. CASE edit.selling # now
    <3>1. sellings' = Put(sellings, d, edit.selling)
      BY <1>8, <1>10, <2>1
    <3> QED BY <2>1, <3>1, Written, PutShows
  <2>2. CASE edit.selling = now
    <3>1. sellings' = sellings
      BY <1>8, <1>10, <2>2
    <3> QED BY <2>2, <3>1, Written, RowAside
  <2> QED BY <2>1, <2>2
<1> QED BY <1>2, <1>9, <1>10 DEF ShowsTyped, CostNow, SellingNow

\* A form saved on prices nobody else touched changes what the owner typed over,
\* from its date to the next dated price, and nothing else at any time.
THEOREM TypedOverOnly == DeskSpec => FormChangesWhatWasTyped
<1>1. ASSUME DInv, [DeskNext]_deskVars
      PROVE  [edit # None /\ edit' = None /\ PageStands =>
                \A t \in Times :
                  /\ ShowsTyped(costs, cost, costs', cost', edit.cost, t)
                  /\ ShowsTyped(sellings, selling, sellings', selling', edit.selling, t)]_deskVars
  <2> SUFFICES ASSUME edit # None, edit' = None, PageStands, ~ UNCHANGED deskVars, NEW t \in Times
               PROVE  /\ ShowsTyped(costs, cost, costs', cost', edit.cost, t)
                      /\ ShowsTyped(sellings, selling, sellings', selling', edit.selling, t)
    OBVIOUS
  <2>1. ~ Others
    BY OthersLeaveForm
  <2>2. \A typed, date : ~ Save(typed, date)
    BY DEF Save, OpenEdit
  <2>3. ~ Load /\ ~ EditRow /\ ~ Saving
    BY DEF Load, EditRow, Saving, ReadSelling, ReadCost, vars
  <2>4. SaveEdit
    BY <1>1, <2>1, <2>2, <2>3 DEF DeskNext, Elsewhere, Saved
  <2> QED BY <1>1, <2>4, SaveEditShowsTyped
<1> QED BY <1>1, FormFollowsPage, PTL DEF DeskSpec, FormChangesWhatWasTyped
=============================================================================
