-------------------------- MODULE WarehouseProofs --------------------------
(* Theorems about Warehouse for any sets of lots, roasts, issues, counts,  *)
(* callers and locations, and any quantities.                              *)
EXTENDS Warehouse, QuantityProofs

-----------------------------------------------------------------------------
(* Sums of what roasts have taken. *)

\* The places of green beans, the lots and the owners are finitely many.
LEMMA FiniteSets ==
  /\ IsFiniteSet(GreenLots) /\ IsFiniteSet(Roasts) /\ IsFiniteSet(Locations)
  /\ IsFiniteSet(GreenLots \X Locations)
  /\ IsFiniteSet(Lots) /\ IsFiniteSet(Owners)
<1>1. IsFiniteSet(GreenLots) /\ IsFiniteSet(Roasts) /\ IsFiniteSet(Issues)
      /\ IsFiniteSet(Locations)
  BY SetsAssumption
<1>2. IsFiniteSet(GreenLots \X Locations) BY <1>1, FS_Product
<1>3. IsFiniteSet(Lots)
  <2>1. IsFiniteSet(GreenLots \cup Roasts) BY <1>1, FS_Union
  <2>2. QED BY <1>1, <2>1, FS_Union DEF Lots
<1>4. IsFiniteSet(Products)
  <2>1. IsFiniteSet({"GREEN"}) BY FS_Singleton
  <2>2. IsFiniteSet({"GREEN"} \cup {"ROASTED"}) BY <2>1, FS_AddElement
  <2>3. IsFiniteSet({"GREEN"} \cup {"ROASTED"} \cup {"GROUND"})
    BY <2>2, FS_AddElement
  <2>4. Products = {"GREEN"} \cup {"ROASTED"} \cup {"GROUND"} BY DEF Products
  <2>5. QED BY <2>3, <2>4
<1>5. IsFiniteSet(Owners) BY <1>3, <1>4, FS_Union DEF Owners
<1>6. QED BY <1>1, <1>2, <1>3, <1>5

\* A row of reservations adds up to a natural number.
LEMMA RowType ==
  ASSUME NEW t \in Reservations, NEW l \in GreenLots
  PROVE  Total(Row(t, l, Locations)) \in Nat
<1> DEFINE q == Row(t, l, Locations)
<1>1. \A c \in Locations : <<l, c>> \in GreenLots \X Locations OBVIOUS
<1>2. q \in [Locations -> Nat] BY <1>1 DEF Reservations, Row
<1> HIDE DEF q
<1>3. Total(q) \in Nat BY <1>2, FiniteSets, TotalType
<1>4. QED BY <1>3 DEF q

\* What a roast has taken is a number, in all and lot by lot.
LEMMA TakenType ==
  ASSUME TypeOK, NEW b \in Roasts
  PROVE  /\ \A l \in GreenLots : TakenFrom(b, l) \in Nat
         /\ Total(taken[b]) \in Nat
<1>1. taken[b] \in Reservations BY DEF TypeOK
<1>2. \A l \in GreenLots : TakenFrom(b, l) \in Nat
  BY <1>1, RowType DEF TakenFrom
<1>3. Total(taken[b]) \in Nat
  <2> DEFINE t == taken[b]
  <2>1. t \in [GreenLots \X Locations -> Nat] BY <1>1 DEF Reservations
  <2> HIDE DEF t
  <2>2. Total(t) \in Nat BY <2>1, FiniteSets, TotalType
  <2>3. QED BY <2>2 DEF t
<1>4. QED BY <1>2, <1>3

\* What roasts have committed of a product.
LEMMA CommittedType ==
  ASSUME TypeOK, NEW p, NEW own
  PROVE  Committed(p, own) \in Nat
<1> DEFINE q == [b \in Roasts |->
                   IF roast[b].status = "CHARGED" /\ b \notin own
                   THEN Total(taken[b]) ELSE 0]
<1>1. q \in [Roasts -> Nat] BY TakenType
<1>2. Committed(p, own) = IF p # "GREEN" THEN 0 ELSE Total(q)
  BY DEF Committed
<1> HIDE DEF q
<1>3. Total(q) \in Nat BY <1>1, FiniteSets, TotalType
<1>4. QED BY <1>2, <1>3
-----------------------------------------------------------------------------
(* Types. *)

USE DEF Kg, AtLeast0

\* The types hold of an empty warehouse.
LEMMA TypeInit == Init => TypeOK
<1> SUFFICES ASSUME Init PROVE TypeOK OBVIOUS
<1>1. /\ stock \in [Products -> Nat] /\ place \in [Places -> Int]
      /\ wip \in [Lots -> Nat]
      /\ ins \in [Owners -> Nat] /\ outs \in [Owners -> Nat]
  BY DEF Init, Nothing
<1>2. /\ drawn \subseteq Lots /\ used \subseteq Lots /\ held \subseteq Lots
      /\ shelf \in Seq(Lots)
  BY DEF Init
<1>3. /\ bought \in [GreenLots -> Purchase] /\ roast \in [Roasts -> Roast]
      /\ taken \in [Roasts -> Reservations]
  BY DEF Init, Purchase, Roast, Reservations, NoReservations
<1>4. issue \in [Issues -> Issue]
  BY DEF Init, Nothing, Issue, Products
<1>5. user \in [Users -> Task] BY DEF Init, Idle, Task
<1>6. count \in [Counts -> Count]
  <2>1. Lots # {} /\ Locations # {} BY SetsAssumption DEF Lots
  <2>2. NoCount \in Count BY <2>1 DEF NoCount, Count
  <2>3. QED BY <2>2 DEF Init
<1>7. QED BY <1>1, <1>2, <1>3, <1>4, <1>5, <1>6 DEF TypeOK

\* createGreenBeanPurchase keeps the types.
LEMMA TypeBuy ==
  ASSUME TypeOK, NEW l \in GreenLots, NEW kg \in Receipts,
         NEW c \in Locations, NEW i \in 0 .. Len(shelf),
         BuyGreenBeans(l, kg, c, i)
  PROVE  TypeOK'
BY BoundsAssumption
   DEF TypeOK, BuyGreenBeans, Purchase, Products, Owners, Lots, Places

\* voidPurchaseCore keeps the types: the stock it takes is there.
LEMMA TypeVoidPurchase ==
  ASSUME TypeOK, NEW l \in GreenLots, VoidPurchase(l)
  PROVE  TypeOK'
BY CommittedType
   DEF TypeOK, VoidPurchase, MayIssue, Purchase, Products, Owners, Lots

\* adjustStock keeps the types: it takes no more than there is.
LEMMA TypeAdjust ==
  ASSUME TypeOK, NEW p \in Corrected, NEW kg \in Kg,
         AdjustIn(p, kg) \/ AdjustOut(p, kg)
  PROVE  TypeOK'
<1>1. p \in Products /\ p \in Owners /\ kg \in Nat
  BY BoundsAssumption DEF Owners
<1>2. ASSUME AdjustIn(p, kg) PROVE TypeOK'
  BY <1>1, <1>2 DEF TypeOK, AdjustIn
<1>3. ASSUME AdjustOut(p, kg) PROVE TypeOK'
  BY <1>1, <1>3 DEF TypeOK, AdjustOut
<1>4. QED BY <1>2, <1>3

\* The stocks of two products change.
LEMMA TwoStocks ==
  ASSUME NEW s \in [Products -> Nat], NEW p \in Products, NEW q \in Products,
         p # q, NEW m \in Int, NEW n \in Int, s[p] + m >= 0, s[q] + n >= 0
  PROVE  [s EXCEPT ![p] = @ + m, ![q] = @ + n] \in [Products -> Nat]
<1>1. s[p] + m \in Nat /\ s[q] + n \in Nat OBVIOUS
<1>2. \A r \in Products :
        [s EXCEPT ![p] = @ + m, ![q] = @ + n][r] =
          IF r = q THEN s[q] + n ELSE IF r = p THEN s[p] + m ELSE s[r]
  OBVIOUS
<1>3. QED BY <1>1, <1>2

\* The kilograms taken out of the roaster, and the rows about them.
LEMMA ConsumedTypes ==
  ASSUME TypeOK, NEW b \in Roasts
  PROVE  /\ \A l \in Lots : TakenOutOf(b, l) \in Nat
         /\ AddTaken(ins, b) \in [Owners -> Nat]
         /\ AddTaken(outs, b) \in [Owners -> Nat]
<1>1. \A l \in GreenLots : TakenFrom(b, l) \in Nat BY TakenType
<1>2. \A l \in Lots : TakenOutOf(b, l) \in Nat BY <1>1 DEF TakenOutOf
<1>3. ins \in [Owners -> Nat] /\ outs \in [Owners -> Nat] BY DEF TypeOK
<1>4. QED BY <1>1, <1>2, <1>3 DEF AddTaken

\* A roast takes out of the roaster no more than what lies there.
LEMMA LeftInRoaster ==
  ASSUME TypeOK, NEW b \in Roasts,
         \A l \in GreenLots : TakenFrom(b, l) <= wip[l]
  PROVE  [l \in Lots |-> wip[l] - TakenOutOf(b, l)] \in [Lots -> Nat]
<1>1. \A l \in Lots : wip[l] \in Nat BY DEF TypeOK
<1>2. \A l \in Lots : TakenOutOf(b, l) <= wip[l]
  BY <1>1 DEF TakenOutOf
<1>3. \A l \in Lots : TakenOutOf(b, l) \in Nat BY ConsumedTypes
<1>4. QED BY <1>1, <1>2, <1>3

\* Charging a roast keeps the types.
LEMMA TypeStartRoast ==
  ASSUME TypeOK, NEW b \in Roasts, NEW kg \in Nat, NEW t \in Reservations,
         StartRoast(b, kg, t)
  PROVE  TypeOK'
<1>1. roast' \in [Roasts -> Roast] BY DEF StartRoast, TypeOK, Roast
<1>2. taken' \in [Roasts -> Reservations] BY DEF StartRoast, TypeOK
<1>3. place' \in [Places -> Int]
  <2>1. \A x \in Places : x[1] \in GreenLots =>
          x \in GreenLots \X Locations
    BY DEF Places
  <2>2. \A x \in GreenLots \X Locations : t[x] \in Nat BY DEF Reservations
  <2>3. \A x \in Places : place[x] \in Int BY DEF TypeOK
  <2>4. QED BY <2>1, <2>2, <2>3 DEF StartRoast
<1>4. wip' \in [Lots -> Nat]
  <2>1. \A l \in GreenLots : Total(Row(t, l, Locations)) \in Nat
    BY RowType
  <2>2. \A l \in Lots : wip[l] \in Nat BY DEF TypeOK
  <2>3. QED BY <2>1, <2>2 DEF StartRoast
<1>5. QED BY <1>1, <1>2, <1>3, <1>4 DEF StartRoast, TypeOK

\* What a roast uses up is in the roaster and in stock.
LEMMA TypeConsumed ==
  ASSUME TypeOK, NEW b \in Roasts, ConsumeCharged(b)
  PROVE  /\ wip' \in [Lots -> Nat] /\ drawn' \subseteq Lots
         /\ stock["GREEN"] - Total(taken[b]) \in Nat
<1>1. wip' \in [Lots -> Nat] BY LeftInRoaster DEF ConsumeCharged
<1>2. drawn' \subseteq Lots BY DEF ConsumeCharged, TypeOK, Lots
<1>3. Total(taken[b]) \in Nat /\ Committed("GREEN", {b}) \in Nat
  BY TakenType, CommittedType
<1>4. stock["GREEN"] \in Nat BY DEF TypeOK, Products
<1>5. stock["GREEN"] >= Total(taken[b]) + Committed("GREEN", {b})
  BY DEF ConsumeCharged, MayIssue
<1>6. QED BY <1>1, <1>2, <1>3, <1>4, <1>5

\* completeRoastInTx keeps the types.
LEMMA TypeCompleteRoast ==
  ASSUME TypeOK, NEW b \in Roasts, NEW out \in Nat, NEW c \in Locations,
         CompleteRoast(b, out, c)
  PROVE  TypeOK'
<1>1. /\ wip' \in [Lots -> Nat] /\ drawn' \subseteq Lots
      /\ stock["GREEN"] - Total(taken[b]) \in Nat
  BY TypeConsumed DEF CompleteRoast
<1>2. outs' \in [Owners -> Nat] BY ConsumedTypes DEF CompleteRoast
<1>3. ins' \in [Owners -> Nat] BY DEF CompleteRoast, TypeOK, Owners, Lots
<1>4. stock' \in [Products -> Nat]
  <2> DEFINE gone == 0 - Total(taken[b])
  <2>1. stock \in [Products -> Nat] BY DEF TypeOK
  <2>2. gone \in Int /\ stock["GREEN"] + gone >= 0
    BY <1>1, <2>1, TakenType DEF Products
  <2>3. stock["GREEN"] - Total(taken[b]) = stock["GREEN"] + gone
    BY <2>1, TakenType DEF Products
  <2>4. stock' = [stock EXCEPT !["GREEN"] = @ + gone, !["ROASTED"] = @ + out]
    BY <2>3 DEF CompleteRoast
  <2> HIDE DEF gone
  <2>5. stock["ROASTED"] + out >= 0 BY <2>1 DEF Products
  <2>6. QED BY <2>1, <2>2, <2>4, <2>5, TwoStocks DEF Products
<1>5. roast' \in [Roasts -> Roast] BY DEF CompleteRoast, TypeOK, Roast
<1>6. b \in Lots BY DEF Lots
<1>7. shelf' \in Seq(Lots) BY <1>6 DEF CompleteRoast, TypeOK
<1>8. place' \in [Places -> Int]
  BY <1>6 DEF CompleteRoast, TypeOK, Places
<1>9. QED
  BY <1>1, <1>2, <1>3, <1>4, <1>5, <1>7, <1>8 DEF CompleteRoast, TypeOK

\* abortRoastInTx RECOVERABLE keeps the types.
LEMMA TypeAbortRoast ==
  ASSUME TypeOK, NEW b \in Roasts, AbortRoast(b)
  PROVE  TypeOK'
<1>1. wip' \in [Lots -> Nat] BY LeftInRoaster DEF AbortRoast
<1>2. roast' \in [Roasts -> Roast] BY DEF AbortRoast, TypeOK, Roast
<1>3. place' \in [Places -> Int]
  <2>1. \A x \in Places : x[1] \in GreenLots =>
          x \in GreenLots \X Locations
    BY DEF Places
  <2>2. \A x \in GreenLots \X Locations : taken[b][x] \in Nat
    BY DEF TypeOK, Reservations
  <2>3. \A x \in Places : place[x] \in Int BY DEF TypeOK
  <2>4. QED BY <2>1, <2>2, <2>3 DEF AbortRoast
<1>4. QED BY <1>1, <1>2, <1>3 DEF AbortRoast, TypeOK

\* abortRoastInTx SCRAP keeps the types.
LEMMA TypeScrapRoast ==
  ASSUME TypeOK, NEW b \in Roasts, ScrapRoast(b)
  PROVE  TypeOK'
<1>1. /\ wip' \in [Lots -> Nat] /\ drawn' \subseteq Lots
      /\ stock["GREEN"] - Total(taken[b]) \in Nat
  BY TypeConsumed DEF ScrapRoast
<1>2. outs' \in [Owners -> Nat] BY ConsumedTypes DEF ScrapRoast
<1>3. stock' \in [Products -> Nat]
  BY <1>1 DEF ScrapRoast, TypeOK, Products
<1>4. roast' \in [Roasts -> Roast] BY DEF ScrapRoast, TypeOK, Roast
<1>5. QED BY <1>1, <1>2, <1>3, <1>4 DEF ScrapRoast, TypeOK

\* voidParentRoastingBatch keeps the types.
LEMMA TypeVoidRoast ==
  ASSUME TypeOK, NEW b \in Roasts, VoidRoast(b)
  PROVE  TypeOK'
<1> DEFINE out == roast[b].out
           back == Total(taken[b])
<1>1. out \in Nat /\ back \in Nat BY TakenType DEF TypeOK, Roast
<1>2. stock["ROASTED"] >= out + Committed("ROASTED", {b})
  BY DEF VoidRoast, MayIssue
<1>3. Committed("ROASTED", {b}) \in Nat BY CommittedType
<1>4. stock' = [stock EXCEPT !["GREEN"] = @ + back, !["ROASTED"] = @ - out]
  BY DEF VoidRoast
<1>5. outs' = [outs EXCEPT ![b] = @ + out] BY DEF VoidRoast
<1>6. roast' \in [Roasts -> Roast] BY DEF VoidRoast, TypeOK, Roast
<1>7. ins' \in [Owners -> Nat] BY ConsumedTypes DEF VoidRoast
<1>8. used' \subseteq Lots BY DEF VoidRoast, TypeOK, Lots
<1>9. place' \in [Places -> Int] BY DEF VoidRoast, TypeOK
<1> HIDE DEF out, back
<1>10. stock' \in [Products -> Nat]
  <2> DEFINE gone == 0 - out
  <2>1. stock \in [Products -> Nat] BY DEF TypeOK
  <2>2. stock["ROASTED"] \in Nat /\ stock["GREEN"] \in Nat
    BY <2>1 DEF Products
  <2>3. gone \in Int /\ stock["ROASTED"] + gone >= 0
    BY <1>1, <1>2, <1>3, <2>2
  <2>4. stock' = [stock EXCEPT !["GREEN"] = @ + back, !["ROASTED"] = @ + gone]
    <3>1. [stock EXCEPT !["GREEN"] = @ + back]["ROASTED"] \in Nat
      BY <2>1, <2>2 DEF Products
    <3>2. \A n \in Nat : n - out = n + gone BY <1>1
    <3> HIDE DEF gone
    <3>3. QED BY <1>4, <3>1, <3>2
  <2> HIDE DEF gone
  <2>5. stock["GREEN"] + back >= 0 BY <1>1, <2>2
  <2>6. QED BY <1>1, <2>1, <2>3, <2>4, <2>5, TwoStocks DEF Products
<1>11. outs' \in [Owners -> Nat]
  BY <1>1, <1>5 DEF TypeOK, Owners, Lots
<1>12. QED
  BY <1>6, <1>7, <1>8, <1>9, <1>10, <1>11 DEF VoidRoast, TypeOK

\* Rows added lot by lot are natural numbers.
LEMMA AddRowsType ==
  ASSUME NEW q \in [Owners -> Nat], NEW E \in SUBSET Owners,
         NEW alloc \in [E -> Nat]
  PROVE  AddRows(q, alloc) \in [Owners -> Nat]
BY DEF AddRows

\* Grinding and production keep the types.
LEMMA TypeIssueBeans ==
  ASSUME TypeOK, NEW i \in Issues, NEW p \in Products, NEW kg \in Nat,
         NEW alloc \in [OwnersOf(p) -> Nat],
         NEW draw \in [LotsOf(p) \X Locations -> Nat],
         NEW out \in Nat, NEW c \in Locations, out > 0 => p = "ROASTED",
         IssueBeans(i, p, kg, alloc, draw, out, c)
  PROVE  TypeOK'
<1>1. OwnersOf(p) \subseteq Owners /\ i \in Lots /\ i \in Owners
  BY DEF OwnersOf, LotsOf, Owners, Lots
<1>2. Nothing \in [Owners -> Nat] BY DEF Nothing
<1>3. AddRows(Nothing, alloc) \in [Owners -> Nat]
  BY <1>1, <1>2, AddRowsType
<1>4. outs' \in [Owners -> Nat]
  BY <1>1, AddRowsType DEF TypeOK, IssueBeans
<1>5. issue' \in [Issues -> Issue]
  BY <1>3 DEF TypeOK, IssueBeans, Issue
<1>6. ins' \in [Owners -> Nat] BY <1>1 DEF TypeOK, IssueBeans
<1>7. drawn' \subseteq Lots /\ used' \subseteq Lots
  <2>1. DOMAIN alloc \ {p} \subseteq Lots BY DEF OwnersOf, LotsOf
  <2>2. QED BY <2>1 DEF TypeOK, IssueBeans
<1>8. shelf' \in Seq(Lots) BY <1>1 DEF TypeOK, IssueBeans
<1>9. place' \in [Places -> Int]
  <2>1. \A x \in DOMAIN draw : draw[x] \in Nat OBVIOUS
  <2>2. \A x \in Places : place[x] \in Int BY DEF TypeOK
  <2>3. QED BY <2>1, <2>2 DEF IssueBeans
<1>10. stock' \in [Products -> Nat]
  <2>1. stock \in [Products -> Nat] BY DEF TypeOK
  <2>2. stock[p] >= kg + Committed(p, {}) BY DEF IssueBeans, MayIssue
  <2>3. stock[p] >= kg BY <2>1, <2>2, CommittedType
  <2>4. \A q \in Products :
          stock[q] - (IF q = p THEN kg ELSE 0)
            + (IF q = "GROUND" THEN out ELSE 0) \in Nat
    BY <2>1, <2>3
  <2>5. QED BY <2>4 DEF IssueBeans
<1>11. QED
  BY <1>4, <1>5, <1>6, <1>7, <1>8, <1>9, <1>10 DEF TypeOK, IssueBeans

\* Their voids keep the types.
LEMMA TypeVoidIssue ==
  ASSUME TypeOK, NEW i \in Issues, VoidIssue(i)
  PROVE  TypeOK'
<1> DEFINE p == issue[i].product
           alloc == issue[i].alloc
           out == issue[i].out
<1>1. p \in Products /\ out \in Nat /\ alloc \in [Owners -> Nat]
  BY DEF TypeOK, Issue
<1>2. i \in Lots /\ i \in Owners BY DEF Owners, Lots
<1>3. issue' \in [Issues -> Issue] BY DEF TypeOK, VoidIssue, Issue
<1>4. ins' \in [Owners -> Nat]
  <2>1. ins' = AddRows(ins, alloc) BY DEF VoidIssue
  <2> HIDE DEF alloc
  <2>2. QED BY <1>1, <2>1, AddRowsType DEF TypeOK
<1>5. outs' \in [Owners -> Nat] BY <1>1, <1>2 DEF TypeOK, VoidIssue
<1>6. used' \subseteq Lots BY <1>2 DEF TypeOK, VoidIssue
<1>7. place' \in [Places -> Int] BY DEF TypeOK, VoidIssue
<1>8. stock' \in [Products -> Nat]
  <2> DEFINE back == Total(alloc)
  <2>1. stock \in [Products -> Nat] BY DEF TypeOK
  <2>2. back \in Nat
    <3> HIDE DEF alloc
    <3>1. QED BY <1>1, FiniteSets, TotalType
  <2>3. stock["GROUND"] >= out BY DEF VoidIssue
  <2>4. stock' = [q \in Products |->
                    stock[q] + (IF q = p THEN back ELSE 0)
                             - (IF q = "GROUND" THEN out ELSE 0)]
    BY DEF VoidIssue
  <2> HIDE DEF back, p, out
  <2>5. \A q \in Products :
          stock[q] + (IF q = p THEN back ELSE 0)
            - (IF q = "GROUND" THEN out ELSE 0) \in Nat
    BY <1>1, <2>1, <2>2, <2>3
  <2>6. QED BY <2>4, <2>5
<1>9. QED
  BY <1>3, <1>4, <1>5, <1>6, <1>7, <1>8 DEF TypeOK, VoidIssue

\* Drafting and cancelling a count keep the types.
LEMMA TypeCount ==
  ASSUME TypeOK, NEW n \in Counts,
         CancelCount(n) \/ \E l \in Lots, c \in Locations,
                               counted \in 0 .. MaxKg :
                             DraftCount(n, l, c, counted)
  PROVE  TypeOK'
<1>1. CASE CancelCount(n) BY <1>1 DEF TypeOK, CancelCount, Count
<1>2. ASSUME NEW l \in Lots, NEW c \in Locations, NEW counted \in 0 .. MaxKg,
             DraftCount(n, l, c, counted)
      PROVE  TypeOK'
  <2>1. place[<<l, c>>] \in Int BY DEF TypeOK, Places
  <2>2. counted \in Nat BY BoundsAssumption
  <2>3. QED BY <1>2, <2>1, <2>2 DEF TypeOK, DraftCount, Count
<1>3. QED BY <1>1, <1>2

\* removePlacement keeps the types.
LEMMA TypeRemove ==
  ASSUME TypeOK, NEW l \in Lots, NEW c \in Locations, RemovePlacement(l, c)
  PROVE  TypeOK'
<1>1. place' \in [Places -> Int]
  <2> DEFINE x == <<l, c>>
             none == 0
  <2>1. place' = [place EXCEPT ![x] = none] BY DEF RemovePlacement
  <2>2. place \in [Places -> Int] /\ none \in Int BY DEF TypeOK
  <2> HIDE DEF x, none
  <2>3. QED BY <2>1, <2>2
<1>2. QED BY <1>1 DEF TypeOK, RemovePlacement

\* What a READ COMMITTED handler has read is a request.
LEMMA TypeRead ==
  ASSUME TypeOK, NEW u \in Users, NEW t \in Requests, Read(u, t)
  PROVE  TypeOK'
BY DEF TypeOK, Read, Task

\* A call that rolls back keeps the types.
LEMMA TypeGiveUp ==
  ASSUME TypeOK, NEW u \in Users, GiveUp(u)
  PROVE  TypeOK'
BY DEF TypeOK, GiveUp, Task, Idle

\* setLotQcStatus keeps the types.
LEMMA TypeWriteHold ==
  ASSUME TypeOK, NEW u \in Users, WriteHold(u)
  PROVE  TypeOK'
<1>1. user[u] \in Task BY DEF TypeOK
<1>2. user[u].lot \in Lots BY <1>1 DEF WriteHold, Task, Requests
<1>3. user' \in [Users -> Task] BY DEF TypeOK, WriteHold, Task, Idle
<1>4. held' \subseteq Lots BY <1>2 DEF TypeOK, WriteHold
<1>5. QED BY <1>3, <1>4 DEF TypeOK, WriteHold

\* placeLot and transferLot keep the types.
LEMMA TypeWritePlacement ==
  ASSUME TypeOK, NEW u \in Users, WritePlacement(u)
  PROVE  TypeOK'
<1>1. user[u] \in Task BY DEF TypeOK
<1>2. user' \in [Users -> Task] BY DEF TypeOK, WritePlacement, Task, Idle
<1>3. place' \in [Places -> Int]
  <2>1. place \in [Places -> Int] /\ Kg \subseteq Int BY DEF TypeOK
  <2>2. CASE user[u].do = "place"
    <3>1. user[u].kg \in Kg BY <1>1, <2>2 DEF Task, Requests
    <3>2. place' = [place EXCEPT ![<<user[u].lot, user[u].at>>] = user[u].kg]
      BY <2>2 DEF WritePlacement
    <3>3. QED BY <2>1, <3>1, <3>2
  <2>3. CASE user[u].do = "transfer"
    <3>1. user[u].kg \in Kg BY <1>1, <2>3 DEF Task, Requests
    <3>2. QED BY <2>1, <2>3, <3>1 DEF WritePlacement
  <2>4. QED BY <2>2, <2>3 DEF WritePlacement
<1>4. QED BY <1>2, <1>3 DEF TypeOK, WritePlacement

\* confirmLocationOpname keeps the types.
LEMMA TypeWriteCount ==
  ASSUME TypeOK, NEW u \in Users, WriteCount(u)
  PROVE  TypeOK'
<1> DEFINE n == user[u].count
           l == count[n].lot
           p == ProductOf(l)
           more == AtLeast0(count[n].counted - count[n].system)
           less == AtLeast0(count[n].system - count[n].counted)
<1>1. user[u] \in Task BY DEF TypeOK
<1>2. n \in Counts BY <1>1 DEF WriteCount, Task, Requests
<1>3. /\ l \in Lots /\ count[n].at \in Locations
      /\ count[n].counted \in Nat /\ count[n].system \in Int
  BY <1>2 DEF TypeOK, Count
<1>4. l \in Owners /\ p \in Products
  BY <1>3 DEF Owners, ProductOf, Products
<1>5. more \in Nat /\ less \in Nat /\ (less > 0 => more = 0) BY <1>3
<1>6. user' \in [Users -> Task] BY DEF TypeOK, WriteCount, Task, Idle
<1>7. count' \in [Counts -> Count]
  BY <1>2 DEF TypeOK, WriteCount, Count
<1>8. place' \in [Places -> Int]
  <2> DEFINE x == <<l, count[n].at>>
             found == count[n].counted
  <2>1. place' = [place EXCEPT ![x] = found] BY DEF WriteCount
  <2>2. found \in Int BY <1>3
  <2>3. place \in [Places -> Int] BY DEF TypeOK
  <2> HIDE DEF x, found
  <2>4. QED BY <2>1, <2>2, <2>3
<1>9. /\ ins' = [ins EXCEPT ![l] = @ + more]
      /\ outs' = [outs EXCEPT ![l] = @ + less]
      /\ drawn' = IF less > 0 THEN drawn \cup {l} ELSE drawn
      /\ stock' = [stock EXCEPT ![p] = @ + more - less]
      /\ less > 0 => MayIssue(p, less, {})
  BY DEF WriteCount
<1> HIDE DEF more, less, p, l
<1>10. ins' \in [Owners -> Nat] /\ outs' \in [Owners -> Nat]
  BY <1>4, <1>5, <1>9 DEF TypeOK
<1>11. drawn' \subseteq Lots BY <1>3, <1>9 DEF TypeOK
<1>12. stock' \in [Products -> Nat]
  <2>1. stock \in [Products -> Nat] BY DEF TypeOK
  <2>2. less > 0 => stock[p] >= less
    <3>1. Committed(p, {}) \in Nat BY CommittedType
    <3>2. QED BY <1>4, <1>5, <1>9, <2>1, <3>1 DEF MayIssue
  <2>3. stock[p] + more - less \in Nat BY <1>4, <1>5, <2>1, <2>2
  <2>4. QED BY <1>9, <2>1, <2>3
<1>13. QED
  BY <1>6, <1>7, <1>8, <1>10, <1>11, <1>12 DEF TypeOK, WriteCount

\* Every step of a roast keeps the types.
LEMMA TypeRoasting ==
  ASSUME TypeOK, Roasting
  PROVE  TypeOK'
<1>1. PICK b \in Roasts :
        \/ \E kg \in 1 .. stock["GREEN"] :
             \E t \in [GreenLots \X Locations -> 0 .. kg],
                preferred \in {{}} \cup {{l} : l \in GreenLots} :
               IsReservation(t, kg, preferred) /\ StartRoast(b, kg, t)
        \/ \E out \in 1 .. roast[b].kg, c \in Locations :
             CompleteRoast(b, out, c)
        \/ AbortRoast(b) \/ ScrapRoast(b) \/ VoidRoast(b)
  BY DEF Roasting
<1>2. ASSUME NEW kg \in 1 .. stock["GREEN"],
             NEW t \in [GreenLots \X Locations -> 0 .. kg],
             StartRoast(b, kg, t)
      PROVE  TypeOK'
  <2>1. kg \in Nat OBVIOUS
  <2>2. t \in Reservations BY <2>1 DEF Reservations
  <2>3. QED BY <1>2, <2>1, <2>2, TypeStartRoast
<1>3. ASSUME NEW out \in 1 .. roast[b].kg, NEW c \in Locations,
             CompleteRoast(b, out, c)
      PROVE  TypeOK'
  <2>1. out \in Nat OBVIOUS
  <2>2. QED BY <1>3, <2>1, TypeCompleteRoast
<1>4. QED
  BY <1>1, <1>2, <1>3, TypeAbortRoast, TypeScrapRoast, TypeVoidRoast

\* What an issue may be of: the quantifiers of Issuing.
LEMMA IssuingCases ==
  ASSUME Issuing
  PROVE  \E i \in Issues :
           \/ VoidIssue(i)
           \/ \E p \in Products, kg \in Nat :
                \E alloc \in [OwnersOf(p) -> Nat],
                   draw \in [LotsOf(p) \X Locations -> Nat],
                   out \in Nat, c \in Locations :
                  /\ IsFefoAllocation(alloc, p, kg) /\ IsDraw(draw, alloc)
                  /\ out > 0 => p = "ROASTED"
                  /\ IssueBeans(i, p, kg, alloc, draw, out, c)
<1>1. PICK i \in Issues :
        \/ VoidIssue(i)
        \/ \E p \in Products : \E kg \in 1 .. stock[p] :
             \E alloc \in [OwnersOf(p) -> 0 .. kg] :
               /\ IsFefoAllocation(alloc, p, kg)
               /\ \E draw \in [LotsOf(p) \X Locations -> 0 .. kg],
                     out \in 0 .. kg - 1, c \in Locations :
                    /\ IsDraw(draw, alloc)
                    /\ out > 0 => p = "ROASTED"
                    /\ IssueBeans(i, p, kg, alloc, draw, out, c)
  BY DEF Issuing
<1>2. CASE VoidIssue(i) BY <1>2
<1>3. CASE ~VoidIssue(i)
  <2>1. PICK p \in Products, kg \in Nat :
          /\ kg \in 1 .. stock[p]
          /\ \E alloc \in [OwnersOf(p) -> 0 .. kg] :
               /\ IsFefoAllocation(alloc, p, kg)
               /\ \E draw \in [LotsOf(p) \X Locations -> 0 .. kg],
                     out \in 0 .. kg - 1, c \in Locations :
                    /\ IsDraw(draw, alloc)
                    /\ out > 0 => p = "ROASTED"
                    /\ IssueBeans(i, p, kg, alloc, draw, out, c)
    BY <1>1, <1>3
  <2>2. PICK alloc \in [OwnersOf(p) -> 0 .. kg] :
          /\ IsFefoAllocation(alloc, p, kg)
          /\ \E draw \in [LotsOf(p) \X Locations -> 0 .. kg],
                out \in 0 .. kg - 1, c \in Locations :
               /\ IsDraw(draw, alloc)
               /\ out > 0 => p = "ROASTED"
               /\ IssueBeans(i, p, kg, alloc, draw, out, c)
    BY <2>1
  <2>3. PICK draw \in [LotsOf(p) \X Locations -> 0 .. kg],
             out \in 0 .. kg - 1, c \in Locations :
          /\ IsDraw(draw, alloc)
          /\ out > 0 => p = "ROASTED"
          /\ IssueBeans(i, p, kg, alloc, draw, out, c)
    BY <2>2
  <2>4. /\ alloc \in [OwnersOf(p) -> Nat] /\ out \in Nat
        /\ draw \in [LotsOf(p) \X Locations -> Nat]
    OBVIOUS
  <2>5. QED BY <2>2, <2>3, <2>4
<1>4. QED BY <1>2, <1>3

\* Every step of grinding and production keeps the types.
LEMMA TypeIssuing ==
  ASSUME TypeOK, Issuing
  PROVE  TypeOK'
BY IssuingCases, TypeVoidIssue, TypeIssueBeans

\* Every step keeps the types.
LEMMA TypeStep ==
  ASSUME TypeOK, [Next]_vars
  PROVE  TypeOK'
<1>1. CASE Receiving BY <1>1, TypeBuy, TypeVoidPurchase DEF Receiving
<1>2. CASE Adjusting BY <1>2, TypeAdjust DEF Adjusting
<1>3. CASE Roasting BY <1>3, TypeRoasting
<1>4. CASE Issuing BY <1>4, TypeIssuing
<1>5. CASE Counting BY <1>5, TypeCount DEF Counting
<1>6. CASE Writing
  BY <1>6, TypeWritePlacement, TypeWriteHold, TypeWriteCount, TypeGiveUp
     DEF Writing
<1>7. CASE \E l \in Lots, c \in Locations : RemovePlacement(l, c)
  BY <1>7, TypeRemove
<1>8. CASE \E u \in Users, t \in Requests : Read(u, t) BY <1>8, TypeRead
<1>9. CASE UNCHANGED vars BY <1>9 DEF vars, TypeOK
<1>10. QED
  BY <1>1, <1>2, <1>3, <1>4, <1>5, <1>6, <1>7, <1>8, <1>9 DEF Next

\* The cached stock, what lies in the roaster and every ledger sum stay
\* natural numbers however receipts, roasts, issues, counts, placements and
\* voids interleave.
THEOREM TypeCorrect == Spec => []TypeOK
<1>1. Init => TypeOK BY TypeInit
<1>2. TypeOK /\ [Next]_vars => TypeOK' BY TypeStep
<1>3. QED BY <1>1, <1>2, PTL DEF Spec
-----------------------------------------------------------------------------
(* What lies in the roaster. *)

\* What roast b has charged of lot l now.
Share(b, l) == IF roast[b].status = "CHARGED" THEN TakenFrom(b, l) ELSE 0

\* What one roast has in the roaster is a number.
LEMMA ShareType ==
  ASSUME TypeOK, NEW b \in Roasts, NEW l \in GreenLots
  PROVE  Share(b, l) \in Nat
BY TakenType DEF Share

\* What is charged is the sum of what each roast has in the roaster.
LEMMA ChargedIsShares ==
  ASSUME NEW l
  PROVE  Charged(l) = Total([b \in Roasts |-> Share(b, l)])
BY DEF Charged, Share

\* When one roast changes, what is charged changes by its share.
LEMMA ChargedChange ==
  ASSUME TypeOK, TypeOK', NEW b \in Roasts, NEW l \in GreenLots,
         \A x \in Roasts : x # b => roast'[x] = roast[x],
         \A x \in Roasts : x # b => taken'[x] = taken[x]
  PROVE  /\ Charged(l)' + Share(b, l) = Charged(l) + Share(b, l)'
         /\ Charged(l)' \in Nat
<1> DEFINE p == [x \in Roasts |-> Share(x, l)]
           q == [x \in Roasts |-> Share(x, l)']
<1>1. p \in [Roasts -> Nat] BY ShareType
<1>2. q \in [Roasts -> Nat]
  <2>1. ASSUME NEW x \in Roasts PROVE Share(x, l)' \in Nat
    <3>1. TakenFrom(x, l)' \in Nat
      <4>1. taken'[x] \in Reservations BY DEF TypeOK
      <4>2. Total(Row(taken'[x], l, Locations)) \in Nat
        BY <4>1, RowType
      <4>3. QED BY <4>2 DEF TakenFrom
    <3>2. QED BY <3>1 DEF Share
  <2>2. QED BY <2>1
<1>3. \A x \in Roasts : x # b => q[x] = p[x]
  BY DEF Share, TakenFrom
<1>4. Charged(l) = Total(p) BY ChargedIsShares
<1>5. Charged(l)' = Total(q) BY DEF Charged, Share
<1>6. p[b] = Share(b, l) /\ q[b] = Share(b, l)' OBVIOUS
<1> HIDE DEF p, q
<1>7. Total(q) + p[b] = Total(p) + q[b]
  BY <1>1, <1>2, <1>3, FiniteSets, TotalChange
<1>8. Total(q) \in Nat BY <1>2, FiniteSets, TotalType
<1>9. QED BY <1>4, <1>5, <1>6, <1>7, <1>8

\* What is charged is a number.
LEMMA ChargedType ==
  ASSUME TypeOK, NEW l \in GreenLots
  PROVE  Charged(l) \in Nat
<1> DEFINE p == [x \in Roasts |-> Share(x, l)]
<1>1. p \in [Roasts -> Nat] BY ShareType
<1>2. Charged(l) = Total(p) BY ChargedIsShares
<1> HIDE DEF p
<1>3. QED BY <1>1, <1>2, FiniteSets, TotalType

\* A roast that is over has no share, and its beans have left the roaster.
LEMMA WipEnds ==
  ASSUME TypeOK, TypeOK', WipIsCharged, NEW b \in Roasts,
         roast[b].status = "CHARGED", roast'[b].status # "CHARGED",
         \A x \in Roasts : x # b => roast'[x] = roast[x],
         taken' = taken,
         wip' = [l \in Lots |-> wip[l] - TakenOutOf(b, l)]
  PROVE  WipIsCharged'
<1>1. SUFFICES ASSUME NEW l \in GreenLots PROVE wip'[l] = Charged(l)'
  BY DEF WipIsCharged
<1>2. l \in Lots BY DEF Lots
<1>3. Share(b, l) = TakenFrom(b, l) /\ Share(b, l)' = 0 BY DEF Share
<1>4. /\ Charged(l)' + Share(b, l) = Charged(l) + Share(b, l)'
      /\ Charged(l)' \in Nat
  BY ChargedChange
<1>5. wip'[l] = Charged(l) - TakenFrom(b, l)
  BY <1>2 DEF TakenOutOf, WipIsCharged
<1>6. Charged(l) \in Nat /\ TakenFrom(b, l) \in Nat
  BY ChargedType, TakenType
<1>7. QED BY <1>3, <1>4, <1>5, <1>6

\* A roast that starts brings into the roaster what it takes.
LEMMA WipStarts ==
  ASSUME TypeOK, TypeOK', WipIsCharged, NEW b \in Roasts, NEW kg \in Nat,
         NEW t \in Reservations, StartRoast(b, kg, t)
  PROVE  WipIsCharged'
<1>1. SUFFICES ASSUME NEW l \in GreenLots PROVE wip'[l] = Charged(l)'
  BY DEF WipIsCharged
<1> DEFINE kgs == Total(Row(t, l, Locations))
<1>2. Share(b, l) = 0 BY DEF Share, StartRoast
<1>3. roast'[b].status = "CHARGED" /\ taken'[b] = t
  BY DEF StartRoast, TypeOK, Roast
<1>4. Share(b, l)' = kgs BY <1>3 DEF Share, TakenFrom
<1>5. \A x \in Roasts : x # b => roast'[x] = roast[x] /\ taken'[x] = taken[x]
  BY DEF StartRoast, TypeOK
<1>6. /\ Charged(l)' + Share(b, l) = Charged(l) + Share(b, l)'
      /\ Charged(l)' \in Nat
  BY <1>5, ChargedChange
<1>7. wip'[l] = wip[l] + kgs BY DEF StartRoast, Lots
<1>8. wip[l] = Charged(l) BY DEF WipIsCharged
<1> HIDE DEF kgs
<1>9. QED BY <1>2, <1>4, <1>6, <1>7, <1>8

\* Steps that charge nothing and end no charged roast.
LEMMA WipStays ==
  ASSUME WipIsCharged, wip' = wip, taken' = taken,
         \A b \in Roasts : roast'[b].status = "CHARGED" <=>
                             roast[b].status = "CHARGED"
  PROVE  WipIsCharged'
<1>1. SUFFICES ASSUME NEW l \in GreenLots PROVE wip'[l] = Charged(l)'
  BY DEF WipIsCharged
<1>2. \A b \in Roasts : Share(b, l)' = Share(b, l) BY DEF Share, TakenFrom
<1>3. [b \in Roasts |-> Share(b, l)'] = [b \in Roasts |-> Share(b, l)]
  BY <1>2
<1>4. Charged(l)' = Total([b \in Roasts |-> Share(b, l)'])
  BY DEF Charged, Share
<1>5. Charged(l)' = Charged(l) BY <1>3, <1>4, ChargedIsShares
<1>6. QED BY <1>5 DEF WipIsCharged

\* Every step of a roast keeps the roaster equal to what is charged.
LEMMA WipRoasting ==
  ASSUME TypeOK, TypeOK', WipIsCharged, Roasting
  PROVE  WipIsCharged'
<1>1. PICK b \in Roasts :
        \/ \E kg \in 1 .. stock["GREEN"] :
             \E t \in [GreenLots \X Locations -> 0 .. kg],
                preferred \in {{}} \cup {{l} : l \in GreenLots} :
               IsReservation(t, kg, preferred) /\ StartRoast(b, kg, t)
        \/ \E out \in 1 .. roast[b].kg, c \in Locations :
             CompleteRoast(b, out, c)
        \/ AbortRoast(b) \/ ScrapRoast(b) \/ VoidRoast(b)
  BY DEF Roasting
<1>2. ASSUME NEW kg \in 1 .. stock["GREEN"],
             NEW t \in [GreenLots \X Locations -> 0 .. kg],
             StartRoast(b, kg, t)
      PROVE  WipIsCharged'
  <2>1. kg \in Nat OBVIOUS
  <2>2. t \in Reservations BY <2>1 DEF Reservations
  <2>3. QED BY <1>2, <2>1, <2>2, WipStarts
<1>3. ASSUME NEW out, NEW c, CompleteRoast(b, out, c)
      PROVE  WipIsCharged'
  <2>1. /\ roast[b].status = "CHARGED" /\ taken' = taken
        /\ roast' = [roast EXCEPT ![b].status = "COMPLETED", ![b].out = out]
        /\ wip' = [l \in Lots |-> wip[l] - TakenOutOf(b, l)]
    BY <1>3 DEF CompleteRoast, ConsumeCharged
  <2>2. /\ roast'[b].status # "CHARGED"
        /\ \A x \in Roasts : x # b => roast'[x] = roast[x]
    BY <2>1 DEF TypeOK, Roast
  <2>3. QED BY <2>1, <2>2, WipEnds
<1>4. ASSUME AbortRoast(b) PROVE WipIsCharged'
  <2>1. /\ roast[b].status = "CHARGED" /\ taken' = taken
        /\ roast' = [roast EXCEPT ![b].status = "ABORTED"]
        /\ wip' = [l \in Lots |-> wip[l] - TakenOutOf(b, l)]
    BY <1>4 DEF AbortRoast
  <2>2. /\ roast'[b].status # "CHARGED"
        /\ \A x \in Roasts : x # b => roast'[x] = roast[x]
    BY <2>1 DEF TypeOK, Roast
  <2>3. QED BY <2>1, <2>2, WipEnds
<1>5. ASSUME ScrapRoast(b) PROVE WipIsCharged'
  <2>1. /\ roast[b].status = "CHARGED" /\ taken' = taken
        /\ roast' = [roast EXCEPT ![b].status = "SCRAPPED"]
        /\ wip' = [l \in Lots |-> wip[l] - TakenOutOf(b, l)]
    BY <1>5 DEF ScrapRoast, ConsumeCharged
  <2>2. /\ roast'[b].status # "CHARGED"
        /\ \A x \in Roasts : x # b => roast'[x] = roast[x]
    BY <2>1 DEF TypeOK, Roast
  <2>3. QED BY <2>1, <2>2, WipEnds
<1>6. ASSUME VoidRoast(b) PROVE WipIsCharged'
  <2>1. /\ roast[b].status = "COMPLETED" /\ taken' = taken /\ wip' = wip
        /\ roast' = [roast EXCEPT ![b].status = "VOID"]
    BY <1>6 DEF VoidRoast
  <2>2. \A x \in Roasts : roast'[x].status = "CHARGED" <=>
                             roast[x].status = "CHARGED"
    BY <2>1 DEF TypeOK, Roast
  <2>3. QED BY <2>1, <2>2, WipStays
<1>7. QED BY <1>1, <1>2, <1>3, <1>4, <1>5, <1>6

\* No other flow touches what lies in the roaster.
LEMMA OnlyRoastsCharge ==
  ASSUME [Next]_vars, ~Roasting
  PROVE  UNCHANGED <<wip, taken, roast>>
<1>1. CASE Receiving BY <1>1 DEF Receiving, BuyGreenBeans, VoidPurchase
<1>2. CASE Adjusting BY <1>2 DEF Adjusting, AdjustIn, AdjustOut
<1>3. CASE Issuing
  <2>1. ASSUME NEW i, VoidIssue(i) PROVE UNCHANGED <<wip, taken, roast>>
    BY <2>1 DEF VoidIssue
  <2>2. ASSUME NEW i, NEW p, NEW kg, NEW alloc, NEW draw, NEW out, NEW c,
               IssueBeans(i, p, kg, alloc, draw, out, c)
        PROVE  UNCHANGED <<wip, taken, roast>>
    BY <2>2 DEF IssueBeans
  <2>3. QED BY <1>3, <2>1, <2>2, IssuingCases
<1>4. CASE Counting BY <1>4 DEF Counting, CancelCount, DraftCount
<1>5. CASE Writing
  BY <1>5 DEF Writing, WritePlacement, WriteHold, WriteCount, GiveUp
<1>6. CASE \E l \in Lots, c \in Locations : RemovePlacement(l, c)
  BY <1>6 DEF RemovePlacement
<1>7. CASE \E u \in Users, t \in Requests : Read(u, t) BY <1>7 DEF Read
<1>8. CASE UNCHANGED vars BY <1>8 DEF vars
<1>9. QED BY <1>1, <1>2, <1>3, <1>4, <1>5, <1>6, <1>7, <1>8 DEF Next

\* What lies in ROASTING-WIP is exactly what charged roasts have taken.
THEOREM WipAlwaysCharged == Spec => []WipIsCharged
<1>1. Init => TypeOK /\ WipIsCharged
  <2>1. SUFFICES ASSUME Init, NEW l \in GreenLots PROVE wip[l] = Charged(l)
    BY TypeInit DEF WipIsCharged
  <2> DEFINE p == [b \in Roasts |-> Share(b, l)]
  <2>2. p \in [Roasts -> Nat] /\ \A b \in Roasts : p[b] = 0
    BY <2>1 DEF Init, Share
  <2>3. Charged(l) = Total(p) BY ChargedIsShares
  <2> HIDE DEF p
  <2>4. Total(p) = 0 BY <2>2, TotalZero
  <2>5. QED BY <2>1, <2>3, <2>4 DEF Init, Lots
<1>2. TypeOK /\ WipIsCharged /\ [Next]_vars => (TypeOK /\ WipIsCharged)'
  <2>1. SUFFICES ASSUME TypeOK, WipIsCharged, [Next]_vars
                 PROVE  TypeOK' /\ WipIsCharged'
    OBVIOUS
  <2>2. TypeOK' BY <2>1, TypeStep
  <2>3. CASE Roasting BY <2>1, <2>2, <2>3, WipRoasting
  <2>4. CASE ~Roasting
    <3>1. wip' = wip /\ taken' = taken /\ roast' = roast
      BY <2>1, <2>4, OnlyRoastsCharge
    <3>2. \A b \in Roasts : roast'[b].status = "CHARGED" <=>
                             roast[b].status = "CHARGED"
      BY <3>1
    <3>3. WipIsCharged' BY <2>1, <3>1, <3>2, WipStays
    <3>4. QED BY <2>2, <3>3
  <2>5. QED BY <2>2, <2>3, <2>4
<1>3. QED BY <1>1, <1>2, PTL DEF Spec

\* So a charged roast can be aborted whatever happened to its lots in the
\* meantime: the guard of consumeCharged and of abort never fails.
THEOREM ChargedBeansAreThere ==
  ASSUME TypeOK, WipIsCharged, NEW b \in Roasts, roast[b].status = "CHARGED",
         NEW l \in GreenLots
  PROVE  TakenFrom(b, l) <= wip[l]
<1> DEFINE p == [x \in Roasts |-> Share(x, l)]
<1>1. p \in [Roasts -> Nat] BY ShareType
<1>2. p[b] = TakenFrom(b, l) BY DEF Share
<1>3. wip[l] = Total(p) BY ChargedIsShares DEF WipIsCharged
<1> HIDE DEF p
<1>4. p[b] <= Total(p) BY <1>1, FiniteSets, TotalChange
<1>5. QED BY <1>2, <1>3, <1>4

-----------------------------------------------------------------------------
(* The cached stock and the ledger. *)

\* The rows of one product, summed.
Sum(q, p) == Total([x \in OwnersOf(p) |-> q[x]])

\* Whose rows count for which product.
LEMMA OwnersFacts ==
  /\ \A p \in Products : OwnersOf(p) \subseteq Owners
  /\ \A p \in Products, x \in Owners : x \in OwnersOf(p) <=> ProductOf(x) = p
  /\ \A l \in GreenLots : ProductOf(l) = "GREEN"
  /\ \A b \in Roasts : ProductOf(b) = "ROASTED"
  /\ \A i \in Issues : ProductOf(i) = "GROUND"
  /\ \A p \in Products : IsFiniteSet(OwnersOf(p))
<1>1. Lots \cap Products = {} BY SetsAssumption
<1>2. \A p \in Products : OwnersOf(p) \subseteq Owners
  BY DEF OwnersOf, LotsOf, Owners
<1>3. ASSUME NEW p \in Products, NEW x \in Owners
      PROVE  x \in OwnersOf(p) <=> ProductOf(x) = p
  <2>1. CASE x \in Products
    <3>1. x \notin Lots BY <1>1, <2>1
    <3>2. QED BY <2>1, <3>1 DEF OwnersOf, LotsOf, ProductOf
  <2>2. CASE x \in Lots
    <3>1. x \notin Products BY <1>1, <2>2
    <3>2. QED BY <2>2, <3>1 DEF OwnersOf, LotsOf
  <2>3. QED BY <2>1, <2>2 DEF Owners
<1>4. \A l \in GreenLots : ProductOf(l) = "GREEN" BY <1>1 DEF ProductOf, Lots
<1>5. \A b \in Roasts : ProductOf(b) = "ROASTED"
  BY <1>1, SetsAssumption DEF ProductOf, Lots
<1>6. \A i \in Issues : ProductOf(i) = "GROUND"
  BY <1>1, SetsAssumption DEF ProductOf, Lots
<1>7. \A p \in Products : IsFiniteSet(OwnersOf(p))
  BY <1>2, FiniteSets, FS_Subset
<1>8. QED BY <1>2, <1>3, <1>4, <1>5, <1>6, <1>7

\* The sum of the rows of a product is a number.
LEMMA SumType ==
  ASSUME NEW q \in [Owners -> Nat], NEW p \in Products
  PROVE  /\ Sum(q, p) \in Nat
         /\ [x \in OwnersOf(p) |-> q[x]] \in [OwnersOf(p) -> Nat]
<1> DEFINE f == [x \in OwnersOf(p) |-> q[x]]
<1>1. f \in [OwnersOf(p) -> Nat] BY OwnersFacts
<1> HIDE DEF f
<1>2. Total(f) \in Nat BY <1>1, OwnersFacts, TotalType
<1>3. QED BY <1>1, <1>2 DEF Sum, f

\* A row about x counts for the product of x alone.
LEMMA SumOne ==
  ASSUME NEW q \in [Owners -> Nat], NEW x \in Owners, NEW n \in Nat,
         NEW p \in Products
  PROVE  Sum([q EXCEPT ![x] = @ + n], p)
           = Sum(q, p) + IF p = ProductOf(x) THEN n ELSE 0
<1> DEFINE r == [q EXCEPT ![x] = @ + n]
           f == [y \in OwnersOf(p) |-> q[y]]
           g == [y \in OwnersOf(p) |-> r[y]]
<1>1. r \in [Owners -> Nat] OBVIOUS
<1>2. /\ r[x] = q[x] + n /\ \A y \in Owners : y # x => r[y] = q[y]
      /\ q[x] \in Nat
  OBVIOUS
<1> HIDE DEF r
<1>3. f \in [OwnersOf(p) -> Nat] /\ g \in [OwnersOf(p) -> Nat]
  BY <1>1, SumType
<1>4. Sum(q, p) = Total(f) /\ Sum(r, p) = Total(g) BY DEF Sum
<1>5. Total(f) \in Nat /\ Total(g) \in Nat
  <2> HIDE DEF f, g
  <2>1. QED BY <1>3, OwnersFacts, TotalType
<1>6. CASE p = ProductOf(x)
  <2>1. x \in OwnersOf(p) BY <1>6, OwnersFacts
  <2>2. \A y \in OwnersOf(p) : y # x => g[y] = f[y] BY <1>2, OwnersFacts
  <2>3. g[x] = f[x] + n /\ f[x] \in Nat BY <1>2, <2>1
  <2> HIDE DEF f, g
  <2>4. Total(g) + f[x] = Total(f) + g[x]
    BY <1>3, <2>1, <2>2, OwnersFacts, TotalChange
  <2>5. Total(g) = Total(f) + n BY <1>5, <2>3, <2>4
  <2>6. QED BY <1>4, <1>6, <2>5 DEF r
<1>7. CASE p # ProductOf(x)
  <2>1. x \notin OwnersOf(p) BY <1>7, OwnersFacts
  <2>2. g = f BY <1>2, <2>1, OwnersFacts
  <2> HIDE DEF f, g
  <2>3. Sum(r, p) = Sum(q, p) + 0 BY <1>4, <1>5, <2>2
  <2>4. QED BY <1>7, <2>3 DEF r
<1>8. QED BY <1>6, <1>7

\* Rows about one product count for that product alone.
LEMMA SumRows ==
  ASSUME NEW q \in [Owners -> Nat], NEW r \in Products,
         NEW alloc \in [OwnersOf(r) -> Nat], NEW p \in Products
  PROVE  Sum(AddRows(q, alloc), p)
           = Sum(q, p) + IF p = r THEN Total(alloc) ELSE 0
<1> DEFINE h == AddRows(q, alloc)
           f == [y \in OwnersOf(p) |-> q[y]]
           g == [y \in OwnersOf(p) |-> h[y]]
<1>1. h \in [Owners -> Nat] BY OwnersFacts, AddRowsType
<1>2. \A y \in Owners :
        h[y] = IF y \in OwnersOf(r) THEN q[y] + alloc[y] ELSE q[y]
  BY DEF AddRows
<1> HIDE DEF h
<1>3. f \in [OwnersOf(p) -> Nat] /\ g \in [OwnersOf(p) -> Nat]
  BY <1>1, SumType
<1>4. Sum(q, p) = Total(f) /\ Sum(h, p) = Total(g) BY DEF Sum
<1>5. Total(f) \in Nat
  <2> HIDE DEF f
  <2>1. QED BY <1>3, OwnersFacts, TotalType
<1>6. CASE p = r
  <2>1. \A y \in OwnersOf(p) : g[y] = f[y] + alloc[y]
    BY <1>2, <1>6, OwnersFacts
  <2> HIDE DEF f, g
  <2>2. Total(g) = Total(f) + Total(alloc)
    BY <1>3, <1>6, <2>1, OwnersFacts, TotalAdd
  <2>3. QED BY <1>4, <1>6, <2>2 DEF h
<1>7. CASE p # r
  <2>1. \A y \in OwnersOf(p) : y \notin OwnersOf(r) BY <1>7, OwnersFacts
  <2>2. g = f BY <1>2, <2>1, OwnersFacts
  <2> HIDE DEF f, g
  <2>3. Sum(h, p) = Sum(q, p) + 0 BY <1>4, <1>5, <2>2
  <2>4. QED BY <1>7, <2>3 DEF h
<1>8. QED BY <1>6, <1>7

\* The same for rows that are kept for every owner, and none elsewhere.
LEMMA SumAlloc ==
  ASSUME NEW q \in [Owners -> Nat], NEW r \in Products,
         NEW alloc \in [Owners -> Nat], NEW p \in Products,
         \A x \in Owners : x \notin OwnersOf(r) => alloc[x] = 0
  PROVE  Sum(AddRows(q, alloc), p)
           = Sum(q, p) + IF p = r THEN Total(alloc) ELSE 0
<1> DEFINE own == [x \in OwnersOf(r) |-> alloc[x]]
<1>1. own \in [OwnersOf(r) -> Nat] BY SumType
<1>2. /\ \A x \in OwnersOf(r) : own[x] = alloc[x]
      /\ \A x \in Owners \ OwnersOf(r) : alloc[x] = 0
      /\ OwnersOf(r) \in SUBSET Owners
  BY OwnersFacts
<1> HIDE DEF own
<1>3. Total(alloc) = Total(own) BY <1>1, <1>2, TotalWithin
<1>4. AddRows(q, alloc) = AddRows(q, own)
  <2>1. ASSUME NEW x \in Owners
        PROVE  AddRows(q, alloc)[x] = AddRows(q, own)[x]
    <3>1. DOMAIN alloc = Owners /\ DOMAIN own = OwnersOf(r) BY <1>1
    <3>2. q[x] \in Nat OBVIOUS
    <3>3. QED BY <1>2, <3>1, <3>2 DEF AddRows
  <2>2. QED BY <2>1 DEF AddRows
<1>5. QED BY <1>1, <1>3, <1>4, SumRows

\* What a roast took is green, lot by lot and in all.
LEMMA SumTaken ==
  ASSUME TypeOK, NEW q \in [Owners -> Nat], NEW b \in Roasts,
         NEW p \in Products
  PROVE  Sum(AddTaken(q, b), p)
           = Sum(q, p) + IF p = "GREEN" THEN Total(taken[b]) ELSE 0
<1> DEFINE alloc == [x \in OwnersOf("GREEN") |->
                       IF x \in GreenLots THEN TakenFrom(b, x) ELSE 0]
           h == [l \in GreenLots |-> TakenFrom(b, l)]
           t == taken[b]
<1>1. \A l \in GreenLots : TakenFrom(b, l) \in Nat BY TakenType
<1>2. alloc \in [OwnersOf("GREEN") -> Nat] /\ h \in [GreenLots -> Nat]
  BY <1>1
<1>3. GreenLots \in SUBSET OwnersOf("GREEN")
  BY OwnersFacts DEF Products, Owners, Lots
<1>4. Total(alloc) = Total(h)
  <2>1. \A x \in GreenLots : h[x] = alloc[x] BY <1>3
  <2>2. \A x \in OwnersOf("GREEN") \ GreenLots : alloc[x] = 0 OBVIOUS
  <2> HIDE DEF alloc, h
  <2>3. QED BY <1>2, <1>3, <2>1, <2>2, TotalWithin
<1>5. Total(h) = Total(t)
  <2> DEFINE pairs == GreenLots \X Locations
  <2>1. t \in [pairs -> Nat] BY DEF TypeOK, Reservations
  <2>2. \A l \in GreenLots :
          h[l] = Total(Row(t, l, Locations))
    BY DEF TakenFrom
  <2> HIDE DEF h, t
  <2>3. IsFiniteSet(GreenLots) /\ IsFiniteSet(Locations) BY FiniteSets
  <2>4. h \in [GreenLots -> Nat] BY <1>2
  <2>5. pairs = GreenLots \X Locations OBVIOUS
  <2> HIDE DEF pairs
  <2>6. QED BY <2>1, <2>2, <2>3, <2>4, <2>5, TotalOfTotals
<1>6. AddTaken(q, b) = AddRows(q, alloc)
  <2>1. ASSUME NEW x \in Owners
        PROVE  AddTaken(q, b)[x] = AddRows(q, alloc)[x]
    <3>1. q[x] \in Nat OBVIOUS
    <3>2. QED BY <1>3, <3>1 DEF AddTaken, AddRows
  <2>2. QED BY <2>1 DEF AddTaken, AddRows
<1>7. "GREEN" \in Products BY DEF Products
<1> HIDE DEF alloc, h
<1>8. Sum(AddRows(q, alloc), p)
        = Sum(q, p) + IF p = "GREEN" THEN Total(alloc) ELSE 0
  BY <1>2, <1>7, SumRows
<1>9. QED BY <1>4, <1>5, <1>6, <1>8
\* An issue takes of its own product only.
AllocIsOwn ==
  \A i \in Issues, x \in Owners :
    x \notin OwnersOf(issue[i].product) => issue[i].alloc[x] = 0

\* StockIsLedger in terms of the sums of each product.
LEMMA LedgerBySums ==
  StockIsLedger <=> \A p \in Products : stock[p] + Sum(outs, p) = Sum(ins, p)
BY DEF StockIsLedger, Sum

\* What changes in the books of each product: m is booked in, n is booked out.
LEMMA LedgerStep ==
  ASSUME TypeOK, StockIsLedger, NEW m \in [Products -> Nat],
         NEW n \in [Products -> Nat],
         \A p \in Products : Sum(ins', p) = Sum(ins, p) + m[p],
         \A p \in Products : Sum(outs', p) = Sum(outs, p) + n[p],
         \A p \in Products : stock'[p] = stock[p] + m[p] - n[p]
  PROVE  StockIsLedger'
<1>1. SUFFICES ASSUME NEW p \in Products
               PROVE  stock'[p] + Sum(outs', p) = Sum(ins', p)
  BY DEF StockIsLedger, Sum
<1>2. stock[p] + Sum(outs, p) = Sum(ins, p) BY LedgerBySums
<1>3. Sum(ins, p) \in Nat /\ Sum(outs, p) \in Nat BY SumType DEF TypeOK
<1>4. stock[p] \in Nat /\ m[p] \in Nat /\ n[p] \in Nat BY DEF TypeOK
<1>5. QED BY <1>2, <1>3, <1>4

\* A step that leaves stock and rows alone.
LEMMA LedgerFrame ==
  ASSUME StockIsLedger, UNCHANGED <<stock, ins, outs>>
  PROVE  StockIsLedger'
BY DEF StockIsLedger

\* A row about one owner, in or out.
LEMMA LedgerIn ==
  ASSUME TypeOK, StockIsLedger, NEW x \in Owners, NEW kg \in Nat,
         ins' = [ins EXCEPT ![x] = @ + kg], outs' = outs,
         stock' = [stock EXCEPT ![ProductOf(x)] = @ + kg]
  PROVE  StockIsLedger'
<1> DEFINE m == [p \in Products |-> IF p = ProductOf(x) THEN kg ELSE 0]
           n == [p \in Products |-> 0]
<1>1. m \in [Products -> Nat] /\ n \in [Products -> Nat] OBVIOUS
<1>2. \A p \in Products : Sum(ins', p) = Sum(ins, p) + m[p]
  BY SumOne DEF TypeOK
<1>3. \A p \in Products : Sum(outs', p) = Sum(outs, p) + n[p]
  <2>1. outs \in [Owners -> Nat] BY DEF TypeOK
  <2>2. \A p \in Products : Sum(outs, p) \in Nat BY <2>1, SumType
  <2>3. QED BY <2>2
<1>4. \A p \in Products : stock'[p] = stock[p] + m[p] - n[p]
  BY DEF TypeOK
<1> HIDE DEF m, n
<1>5. QED BY <1>1, <1>2, <1>3, <1>4, LedgerStep

\* A row about one owner, out, with the stock of its product.
LEMMA LedgerOut ==
  ASSUME TypeOK, StockIsLedger, NEW x \in Owners, NEW kg \in Nat,
         outs' = [outs EXCEPT ![x] = @ + kg], ins' = ins,
         stock' = [stock EXCEPT ![ProductOf(x)] = @ - kg]
  PROVE  StockIsLedger'
<1> DEFINE n == [p \in Products |-> IF p = ProductOf(x) THEN kg ELSE 0]
           m == [p \in Products |-> 0]
<1>1. m \in [Products -> Nat] /\ n \in [Products -> Nat] OBVIOUS
<1>2. \A p \in Products : Sum(outs', p) = Sum(outs, p) + n[p]
  BY SumOne DEF TypeOK
<1>3. \A p \in Products : Sum(ins', p) = Sum(ins, p) + m[p]
  <2>1. ins \in [Owners -> Nat] BY DEF TypeOK
  <2>2. \A p \in Products : Sum(ins, p) \in Nat BY <2>1, SumType
  <2>3. QED BY <2>2
<1>4. \A p \in Products : stock'[p] = stock[p] + m[p] - n[p]
  BY DEF TypeOK
<1> HIDE DEF m, n
<1>5. QED BY <1>1, <1>2, <1>3, <1>4, LedgerStep

\* Receipts and their voids write stock and rows together.
LEMMA LedgerReceiving ==
  ASSUME TypeOK, StockIsLedger, Receiving
  PROVE  StockIsLedger'
<1>1. PICK l \in GreenLots :
        \/ VoidPurchase(l)
        \/ \E kg \in Receipts, c \in Locations, i \in 0 .. Len(shelf) :
             BuyGreenBeans(l, kg, c, i)
  BY DEF Receiving
<1>2. l \in Owners /\ ProductOf(l) = "GREEN"
  BY OwnersFacts DEF Owners, Lots
<1>3. CASE VoidPurchase(l)
  <2>1. bought[l].kg \in Nat BY DEF TypeOK, Purchase
  <2>2. QED BY <1>2, <1>3, <2>1, LedgerOut DEF VoidPurchase
<1>4. ASSUME NEW kg \in Receipts, NEW c, NEW i, BuyGreenBeans(l, kg, c, i)
      PROVE  StockIsLedger'
  <2>1. kg \in Nat BY BoundsAssumption
  <2>2. QED BY <1>2, <1>4, <2>1, LedgerIn DEF BuyGreenBeans
<1>5. QED BY <1>1, <1>3, <1>4

\* Corrections write stock and rows together.
LEMMA LedgerAdjusting ==
  ASSUME TypeOK, StockIsLedger, Adjusting
  PROVE  StockIsLedger'
<1>1. PICK p \in Corrected, kg \in Kg : AdjustIn(p, kg) \/ AdjustOut(p, kg)
  BY DEF Adjusting
<1>2. p \in Owners /\ ProductOf(p) = p /\ kg \in Nat
  BY BoundsAssumption DEF Owners, ProductOf
<1>3. CASE AdjustIn(p, kg) BY <1>2, <1>3, LedgerIn DEF AdjustIn
<1>4. CASE AdjustOut(p, kg) BY <1>2, <1>4, LedgerOut DEF AdjustOut
<1>5. QED BY <1>1, <1>3, <1>4

\* Roasts, their losses and voids write stock and rows together.
LEMMA LedgerRoasting ==
  ASSUME TypeOK, StockIsLedger, Roasting
  PROVE  StockIsLedger'
<1>1. PICK b \in Roasts :
        \/ \E kg \in 1 .. stock["GREEN"] :
             \E t \in [GreenLots \X Locations -> 0 .. kg],
                preferred \in {{}} \cup {{l} : l \in GreenLots} :
               IsReservation(t, kg, preferred) /\ StartRoast(b, kg, t)
        \/ \E out \in 1 .. roast[b].kg, c \in Locations :
             CompleteRoast(b, out, c)
        \/ AbortRoast(b) \/ ScrapRoast(b) \/ VoidRoast(b)
  BY DEF Roasting
<1> DEFINE used_up == Total(taken[b])
           green == [p \in Products |-> IF p = "GREEN" THEN used_up ELSE 0]
           none == [p \in Products |-> 0]
<1>2. /\ used_up \in Nat /\ b \in Owners /\ ProductOf(b) = "ROASTED"
      /\ ins \in [Owners -> Nat] /\ outs \in [Owners -> Nat]
      /\ stock \in [Products -> Nat]
  BY TakenType, OwnersFacts DEF Owners, Lots, TypeOK
<1>3. green \in [Products -> Nat] /\ none \in [Products -> Nat] BY <1>2
<1>4. \A q \in [Owners -> Nat], p \in Products :
        Sum(AddTaken(q, b), p) = Sum(q, p) + green[p]
  BY SumTaken
<1> HIDE DEF used_up
<1>5. ASSUME NEW out \in Nat
      PROVE  [p \in Products |-> IF p = "ROASTED" THEN out ELSE 0]
               \in [Products -> Nat]
  OBVIOUS
<1>6. ASSUME NEW out \in Nat, NEW q \in [Owners -> Nat], NEW p \in Products
      PROVE  Sum([q EXCEPT ![b] = @ + out], p)
               = Sum(q, p) + IF p = "ROASTED" THEN out ELSE 0
  <2>1. b \in Owners BY <1>2
  <2>2. Sum([q EXCEPT ![b] = @ + out], p)
          = Sum(q, p) + IF p = ProductOf(b) THEN out ELSE 0
    BY <2>1, SumOne
  <2>3. QED BY <1>2, <2>2
<1>7. ASSUME NEW out \in Nat, NEW c, CompleteRoast(b, out, c)
      PROVE  StockIsLedger'
  <2> DEFINE m == [p \in Products |-> IF p = "ROASTED" THEN out ELSE 0]
  <2>1. \A p \in Products : Sum(ins', p) = Sum(ins, p) + m[p]
    BY <1>2, <1>6, <1>7 DEF CompleteRoast
  <2>2. \A p \in Products : Sum(outs', p) = Sum(outs, p) + green[p]
    BY <1>2, <1>4, <1>7 DEF CompleteRoast
  <2>3. stock' = [stock EXCEPT !["GREEN"] = @ - used_up,
                               !["ROASTED"] = @ + out]
    BY <1>7 DEF CompleteRoast, used_up
  <2>4. \A p \in Products : stock'[p] = stock[p] + m[p] - green[p]
    BY <1>2, <2>3 DEF Products
  <2>5. m \in [Products -> Nat] BY <1>5
  <2> HIDE DEF m, green
  <2>6. QED BY <1>3, <2>1, <2>2, <2>4, <2>5, LedgerStep
<1>8. ASSUME ScrapRoast(b) PROVE StockIsLedger'
  <2>1. \A p \in Products : Sum(ins', p) = Sum(ins, p) + none[p]
    BY <1>2, <1>8, SumType DEF ScrapRoast
  <2>2. \A p \in Products : Sum(outs', p) = Sum(outs, p) + green[p]
    BY <1>2, <1>4, <1>8 DEF ScrapRoast
  <2>3. stock' = [stock EXCEPT !["GREEN"] = @ - used_up]
    BY <1>8 DEF ScrapRoast, used_up
  <2>4. \A p \in Products : stock'[p] = stock[p] + none[p] - green[p]
    BY <1>2, <2>3 DEF Products
  <2> HIDE DEF none, green
  <2>5. QED BY <1>3, <2>1, <2>2, <2>4, LedgerStep
<1>9. ASSUME VoidRoast(b) PROVE StockIsLedger'
  <2> DEFINE out == roast[b].out
             n == [p \in Products |-> IF p = "ROASTED" THEN out ELSE 0]
  <2>1. out \in Nat BY DEF TypeOK, Roast
  <2>2. \A p \in Products : Sum(ins', p) = Sum(ins, p) + green[p]
    BY <1>2, <1>4, <1>9 DEF VoidRoast
  <2>3. outs' = [outs EXCEPT ![b] = @ + out] BY <1>9 DEF VoidRoast
  <2>4. stock' = [stock EXCEPT !["GREEN"] = @ + used_up,
                               !["ROASTED"] = @ - out]
    BY <1>9 DEF VoidRoast, used_up
  <2> HIDE DEF out
  <2>5. \A p \in Products : Sum(outs', p) = Sum(outs, p) + n[p]
    BY <1>2, <1>6, <2>1, <2>3
  <2>6. \A p \in Products : stock'[p] = stock[p] + green[p] - n[p]
    BY <1>2, <2>1, <2>4 DEF Products
  <2>7. n \in [Products -> Nat] BY <1>5, <2>1
  <2> HIDE DEF n, green
  <2>8. QED BY <1>3, <2>2, <2>5, <2>6, <2>7, LedgerStep
<1>10. ASSUME NEW kg, NEW t, StartRoast(b, kg, t) PROVE StockIsLedger'
  BY <1>10, LedgerFrame DEF StartRoast
<1>11. ASSUME AbortRoast(b) PROVE StockIsLedger'
  BY <1>11, LedgerFrame DEF AbortRoast
<1>12. ASSUME NEW out \in 1 .. roast[b].kg PROVE out \in Nat OBVIOUS
<1>13. QED BY <1>1, <1>7, <1>8, <1>9, <1>10, <1>11, <1>12

\* Grinding, production and their voids write stock and rows together.
LEMMA LedgerIssuing ==
  ASSUME TypeOK, StockIsLedger, AllocIsOwn, Issuing
  PROVE  StockIsLedger'
<1>1. /\ ins \in [Owners -> Nat] /\ outs \in [Owners -> Nat]
      /\ stock \in [Products -> Nat]
  BY DEF TypeOK
<1>2. ASSUME NEW i \in Issues, VoidIssue(i) PROVE StockIsLedger'
  <2> DEFINE p0 == issue[i].product
             alloc == issue[i].alloc
             out == issue[i].out
             back == Total(alloc)
             m == [p \in Products |-> IF p = p0 THEN back ELSE 0]
             n == [p \in Products |-> IF p = "GROUND" THEN out ELSE 0]
  <2>1. p0 \in Products /\ out \in Nat /\ alloc \in [Owners -> Nat]
    BY DEF TypeOK, Issue
  <2>2. i \in Owners /\ ProductOf(i) = "GROUND"
    BY OwnersFacts DEF Owners, Lots
  <2>3. \A x \in Owners : x \notin OwnersOf(p0) => alloc[x] = 0
    BY DEF AllocIsOwn
  <2>4. /\ ins' = AddRows(ins, alloc)
        /\ outs' = [outs EXCEPT ![i] = @ + out]
        /\ stock' = [q \in Products |->
                       stock[q] + (IF q = p0 THEN back ELSE 0)
                                - (IF q = "GROUND" THEN out ELSE 0)]
    BY <1>2 DEF VoidIssue
  <2> HIDE DEF alloc, out, p0
  <2>5. back \in Nat BY <2>1, FiniteSets, TotalType
  <2>6. \A p \in Products : Sum(ins', p) = Sum(ins, p) + m[p]
    BY <1>1, <2>1, <2>3, <2>4, SumAlloc
  <2> HIDE DEF back
  <2>7. \A p \in Products : Sum(outs', p) = Sum(outs, p) + n[p]
    BY <1>1, <2>1, <2>2, <2>4, SumOne
  <2>8. \A p \in Products : stock'[p] = stock[p] + m[p] - n[p]
    BY <2>4
  <2>9. m \in [Products -> Nat] /\ n \in [Products -> Nat] BY <2>1, <2>5
  <2> HIDE DEF m, n
  <2>10. QED BY <2>6, <2>7, <2>8, <2>9, LedgerStep
<1>3. ASSUME NEW i \in Issues, NEW p0 \in Products, NEW kg \in Nat,
             NEW alloc \in [OwnersOf(p0) -> Nat], NEW draw,
             NEW out \in Nat, NEW c, IsFefoAllocation(alloc, p0, kg),
             IssueBeans(i, p0, kg, alloc, draw, out, c)
      PROVE  StockIsLedger'
  <2> DEFINE n == [p \in Products |-> IF p = p0 THEN kg ELSE 0]
             m == [p \in Products |-> IF p = "GROUND" THEN out ELSE 0]
  <2>1. Total(alloc) = kg BY <1>3 DEF IsFefoAllocation
  <2>2. i \in Owners /\ ProductOf(i) = "GROUND"
    BY OwnersFacts DEF Owners, Lots
  <2>3. /\ ins' = [ins EXCEPT ![i] = @ + out]
        /\ outs' = AddRows(outs, alloc)
        /\ stock' = [q \in Products |->
                       stock[q] - (IF q = p0 THEN kg ELSE 0)
                                + (IF q = "GROUND" THEN out ELSE 0)]
    BY <1>3 DEF IssueBeans
  <2>4. \A p \in Products : Sum(ins', p) = Sum(ins, p) + m[p]
    BY <1>1, <2>2, <2>3, SumOne
  <2>5. \A p \in Products : Sum(outs', p) = Sum(outs, p) + n[p]
    BY <1>1, <2>1, <2>3, SumRows
  <2>6. \A p \in Products : stock'[p] = stock[p] + m[p] - n[p]
    BY <1>1, <2>3
  <2>7. m \in [Products -> Nat] /\ n \in [Products -> Nat] OBVIOUS
  <2> HIDE DEF m, n
  <2>8. QED BY <2>4, <2>5, <2>6, <2>7, LedgerStep
<1>4. QED BY <1>2, <1>3, IssuingCases
\* A confirmed count writes stock and rows together.
LEMMA LedgerCount ==
  ASSUME TypeOK, StockIsLedger, NEW u \in Users, WriteCount(u)
  PROVE  StockIsLedger'
<1> DEFINE c == user[u].count
           l == count[c].lot
           p0 == ProductOf(l)
           more == AtLeast0(count[c].counted - count[c].system)
           less == AtLeast0(count[c].system - count[c].counted)
           m == [p \in Products |-> IF p = p0 THEN more ELSE 0]
           n == [p \in Products |-> IF p = p0 THEN less ELSE 0]
<1>1. user[u] \in Task BY DEF TypeOK
<1>2. c \in Counts BY <1>1 DEF WriteCount, Task, Requests
<1>3. /\ l \in Lots /\ count[c].counted \in Nat /\ count[c].system \in Int
  BY <1>2 DEF TypeOK, Count
<1>4. l \in Owners BY <1>3 DEF Owners
<1>5. more \in Nat /\ less \in Nat BY <1>3
<1>6. /\ ins' = [ins EXCEPT ![l] = @ + more]
      /\ outs' = [outs EXCEPT ![l] = @ + less]
      /\ stock' = [stock EXCEPT ![p0] = @ + more - less]
  BY DEF WriteCount
<1>7. /\ ins \in [Owners -> Nat] /\ outs \in [Owners -> Nat]
      /\ stock \in [Products -> Nat]
  BY DEF TypeOK
<1> HIDE DEF l, more, less
<1>8. \A p \in Products : Sum(ins', p) = Sum(ins, p) + m[p]
  BY <1>4, <1>5, <1>6, <1>7, SumOne
<1>9. \A p \in Products : Sum(outs', p) = Sum(outs, p) + n[p]
  BY <1>4, <1>5, <1>6, <1>7, SumOne
<1>10. \A p \in Products : stock'[p] = stock[p] + m[p] - n[p]
  BY <1>5, <1>6, <1>7
<1>11. m \in [Products -> Nat] /\ n \in [Products -> Nat] BY <1>5
<1> HIDE DEF m, n
<1>12. QED BY <1>8, <1>9, <1>10, <1>11, LedgerStep

\* An allocation stays one of lots of its own product.
LEMMA AllocStaysOwn ==
  ASSUME TypeOK, AllocIsOwn, [Next]_vars
  PROVE  AllocIsOwn'
<1>1. ASSUME issue' = issue PROVE AllocIsOwn' BY <1>1 DEF AllocIsOwn
<1>2. ASSUME NEW i \in Issues, VoidIssue(i) PROVE AllocIsOwn'
  <2>1. \A x \in Issues : /\ issue'[x].product = issue[x].product
                          /\ issue'[x].alloc = issue[x].alloc
    BY <1>2 DEF VoidIssue, TypeOK, Issue
  <2>2. QED BY <2>1 DEF AllocIsOwn
<1>3. ASSUME NEW i \in Issues, NEW p \in Products, NEW kg,
             NEW alloc \in [OwnersOf(p) -> Nat], NEW draw, NEW out, NEW c,
             IssueBeans(i, p, kg, alloc, draw, out, c)
      PROVE  AllocIsOwn'
  <2>1. issue' = [issue EXCEPT ![i] =
          [status |-> "COMPLETED", product |-> p, out |-> out,
           alloc |-> AddRows(Nothing, alloc)]]
    BY <1>3 DEF IssueBeans
  <2>2. /\ issue'[i].product = p /\ issue'[i].alloc = AddRows(Nothing, alloc)
        /\ \A x \in Issues : x # i => issue'[x] = issue[x]
    BY <2>1 DEF TypeOK
  <2>3. \A x \in Owners :
          x \notin OwnersOf(p) => AddRows(Nothing, alloc)[x] = 0
    BY DEF AddRows, Nothing
  <2>4. QED BY <2>2, <2>3 DEF AllocIsOwn
<1>4. CASE Issuing BY <1>2, <1>3, <1>4, IssuingCases
<1>5. CASE Receiving
  BY <1>1, <1>5 DEF Receiving, BuyGreenBeans, VoidPurchase
<1>6. CASE Adjusting BY <1>1, <1>6 DEF Adjusting, AdjustIn, AdjustOut
<1>7. CASE Roasting
  BY <1>1, <1>7 DEF Roasting, StartRoast, CompleteRoast, AbortRoast,
                    ScrapRoast, VoidRoast
<1>8. CASE Counting BY <1>1, <1>8 DEF Counting, CancelCount, DraftCount
<1>9. CASE Writing
  BY <1>1, <1>9 DEF Writing, WritePlacement, WriteHold, WriteCount, GiveUp
<1>10. CASE \E l \in Lots, c \in Locations : RemovePlacement(l, c)
  BY <1>1, <1>10 DEF RemovePlacement
<1>11. CASE \E u \in Users, t \in Requests : Read(u, t)
  BY <1>1, <1>11 DEF Read
<1>12. CASE UNCHANGED vars BY <1>1, <1>12 DEF vars
<1>13. QED
  BY <1>4, <1>5, <1>6, <1>7, <1>8, <1>9, <1>10, <1>11, <1>12 DEF Next

\* Every step writes stock and rows together.
LEMMA LedgerNext ==
  ASSUME TypeOK, StockIsLedger, AllocIsOwn, [Next]_vars
  PROVE  StockIsLedger'
<1>1. CASE Receiving BY <1>1, LedgerReceiving
<1>2. CASE Adjusting BY <1>2, LedgerAdjusting
<1>3. CASE Roasting BY <1>3, LedgerRoasting
<1>4. CASE Issuing BY <1>4, LedgerIssuing
<1>5. CASE Counting
  BY <1>5, LedgerFrame DEF Counting, CancelCount, DraftCount
<1>6. CASE Writing
  <2>1. PICK u \in Users :
          WritePlacement(u) \/ WriteHold(u) \/ WriteCount(u) \/ GiveUp(u)
    BY <1>6 DEF Writing
  <2>2. CASE WriteCount(u) BY <2>2, LedgerCount
  <2>3. CASE WritePlacement(u) BY <2>3, LedgerFrame DEF WritePlacement
  <2>4. CASE WriteHold(u) BY <2>4, LedgerFrame DEF WriteHold
  <2>5. CASE GiveUp(u) BY <2>5, LedgerFrame DEF GiveUp
  <2>6. QED BY <2>1, <2>2, <2>3, <2>4, <2>5
<1>7. CASE \E l \in Lots, c \in Locations : RemovePlacement(l, c)
  BY <1>7, LedgerFrame DEF RemovePlacement
<1>8. CASE \E u \in Users, t \in Requests : Read(u, t)
  BY <1>8, LedgerFrame DEF Read
<1>9. CASE UNCHANGED vars BY <1>9, LedgerFrame DEF vars
<1>10. QED
  BY <1>1, <1>2, <1>3, <1>4, <1>5, <1>6, <1>7, <1>8, <1>9 DEF Next

\* The cached stock of every product is the sum of its ledger rows, however
\* lots are split over rows and whatever is voided.
THEOREM StockAlwaysLedger == Spec => []StockIsLedger
<1> DEFINE Inv == TypeOK /\ StockIsLedger /\ AllocIsOwn
<1>1. Init => Inv
  <2>1. SUFFICES ASSUME Init PROVE StockIsLedger /\ AllocIsOwn BY TypeInit
  <2>2. ASSUME NEW p \in Products
        PROVE  stock[p] + Sum(outs, p) = Sum(ins, p)
    <3> DEFINE f == [x \in OwnersOf(p) |-> Nothing[x]]
    <3>1. /\ f \in [OwnersOf(p) -> Nat] /\ \A x \in OwnersOf(p) : f[x] = 0
          /\ Sum(ins, p) = Total(f) /\ Sum(outs, p) = Total(f)
          /\ stock[p] = 0
      BY <2>1, OwnersFacts DEF Nothing, Init, Sum
    <3> HIDE DEF f
    <3>2. Total(f) = 0 BY <3>1, TotalZero
    <3>3. QED BY <3>1, <3>2
  <2>3. StockIsLedger BY <2>2, LedgerBySums
  <2>4. AllocIsOwn BY <2>1 DEF Init, AllocIsOwn, Nothing
  <2>5. QED BY <2>3, <2>4
<1>2. Inv /\ [Next]_vars => Inv' BY TypeStep, LedgerNext, AllocStaysOwn
<1>3. QED BY <1>1, <1>2, PTL DEF Spec

\* One call at a time is a special case of free interleaving.
THEOREM SerialRefinesSpec == SerialSpec => Spec
<1>1. [SerialStep]_vars => [Next]_vars BY DEF SerialStep, Next
<1>2. QED BY <1>1, PTL DEF SerialSpec, Spec
-----------------------------------------------------------------------------
(* The ledger of a lot and its documents. *)

\* What roast b has used up or lost of lot l.
Spent(b, l) ==
  IF l \in GreenLots /\ roast[b].status \in {"COMPLETED", "SCRAPPED"}
  THEN TakenFrom(b, l) ELSE 0

\* What issue i has taken of lot l.
Portion(i, l) == IF issue[i].status = "COMPLETED" THEN issue[i].alloc[l] ELSE 0

\* What count n has found and missed of lot l.
More(n) == AtLeast0(count[n].counted - count[n].system)
Less(n) == AtLeast0(count[n].system - count[n].counted)
IsCount(n, l) == count[n].status = "CONFIRMED" /\ count[n].lot = l
FoundBy(n, l) == IF IsCount(n, l) THEN More(n) ELSE 0
MissedBy(n, l) == IF IsCount(n, l) THEN Less(n) ELSE 0

\* What the documents say there is of a lot.
Documents(l) == Received(l) + (Found(l) - Missed(l)) - Roasted(l) - Issued(l)

\* What each document says is a number, and the sums are over fixed sets.
DocumentFacts ==
  \A l \in Lots :
    /\ Received(l) \in Nat
    /\ [b \in Roasts |-> Spent(b, l)] \in [Roasts -> Nat]
    /\ [i \in Issues |-> Portion(i, l)] \in [Issues -> Nat]
    /\ [n \in Counts |-> FoundBy(n, l)] \in [Counts -> Nat]
    /\ [n \in Counts |-> MissedBy(n, l)] \in [Counts -> Nat]
    /\ Roasted(l) = Total([b \in Roasts |-> Spent(b, l)])
    /\ Issued(l) = Total([i \in Issues |-> Portion(i, l)])
    /\ Found(l) = Total([n \in Counts |-> FoundBy(n, l)])
    /\ Missed(l) = Total([n \in Counts |-> MissedBy(n, l)])

\* What each document says is a number.
LEMMA DocumentTypes ==
  ASSUME TypeOK, NEW l \in Lots
  PROVE  /\ Received(l) \in Nat
         /\ \A b \in Roasts : Spent(b, l) \in Nat
         /\ \A i \in Issues : Portion(i, l) \in Nat
         /\ \A n \in Counts : FoundBy(n, l) \in Nat /\ MissedBy(n, l) \in Nat
<1>1. Received(l) \in Nat
  BY DEF Received, TypeOK, Purchase, Roast, Issue, Lots
<1>2. \A b \in Roasts : Spent(b, l) \in Nat BY TakenType DEF Spent
<1>3. \A i \in Issues : Portion(i, l) \in Nat
  BY DEF Portion, TypeOK, Issue, Owners
<1>4. ASSUME NEW n \in Counts
      PROVE  FoundBy(n, l) \in Nat /\ MissedBy(n, l) \in Nat
  <2>1. count[n].counted \in Nat /\ count[n].system \in Int
    BY DEF TypeOK, Count
  <2>2. QED BY <2>1 DEF FoundBy, MissedBy, More, Less
<1>5. QED BY <1>1, <1>2, <1>3, <1>4

\* The four sums of documents, each over a fixed set.
LEMMA SumsOfDocuments ==
  ASSUME TypeOK, NEW l \in Lots
  PROVE  /\ Roasted(l) = Total([b \in Roasts |-> Spent(b, l)])
         /\ Issued(l) = Total([i \in Issues |-> Portion(i, l)])
         /\ Found(l) = Total([n \in Counts |-> FoundBy(n, l)])
         /\ Missed(l) = Total([n \in Counts |-> MissedBy(n, l)])
<1>1. Roasted(l) = Total([b \in Roasts |-> Spent(b, l)])
  <2>1. CASE l \in GreenLots
    <3>1. [b \in Roasts |-> Spent(b, l)] =
            [b \in Roasts |->
               IF roast[b].status \in {"COMPLETED", "SCRAPPED"}
               THEN TakenFrom(b, l) ELSE 0]
      BY <2>1 DEF Spent
    <3>2. QED BY <2>1, <3>1 DEF Roasted
  <2>2. CASE l \notin GreenLots
    <3> DEFINE f == [b \in Roasts |-> Spent(b, l)]
    <3>1. f \in [Roasts -> Nat] /\ \A b \in Roasts : f[b] = 0
      BY <2>2 DEF Spent
    <3> HIDE DEF f
    <3>2. Total(f) = 0 BY <3>1, TotalZero
    <3>3. QED BY <2>2, <3>2 DEF Roasted, f
  <2>3. QED BY <2>1, <2>2
<1>2. Issued(l) = Total([i \in Issues |-> Portion(i, l)])
  BY DEF Issued, Portion
<1>3. CountsOf(l) \in SUBSET Counts BY DEF CountsOf
<1>4. Found(l) = Total([n \in Counts |-> FoundBy(n, l)])
  <2> DEFINE p == [n \in Counts |-> FoundBy(n, l)]
             q == [n \in CountsOf(l) |-> More(n)]
  <2>1. p \in [Counts -> Nat] BY DocumentTypes
  <2>2. /\ q \in [CountsOf(l) -> Nat] /\ \A n \in CountsOf(l) : q[n] = p[n]
        /\ \A n \in Counts \ CountsOf(l) : p[n] = 0
    BY <1>3, <2>1 DEF FoundBy, CountsOf, IsCount
  <2>3. Found(l) = Total(q) BY DEF Found, More
  <2> HIDE DEF p, q
  <2>4. Total(p) = Total(q) BY <1>3, <2>1, <2>2, TotalWithin
  <2>5. QED BY <2>3, <2>4 DEF p
<1>5. Missed(l) = Total([n \in Counts |-> MissedBy(n, l)])
  <2> DEFINE p == [n \in Counts |-> MissedBy(n, l)]
             q == [n \in CountsOf(l) |-> Less(n)]
  <2>1. p \in [Counts -> Nat] BY DocumentTypes
  <2>2. /\ q \in [CountsOf(l) -> Nat] /\ \A n \in CountsOf(l) : q[n] = p[n]
        /\ \A n \in Counts \ CountsOf(l) : p[n] = 0
    BY <1>3, <2>1 DEF MissedBy, CountsOf, IsCount
  <2>3. Missed(l) = Total(q) BY DEF Missed, Less
  <2> HIDE DEF p, q
  <2>4. Total(p) = Total(q) BY <1>3, <2>1, <2>2, TotalWithin
  <2>5. QED BY <2>3, <2>4 DEF p
<1>6. QED BY <1>1, <1>2, <1>4, <1>5

\* They hold of every state whose variables have their types, ...
LEMMA DocumentFactsHold == TypeOK => DocumentFacts
BY DocumentTypes, SumsOfDocuments DEF DocumentFacts

\* ... the next one included.
LEMMA DocumentFactsNext == TypeOK' => DocumentFacts'
BY DocumentFactsHold, PTL

\* A sum of which at most one part changes.
LEMMA TotalStep ==
  ASSUME NEW D, IsFiniteSet(D), NEW p \in [D -> Nat], NEW q \in [D -> Nat],
         NEW a, \A x \in D : x # a => q[x] = p[x]
  PROVE  /\ Total(p) \in Nat /\ Total(q) \in Nat
         /\ Total(q) = Total(p) + IF a \in D THEN q[a] - p[a] ELSE 0
<1>1. Total(p) \in Nat /\ Total(q) \in Nat BY TotalType
<1>2. CASE a \in D
  <2>1. Total(q) + p[a] = Total(p) + q[a] BY <1>2, TotalChange
  <2>2. p[a] \in Nat /\ q[a] \in Nat BY <1>2
  <2>3. QED BY <1>1, <1>2, <2>1, <2>2
<1>3. CASE a \notin D
  <2>1. q = p BY <1>3
  <2>2. QED BY <1>1, <1>3, <2>1
<1>4. QED BY <1>2, <1>3

\* What a step changes in the documents about lot l: at most one roast, one
\* issue and one count, next to the document l came with.
Change(l, b, i, n) ==
  (IF b \in Roasts THEN Spent(b, l)' - Spent(b, l) ELSE 0)
    + (IF i \in Issues THEN Portion(i, l)' - Portion(i, l) ELSE 0)
    + (IF n \in Counts
       THEN (MissedBy(n, l)' - MissedBy(n, l))
              - (FoundBy(n, l)' - FoundBy(n, l))
       ELSE 0)

\* The documents about a lot say so much more, and less what they have taken.
LEMMA DocumentsStep ==
  ASSUME DocumentFacts, DocumentFacts', NEW l \in Lots,
         NEW b, NEW i, NEW n,
         \A x \in Roasts : x # b => Spent(x, l)' = Spent(x, l),
         \A x \in Issues : x # i => Portion(x, l)' = Portion(x, l),
         \A x \in Counts : x # n => /\ FoundBy(x, l)' = FoundBy(x, l)
                                   /\ MissedBy(x, l)' = MissedBy(x, l)
  PROVE  /\ Documents(l) \in Int /\ Documents(l)' \in Int
         /\ Documents(l)' + Change(l, b, i, n) =
              Documents(l) + (Received(l)' - Received(l))
<1>1. /\ Roasted(l) \in Nat /\ Roasted(l)' \in Nat
      /\ Roasted(l)' = Roasted(l) + IF b \in Roasts
                                   THEN Spent(b, l)' - Spent(b, l) ELSE 0
  <2> DEFINE p == [x \in Roasts |-> Spent(x, l)]
             q == [x \in Roasts |-> Spent(x, l)']
  <2>1. /\ p \in [Roasts -> Nat] /\ q \in [Roasts -> Nat]
        /\ Roasted(l) = Total(p) /\ Roasted(l)' = Total(q)
    BY DEF DocumentFacts
  <2>2. /\ \A x \in Roasts : x # b => q[x] = p[x]
        /\ b \in Roasts => p[b] = Spent(b, l) /\ q[b] = Spent(b, l)'
    OBVIOUS
  <2> HIDE DEF p, q
  <2>3. QED BY <2>1, <2>2, FiniteSets, TotalStep
<1>2. /\ Issued(l) \in Nat /\ Issued(l)' \in Nat
      /\ Issued(l)' = Issued(l) + IF i \in Issues
                                 THEN Portion(i, l)' - Portion(i, l) ELSE 0
  <2> DEFINE p == [x \in Issues |-> Portion(x, l)]
             q == [x \in Issues |-> Portion(x, l)']
  <2>1. /\ p \in [Issues -> Nat] /\ q \in [Issues -> Nat]
        /\ Issued(l) = Total(p) /\ Issued(l)' = Total(q)
    BY DEF DocumentFacts
  <2>2. /\ \A x \in Issues : x # i => q[x] = p[x]
        /\ i \in Issues => p[i] = Portion(i, l) /\ q[i] = Portion(i, l)'
    OBVIOUS
  <2> HIDE DEF p, q
  <2>3. IsFiniteSet(Issues) BY SetsAssumption
  <2>4. QED BY <2>1, <2>2, <2>3, TotalStep
<1>3. /\ Found(l) \in Nat /\ Found(l)' \in Nat
      /\ Found(l)' = Found(l) + IF n \in Counts
                               THEN FoundBy(n, l)' - FoundBy(n, l) ELSE 0
  <2> DEFINE p == [x \in Counts |-> FoundBy(x, l)]
             q == [x \in Counts |-> FoundBy(x, l)']
  <2>1. /\ p \in [Counts -> Nat] /\ q \in [Counts -> Nat]
        /\ Found(l) = Total(p) /\ Found(l)' = Total(q)
    BY DEF DocumentFacts
  <2>2. /\ \A x \in Counts : x # n => q[x] = p[x]
        /\ n \in Counts => p[n] = FoundBy(n, l) /\ q[n] = FoundBy(n, l)'
    OBVIOUS
  <2> HIDE DEF p, q
  <2>3. IsFiniteSet(Counts) BY SetsAssumption
  <2>4. QED BY <2>1, <2>2, <2>3, TotalStep
<1>4. /\ Missed(l) \in Nat /\ Missed(l)' \in Nat
      /\ Missed(l)' = Missed(l) + IF n \in Counts
                                 THEN MissedBy(n, l)' - MissedBy(n, l) ELSE 0
  <2> DEFINE p == [x \in Counts |-> MissedBy(x, l)]
             q == [x \in Counts |-> MissedBy(x, l)']
  <2>1. /\ p \in [Counts -> Nat] /\ q \in [Counts -> Nat]
        /\ Missed(l) = Total(p) /\ Missed(l)' = Total(q)
    BY DEF DocumentFacts
  <2>2. /\ \A x \in Counts : x # n => q[x] = p[x]
        /\ n \in Counts => p[n] = MissedBy(n, l) /\ q[n] = MissedBy(n, l)'
    OBVIOUS
  <2> HIDE DEF p, q
  <2>3. IsFiniteSet(Counts) BY SetsAssumption
  <2>4. QED BY <2>1, <2>2, <2>3, TotalStep
<1>5. Received(l) \in Nat /\ Received(l)' \in Nat BY DEF DocumentFacts
<1>6. /\ n \in Counts => /\ FoundBy(n, l) \in Nat /\ FoundBy(n, l)' \in Nat
                         /\ MissedBy(n, l) \in Nat /\ MissedBy(n, l)' \in Nat
      /\ i \in Issues => Portion(i, l) \in Nat /\ Portion(i, l)' \in Nat
      /\ b \in Roasts => Spent(b, l) \in Nat /\ Spent(b, l)' \in Nat
  <2>1. n \in Counts => /\ FoundBy(n, l) \in Nat /\ FoundBy(n, l)' \in Nat
                        /\ MissedBy(n, l) \in Nat /\ MissedBy(n, l)' \in Nat
    BY DEF DocumentFacts
  <2>2. i \in Issues => Portion(i, l) \in Nat /\ Portion(i, l)' \in Nat
    BY DEF DocumentFacts
  <2>3. b \in Roasts => Spent(b, l) \in Nat /\ Spent(b, l)' \in Nat
    BY DEF DocumentFacts
  <2>4. QED BY <2>1, <2>2, <2>3
<1>7. QED BY <1>1, <1>2, <1>3, <1>4, <1>5, <1>6 DEF Documents, Change

\* A step that changes the ledger of lot l by what its documents change.
LEMMA LotStep ==
  ASSUME TypeOK, TypeOK', LotIsDocuments, NEW l \in Lots,
         NEW b, NEW i, NEW n,
         \A x \in Roasts : x # b => Spent(x, l)' = Spent(x, l),
         \A x \in Issues : x # i => Portion(x, l)' = Portion(x, l),
         \A x \in Counts : x # n => /\ FoundBy(x, l)' = FoundBy(x, l)
                                   /\ MissedBy(x, l)' = MissedBy(x, l),
         Balance(l)' + Change(l, b, i, n) =
           Balance(l) + (Received(l)' - Received(l))
  PROVE  Balance(l)' = Documents(l)'
<1>1. DocumentFacts /\ DocumentFacts'
  BY DocumentFactsHold, DocumentFactsNext
<1>2. /\ Documents(l) \in Int /\ Documents(l)' \in Int
      /\ Documents(l)' + Change(l, b, i, n) =
           Documents(l) + (Received(l)' - Received(l))
  BY <1>1, DocumentsStep
<1>3. Balance(l) \in Int /\ Balance(l)' \in Int
  BY DEF Balance, TypeOK, Owners
<1>4. Received(l) \in Nat /\ Received(l)' \in Nat BY <1>1 DEF DocumentFacts
<1>5. Change(l, b, i, n) \in Int
  <2>1. b \in Roasts => Spent(b, l) \in Nat /\ Spent(b, l)' \in Nat
    BY <1>1 DEF DocumentFacts
  <2>2. i \in Issues => Portion(i, l) \in Nat /\ Portion(i, l)' \in Nat
    BY <1>1 DEF DocumentFacts
  <2>3. n \in Counts => /\ FoundBy(n, l) \in Nat /\ FoundBy(n, l)' \in Nat
                        /\ MissedBy(n, l) \in Nat /\ MissedBy(n, l)' \in Nat
    BY <1>1 DEF DocumentFacts
  <2>4. QED BY <2>1, <2>2, <2>3 DEF Change
<1>6. Balance(l) = Documents(l)
  <2>1. Balance(l) = Received(l) + Found(l) - Missed(l)
                                 - Roasted(l) - Issued(l)
    BY DEF LotIsDocuments
  <2>2. QED BY <2>1 DEF Documents
<1> DEFINE old == Balance(l)
           new == Balance(l)'
           said == Documents(l)'
           change == Change(l, b, i, n)
           more == Received(l)' - Received(l)
<1>7. /\ old \in Int /\ new \in Int /\ said \in Int /\ change \in Int
      /\ more \in Int
  BY <1>2, <1>3, <1>4, <1>5
<1>8. new + change = old + more OBVIOUS
<1>9. said + change = old + more BY <1>2, <1>6
<1> HIDE DEF old, new, said, change, more
<1>10. new = said BY <1>7, <1>8, <1>9
<1>11. QED BY <1>10 DEF new, said

\* A step of no document but, perhaps, of the purchase of lot l0.
LEMMA PurchaseStep ==
  ASSUME TypeOK, TypeOK', LotIsDocuments,
         UNCHANGED <<roast, taken, issue, count>>, NEW l \in Lots,
         Balance(l)' = Balance(l) + (Received(l)' - Received(l))
  PROVE  Balance(l)' = Documents(l)'
<1>1. \A x \in Roasts : Spent(x, l)' = Spent(x, l)
  BY DEF Spent, TakenFrom
<1>2. \A x \in Issues : Portion(x, l)' = Portion(x, l) BY DEF Portion
<1>3. \A x \in Counts : /\ FoundBy(x, l)' = FoundBy(x, l)
                        /\ MissedBy(x, l)' = MissedBy(x, l)
  BY DEF FoundBy, MissedBy, IsCount, More, Less
<1>4. /\ \A x \in Roasts : Spent(x, l) \in Nat
      /\ \A x \in Issues : Portion(x, l) \in Nat
      /\ \A x \in Counts : FoundBy(x, l) \in Nat /\ MissedBy(x, l) \in Nat
  BY DocumentTypes
<1>5. Change(l, l, l, l) = 0 BY <1>1, <1>2, <1>3, <1>4 DEF Change
<1>6. Balance(l)' \in Int BY DEF Balance, TypeOK, Owners
<1>7. Balance(l)' + Change(l, l, l, l) =
        Balance(l) + (Received(l)' - Received(l))
  BY <1>5, <1>6
<1>8. QED BY <1>1, <1>2, <1>3, <1>7, LotStep

\* The identity in terms of Documents.
LEMMA DocumentsOf ==
  LotIsDocuments <=> \A l \in Lots : Balance(l) = Documents(l)
BY DEF LotIsDocuments, Documents

\* The same of the next state.
LEMMA DocumentsOfNext ==
  LotIsDocuments' <=> (\A l \in Lots : Balance(l) = Documents(l))'
BY DocumentsOf, PTL

\* Receipts and their voids book what the purchase says.
LEMMA LotReceiving ==
  ASSUME TypeOK, TypeOK', LotIsDocuments, Receiving
  PROVE  LotIsDocuments'
<1>1. PICK g \in GreenLots :
        \/ VoidPurchase(g)
        \/ \E kg \in Receipts, c \in Locations, i \in 0 .. Len(shelf) :
             BuyGreenBeans(g, kg, c, i)
  BY DEF Receiving
<1>2. SUFFICES ASSUME NEW l \in Lots PROVE Balance(l)' = Documents(l)'
  BY DocumentsOfNext
<1>3. /\ ins \in [Owners -> Nat] /\ outs \in [Owners -> Nat]
      /\ g \in Owners /\ l \in Owners
  BY DEF TypeOK, Owners, Lots
<1>4. CASE VoidPurchase(g)
  <2>1. bought[g].kg \in Nat BY DEF TypeOK, Purchase
  <2>2. Received(l)' = IF l = g THEN 0 ELSE Received(l)
    BY <1>4 DEF VoidPurchase, Received, TypeOK, Purchase
  <2>3. l = g => Received(l) = bought[g].kg
    BY <1>4 DEF VoidPurchase, Received
  <2>4. /\ ins' = ins
        /\ outs'[l] = IF l = g THEN outs[l] + bought[g].kg ELSE outs[l]
    BY <1>3, <1>4 DEF VoidPurchase
  <2>5. Received(l) \in Nat BY DocumentTypes
  <2>6. Balance(l)' = Balance(l) + (Received(l)' - Received(l))
    BY <1>3, <2>1, <2>2, <2>3, <2>4, <2>5 DEF Balance
  <2>7. UNCHANGED <<roast, taken, issue, count>> BY <1>4 DEF VoidPurchase
  <2>8. QED BY <2>6, <2>7, PurchaseStep
<1>5. ASSUME NEW kg \in Receipts, NEW c, NEW i, BuyGreenBeans(g, kg, c, i)
      PROVE  Balance(l)' = Documents(l)'
  <2>1. kg \in Nat BY BoundsAssumption
  <2>2. Received(l)' = IF l = g THEN kg ELSE Received(l)
    BY <1>5 DEF BuyGreenBeans, Received, TypeOK, Purchase
  <2>3. l = g => Received(l) = 0 BY <1>5 DEF BuyGreenBeans, Received
  <2>4. /\ outs' = outs
        /\ ins'[l] = IF l = g THEN ins[l] + kg ELSE ins[l]
    BY <1>3, <1>5 DEF BuyGreenBeans
  <2>5. Received(l) \in Nat BY DocumentTypes
  <2>6. Balance(l)' = Balance(l) + (Received(l)' - Received(l))
    BY <1>3, <2>1, <2>2, <2>3, <2>4, <2>5 DEF Balance
  <2>7. UNCHANGED <<roast, taken, issue, count>> BY <1>5 DEF BuyGreenBeans
  <2>8. QED BY <2>6, <2>7, PurchaseStep
<1>6. QED BY <1>1, <1>4, <1>5

\* A step that touches neither the ledger of lots nor what documents say.
LEMMA LotFrame ==
  ASSUME TypeOK, TypeOK', LotIsDocuments, NEW l \in Lots,
         Balance(l)' = Balance(l), Received(l)' = Received(l),
         \A x \in Roasts : Spent(x, l)' = Spent(x, l),
         \A x \in Issues : Portion(x, l)' = Portion(x, l),
         \A x \in Counts : /\ FoundBy(x, l)' = FoundBy(x, l)
                           /\ MissedBy(x, l)' = MissedBy(x, l)
  PROVE  Balance(l)' = Documents(l)'
<1>1. /\ \A x \in Roasts : Spent(x, l) \in Nat
      /\ \A x \in Issues : Portion(x, l) \in Nat
      /\ \A x \in Counts : FoundBy(x, l) \in Nat /\ MissedBy(x, l) \in Nat
      /\ Received(l) \in Nat
  BY DocumentTypes
<1>2. Balance(l) \in Int BY DEF Balance, TypeOK, Owners
<1>3. Change(l, l, l, l) = 0 BY <1>1 DEF Change
<1>4. Balance(l)' + Change(l, l, l, l) =
        Balance(l) + (Received(l)' - Received(l))
  BY <1>1, <1>2, <1>3
<1>5. QED BY <1>4, LotStep

\* Documents that are left alone say the same.
LEMMA RoastsStay ==
  ASSUME UNCHANGED <<roast, taken>>, NEW l
  PROVE  \A x \in Roasts : Spent(x, l)' = Spent(x, l)
BY DEF Spent, TakenFrom

\* The same of issues, ...
LEMMA IssuesStay ==
  ASSUME UNCHANGED issue, NEW l
  PROVE  \A x \in Issues : Portion(x, l)' = Portion(x, l)
BY DEF Portion

\* ... and of counts.
LEMMA CountsStay ==
  ASSUME UNCHANGED count, NEW l
  PROVE  \A x \in Counts : /\ FoundBy(x, l)' = FoundBy(x, l)
                           /\ MissedBy(x, l)' = MissedBy(x, l)
BY DEF FoundBy, MissedBy, IsCount, More, Less

\* A step that leaves alone all but placements, the roaster and requests.
LEMMA NoDocument ==
  ASSUME TypeOK, TypeOK', LotIsDocuments,
         UNCHANGED <<bought, roast, taken, issue, count>>,
         \A l \in Lots : ins'[l] = ins[l] /\ outs'[l] = outs[l]
  PROVE  LotIsDocuments'
<1>1. SUFFICES ASSUME NEW l \in Lots PROVE Balance(l)' = Documents(l)'
  BY DocumentsOfNext
<1>2. Balance(l)' = Balance(l) BY DEF Balance
<1>3. Received(l)' = Received(l) BY DEF Received
<1>4. QED BY <1>2, <1>3, LotFrame, RoastsStay, IssuesStay, CountsStay

\* Drafts and cancelled counts say nothing yet.
LEMMA LotCounting ==
  ASSUME TypeOK, TypeOK', LotIsDocuments, Counting
  PROVE  LotIsDocuments'
<1>1. SUFFICES ASSUME NEW l \in Lots PROVE Balance(l)' = Documents(l)'
  BY DocumentsOfNext
<1>2. UNCHANGED <<ins, outs, bought, roast, taken, issue>>
  BY DEF Counting, DraftCount, CancelCount
<1>3. PICK n \in Counts :
        /\ count[n].status \in {"NONE", "DRAFT"}
        /\ count'[n].status \in {"DRAFT", "CANCELLED"}
        /\ \A x \in Counts : x # n => count'[x] = count[x]
  <2>1. PICK n \in Counts :
          \/ CancelCount(n)
          \/ \E m \in Lots, c \in Locations, counted \in 0 .. MaxKg :
               DraftCount(n, m, c, counted)
    BY DEF Counting
  <2>2. CASE CancelCount(n) BY <2>2 DEF CancelCount, TypeOK, Count
  <2>3. ASSUME NEW m, NEW c, NEW counted, DraftCount(n, m, c, counted)
        PROVE  /\ count[n].status = "NONE" /\ count'[n].status = "DRAFT"
               /\ \A x \in Counts : x # n => count'[x] = count[x]
    BY <2>3 DEF DraftCount, TypeOK
  <2>4. QED BY <2>1, <2>2, <2>3
<1>4. \A x \in Counts : /\ FoundBy(x, l)' = FoundBy(x, l)
                        /\ MissedBy(x, l)' = MissedBy(x, l)
  BY <1>3 DEF FoundBy, MissedBy, IsCount, More, Less
<1>5. Balance(l)' = Balance(l) BY <1>2 DEF Balance
<1>6. Received(l)' = Received(l) BY <1>2 DEF Received
<1>7. QED BY <1>2, <1>4, <1>5, <1>6, LotFrame, RoastsStay, IssuesStay

\* A confirmed count books what it found or missed.
LEMMA LotCount ==
  ASSUME TypeOK, TypeOK', LotIsDocuments, NEW u \in Users, WriteCount(u)
  PROVE  LotIsDocuments'
<1>1. SUFFICES ASSUME NEW l \in Lots PROVE Balance(l)' = Documents(l)'
  BY DocumentsOfNext
<1>2. user[u] \in Task BY DEF TypeOK
<1>3. PICK n \in Counts : n = user[u].count
  BY <1>2 DEF WriteCount, Task, Requests
<1> DEFINE g == count[n].lot
           more == More(n)
           less == Less(n)
<1>4. /\ g \in Lots /\ count[n].counted \in Nat /\ count[n].system \in Int
  BY <1>3 DEF TypeOK, Count
<1>5. more \in Nat /\ less \in Nat BY <1>4 DEF More, Less
<1>6. /\ ins' = [ins EXCEPT ![g] = @ + more]
      /\ outs' = [outs EXCEPT ![g] = @ + less]
      /\ count[n].status = "DRAFT"
      /\ count' = [count EXCEPT ![n].status = "CONFIRMED"]
      /\ UNCHANGED <<bought, roast, taken, issue>>
  BY <1>3 DEF WriteCount, More, Less
<1>7. \A x \in Counts : x # n => /\ FoundBy(x, l)' = FoundBy(x, l)
                                 /\ MissedBy(x, l)' = MissedBy(x, l)
  BY <1>3, <1>6 DEF TypeOK, FoundBy, MissedBy, IsCount, More, Less
<1>8. /\ FoundBy(n, l) = 0 /\ MissedBy(n, l) = 0
      /\ FoundBy(n, l)' = IF l = g THEN more ELSE 0
      /\ MissedBy(n, l)' = IF l = g THEN less ELSE 0
  <2>1. count'[n] = [count[n] EXCEPT !.status = "CONFIRMED"]
    BY <1>3, <1>6 DEF TypeOK
  <2>2. /\ count'[n].status = "CONFIRMED" /\ count'[n].lot = g
        /\ count'[n].counted = count[n].counted
        /\ count'[n].system = count[n].system
    BY <1>3, <2>1 DEF TypeOK, Count
  <2>3. More(n)' = more /\ Less(n)' = less BY <2>2 DEF More, Less
  <2>4. QED BY <1>6, <2>2, <2>3 DEF FoundBy, MissedBy, IsCount
<1>9. \A x \in Issues : Portion(x, l)' = Portion(x, l)
  BY <1>6, IssuesStay
<1>10. \A x \in Roasts : Spent(x, l)' = Spent(x, l)
  BY <1>6, RoastsStay
<1>11. Received(l)' = Received(l) /\ Received(l) \in Nat
  BY <1>6, DocumentTypes DEF Received
<1>12. /\ \A x \in Roasts : Spent(x, l) \in Nat
       /\ \A x \in Issues : Portion(x, l) \in Nat
  BY DocumentTypes
<1>13. /\ ins'[l] = IF l = g THEN ins[l] + more ELSE ins[l]
       /\ outs'[l] = IF l = g THEN outs[l] + less ELSE outs[l]
       /\ ins[l] \in Nat /\ outs[l] \in Nat
  BY <1>4, <1>6 DEF TypeOK, Owners
<1> HIDE DEF g, more, less
<1>14. Change(l, n, n, n) = IF l = g THEN less - more ELSE 0
  BY <1>3, <1>5, <1>8, <1>9, <1>10, <1>12 DEF Change
<1>15. Balance(l)' + Change(l, n, n, n) =
         Balance(l) + (Received(l)' - Received(l))
  BY <1>5, <1>11, <1>13, <1>14 DEF Balance
<1>16. QED BY <1>7, <1>9, <1>10, <1>15, LotStep

\* A step of one roast.
LEMMA RoastStep ==
  ASSUME TypeOK, TypeOK', LotIsDocuments, NEW b \in Roasts, NEW l \in Lots,
         UNCHANGED <<issue, count>>,
         \A x \in Roasts : x # b => /\ roast'[x] = roast[x]
                                   /\ taken'[x] = taken[x],
         Balance(l)' + (Spent(b, l)' - Spent(b, l)) =
           Balance(l) + (Received(l)' - Received(l))
  PROVE  Balance(l)' = Documents(l)'
<1>1. \A x \in Roasts : x # b => Spent(x, l)' = Spent(x, l)
  BY DEF Spent, TakenFrom
<1>2. /\ \A x \in Issues : /\ Portion(x, l) \in Nat
                           /\ Portion(x, l)' = Portion(x, l)
      /\ \A x \in Counts : /\ FoundBy(x, l) \in Nat
                           /\ MissedBy(x, l) \in Nat
                           /\ FoundBy(x, l)' = FoundBy(x, l)
                           /\ MissedBy(x, l)' = MissedBy(x, l)
  BY DocumentTypes, IssuesStay, CountsStay
<1>3. Spent(b, l)' - Spent(b, l) \in Int
  <2>1. DocumentFacts /\ DocumentFacts'
    BY DocumentFactsHold, DocumentFactsNext
  <2>2. Spent(b, l) \in Nat /\ Spent(b, l)' \in Nat
    BY <2>1 DEF DocumentFacts
  <2>3. QED BY <2>2
<1>4. Change(l, b, b, b) = Spent(b, l)' - Spent(b, l)
  <2> DEFINE d == Spent(b, l)' - Spent(b, l)
  <2>1. d \in Int BY <1>3
  <2>2. Change(l, b, b, b) =
          d + (IF b \in Issues THEN Portion(b, l)' - Portion(b, l) ELSE 0)
            + (IF b \in Counts
               THEN (MissedBy(b, l)' - MissedBy(b, l))
                      - (FoundBy(b, l)' - FoundBy(b, l))
               ELSE 0)
    BY DEF Change
  <2> HIDE DEF d
  <2>3. Change(l, b, b, b) = d BY <1>2, <2>1, <2>2
  <2>4. QED BY <2>3 DEF d
<1>5. QED BY <1>1, <1>2, <1>4, LotStep

\* The rows of what a roast took.
LEMMA TakenRows ==
  ASSUME TypeOK, NEW b \in Roasts, NEW l \in Lots, NEW q \in [Owners -> Nat]
  PROVE  /\ AddTaken(q, b)[l] =
              q[l] + IF l \in GreenLots THEN TakenFrom(b, l) ELSE 0
         /\ l \in GreenLots => TakenFrom(b, l) \in Nat
         /\ q[l] \in Nat
BY TakenType DEF AddTaken, Owners

\* Charging and the way back say nothing yet; a completed or scrapped roast
\* has used up what it took and brings what came out; its void undoes both.
LEMMA LotRoasting ==
  ASSUME TypeOK, TypeOK', LotIsDocuments, Roasting
  PROVE  LotIsDocuments'
<1>1. PICK b \in Roasts :
        \/ \E kg \in 1 .. stock["GREEN"] :
             \E t \in [GreenLots \X Locations -> 0 .. kg],
                preferred \in {{}} \cup {{l} : l \in GreenLots} :
               IsReservation(t, kg, preferred) /\ StartRoast(b, kg, t)
        \/ \E out \in 1 .. roast[b].kg, c \in Locations :
             CompleteRoast(b, out, c)
        \/ AbortRoast(b) \/ ScrapRoast(b) \/ VoidRoast(b)
  BY DEF Roasting
<1>2. SUFFICES ASSUME NEW l \in Lots PROVE Balance(l)' = Documents(l)'
  BY DocumentsOfNext
<1> DEFINE mine == IF l \in GreenLots THEN TakenFrom(b, l) ELSE 0
<1>3. /\ ins \in [Owners -> Nat] /\ outs \in [Owners -> Nat]
      /\ b \in Owners /\ l \in Owners /\ mine \in Nat
      /\ ins[l] \in Nat /\ outs[l] \in Nat
      /\ b \notin GreenLots
  BY TakenType, SetsAssumption DEF TypeOK, Owners, Lots
<1>4. UNCHANGED <<issue, count, bought>>
  BY <1>1 DEF StartRoast, CompleteRoast, AbortRoast, ScrapRoast, VoidRoast
<1>5. \A x \in Roasts : x # b => roast'[x] = roast[x] /\ taken'[x] = taken[x]
  BY <1>1 DEF StartRoast, CompleteRoast, AbortRoast, ScrapRoast, VoidRoast,
              TypeOK
<1>6. l # b => Received(l)' = Received(l)
  BY <1>4, <1>5 DEF Received
<1>7. Received(l) \in Nat BY DocumentTypes
<1>8. ASSUME NEW kg, NEW t, StartRoast(b, kg, t)
      PROVE  Balance(l)' = Documents(l)'
  <2>1. /\ roast[b].status = "NONE" /\ roast'[b].status = "CHARGED"
        /\ UNCHANGED <<ins, outs>>
    BY <1>8 DEF StartRoast, TypeOK, Roast
  <2>2. Spent(b, l) = 0 /\ Spent(b, l)' = 0 BY <2>1 DEF Spent
  <2>3. Received(l)' = Received(l) BY <1>3, <1>6, <2>1 DEF Received
  <2>4. Balance(l)' = Balance(l) /\ Balance(l) \in Int
    BY <1>3, <2>1 DEF Balance
  <2>5. QED BY <1>4, <1>5, <1>7, <2>2, <2>3, <2>4, RoastStep
<1>9. ASSUME AbortRoast(b) PROVE Balance(l)' = Documents(l)'
  <2>1. /\ roast[b].status = "CHARGED" /\ roast'[b].status = "ABORTED"
        /\ UNCHANGED <<ins, outs>>
    BY <1>9 DEF AbortRoast, TypeOK, Roast
  <2>2. Spent(b, l) = 0 /\ Spent(b, l)' = 0 BY <2>1 DEF Spent
  <2>3. Received(l)' = Received(l) BY <1>3, <1>6, <2>1 DEF Received
  <2>4. Balance(l)' = Balance(l) /\ Balance(l) \in Int
    BY <1>3, <2>1 DEF Balance
  <2>5. QED BY <1>4, <1>5, <1>7, <2>2, <2>3, <2>4, RoastStep
<1>10. ASSUME ScrapRoast(b) PROVE Balance(l)' = Documents(l)'
  <2>1. /\ roast[b].status = "CHARGED" /\ roast'[b].status = "SCRAPPED"
        /\ UNCHANGED <<ins, taken>> /\ outs' = AddTaken(outs, b)
    BY <1>10 DEF ScrapRoast, TypeOK, Roast
  <2>2. Spent(b, l) = 0 /\ Spent(b, l)' = mine
    BY <2>1 DEF Spent, TakenFrom
  <2>3. Received(l)' = Received(l) BY <1>3, <1>6, <2>1 DEF Received
  <2>4. outs'[l] = outs[l] + mine BY <1>3, <2>1, TakenRows
  <2> HIDE DEF mine
  <2>5. Balance(l)' + (Spent(b, l)' - Spent(b, l)) =
          Balance(l) + (Received(l)' - Received(l))
    BY <1>3, <1>7, <2>1, <2>2, <2>3, <2>4 DEF Balance
  <2>6. QED BY <1>4, <1>5, <2>5, RoastStep
<1>11. ASSUME NEW out \in 1 .. roast[b].kg, NEW c, CompleteRoast(b, out, c)
       PROVE  Balance(l)' = Documents(l)'
  <2>1. /\ roast[b].status = "CHARGED" /\ roast'[b].status = "COMPLETED"
        /\ roast'[b].out = out
        /\ UNCHANGED taken /\ outs' = AddTaken(outs, b)
        /\ ins' = [ins EXCEPT ![b] = @ + out]
    BY <1>11 DEF CompleteRoast, TypeOK, Roast
  <2>2. Spent(b, l) = 0 /\ Spent(b, l)' = mine
    BY <2>1 DEF Spent, TakenFrom
  <2>3. Received(l)' - Received(l) = (IF l = b THEN out ELSE 0)
    BY <1>3, <1>6, <1>7, <2>1 DEF Received
  <2>4. outs'[l] = outs[l] + mine BY <1>3, <2>1, TakenRows
  <2>5. ins'[l] = ins[l] + (IF l = b THEN out ELSE 0) BY <1>3, <2>1
  <2> HIDE DEF mine
  <2>6. Balance(l)' + (Spent(b, l)' - Spent(b, l)) =
          Balance(l) + (Received(l)' - Received(l))
    BY <1>3, <2>2, <2>3, <2>4, <2>5 DEF Balance
  <2>7. QED BY <1>4, <1>5, <2>6, RoastStep
<1>12. ASSUME VoidRoast(b) PROVE Balance(l)' = Documents(l)'
  <2> DEFINE out == roast[b].out
  <2>1. /\ roast[b].status = "COMPLETED" /\ roast'[b].status = "VOID"
        /\ UNCHANGED taken /\ ins' = AddTaken(ins, b)
        /\ outs' = [outs EXCEPT ![b] = @ + out]
        /\ out \in Nat
    BY <1>12 DEF VoidRoast, TypeOK, Roast
  <2>2. Spent(b, l) = mine /\ Spent(b, l)' = 0
    BY <2>1 DEF Spent, TakenFrom
  <2>3. l = b => Received(l) = out /\ Received(l)' = 0
    BY <1>3, <2>1 DEF Received
  <2> HIDE DEF out
  <2>4. outs'[l] = outs[l] + (IF l = b THEN out ELSE 0) BY <1>3, <2>1
  <2>5. ins'[l] = ins[l] + mine BY <1>3, <2>1, TakenRows
  <2> HIDE DEF mine
  <2>6. Balance(l)' + (Spent(b, l)' - Spent(b, l)) =
          Balance(l) + (Received(l)' - Received(l))
    BY <1>3, <1>6, <1>7, <2>1, <2>2, <2>3, <2>4, <2>5 DEF Balance
  <2>7. QED BY <1>4, <1>5, <2>6, RoastStep
<1>13. QED BY <1>1, <1>8, <1>9, <1>10, <1>11, <1>12

\* A step of one issue.
LEMMA IssueStep ==
  ASSUME TypeOK, TypeOK', LotIsDocuments, NEW i \in Issues, NEW l \in Lots,
         UNCHANGED <<roast, taken, count>>,
         \A x \in Issues : x # i => issue'[x] = issue[x],
         Balance(l)' + (Portion(i, l)' - Portion(i, l)) =
           Balance(l) + (Received(l)' - Received(l))
  PROVE  Balance(l)' = Documents(l)'
<1>1. \A x \in Issues : x # i => Portion(x, l)' = Portion(x, l)
  BY DEF Portion
<1>2. /\ \A x \in Roasts : Spent(x, l) \in Nat /\ Spent(x, l)' = Spent(x, l)
      /\ \A x \in Counts : /\ FoundBy(x, l) \in Nat
                           /\ MissedBy(x, l) \in Nat
                           /\ FoundBy(x, l)' = FoundBy(x, l)
                           /\ MissedBy(x, l)' = MissedBy(x, l)
  BY DocumentTypes, RoastsStay, CountsStay
<1> DEFINE d == Portion(i, l)' - Portion(i, l)
<1>3. d \in Int
  <2>1. DocumentFacts /\ DocumentFacts'
    BY DocumentFactsHold, DocumentFactsNext
  <2>2. Portion(i, l) \in Nat /\ Portion(i, l)' \in Nat
    BY <2>1 DEF DocumentFacts
  <2>3. QED BY <2>2
<1>4. Change(l, i, i, i) = d
  <2>1. Change(l, i, i, i) =
          (IF i \in Roasts THEN Spent(i, l)' - Spent(i, l) ELSE 0) + d
            + (IF i \in Counts
               THEN (MissedBy(i, l)' - MissedBy(i, l))
                      - (FoundBy(i, l)' - FoundBy(i, l))
               ELSE 0)
    BY DEF Change
  <2> HIDE DEF d
  <2>2. QED BY <1>2, <1>3, <2>1
<1>5. QED BY <1>1, <1>2, <1>4, LotStep

\* An issue takes, lot by lot, what it is made of, and brings what was ground;
\* its void undoes both.
LEMMA LotIssuing ==
  ASSUME TypeOK, TypeOK', LotIsDocuments, Issuing
  PROVE  LotIsDocuments'
<1>1. SUFFICES ASSUME NEW l \in Lots PROVE Balance(l)' = Documents(l)'
  BY DocumentsOfNext
<1>2. /\ ins \in [Owners -> Nat] /\ outs \in [Owners -> Nat]
      /\ l \in Owners /\ ins[l] \in Nat /\ outs[l] \in Nat
      /\ Received(l) \in Nat
  BY DocumentTypes DEF TypeOK, Owners
<1>3. ASSUME NEW i \in Issues
      PROVE  i \in Owners /\ i \notin GreenLots /\ i \notin Roasts
  BY SetsAssumption DEF Owners, Lots
<1>4. ASSUME NEW i \in Issues, VoidIssue(i)
      PROVE  Balance(l)' = Documents(l)'
  <2> DEFINE alloc == issue[i].alloc
             out == issue[i].out
  <2>1. /\ issue[i].status = "COMPLETED" /\ issue'[i].status = "VOID"
        /\ issue' = [issue EXCEPT ![i].status = "VOID"]
        /\ ins' = AddRows(ins, alloc)
        /\ outs' = [outs EXCEPT ![i] = @ + out]
        /\ out \in Nat /\ alloc \in [Owners -> Nat]
        /\ UNCHANGED <<bought, roast, taken, count>>
    BY <1>4 DEF VoidIssue, TypeOK, Issue
  <2>2. \A x \in Issues : x # i => issue'[x] = issue[x]
    BY <2>1 DEF TypeOK
  <2>3. Portion(i, l) = alloc[l] /\ Portion(i, l)' = 0
    BY <2>1 DEF Portion
  <2>4. Received(l)' = (IF l = i THEN 0 ELSE Received(l))
    BY <1>3, <2>1, <2>2 DEF Received, Lots
  <2>5. l = i => Received(l) = out BY <1>3, <2>1 DEF Received
  <2> HIDE DEF alloc, out
  <2>6. /\ ins'[l] = ins[l] + alloc[l] /\ alloc[l] \in Nat
        /\ outs'[l] = outs[l] + (IF l = i THEN out ELSE 0)
    BY <1>2, <1>3, <2>1 DEF AddRows
  <2>7. Balance(l)' + (Portion(i, l)' - Portion(i, l)) =
          Balance(l) + (Received(l)' - Received(l))
    BY <1>2, <2>1, <2>3, <2>4, <2>5, <2>6 DEF Balance
  <2>8. QED BY <2>1, <2>2, <2>7, IssueStep
<1>5. ASSUME NEW i \in Issues, NEW p \in Products, NEW kg \in Nat,
             NEW alloc \in [OwnersOf(p) -> Nat], NEW draw,
             NEW out \in Nat, NEW c, IssueBeans(i, p, kg, alloc, draw, out, c)
      PROVE  Balance(l)' = Documents(l)'
  <2> DEFINE took == IF l \in OwnersOf(p) THEN alloc[l] ELSE 0
  <2>1. /\ issue[i].status = "NONE"
        /\ issue' = [issue EXCEPT ![i] =
             [status |-> "COMPLETED", product |-> p, out |-> out,
              alloc |-> AddRows(Nothing, alloc)]]
        /\ ins' = [ins EXCEPT ![i] = @ + out]
        /\ outs' = AddRows(outs, alloc)
        /\ UNCHANGED <<bought, roast, taken, count>>
    BY <1>5 DEF IssueBeans
  <2>2. /\ \A x \in Issues : x # i => issue'[x] = issue[x]
        /\ issue'[i].status = "COMPLETED" /\ issue'[i].out = out
        /\ issue'[i].alloc = AddRows(Nothing, alloc)
    BY <2>1 DEF TypeOK
  <2>3. took \in Nat OBVIOUS
  <2>4. AddRows(Nothing, alloc)[l] = took BY <1>2 DEF AddRows, Nothing
  <2>5. Portion(i, l) = 0 /\ Portion(i, l)' = took
    BY <2>1, <2>2, <2>4 DEF Portion
  <2>6. Received(l)' = (IF l = i THEN out ELSE Received(l))
    BY <1>3, <2>1, <2>2 DEF Received, Lots
  <2>7. l = i => Received(l) = 0 BY <1>3, <2>1 DEF Received
  <2>8. outs'[l] = outs[l] + took BY <1>2, <2>1 DEF AddRows
  <2>9. ins'[l] = ins[l] + (IF l = i THEN out ELSE 0) BY <1>2, <1>3, <2>1
  <2> HIDE DEF took
  <2>10. Balance(l)' + (Portion(i, l)' - Portion(i, l)) =
          Balance(l) + (Received(l)' - Received(l))
    BY <1>2, <2>3, <2>5, <2>6, <2>7, <2>8, <2>9 DEF Balance
  <2>11. QED BY <2>1, <2>2, <2>10, IssueStep
<1>6. QED BY <1>4, <1>5, IssuingCases

\* Every step books what its document says.
LEMMA LotNext ==
  ASSUME TypeOK, TypeOK', LotIsDocuments, [Next]_vars
  PROVE  LotIsDocuments'
<1>1. CASE Receiving BY <1>1, LotReceiving
<1>2. CASE Adjusting
  <2>1. PICK p \in Corrected, kg \in Kg : AdjustIn(p, kg) \/ AdjustOut(p, kg)
    BY <1>2 DEF Adjusting
  <2>2. \A l \in Lots : l # p BY SetsAssumption, BoundsAssumption
  <2>3. \A l \in Lots : ins'[l] = ins[l] /\ outs'[l] = outs[l]
    BY <2>1, <2>2 DEF AdjustIn, AdjustOut, TypeOK, Owners
  <2>4. UNCHANGED <<bought, roast, taken, issue, count>>
    BY <2>1 DEF AdjustIn, AdjustOut
  <2>5. QED BY <2>3, <2>4, NoDocument
<1>3. CASE Roasting BY <1>3, LotRoasting
<1>4. CASE Issuing BY <1>4, LotIssuing
<1>5. CASE Counting BY <1>5, LotCounting
<1>6. CASE Writing
  <2>1. PICK u \in Users :
          WritePlacement(u) \/ WriteHold(u) \/ WriteCount(u) \/ GiveUp(u)
    BY <1>6 DEF Writing
  <2>2. CASE WriteCount(u) BY <2>2, LotCount
  <2>3. CASE WritePlacement(u) BY <2>3, NoDocument DEF WritePlacement
  <2>4. CASE WriteHold(u) BY <2>4, NoDocument DEF WriteHold
  <2>5. CASE GiveUp(u) BY <2>5, NoDocument DEF GiveUp
  <2>6. QED BY <2>1, <2>2, <2>3, <2>4, <2>5
<1>7. CASE \E l \in Lots, c \in Locations : RemovePlacement(l, c)
  BY <1>7, NoDocument DEF RemovePlacement
<1>8. CASE \E u \in Users, t \in Requests : Read(u, t)
  BY <1>8, NoDocument DEF Read
<1>9. CASE UNCHANGED vars BY <1>9, NoDocument DEF vars
<1>10. QED
  BY <1>1, <1>2, <1>3, <1>4, <1>5, <1>6, <1>7, <1>8, <1>9 DEF Next

\* Before the first receipt no document says anything.
LEMMA LotInit ==
  ASSUME Init
  PROVE  LotIsDocuments
<1>1. SUFFICES ASSUME NEW l \in Lots PROVE Balance(l) = Documents(l)
  BY DocumentsOf
<1>2. TypeOK BY TypeInit
<1>3. Balance(l) = 0 BY DEF Init, Nothing, Balance, Owners
<1>4. Received(l) = 0 BY DEF Init, Received, Lots
<1> DEFINE s == [b \in Roasts |-> Spent(b, l)]
           p == [i \in Issues |-> Portion(i, l)]
           f == [n \in Counts |-> FoundBy(n, l)]
           m == [n \in Counts |-> MissedBy(n, l)]
<1>5. /\ s \in [Roasts -> Nat] /\ \A b \in Roasts : s[b] = 0
      /\ p \in [Issues -> Nat] /\ \A i \in Issues : p[i] = 0
      /\ f \in [Counts -> Nat] /\ \A n \in Counts : f[n] = 0
      /\ m \in [Counts -> Nat] /\ \A n \in Counts : m[n] = 0
  BY DEF Init, Spent, Portion, FoundBy, MissedBy, IsCount, NoCount
<1>6. /\ Roasted(l) = Total(s) /\ Issued(l) = Total(p)
      /\ Found(l) = Total(f) /\ Missed(l) = Total(m)
  BY <1>2, SumsOfDocuments
<1> HIDE DEF s, p, f, m
<1>7. Total(s) = 0 /\ Total(p) = 0 /\ Total(f) = 0 /\ Total(m) = 0
  BY <1>5, TotalZero
<1>8. QED BY <1>3, <1>4, <1>6, <1>7 DEF Documents

\* The ledger of every lot is what the documents that still count say of it,
\* under free interleaving: whatever is voided has left no trace in it.
THEOREM LotAlwaysDocuments == Spec => []LotIsDocuments
<1>1. Init => TypeOK /\ LotIsDocuments BY TypeInit, LotInit
<1>2. TypeOK /\ LotIsDocuments /\ [Next]_vars => (TypeOK /\ LotIsDocuments)'
  BY TypeStep, LotNext
<1>3. QED BY <1>1, <1>2, PTL DEF Spec

-----------------------------------------------------------------------------
(* One call at a time. *)

\* User u has a call under way.
Busy(u) == user[u].do # "idle"

\* At most one call is under way, and what it has read is still so.
OneCall ==
  /\ \A u, v \in Users : Busy(u) /\ Busy(v) => u = v
  /\ \A u \in Users : Busy(u) => MayWrite(user[u])

\* No placement is overdrawn.
Covered == \A x \in Places : place[x] >= 0

\* A lot that is neither used nor missing from the shelf can be counted,
\* placed, and issued from.
IsOpen(l) == l \in OnShelf /\ l \notin used

\* A lot whose batch is void.
IsVoid(l) == \/ l \in Roasts /\ roast[l].status = "VOID"
             \/ l \in Issues /\ issue[l].status = "VOID"

\* A void lot was not drawn from, can be used for nothing and lies nowhere.
IsGone(l) == /\ l \notin drawn /\ ~IsOpen(l)
             /\ \A c \in Locations : place[<<l, c>>] = 0
VoidIsGone == \A l \in Lots : IsVoid(l) => IsGone(l)

\* What ground coffee is on the shelf, what is counted is there, and what was
\* taken or missed leaves its mark.
Marked ==
  /\ \A i \in Issues : i \in OnShelf =>
       issue[i].status # "NONE" /\ issue[i].out > 0
  /\ \A n \in Counts : count[n].status # "NONE" => count[n].lot \in OnShelf
  /\ \A i \in Issues, l \in Lots : Portion(i, l) > 0 => l \in drawn
  /\ \A n \in Counts, l \in Lots : MissedBy(n, l) > 0 => l \in drawn

\* What one call at a time keeps of the lots.
Orderly == Covered /\ VoidIsGone /\ Marked

\* The inductive invariant of SerialSpec.
SInv == TypeOK /\ OneCall /\ Orderly

\* A step of SerialSpec is the end of the call under way, or is taken while no
\* call is.
LEMMA SerialSteps ==
  ASSUME TypeOK, OneCall, [SerialStep]_vars
  PROVE  /\ [Next]_vars
         /\ \/ UNCHANGED vars
            \/ \E u \in Users :
                 /\ MayWrite(user[u]) /\ user' = [user EXCEPT ![u] = Idle]
                 /\ \A v \in Users : ~Busy(v)'
                 /\ \/ WritePlacement(u) \/ WriteHold(u)
                    \/ WriteCount(u) \/ GiveUp(u)
            \/ Quiet /\ ~Writing /\ Next
<1>1. [Next]_vars BY DEF SerialStep, Next
<1>2. CASE Writing
  <2>1. PICK u \in Users :
          WritePlacement(u) \/ WriteHold(u) \/ WriteCount(u) \/ GiveUp(u)
    BY <1>2 DEF Writing
  <2>2. Busy(u) /\ user' = [user EXCEPT ![u] = Idle]
    BY <2>1 DEF WritePlacement, WriteHold, WriteCount, GiveUp, Busy
  <2>3. MayWrite(user[u]) /\ \A v \in Users : v # u => ~Busy(v)
    BY <2>2 DEF OneCall
  <2>4. \A v \in Users : ~Busy(v)'
    BY <2>2, <2>3 DEF TypeOK, Busy, Idle
  <2>5. QED BY <1>1, <2>1, <2>2, <2>3, <2>4
<1>3. CASE Quiet /\ Next BY <1>1, <1>2, <1>3
<1>4. QED BY <1>1, <1>2, <1>3 DEF SerialStep

\* Only Read begins a call.
LEMMA OnlyReadsBegin ==
  ASSUME Next, ~Writing, ~\E u \in Users, t \in Requests : Read(u, t)
  PROVE  UNCHANGED user
<1>1. CASE Receiving BY <1>1 DEF Receiving, BuyGreenBeans, VoidPurchase
<1>2. CASE Adjusting BY <1>2 DEF Adjusting, AdjustIn, AdjustOut
<1>3. CASE Roasting
  BY <1>3 DEF Roasting, StartRoast, CompleteRoast, AbortRoast, ScrapRoast,
              VoidRoast
<1>4. CASE Issuing
  <2>1. ASSUME NEW i, VoidIssue(i) PROVE UNCHANGED user
    BY <2>1 DEF VoidIssue
  <2>2. ASSUME NEW i, NEW p, NEW kg, NEW alloc, NEW draw, NEW out, NEW c,
               IssueBeans(i, p, kg, alloc, draw, out, c)
        PROVE  UNCHANGED user
    BY <2>2 DEF IssueBeans
  <2>3. QED BY <1>4, <2>1, <2>2, IssuingCases
<1>5. CASE Counting BY <1>5 DEF Counting, CancelCount, DraftCount
<1>6. CASE \E l \in Lots, c \in Locations : RemovePlacement(l, c)
  BY <1>6 DEF RemovePlacement
<1>7. QED BY <1>1, <1>2, <1>3, <1>4, <1>5, <1>6 DEF Next

\* Calls stay one at a time, and what one has read stays so until it writes.
LEMMA NextCall ==
  ASSUME TypeOK, OneCall, [SerialStep]_vars
  PROVE  OneCall'
<1>1. CASE \A v \in Users : ~Busy(v)' BY <1>1 DEF OneCall
<1>2. CASE UNCHANGED vars
  <2>1. \A u \in Users : MayWrite(user[u])' = MayWrite(user[u])
    BY <1>2 DEF vars, MayWrite, OnShelf, Fits, Placed, PlacedAt, Overdrawn,
                Available, Balance
  <2>2. \A u \in Users : Busy(u)' = Busy(u) BY <1>2 DEF vars, Busy
  <2>3. QED BY <2>1, <2>2 DEF OneCall
<1>3. CASE Quiet /\ ~Writing /\ Next
  <2>1. \A v \in Users : ~Busy(v) BY <1>3 DEF Quiet, Busy
  <2>2. CASE UNCHANGED user BY <1>1, <2>1, <2>2 DEF Busy
  <2>3. ASSUME NEW u \in Users, NEW t \in Requests, Read(u, t)
        PROVE  OneCall'
    <3>1. /\ MayWrite(t) /\ user' = [user EXCEPT ![u] = t]
          /\ UNCHANGED <<stock, ins, outs, drawn, shelf, used, held, place,
                         wip, bought, roast, taken, issue, count>>
      BY <2>3 DEF Read
    <3>2. user'[u] = t /\ \A v \in Users : v # u => ~Busy(v)'
      BY <2>1, <3>1 DEF TypeOK, Busy
    <3>3. MayWrite(user[u])'
      <4>1. MayWrite(t)'
        BY <3>1 DEF MayWrite, OnShelf, Fits, Placed, PlacedAt, Overdrawn,
                    Available, Balance
      <4>2. QED BY <3>2, <4>1 DEF MayWrite
    <3>4. QED BY <3>2, <3>3 DEF OneCall
  <2>4. QED BY <1>3, <2>2, <2>3, OnlyReadsBegin
<1>4. QED BY <1>1, <1>2, <1>3, SerialSteps

\* The lots of a shelf.
Listed(s) == {s[k] : k \in DOMAIN s}

\* A lot at the end of the shelf.
LEMMA ListedAppend ==
  ASSUME NEW s \in Seq(Lots), NEW x \in Lots
  PROVE  Listed(Append(s, x)) = Listed(s) \cup {x}
<1> DEFINE t == Append(s, x)
           n == Len(s)
<1>1. n \in Nat /\ DOMAIN s = 1 .. n OBVIOUS
<1>2. DOMAIN t = 1 .. n + 1 /\ t[n + 1] = x /\ \A k \in 1 .. n : t[k] = s[k]
  BY <1>1
<1> HIDE DEF t, n
<1>3. ASSUME NEW y \in Listed(t) PROVE y \in Listed(s) \cup {x}
  BY <1>1, <1>2 DEF Listed
<1>4. ASSUME NEW y \in Listed(s) PROVE y \in Listed(t)
  <2>1. PICK k \in 1 .. n : y = s[k] BY <1>1 DEF Listed
  <2>2. k \in DOMAIN t /\ t[k] = y BY <1>1, <1>2, <2>1
  <2>3. QED BY <2>2 DEF Listed
<1>5. x \in Listed(t)
  <2>1. n + 1 \in DOMAIN t BY <1>1, <1>2
  <2>2. QED BY <1>2, <2>1 DEF Listed
<1>6. QED BY <1>3, <1>4, <1>5 DEF t

\* Two sequences one after the other.
LEMMA Joined ==
  ASSUME NEW S, NEW p \in Seq(S), NEW q \in Seq(S)
  PROVE  /\ DOMAIN (p \o q) = 1 .. Len(p) + Len(q)
         /\ \A k \in 1 .. Len(p) : (p \o q)[k] = p[k]
         /\ \A k \in 1 .. Len(q) : (p \o q)[Len(p) + k] = q[k]
OBVIOUS

\* A lot somewhere on the shelf.
LEMMA ListedInsert ==
  ASSUME NEW s \in Seq(Lots), NEW x \in Lots, NEW i \in 0 .. Len(s)
  PROVE  Listed(SubSeq(s, 1, i) \o <<x>> \o SubSeq(s, i + 1, Len(s)))
           = Listed(s) \cup {x}
<1> DEFINE a == SubSeq(s, 1, i)
           b == SubSeq(s, i + 1, Len(s))
           n == Len(s)
           t == a \o <<x>> \o b
<1>1. n \in Nat /\ DOMAIN s = 1 .. n /\ i \in 0 .. n OBVIOUS
<1>2. a \in Seq(Lots) /\ Len(a) = i /\ \A k \in 1 .. i : a[k] = s[k]
  OBVIOUS
<1>3. /\ b \in Seq(Lots) /\ Len(b) = n - i
      /\ \A k \in 1 .. n - i : b[k] = s[i + k]
  OBVIOUS
<1> HIDE DEF a, b, n
<1>4. /\ DOMAIN t = 1 .. n + 1 /\ t[i + 1] = x
      /\ \A k \in 1 .. i : t[k] = a[k]
      /\ \A k \in 1 .. n - i : t[i + 1 + k] = b[k]
  <2> DEFINE m == a \o <<x>>
  <2>1. /\ m \in Seq(Lots) /\ Len(m) = i + 1 /\ m[i + 1] = x
        /\ \A k \in 1 .. i : m[k] = a[k]
    BY <1>1, <1>2
  <2> HIDE DEF m
  <2>2. t = m \o b BY DEF m
  <2>3. /\ DOMAIN t = 1 .. Len(m) + Len(b)
        /\ \A k \in 1 .. Len(m) : t[k] = m[k]
        /\ \A k \in 1 .. Len(b) : t[Len(m) + k] = b[k]
    <3>1. m \in Seq(Lots) BY <2>1
    <3>2. b \in Seq(Lots) BY <1>3
    <3>3. /\ DOMAIN (m \o b) = 1 .. Len(m) + Len(b)
          /\ \A k \in 1 .. Len(m) : (m \o b)[k] = m[k]
          /\ \A k \in 1 .. Len(b) : (m \o b)[Len(m) + k] = b[k]
      BY ONLY <3>1, <3>2, Joined
    <3> HIDE DEF t
    <3>4. QED BY <2>2, <3>3
  <2>4. Len(m) + Len(b) = n + 1 BY <1>1, <1>3, <2>1
  <2>5. i + 1 \in 1 .. Len(m) /\ \A k \in 1 .. i : k \in 1 .. Len(m)
    BY <1>1, <2>1
  <2>6. QED BY <1>3, <2>1, <2>3, <2>4, <2>5
<1> HIDE DEF t
<1>5. ASSUME NEW y \in Listed(t) PROVE y \in Listed(s) \cup {x}
  <2>1. PICK k \in 1 .. n + 1 : y = t[k] BY <1>4 DEF Listed
  <2>2. CASE k <= i
    <3>1. k \in 1 .. i /\ k \in DOMAIN s BY <1>1, <2>2
    <3>2. y = s[k] BY <1>2, <1>4, <2>1, <3>1
    <3>3. QED BY <3>1, <3>2 DEF Listed
  <2>3. CASE k = i + 1 BY <1>4, <2>1, <2>3
  <2>4. CASE k > i + 1
    <3> DEFINE j == k - (i + 1)
    <3>1. j \in 1 .. n - i /\ k = i + 1 + j BY <1>1, <2>4
    <3>2. i + j \in DOMAIN s BY <1>1, <3>1
    <3> HIDE DEF j
    <3>3. y = s[i + j] BY <1>3, <1>4, <2>1, <3>1
    <3>4. QED BY <3>2, <3>3 DEF Listed
  <2>5. QED BY <1>1, <2>2, <2>3, <2>4
<1>6. ASSUME NEW y \in Listed(s) PROVE y \in Listed(t)
  <2>1. PICK k \in 1 .. n : y = s[k] BY <1>1 DEF Listed
  <2>2. CASE k <= i
    <3>1. k \in 1 .. i /\ k \in DOMAIN t BY <1>1, <1>4, <2>2
    <3>2. y = t[k] BY <1>2, <1>4, <2>1, <3>1
    <3>3. QED BY <3>1, <3>2 DEF Listed
  <2>3. CASE k > i
    <3> DEFINE j == k - i
    <3>1. j \in 1 .. n - i /\ k = i + j BY <1>1, <2>3
    <3>2. i + 1 + j \in DOMAIN t BY <1>1, <1>4, <3>1
    <3> HIDE DEF j
    <3>3. y = t[i + 1 + j] BY <1>3, <1>4, <2>1, <3>1
    <3>4. QED BY <3>2, <3>3 DEF Listed
  <2>4. QED BY <1>1, <2>2, <2>3
<1>7. x \in Listed(t)
  <2>1. i + 1 \in DOMAIN t BY <1>1, <1>4
  <2>2. QED BY <1>4, <2>1 DEF Listed
<1>8. QED BY <1>5, <1>6, <1>7 DEF t, a, b, n

\* A step about no document leaves the marks.
LEMMA MarkedFrame ==
  ASSUME TypeOK, Marked, UNCHANGED <<issue, count>>, drawn \subseteq drawn',
         OnShelf \subseteq OnShelf',
         \A i \in Issues : i \in OnShelf' => i \in OnShelf
  PROVE  Marked'
<1>1. \A i \in Issues, l \in Lots : Portion(i, l)' = Portion(i, l)
  BY DEF Portion
<1>2. \A n \in Counts, l \in Lots : MissedBy(n, l)' = MissedBy(n, l)
  BY DEF MissedBy, IsCount, Less
<1>3. QED BY <1>1, <1>2 DEF Marked

\* Void lots stay gone if nothing reopens or moves them.
LEMMA GoneFrame ==
  ASSUME VoidIsGone,
         \A l \in Lots : IsVoid(l)' =>
           \/ IsGone(l)'
           \/ /\ IsVoid(l)
              /\ l \in drawn' => l \in drawn
              /\ IsOpen(l)' => IsOpen(l)
              /\ \A c \in Locations : place[<<l, c>>] = 0 =>
                                        place'[<<l, c>>] = 0
  PROVE  VoidIsGone'
BY DEF VoidIsGone, IsGone

\* What lies of lot l, when q is what lies in each place.
Lying(q, l) == Total(Row(q, l, Locations))

\* It is a number.
LEMMA LyingType ==
  ASSUME NEW q \in [Places -> Nat], NEW l \in Lots
  PROVE  /\ Lying(q, l) \in Nat
         /\ Row(q, l, Locations) \in [Locations -> Nat]
<1> DEFINE f == Row(q, l, Locations)
<1>1. f \in [Locations -> Nat]
  <2>1. \A c \in Locations : <<l, c>> \in Places BY DEF Places
  <2>2. QED BY <2>1 DEF Row
<1> HIDE DEF f
<1>2. Total(f) \in Nat BY <1>1, FiniteSets, TotalType
<1>3. QED BY <1>1, <1>2 DEF Lying, f

\* It depends on the places of the lot only.
LEMMA LyingSame ==
  ASSUME NEW q, NEW r, NEW l,
         \A c \in Locations : r[<<l, c>>] = q[<<l, c>>]
  PROVE  Lying(r, l) = Lying(q, l)
<1>1. Row(r, l, Locations) = Row(q, l, Locations) BY DEF Row
<1>2. QED BY <1>1 DEF Lying

\* One place changes.
LEMMA LyingPut ==
  ASSUME NEW q \in [Places -> Nat], NEW r \in [Places -> Nat],
         NEW l \in Lots, NEW c \in Locations,
         \A d \in Locations : d # c => r[<<l, d>>] = q[<<l, d>>]
  PROVE  Lying(r, l) + q[<<l, c>>] = Lying(q, l) + r[<<l, c>>]
<1> DEFINE f == Row(q, l, Locations)
           g == Row(r, l, Locations)
<1>1. f \in [Locations -> Nat] /\ g \in [Locations -> Nat] BY LyingType
<1>2. \A d \in Locations : f[d] = q[<<l, d>>] /\ g[d] = r[<<l, d>>]
  BY DEF Row
<1> HIDE DEF f, g
<1>3. \A d \in Locations : d # c => g[d] = f[d] BY <1>2
<1>4. Total(g) + f[c] = Total(f) + g[c]
  BY <1>1, <1>3, FiniteSets, TotalChange
<1>5. QED BY <1>2, <1>4 DEF Lying, f, g

\* The places of a lot get more by a row of quantities.
LEMMA LyingMore ==
  ASSUME NEW q \in [Places -> Nat], NEW r \in [Places -> Nat],
         NEW l \in Lots, NEW h \in [Locations -> Nat],
         \A c \in Locations : r[<<l, c>>] = q[<<l, c>>] + h[c]
  PROVE  Lying(r, l) = Lying(q, l) + Total(h) /\ Total(h) \in Nat
<1> DEFINE f == Row(q, l, Locations)
           g == Row(r, l, Locations)
<1>1. f \in [Locations -> Nat] /\ g \in [Locations -> Nat] BY LyingType
<1>2. \A d \in Locations : f[d] = q[<<l, d>>] /\ g[d] = r[<<l, d>>]
  BY DEF Row
<1> HIDE DEF f, g
<1>3. \A d \in Locations : g[d] = f[d] + h[d] BY <1>2
<1>4. Total(g) = Total(f) + Total(h) BY <1>1, <1>3, FiniteSets, TotalAdd
<1>5. Total(h) \in Nat BY FiniteSets, TotalType
<1>6. QED BY <1>4, <1>5 DEF Lying, f, g

\* Nothing lies where every place is empty.
LEMMA LyingNone ==
  ASSUME NEW q \in [Places -> Nat], NEW l \in Lots,
         \A c \in Locations : q[<<l, c>>] = 0
  PROVE  Lying(q, l) = 0
<1> DEFINE f == Row(q, l, Locations)
<1>1. f \in [Locations -> Nat] BY LyingType
<1>2. \A c \in Locations : f[c] = 0 BY DEF Row
<1> HIDE DEF f
<1>3. Total(f) = 0 BY <1>1, <1>2, TotalZero
<1>4. QED BY <1>3 DEF Lying, f

\* What lies where no placement is overdrawn is what the placements say.
LEMMA LyingIs ==
  TypeOK /\ Covered =>
    /\ place \in [Places -> Nat]
    /\ \A l \in Lots : Placed(l) = Lying(place, l) /\ Overdrawn(l) = 0
    /\ \A l \in Lots, c \in Locations : PlacedAt(l, c) = place[<<l, c>>]
<1> SUFFICES ASSUME TypeOK, Covered
             PROVE  /\ place \in [Places -> Nat]
                    /\ \A l \in Lots : /\ Placed(l) = Lying(place, l)
                                       /\ Overdrawn(l) = 0
                    /\ \A l \in Lots, c \in Locations :
                         PlacedAt(l, c) = place[<<l, c>>]
  OBVIOUS
<1>1. place \in [Places -> Nat] BY DEF TypeOK, Covered
<1>2. \A l \in Lots, c \in Locations : /\ PlacedAt(l, c) = place[<<l, c>>]
                                       /\ place[<<l, c>>] \in Nat
  BY <1>1 DEF Places, PlacedAt
<1>3. ASSUME NEW l \in Lots
      PROVE  Placed(l) = Lying(place, l) /\ Overdrawn(l) = 0
  <2>1. [c \in Locations |-> PlacedAt(l, c)] = Row(place, l, Locations)
    BY <1>2 DEF Row
  <2>2. Placed(l) = Lying(place, l) BY <2>1 DEF Placed, Lying
  <2> DEFINE f == [c \in Locations |-> AtLeast0(0 - place[<<l, c>>])]
  <2>3. f \in [Locations -> Nat] /\ \A c \in Locations : f[c] = 0
    BY <1>2
  <2>4. Overdrawn(l) = Total(f) BY DEF Overdrawn
  <2> HIDE DEF f
  <2>5. Total(f) = 0 BY <2>3, TotalZero
  <2>6. QED BY <2>2, <2>4, <2>5
<1>4. QED BY <1>1, <1>2, <1>3

\* The same of the next state.
LEMMA LyingIsNext ==
  TypeOK' /\ Covered' =>
    /\ place' \in [Places -> Nat]
    /\ \A l \in Lots : Placed(l)' = Lying(place', l) /\ Overdrawn(l)' = 0
    /\ \A l \in Lots, c \in Locations : PlacedAt(l, c)' = place'[<<l, c>>]
<1>1. (TypeOK /\ Covered)' =>
        (/\ place \in [Places -> Nat]
         /\ \A l \in Lots : Placed(l) = Lying(place, l) /\ Overdrawn(l) = 0
         /\ \A l \in Lots, c \in Locations :
              PlacedAt(l, c) = place[<<l, c>>])'
  BY LyingIs, PTL
<1>2. \A l : Lying(place, l)' = Lying(place', l) BY DEF Lying, Row
<1>3. QED BY <1>1, <1>2

\* The kinds of lots have nothing in common.
LEMMA KindsOfLots ==
  /\ \A l \in GreenLots : l \in Lots /\ l \notin Roasts /\ l \notin Issues
  /\ \A b \in Roasts : b \in Lots /\ b \notin GreenLots /\ b \notin Issues
  /\ \A i \in Issues : i \in Lots /\ i \notin GreenLots /\ i \notin Roasts
  /\ \A l \in Lots : IsVoid(l) => l \notin GreenLots
BY SetsAssumption DEF Lots, IsVoid

\* A step that leaves the lots, their documents and their places alone.
LEMMA OrderlyFrame ==
  ASSUME Orderly,
         UNCHANGED <<drawn, used, shelf, place, roast, issue, count>>
  PROVE  Orderly'
<1>1. Covered' BY DEF Orderly, Covered
<1>2. VoidIsGone'
  BY DEF Orderly, VoidIsGone, IsGone, IsVoid, IsOpen, OnShelf
<1>3. Marked'
  BY DEF Orderly, Marked, OnShelf, Portion, MissedBy, IsCount, Less
<1>4. QED BY <1>1, <1>2, <1>3 DEF Orderly

\* A receipt.
LEMMA OrderlyBuy ==
  ASSUME TypeOK, Orderly, NEW g \in GreenLots, NEW kg \in Nat,
         NEW c \in Locations, NEW i \in 0 .. Len(shelf),
         BuyGreenBeans(g, kg, c, i)
  PROVE  Orderly'
<1>1. /\ UNCHANGED <<drawn, used, roast, issue, count>>
      /\ place' = [place EXCEPT ![<<g, c>>] = kg]
      /\ shelf' = SubSeq(shelf, 1, i) \o <<g>>
                    \o SubSeq(shelf, i + 1, Len(shelf))
  BY DEF BuyGreenBeans
<1>2. g \in Lots BY KindsOfLots
<1>3. OnShelf' = OnShelf \cup {g}
  <2>1. shelf \in Seq(Lots) BY DEF TypeOK
  <2>2. Listed(shelf') = Listed(shelf) \cup {g}
    BY <1>1, <1>2, <2>1, ListedInsert
  <2>3. QED BY <2>2 DEF Listed, OnShelf
<1>4. Covered' BY <1>1 DEF Orderly, Covered, TypeOK
<1>5. VoidIsGone'
  <2>1. ASSUME NEW l \in Lots, IsVoid(l)'
        PROVE  /\ IsVoid(l) /\ (IsOpen(l)' => IsOpen(l))
               /\ \A d \in Locations : place[<<l, d>>] = 0 =>
                                         place'[<<l, d>>] = 0
    <3>1. IsVoid(l) BY <1>1, <2>1 DEF IsVoid
    <3>2. l # g BY <3>1, KindsOfLots
    <3>3. IsOpen(l)' => IsOpen(l) BY <1>1, <1>3, <3>2 DEF IsOpen
    <3>4. \A d \in Locations : place'[<<l, d>>] = place[<<l, d>>]
      BY <1>1, <3>2 DEF TypeOK, Places
    <3>5. QED BY <3>1, <3>3, <3>4
  <2>2. QED BY <1>1, <2>1, GoneFrame DEF Orderly
<1>6. Marked' BY <1>1, <1>3, KindsOfLots, MarkedFrame DEF Orderly
<1>7. QED BY <1>4, <1>5, <1>6 DEF Orderly

\* Its void.
LEMMA OrderlyVoidPurchase ==
  ASSUME TypeOK, Orderly, NEW g \in GreenLots, VoidPurchase(g)
  PROVE  Orderly'
<1>1. /\ UNCHANGED <<drawn, shelf, place, roast, issue, count>>
      /\ used \subseteq used'
  BY DEF VoidPurchase
<1>2. OnShelf' = OnShelf BY <1>1 DEF OnShelf
<1>3. Covered' BY <1>1 DEF Orderly, Covered
<1>4. \A l \in Lots : IsVoid(l)' => IsVoid(l) BY <1>1 DEF IsVoid
<1>5. VoidIsGone'
  BY <1>1, <1>2, <1>4, GoneFrame DEF Orderly, IsOpen
<1>6. Marked' BY <1>1, <1>2, MarkedFrame DEF Orderly
<1>7. QED BY <1>3, <1>5, <1>6 DEF Orderly

\* Charging a roast takes green beans from where they lie.
LEMMA OrderlyStart ==
  ASSUME TypeOK, Orderly, NEW b \in Roasts, NEW kg \in Nat,
         NEW t \in Reservations, NEW preferred,
         IsReservation(t, kg, preferred), StartRoast(b, kg, t)
  PROVE  Orderly'
<1>1. /\ UNCHANGED <<drawn, used, shelf, issue, count>>
      /\ roast' = [roast EXCEPT ![b].status = "CHARGED", ![b].kg = kg]
      /\ place' = [x \in Places |->
                     IF x[1] \in GreenLots THEN place[x] - t[x] ELSE place[x]]
  BY DEF StartRoast
<1>2. OnShelf' = OnShelf BY <1>1 DEF OnShelf
<1>3. Covered'
  <2>1. SUFFICES ASSUME NEW x \in Places PROVE place'[x] >= 0 BY DEF Covered
  <2>2. place[x] \in Nat BY DEF Orderly, Covered, TypeOK
  <2>3. CASE x[1] \in GreenLots
    <3>1. x \in GreenLots \X Locations BY <2>3 DEF Places
    <3>2. /\ t[x] <= Eligible(x[1], x[2]) /\ t[x] \in Nat
          /\ x = <<x[1], x[2]>>
      BY <3>1 DEF IsReservation, Reservations
    <3>3. Eligible(x[1], x[2]) <= place[x]
      BY <2>2, <3>2 DEF Eligible, PlacedAt
    <3>4. Eligible(x[1], x[2]) \in Nat
      BY <2>2, <3>2 DEF Eligible, PlacedAt
    <3>5. place'[x] = place[x] - t[x] BY <1>1, <2>3
    <3>6. QED BY <2>2, <3>2, <3>3, <3>4, <3>5
  <2>4. CASE x[1] \notin GreenLots BY <1>1, <2>2, <2>4
  <2>5. QED BY <2>3, <2>4
<1>4. \A l \in Lots : IsVoid(l)' => IsVoid(l)
  BY <1>1 DEF IsVoid, TypeOK, Roast
<1>5. \A l \in Lots : IsVoid(l)' =>
        \A d \in Locations : place'[<<l, d>>] = place[<<l, d>>]
  BY <1>1, <1>4, KindsOfLots DEF Places
<1>6. VoidIsGone'
  BY <1>1, <1>2, <1>4, <1>5, GoneFrame DEF Orderly, IsOpen
<1>7. Marked' BY <1>1, <1>2, MarkedFrame DEF Orderly
<1>8. QED BY <1>3, <1>6, <1>7 DEF Orderly

\* The way back puts them there again.
LEMMA OrderlyAbort ==
  ASSUME TypeOK, Orderly, NEW b \in Roasts, AbortRoast(b)
  PROVE  Orderly'
<1>1. /\ UNCHANGED <<drawn, used, shelf, issue, count>>
      /\ roast' = [roast EXCEPT ![b].status = "ABORTED"]
      /\ place' = [x \in Places |->
                     IF x[1] \in GreenLots THEN place[x] + taken[b][x]
                                           ELSE place[x]]
  BY DEF AbortRoast
<1>2. OnShelf' = OnShelf BY <1>1 DEF OnShelf
<1>3. Covered'
  <2>1. SUFFICES ASSUME NEW x \in Places PROVE place'[x] >= 0 BY DEF Covered
  <2>2. place[x] \in Nat BY DEF Orderly, Covered, TypeOK
  <2>3. x[1] \in GreenLots => taken[b][x] \in Nat
    BY DEF Places, TypeOK, Reservations
  <2>4. QED BY <1>1, <2>2, <2>3
<1>4. \A l \in Lots : IsVoid(l)' => IsVoid(l)
  BY <1>1 DEF IsVoid, TypeOK, Roast
<1>5. \A l \in Lots : IsVoid(l)' =>
        \A d \in Locations : place'[<<l, d>>] = place[<<l, d>>]
  BY <1>1, <1>4, KindsOfLots DEF Places
<1>6. VoidIsGone'
  BY <1>1, <1>2, <1>4, <1>5, GoneFrame DEF Orderly, IsOpen
<1>7. Marked' BY <1>1, <1>2, MarkedFrame DEF Orderly
<1>8. QED BY <1>3, <1>6, <1>7 DEF Orderly

\* A completed roast puts a lot on the shelf.
LEMMA OrderlyComplete ==
  ASSUME TypeOK, Orderly, NEW b \in Roasts, NEW out \in Nat,
         NEW c \in Locations, CompleteRoast(b, out, c)
  PROVE  Orderly'
<1>1. /\ UNCHANGED <<used, issue, count>>
      /\ drawn' = drawn \cup {l \in GreenLots : TakenFrom(b, l) > 0}
      /\ shelf' = Append(shelf, b)
      /\ roast' = [roast EXCEPT ![b].status = "COMPLETED", ![b].out = out]
      /\ place' = [place EXCEPT ![<<b, c>>] = out]
  BY DEF CompleteRoast, ConsumeCharged
<1>2. b \in Lots BY KindsOfLots
<1>3. OnShelf' = OnShelf \cup {b}
  <2>1. shelf \in Seq(Lots) BY DEF TypeOK
  <2>2. Listed(shelf') = Listed(shelf) \cup {b}
    BY <1>1, <1>2, <2>1, ListedAppend
  <2>3. QED BY <2>2 DEF Listed, OnShelf
<1>4. Covered' BY <1>1 DEF Orderly, Covered, TypeOK
<1>5. VoidIsGone'
  <2>1. ASSUME NEW l \in Lots, IsVoid(l)'
        PROVE  /\ IsVoid(l) /\ (IsOpen(l)' => IsOpen(l))
               /\ l \in drawn' => l \in drawn
               /\ \A d \in Locations : place[<<l, d>>] = 0 =>
                                         place'[<<l, d>>] = 0
    <3>1. IsVoid(l) /\ l # b
      BY <1>1, <2>1, KindsOfLots DEF IsVoid, TypeOK, Roast
    <3>2. IsOpen(l)' => IsOpen(l) BY <1>1, <1>3, <3>1 DEF IsOpen
    <3>3. l \in drawn' => l \in drawn BY <1>1, <3>1, KindsOfLots
    <3>4. \A d \in Locations : place'[<<l, d>>] = place[<<l, d>>]
      BY <1>1, <3>1 DEF TypeOK, Places
    <3>5. QED BY <3>1, <3>2, <3>3, <3>4
  <2>2. QED BY <2>1, GoneFrame DEF Orderly
<1>6. Marked' BY <1>1, <1>3, KindsOfLots, MarkedFrame DEF Orderly
<1>7. QED BY <1>4, <1>5, <1>6 DEF Orderly

\* A scrapped roast puts none there.
LEMMA OrderlyScrap ==
  ASSUME TypeOK, Orderly, NEW b \in Roasts, ScrapRoast(b)
  PROVE  Orderly'
<1>1. /\ UNCHANGED <<used, shelf, place, issue, count>>
      /\ drawn' = drawn \cup {l \in GreenLots : TakenFrom(b, l) > 0}
      /\ roast' = [roast EXCEPT ![b].status = "SCRAPPED"]
  BY DEF ScrapRoast, ConsumeCharged
<1>2. OnShelf' = OnShelf BY <1>1 DEF OnShelf
<1>3. Covered' BY <1>1 DEF Orderly, Covered
<1>4. \A l \in Lots : IsVoid(l)' => IsVoid(l) /\ l \notin GreenLots
  BY <1>1, KindsOfLots DEF IsVoid, TypeOK, Roast
<1>5. VoidIsGone'
  BY <1>1, <1>2, <1>4, GoneFrame DEF Orderly, IsOpen
<1>6. Marked' BY <1>1, <1>2, MarkedFrame DEF Orderly
<1>7. QED BY <1>3, <1>5, <1>6 DEF Orderly

\* The void of a completed roast takes its lot away; what it reopens are
\* green beans.
LEMMA OrderlyVoidRoast ==
  ASSUME TypeOK, Orderly, NEW b \in Roasts, VoidRoast(b)
  PROVE  Orderly'
<1>1. /\ UNCHANGED <<drawn, shelf, issue, count>> /\ b \notin drawn
      /\ used' = {b} \cup (used \ {l \in GreenLots : TakenFrom(b, l) > 0})
      /\ roast' = [roast EXCEPT ![b].status = "VOID"]
      /\ place' = [x \in Places |-> IF x[1] = b THEN 0 ELSE place[x]]
  BY DEF VoidRoast, MayVoidLot
<1>2. OnShelf' = OnShelf BY <1>1 DEF OnShelf
<1>3. Covered' BY <1>1 DEF Orderly, Covered
<1>4. VoidIsGone'
  <2>1. ASSUME NEW l \in Lots, IsVoid(l)', l # b
        PROVE  /\ IsVoid(l) /\ (IsOpen(l)' => IsOpen(l))
               /\ \A d \in Locations : place'[<<l, d>>] = place[<<l, d>>]
    <3>1. IsVoid(l) BY <1>1, <2>1 DEF IsVoid, TypeOK
    <3>2. l \notin GreenLots BY <3>1, KindsOfLots
    <3>3. QED BY <1>1, <1>2, <2>1, <3>1, <3>2 DEF IsOpen, Places
  <2>2. IsGone(b)'
    <3>1. \A d \in Locations : <<b, d>> \in Places
      BY KindsOfLots DEF Places
    <3>2. QED BY <1>1, <3>1 DEF IsGone, IsOpen
  <2>3. QED BY <1>1, <2>1, <2>2, GoneFrame DEF Orderly
<1>5. Marked' BY <1>1, <1>2, MarkedFrame DEF Orderly
<1>6. QED BY <1>3, <1>4, <1>5 DEF Orderly

\* An issue draws lots that are open, and takes what lies there.
LEMMA OrderlyIssue ==
  ASSUME TypeOK, Orderly, NEW i \in Issues, NEW p \in Products,
         NEW kg \in Nat, NEW alloc \in [OwnersOf(p) -> Nat],
         NEW draw \in [LotsOf(p) \X Locations -> Nat],
         NEW out \in Nat, NEW c \in Locations,
         IsFefoAllocation(alloc, p, kg), IsDraw(draw, alloc),
         IssueBeans(i, p, kg, alloc, draw, out, c)
  PROVE  Orderly'
<1>1. /\ UNCHANGED <<roast, count>>
      /\ issue[i].status = "NONE"
      /\ issue' = [issue EXCEPT ![i] =
           [status |-> "COMPLETED", product |-> p, out |-> out,
            alloc |-> AddRows(Nothing, alloc)]]
      /\ drawn' = drawn \cup {l \in DOMAIN alloc \ {p} : alloc[l] > 0}
      /\ used \subseteq used'
      /\ shelf' = IF out > 0 THEN Append(shelf, i) ELSE shelf
      /\ place' = [x \in Places |->
                     IF x \in DOMAIN draw THEN place[x] - draw[x]
                     ELSE IF x = <<i, c>> THEN out ELSE place[x]]
  BY DEF IssueBeans
<1>2. /\ issue'[i].status = "COMPLETED" /\ issue'[i].out = out
      /\ issue'[i].alloc = AddRows(Nothing, alloc)
      /\ \A j \in Issues : j # i => issue'[j] = issue[j]
  BY <1>1 DEF TypeOK
<1>3. i \in Lots /\ i \notin Roasts BY KindsOfLots
<1>4. OnShelf' = IF out > 0 THEN OnShelf \cup {i} ELSE OnShelf
  <2>1. shelf \in Seq(Lots) BY DEF TypeOK
  <2>2. Listed(shelf') = IF out > 0 THEN Listed(shelf) \cup {i}
                                    ELSE Listed(shelf)
    BY <1>1, <1>3, <2>1, ListedAppend
  <2>3. QED BY <2>2 DEF Listed, OnShelf
<1>5. \A x \in Places : place[x] \in Nat BY DEF Orderly, Covered, TypeOK
<1>6. \A x \in Places : x \in DOMAIN draw =>
        draw[x] \in Nat /\ draw[x] <= place[x]
  <2>1. ASSUME NEW x \in Places, x \in DOMAIN draw
        PROVE  draw[x] \in Nat /\ draw[x] <= place[x]
    <3>1. draw[x] \in Nat /\ draw[x] <= PlacedAt(x[1], x[2])
      BY <2>1 DEF IsDraw
    <3>2. x = <<x[1], x[2]>> BY DEF Places
    <3>3. PlacedAt(x[1], x[2]) = place[x] BY <1>5, <3>2 DEF PlacedAt
    <3>4. QED BY <3>1, <3>3
  <2>2. QED BY <2>1
<1>7. Covered'
  <2>1. SUFFICES ASSUME NEW x \in Places PROVE place'[x] >= 0 BY DEF Covered
  <2>2. place'[x] = IF x \in DOMAIN draw THEN place[x] - draw[x]
                    ELSE IF x = <<i, c>> THEN out ELSE place[x]
    BY <1>1
  <2>3. QED BY <1>5, <1>6, <2>2
<1>8. VoidIsGone'
  <2>1. ASSUME NEW l \in Lots, IsVoid(l)'
        PROVE  /\ IsVoid(l) /\ (IsOpen(l)' => IsOpen(l))
               /\ l \in drawn' => l \in drawn
               /\ \A d \in Locations : place[<<l, d>>] = 0 =>
                                         place'[<<l, d>>] = 0
    <3>1. IsVoid(l) /\ l # i BY <1>1, <1>2, <1>3, <2>1 DEF IsVoid
    <3>2. IsOpen(l)' => IsOpen(l) BY <1>1, <1>4, <3>1 DEF IsOpen
    <3>3. ~IsOpen(l) BY <3>1 DEF Orderly, VoidIsGone, IsGone
    <3>4. l \in DOMAIN alloc \ {p} => alloc[l] = 0
      BY <3>3 DEF IsFefoAllocation, IsUsable, IsOpen
    <3>5. l \in drawn' => l \in drawn BY <1>1, <3>4
    <3>6. ASSUME NEW d \in Locations, place[<<l, d>>] = 0
          PROVE  place'[<<l, d>>] = 0
      <4> DEFINE x == <<l, d>>
      <4>1. x \in Places /\ x # <<i, c>> BY <3>1 DEF Places
      <4>2. place[x] = 0 BY <3>6
      <4> HIDE DEF x
      <4>3. place'[x] = IF x \in DOMAIN draw THEN place[x] - draw[x]
                        ELSE place[x]
        BY <1>1, <4>1
      <4>4. place'[x] = 0 BY <1>6, <4>1, <4>2, <4>3
      <4>5. QED BY <4>4 DEF x
    <3>7. QED BY <3>1, <3>2, <3>5, <3>6
  <2>2. QED BY <2>1, GoneFrame DEF Orderly
<1>9. Marked'
  <2>1. \A j \in Issues : j \in OnShelf' =>
          issue'[j].status # "NONE" /\ issue'[j].out > 0
    <3>1. i \notin OnShelf BY <1>1 DEF Orderly, Marked
    <3>2. QED BY <1>2, <1>4, <3>1 DEF Orderly, Marked
  <2>2. \A n \in Counts : count'[n].status # "NONE" =>
          count'[n].lot \in OnShelf'
    BY <1>1, <1>4 DEF Orderly, Marked
  <2>3. ASSUME NEW j \in Issues, NEW l \in Lots, Portion(j, l)' > 0
        PROVE  l \in drawn'
    <3>1. CASE j # i
      <4>1. Portion(j, l)' = Portion(j, l) BY <1>2, <3>1 DEF Portion
      <4>2. QED BY <1>1, <2>3, <4>1 DEF Orderly, Marked
    <3>2. CASE j = i
      <4>1. Portion(i, l)' = AddRows(Nothing, alloc)[l]
        BY <1>2 DEF Portion
      <4>2. l \in Owners /\ l # p BY SetsAssumption DEF Owners
      <4>3. AddRows(Nothing, alloc)[l] =
              IF l \in DOMAIN alloc THEN alloc[l] ELSE 0
        BY <4>2 DEF AddRows, Nothing
      <4>4. l \in DOMAIN alloc \ {p} /\ alloc[l] > 0
        BY <2>3, <3>2, <4>1, <4>2, <4>3
      <4>5. QED BY <1>1, <4>4
    <3>3. QED BY <3>1, <3>2
  <2>4. ASSUME NEW n \in Counts, NEW l \in Lots, MissedBy(n, l)' > 0
        PROVE  l \in drawn'
    <3>1. MissedBy(n, l)' = MissedBy(n, l)
      BY <1>1 DEF MissedBy, IsCount, Less
    <3>2. QED BY <1>1, <2>4, <3>1 DEF Orderly, Marked
  <2>5. QED BY <2>1, <2>2, <2>3, <2>4 DEF Marked
<1>10. QED BY <1>7, <1>8, <1>9 DEF Orderly

\* The void of an issue takes its lot away; what it reopens had been drawn.
LEMMA OrderlyVoidIssue ==
  ASSUME TypeOK, Orderly, NEW i \in Issues, VoidIssue(i)
  PROVE  Orderly'
<1> DEFINE alloc == issue[i].alloc
           out == issue[i].out
<1>1. /\ UNCHANGED <<drawn, shelf, roast, count>> /\ i \notin drawn
      /\ issue[i].status = "COMPLETED"
      /\ issue' = [issue EXCEPT ![i].status = "VOID"]
      /\ used' = (IF out > 0 THEN {i} ELSE {})
                   \cup (used \ {l \in Lots : alloc[l] > 0})
      /\ place' = [x \in Places |-> IF x[1] = i THEN 0 ELSE place[x]]
  BY DEF VoidIssue, MayVoidLot
<1>2. /\ issue'[i].status = "VOID" /\ issue'[i].out = out
      /\ \A j \in Issues : j # i => issue'[j] = issue[j]
  BY <1>1 DEF TypeOK, Issue
<1>3. \A l \in Lots : alloc[l] > 0 => l \in drawn
  BY <1>1 DEF Orderly, Marked, Portion
<1> HIDE DEF alloc, out
<1>4. OnShelf' = OnShelf BY <1>1 DEF OnShelf
<1>5. Covered' BY <1>1 DEF Orderly, Covered
<1>6. VoidIsGone'
  <2>1. ASSUME NEW l \in Lots, IsVoid(l)', l # i
        PROVE  /\ IsVoid(l) /\ (IsOpen(l)' => IsOpen(l))
               /\ \A d \in Locations : place'[<<l, d>>] = place[<<l, d>>]
    <3>1. IsVoid(l) BY <1>1, <1>2, <2>1 DEF IsVoid
    <3>2. l \notin drawn BY <3>1 DEF Orderly, VoidIsGone, IsGone
    <3>3. l \in used => l \in used' BY <1>1, <1>3, <3>2
    <3>4. QED BY <1>1, <1>4, <2>1, <3>1, <3>3 DEF IsOpen, Places
  <2>2. IsGone(i)'
    <3>1. \A d \in Locations : place'[<<i, d>>] = 0
      BY <1>1, KindsOfLots DEF Places
    <3>2. i \in OnShelf => i \in used'
      BY <1>1 DEF Orderly, Marked, out
    <3>3. QED BY <1>1, <1>4, <3>1, <3>2 DEF IsGone, IsOpen
  <2>3. QED BY <1>1, <2>1, <2>2, GoneFrame DEF Orderly
<1>7. Marked'
  <2>1. \A j \in Issues : j \in OnShelf' =>
          issue'[j].status # "NONE" /\ issue'[j].out > 0
    BY <1>1, <1>2, <1>4 DEF Orderly, Marked, out
  <2>2. \A n \in Counts : count'[n].status # "NONE" =>
          count'[n].lot \in OnShelf'
    BY <1>1, <1>4 DEF Orderly, Marked
  <2>3. ASSUME NEW j \in Issues, NEW l \in Lots, Portion(j, l)' > 0
        PROVE  l \in drawn'
    <3>1. j # i BY <1>2, <2>3 DEF Portion
    <3>2. Portion(j, l)' = Portion(j, l) BY <1>2, <3>1 DEF Portion
    <3>3. QED BY <1>1, <2>3, <3>2 DEF Orderly, Marked
  <2>4. ASSUME NEW n \in Counts, NEW l \in Lots, MissedBy(n, l)' > 0
        PROVE  l \in drawn'
    <3>1. MissedBy(n, l)' = MissedBy(n, l)
      BY <1>1 DEF MissedBy, IsCount, Less
    <3>2. QED BY <1>1, <2>4, <3>1 DEF Orderly, Marked
  <2>5. QED BY <2>1, <2>2, <2>3, <2>4 DEF Marked
<1>8. QED BY <1>5, <1>6, <1>7 DEF Orderly

\* A draft counts what is on the shelf.
LEMMA OrderlyCounting ==
  ASSUME TypeOK, Orderly, Counting
  PROVE  Orderly'
<1>1. /\ UNCHANGED <<drawn, used, shelf, place, roast, issue>>
      /\ \E n \in Counts :
           /\ count'[n].lot \in OnShelf /\ count'[n].status # "CONFIRMED"
           /\ \A m \in Counts : m # n => count'[m] = count[m]
  <2>1. PICK n \in Counts :
          \/ CancelCount(n)
          \/ \E l \in Lots, c \in Locations, counted \in 0 .. MaxKg :
               DraftCount(n, l, c, counted)
    BY DEF Counting
  <2>2. CASE CancelCount(n)
    <3>1. /\ UNCHANGED <<drawn, used, shelf, place, roast, issue>>
          /\ count[n].status = "DRAFT"
          /\ count' = [count EXCEPT ![n].status = "CANCELLED"]
      BY <2>2 DEF CancelCount
    <3>2. /\ count'[n].lot = count[n].lot
          /\ count'[n].status = "CANCELLED"
      BY <3>1 DEF TypeOK, Count
    <3>3. count[n].lot \in OnShelf BY <3>1 DEF Orderly, Marked
    <3>4. \A m \in Counts : m # n => count'[m] = count[m]
      BY <3>1 DEF TypeOK
    <3>5. QED BY <3>1, <3>2, <3>3, <3>4
  <2>3. ASSUME NEW l \in Lots, NEW c, NEW counted, DraftCount(n, l, c, counted)
        PROVE  /\ UNCHANGED <<drawn, used, shelf, place, roast, issue>>
               /\ count'[n].lot \in OnShelf /\ count'[n].status # "CONFIRMED"
               /\ \A m \in Counts : m # n => count'[m] = count[m]
    BY <2>3 DEF DraftCount, TypeOK
  <2>4. QED BY <2>1, <2>2, <2>3
<1>2. PICK n \in Counts :
        /\ count'[n].lot \in OnShelf /\ count'[n].status # "CONFIRMED"
        /\ \A m \in Counts : m # n => count'[m] = count[m]
  BY <1>1
<1>3. OnShelf' = OnShelf BY <1>1 DEF OnShelf
<1>4. Covered' BY <1>1 DEF Orderly, Covered
<1>5. \A l \in Lots : IsVoid(l)' = IsVoid(l) BY <1>1 DEF IsVoid
<1>6. VoidIsGone' BY <1>1, <1>3, <1>5, GoneFrame DEF Orderly, IsOpen
<1>7. Marked'
  <2>1. \A m \in Counts : count'[m].status # "NONE" =>
          count'[m].lot \in OnShelf'
    BY <1>2, <1>3 DEF Orderly, Marked
  <2>2. ASSUME NEW m \in Counts, NEW l \in Lots, MissedBy(m, l)' > 0
        PROVE  l \in drawn'
    <3>1. m # n BY <1>2, <2>2 DEF MissedBy, IsCount
    <3>2. MissedBy(m, l)' = MissedBy(m, l)
      BY <1>2, <3>1 DEF MissedBy, IsCount, Less
    <3>3. QED BY <1>1, <2>2, <3>2 DEF Orderly, Marked
  <2>3. \A j \in Issues, l \in Lots : Portion(j, l)' = Portion(j, l)
    BY <1>1 DEF Portion
  <2>4. QED BY <1>1, <1>3, <2>1, <2>2, <2>3 DEF Orderly, Marked
<1>8. QED BY <1>4, <1>6, <1>7 DEF Orderly

\* Steps that do nothing but set placements of lots that are open, or to 0.
LEMMA OrderlyPlacing ==
  ASSUME TypeOK, Orderly,
         UNCHANGED <<drawn, used, shelf, roast, issue, count>>,
         \A x \in Places : place'[x] >= 0,
         \A x \in Places : IsOpen(x[1]) \/ place'[x] \in {0, place[x]}
  PROVE  Orderly'
<1>1. OnShelf' = OnShelf BY DEF OnShelf
<1>2. Covered' BY DEF Covered
<1>3. VoidIsGone'
  <2>1. ASSUME NEW l \in Lots, IsVoid(l)'
        PROVE  /\ IsVoid(l)
               /\ \A d \in Locations : place[<<l, d>>] = 0 =>
                                         place'[<<l, d>>] = 0
    <3>1. IsVoid(l) BY <2>1 DEF IsVoid
    <3>2. ~IsOpen(l) BY <3>1 DEF Orderly, VoidIsGone, IsGone
    <3>3. ASSUME NEW d \in Locations, place[<<l, d>>] = 0
          PROVE  place'[<<l, d>>] = 0
      <4>1. <<l, d>> \in Places /\ <<l, d>>[1] = l BY DEF Places
      <4>2. place'[<<l, d>>] \in {0, place[<<l, d>>]} BY <3>2, <4>1
      <4>3. QED BY <3>3, <4>2
    <3>4. QED BY <3>1, <3>3
  <2>2. QED BY <1>1, <2>1, GoneFrame DEF Orderly, IsOpen
<1>4. Marked' BY <1>1, MarkedFrame DEF Orderly
<1>5. QED BY <1>2, <1>3, <1>4 DEF Orderly

\* A placement that is removed.
LEMMA OrderlyRemove ==
  ASSUME TypeOK, Orderly, NEW l \in Lots, NEW c \in Locations,
         RemovePlacement(l, c)
  PROVE  Orderly'
<1> DEFINE y == <<l, c>>
<1>1. /\ UNCHANGED <<drawn, used, shelf, roast, issue, count>>
      /\ place' = [place EXCEPT ![y] = 0]
  BY DEF RemovePlacement
<1> HIDE DEF y
<1>2. \A x \in Places : place'[x] = IF x = y THEN 0 ELSE place[x]
  BY <1>1 DEF TypeOK
<1>3. \A x \in Places : place'[x] >= 0 BY <1>2 DEF Orderly, Covered
<1>4. \A x \in Places : place'[x] \in {0, place[x]} BY <1>2
<1>5. QED BY <1>1, <1>3, <1>4, OrderlyPlacing

\* A lot is placed or moved that is open, and no more is moved than is there.
LEMMA OrderlyWritePlacement ==
  ASSUME TypeOK, Orderly, NEW u \in Users, MayWrite(user[u]),
         WritePlacement(u)
  PROVE  Orderly'
<1> DEFINE t == user[u]
<1>1. t \in Task BY DEF TypeOK
<1>2. UNCHANGED <<drawn, used, shelf, roast, issue, count>>
  BY DEF WritePlacement
<1>3. \A x \in Places : place[x] \in Nat BY DEF Orderly, Covered, TypeOK
<1>4. IsOpen(t.lot) BY DEF WritePlacement, MayWrite, IsOpen
<1>5. CASE t.do = "place"
  <2> DEFINE y == <<t.lot, t.at>>
             kg == t.kg
  <2>1. kg \in Nat BY <1>1, <1>5 DEF Task, Requests
  <2>2. place' = [place EXCEPT ![y] = kg] BY <1>5 DEF WritePlacement
  <2>3. \A x \in Places : x = y => x[1] = t.lot OBVIOUS
  <2> HIDE DEF y, kg
  <2>4. \A x \in Places : place'[x] = IF x = y THEN kg ELSE place[x]
    BY <2>2 DEF TypeOK
  <2>5. \A x \in Places : place'[x] >= 0 BY <1>3, <2>1, <2>4
  <2>6. \A x \in Places : IsOpen(x[1]) \/ place'[x] \in {0, place[x]}
    BY <1>4, <2>3, <2>4
  <2>7. QED BY <1>2, <2>5, <2>6, OrderlyPlacing
<1>6. CASE t.do = "transfer"
  <2> DEFINE y == <<t.lot, t.from>>
             z == <<t.lot, t.to>>
             kg == t.kg
  <2>1. kg \in Nat /\ kg <= place[y]
    BY <1>1, <1>6 DEF Task, Requests, MayWrite
  <2>2. place' = [x \in Places |-> place[x] - (IF x = y THEN kg ELSE 0)
                                         + (IF x = z THEN kg ELSE 0)]
    BY <1>6 DEF WritePlacement
  <2>3. \A x \in Places : x = y \/ x = z => x[1] = t.lot OBVIOUS
  <2> HIDE DEF y, z, kg
  <2>4. \A x \in Places : place'[x] >= 0 BY <1>3, <2>1, <2>2
  <2>5. \A x \in Places : x # y /\ x # z => place'[x] = place[x]
    BY <1>3, <2>2
  <2>6. \A x \in Places : IsOpen(x[1]) \/ place'[x] \in {0, place[x]}
    BY <1>4, <2>3, <2>5
  <2>7. QED BY <1>2, <2>4, <2>6, OrderlyPlacing
<1>7. QED BY <1>5, <1>6 DEF WritePlacement

\* What is counted is open.
LEMMA OrderlyWriteCount ==
  ASSUME TypeOK, Orderly, NEW u \in Users, MayWrite(user[u]), WriteCount(u)
  PROVE  Orderly'
<1>1. user[u] \in Task BY DEF TypeOK
<1>2. PICK n \in Counts : n = user[u].count
  BY <1>1 DEF WriteCount, Task, Requests
<1>3. PICK g \in Lots : g = count[n].lot BY <1>2 DEF TypeOK, Count
<1>4. /\ count[n].at \in Locations /\ count[n].counted \in Nat
  BY <1>2 DEF TypeOK, Count
<1>5. /\ UNCHANGED <<used, shelf, roast, issue>>
      /\ count[n].status = "DRAFT"
      /\ place' = [place EXCEPT ![<<g, count[n].at>>] = count[n].counted]
      /\ drawn' = IF Less(n) > 0 THEN drawn \cup {g} ELSE drawn
      /\ count' = [count EXCEPT ![n].status = "CONFIRMED"]
  BY <1>2, <1>3 DEF WriteCount, Less
<1>6. OnShelf' = OnShelf BY <1>5 DEF OnShelf
<1>7. IsOpen(g)
  <2>1. g \in OnShelf BY <1>3, <1>5 DEF Orderly, Marked
  <2>2. g \notin used BY <1>2, <1>3 DEF MayWrite, WriteCount
  <2>3. QED BY <2>1, <2>2 DEF IsOpen
<1>8. Covered' BY <1>4, <1>5 DEF Orderly, Covered, TypeOK
<1>9. VoidIsGone'
  <2>1. ASSUME NEW l \in Lots, IsVoid(l)'
        PROVE  /\ IsVoid(l) /\ (IsOpen(l)' => IsOpen(l))
               /\ l \in drawn' => l \in drawn
               /\ \A d \in Locations : place'[<<l, d>>] = place[<<l, d>>]
    <3>1. IsVoid(l) BY <1>5, <2>1 DEF IsVoid
    <3>2. l # g
      BY <1>7, <3>1 DEF Orderly, VoidIsGone, IsGone
    <3>3. \A d \in Locations : place'[<<l, d>>] = place[<<l, d>>]
      BY <1>5, <3>2 DEF TypeOK, Places
    <3>4. QED BY <1>5, <1>6, <3>1, <3>2, <3>3 DEF IsOpen
  <2>2. QED BY <2>1, GoneFrame DEF Orderly
<1>10. Marked'
  <2>1. count'[n] = [count[n] EXCEPT !.status = "CONFIRMED"]
    BY <1>5 DEF TypeOK
  <2>2. /\ count'[n].lot = g /\ count'[n].counted = count[n].counted
        /\ count'[n].system = count[n].system
    BY <1>3, <2>1 DEF TypeOK, Count
  <2>3. \A m \in Counts : m # n => count'[m] = count[m]
    BY <1>5 DEF TypeOK
  <2>4. \A m \in Counts : count'[m].status # "NONE" =>
          count'[m].lot \in OnShelf'
    BY <1>6, <1>7, <2>2, <2>3 DEF Orderly, Marked, IsOpen
  <2>5. ASSUME NEW m \in Counts, NEW l \in Lots, MissedBy(m, l)' > 0
        PROVE  l \in drawn'
    <3>1. CASE m # n
      <4>1. MissedBy(m, l)' = MissedBy(m, l)
        BY <2>3, <3>1 DEF MissedBy, IsCount, Less
      <4>2. QED BY <1>5, <2>5, <4>1 DEF Orderly, Marked
    <3>2. CASE m = n
      <4>1. Less(n)' = Less(n) BY <2>2 DEF Less
      <4>2. l = g /\ Less(n) > 0
        BY <2>2, <2>5, <3>2, <4>1 DEF MissedBy, IsCount
      <4>3. QED BY <1>5, <4>2
    <3>3. QED BY <3>1, <3>2
  <2>6. \A j \in Issues, l \in Lots : Portion(j, l)' = Portion(j, l)
    BY <1>5 DEF Portion
  <2>7. \A j \in Issues : j \in OnShelf' =>
          issue'[j].status # "NONE" /\ issue'[j].out > 0
    BY <1>5, <1>6 DEF Orderly, Marked
  <2>8. drawn \subseteq drawn' BY <1>5
  <2>9. QED BY <2>4, <2>5, <2>6, <2>7, <2>8 DEF Orderly, Marked
<1>11. QED BY <1>8, <1>9, <1>10 DEF Orderly

\* Every step of a roast keeps the lots in order.
LEMMA OrderlyRoasting ==
  ASSUME TypeOK, Orderly, Roasting
  PROVE  Orderly'
<1>1. PICK b \in Roasts :
        \/ \E kg \in 1 .. stock["GREEN"] :
             \E t \in [GreenLots \X Locations -> 0 .. kg],
                preferred \in {{}} \cup {{l} : l \in GreenLots} :
               IsReservation(t, kg, preferred) /\ StartRoast(b, kg, t)
        \/ \E out \in 1 .. roast[b].kg, c \in Locations :
             CompleteRoast(b, out, c)
        \/ AbortRoast(b) \/ ScrapRoast(b) \/ VoidRoast(b)
  BY DEF Roasting
<1>2. ASSUME NEW kg \in 1 .. stock["GREEN"],
             NEW t \in [GreenLots \X Locations -> 0 .. kg], NEW preferred,
             IsReservation(t, kg, preferred), StartRoast(b, kg, t)
      PROVE  Orderly'
  <2>1. kg \in Nat OBVIOUS
  <2>2. t \in Reservations BY <2>1 DEF Reservations
  <2>3. QED BY <1>2, <2>1, <2>2, OrderlyStart
<1>3. ASSUME NEW out \in 1 .. roast[b].kg, NEW c \in Locations,
             CompleteRoast(b, out, c)
      PROVE  Orderly'
  <2>1. out \in Nat OBVIOUS
  <2>2. QED BY <1>3, <2>1, OrderlyComplete
<1>4. QED
  BY <1>1, <1>2, <1>3, OrderlyAbort, OrderlyScrap, OrderlyVoidRoast

\* One call at a time keeps the lots in order.
LEMMA OrderlyNext ==
  ASSUME TypeOK, OneCall, Orderly, [SerialStep]_vars
  PROVE  Orderly'
<1>1. CASE UNCHANGED vars BY <1>1, OrderlyFrame DEF vars
<1>2. ASSUME NEW u \in Users, MayWrite(user[u]),
             \/ WritePlacement(u) \/ WriteHold(u)
             \/ WriteCount(u) \/ GiveUp(u)
      PROVE  Orderly'
  <2>1. CASE WritePlacement(u) BY <1>2, <2>1, OrderlyWritePlacement
  <2>2. CASE WriteHold(u) BY <2>2, OrderlyFrame DEF WriteHold
  <2>3. CASE WriteCount(u) BY <1>2, <2>3, OrderlyWriteCount
  <2>4. CASE GiveUp(u) BY <2>4, OrderlyFrame DEF GiveUp
  <2>5. QED BY <1>2, <2>1, <2>2, <2>3, <2>4
<1>3. CASE Receiving
  <2>1. PICK g \in GreenLots :
          \/ VoidPurchase(g)
          \/ \E kg \in Receipts, c \in Locations, i \in 0 .. Len(shelf) :
               BuyGreenBeans(g, kg, c, i)
    BY <1>3 DEF Receiving
  <2>2. Receipts \subseteq Nat BY BoundsAssumption
  <2>3. QED BY <2>1, <2>2, OrderlyBuy, OrderlyVoidPurchase
<1>4. CASE Adjusting
  BY <1>4, OrderlyFrame DEF Adjusting, AdjustIn, AdjustOut
<1>5. CASE Roasting BY <1>5, OrderlyRoasting
<1>6. CASE Issuing BY <1>6, IssuingCases, OrderlyIssue, OrderlyVoidIssue
<1>7. CASE Counting BY <1>7, OrderlyCounting
<1>8. CASE \E l \in Lots, c \in Locations : RemovePlacement(l, c)
  BY <1>8, OrderlyRemove
<1>9. CASE \E u \in Users, t \in Requests : Read(u, t)
  BY <1>9, OrderlyFrame DEF Read
<1>10. QED
  BY <1>1, <1>2, <1>3, <1>4, <1>5, <1>6, <1>7, <1>8, <1>9, SerialSteps
     DEF Next

\* An empty warehouse is in order.
LEMMA OrderlyInit ==
  ASSUME Init
  PROVE  SInv
<1>1. TypeOK BY TypeInit
<1>2. OneCall BY DEF Init, OneCall, Busy, Idle
<1>3. Covered BY DEF Init, Covered
<1>4. VoidIsGone BY DEF Init, VoidIsGone, IsVoid
<1>5. OnShelf = {} BY DEF Init, OnShelf
<1>6. \A i \in Issues, l \in Lots : Portion(i, l) = 0 BY DEF Init, Portion
<1>7. \A n \in Counts, l \in Lots : MissedBy(n, l) = 0
  BY DEF Init, MissedBy, IsCount, NoCount
<1>8. Marked BY <1>5, <1>6, <1>7 DEF Init, Marked, NoCount
<1>9. QED BY <1>1, <1>2, <1>3, <1>4, <1>8 DEF SInv, Orderly

\* One call at a time, no placement is overdrawn, a void lot is gone, and what
\* was taken or missed has left its mark.
THEOREM SerialInvariant == SerialSpec => []SInv
<1>1. Init => SInv BY OrderlyInit
<1>2. SInv /\ [SerialStep]_vars => SInv'
  <2> SUFFICES ASSUME SInv, [SerialStep]_vars PROVE SInv' OBVIOUS
  <2>1. TypeOK /\ OneCall /\ Orderly BY DEF SInv
  <2>2. [Next]_vars BY <2>1, SerialSteps
  <2>3. TypeOK' BY <2>1, <2>2, TypeStep
  <2>4. OneCall' BY <2>1, NextCall
  <2>5. Orderly' BY <2>1, OrderlyNext
  <2>6. QED BY <2>3, <2>4, <2>5 DEF SInv
<1>3. QED BY <1>1, <1>2, PTL DEF SerialSpec

\* Nothing was received of a void lot, roasted, issued or missed, ...
LEMMA VoidIsFound ==
  ASSUME SInv, LotIsDocuments, NEW l \in Lots, IsVoid(l)
  PROVE  Balance(l) = Found(l)
<1>1. TypeOK /\ Orderly BY DEF SInv
<1>2. Received(l) = 0 BY KindsOfLots DEF Received, IsVoid
<1>3. Roasted(l) = 0 BY KindsOfLots DEF Roasted
<1>4. l \notin drawn BY <1>1 DEF Orderly, VoidIsGone, IsGone
<1> DEFINE p == [i \in Issues |-> Portion(i, l)]
           m == [n \in Counts |-> MissedBy(n, l)]
           f == [n \in Counts |-> FoundBy(n, l)]
<1>5. /\ p \in [Issues -> Nat] /\ m \in [Counts -> Nat]
      /\ f \in [Counts -> Nat]
  BY <1>1, DocumentTypes
<1>6. /\ \A i \in Issues : p[i] = 0
      /\ \A n \in Counts : m[n] = 0
  <2>1. ASSUME NEW i \in Issues PROVE p[i] = 0
    <3>1. ~(Portion(i, l) > 0) BY <1>1, <1>4 DEF Orderly, Marked
    <3>2. Portion(i, l) \in Nat BY <1>1, DocumentTypes
    <3>3. QED BY <3>1, <3>2
  <2>2. ASSUME NEW n \in Counts PROVE m[n] = 0
    <3>1. ~(MissedBy(n, l) > 0) BY <1>1, <1>4 DEF Orderly, Marked
    <3>2. MissedBy(n, l) \in Nat BY <1>1, DocumentTypes
    <3>3. QED BY <3>1, <3>2
  <2>3. QED BY <2>1, <2>2
<1>7. Issued(l) = Total(p) /\ Missed(l) = Total(m) /\ Found(l) = Total(f)
  BY <1>1, SumsOfDocuments
<1> HIDE DEF p, m, f
<1>8. Total(p) = 0 /\ Total(m) = 0 BY <1>5, <1>6, TotalZero
<1>9. Total(f) \in Nat
  <2>1. IsFiniteSet(Counts) BY SetsAssumption
  <2>2. QED BY <1>5, <2>1, TotalType
<1>10. QED BY <1>2, <1>3, <1>7, <1>8, <1>9 DEF LotIsDocuments

\* A void has left nothing behind: its lot lies nowhere, no batch that counts
\* took of it, and its books say what a count had found.
THEOREM VoidAlwaysLeavesNothing == SerialSpec => []VoidLeavesNothing
<1>1. SInv /\ LotIsDocuments => VoidLeavesNothing
  <2> SUFFICES ASSUME SInv, LotIsDocuments, NEW l \in Roasts \cup Issues,
                      (IF l \in Roasts THEN roast[l].status
                                       ELSE issue[l].status) = "VOID"
               PROVE  /\ Balance(l) = Found(l) /\ Placed(l) = 0
                      /\ \A i \in Issues : issue[i].status = "COMPLETED" =>
                           issue[i].alloc[l] = 0
    BY DEF VoidLeavesNothing
  <2>1. l \in Lots /\ IsVoid(l) BY KindsOfLots DEF IsVoid
  <2>2. TypeOK /\ Orderly BY DEF SInv
  <2>3. IsGone(l) BY <2>1, <2>2 DEF Orderly, VoidIsGone
  <2>4. Balance(l) = Found(l) BY <2>1, VoidIsFound
  <2>5. Placed(l) = 0
    <3>1. place \in [Places -> Nat] /\ Placed(l) = Lying(place, l)
      BY <2>1, <2>2, LyingIs DEF Orderly
    <3>2. \A c \in Locations : place[<<l, c>>] = 0 BY <2>3 DEF IsGone
    <3>3. QED BY <2>1, <3>1, <3>2, LyingNone
  <2>6. ASSUME NEW i \in Issues, issue[i].status = "COMPLETED"
        PROVE  issue[i].alloc[l] = 0
    <3>1. Portion(i, l) = issue[i].alloc[l] BY <2>6 DEF Portion
    <3>2. ~(Portion(i, l) > 0)
      BY <2>1, <2>2, <2>3 DEF Orderly, Marked, IsGone
    <3>3. Portion(i, l) \in Nat BY <2>1, <2>2, DocumentTypes
    <3>4. QED BY <3>1, <3>2, <3>3
  <2>7. QED BY <2>4, <2>5, <2>6
<1>2. SerialSpec => []LotIsDocuments
  BY SerialRefinesSpec, LotAlwaysDocuments
<1>3. QED BY <1>1, <1>2, SerialInvariant, PTL

-----------------------------------------------------------------------------
(* What lies somewhere is in the books. *)

\* When no placement is overdrawn, being backed is about what the placements
\* say.
LEMMA BackedIs ==
  TypeOK /\ Covered =>
    \A l \in Lots :
      /\ Lying(place, l) \in Nat /\ wip[l] \in Nat
      /\ ins[l] \in Nat /\ outs[l] \in Nat
      /\ Balance(l) = ins[l] - outs[l]
      /\ IsBacked(l) <=> Lying(place, l) + wip[l] <= ins[l] - outs[l]
<1> SUFFICES ASSUME TypeOK, Covered, NEW l \in Lots
             PROVE  /\ Lying(place, l) \in Nat /\ wip[l] \in Nat
                    /\ ins[l] \in Nat /\ outs[l] \in Nat
                    /\ Balance(l) = ins[l] - outs[l]
                    /\ IsBacked(l) <=>
                         Lying(place, l) + wip[l] <= ins[l] - outs[l]
  OBVIOUS
<1>1. place \in [Places -> Nat] /\ Placed(l) = Lying(place, l) BY LyingIs
<1>2. Lying(place, l) \in Nat BY <1>1, LyingType
<1>3. wip[l] \in Nat /\ ins[l] \in Nat /\ outs[l] \in Nat
  BY DEF TypeOK, Owners
<1>4. QED BY <1>1, <1>2, <1>3 DEF IsBacked, Balance

\* The same of the next state.
LEMMA BackedIsNext ==
  TypeOK' /\ Covered' =>
    \A l \in Lots :
      /\ Lying(place', l) \in Nat /\ wip'[l] \in Nat
      /\ ins'[l] \in Nat /\ outs'[l] \in Nat
      /\ IsBacked(l)' <=> Lying(place', l) + wip'[l] <= ins'[l] - outs'[l]
<1>1. (TypeOK /\ Covered)' =>
        (\A l \in Lots :
           /\ Lying(place, l) \in Nat /\ wip[l] \in Nat
           /\ ins[l] \in Nat /\ outs[l] \in Nat
           /\ Balance(l) = ins[l] - outs[l]
           /\ IsBacked(l) <=> Lying(place, l) + wip[l] <= ins[l] - outs[l])'
  BY BackedIs, PTL
<1>2. \A l : Lying(place, l)' = Lying(place', l) BY DEF Lying, Row
<1>3. QED BY <1>1, <1>2

\* States between which the placements of a lot are compared.
Comparable == TypeOK /\ TypeOK' /\ Covered /\ Covered'

\* What lies there grows by no more than the books do.
LEMMA BackedStep ==
  ASSUME Comparable, NEW l \in Lots, IsBacked(l), NEW d \in Int,
         Lying(place', l) + wip'[l] <= Lying(place, l) + wip[l] + d,
         ins'[l] - outs'[l] >= ins[l] - outs[l] + d
  PROVE  IsBacked(l)'
<1> DEFINE p == Lying(place, l)
           q == Lying(place', l)
           v == wip[l]
           w == wip'[l]
           m == ins[l] - outs[l]
           n == ins'[l] - outs'[l]
<1>1. /\ p \in Nat /\ v \in Nat /\ m \in Int /\ p + v <= m
  BY BackedIs DEF Comparable
<1>2. /\ q \in Nat /\ w \in Nat /\ n \in Int
      /\ IsBacked(l)' <=> q + w <= n
  BY BackedIsNext DEF Comparable
<1>3. q + w <= p + v + d /\ n >= m + d OBVIOUS
<1> HIDE DEF p, q, v, w, m, n
<1>4. q + w <= n BY <1>1, <1>2, <1>3
<1>5. QED BY <1>2, <1>4

\* A step that leaves the places and the books of a lot alone.
LEMMA BackedFrame ==
  ASSUME Comparable, NEW l \in Lots, IsBacked(l),
         \A c \in Locations : place'[<<l, c>>] = place[<<l, c>>],
         wip'[l] = wip[l], ins'[l] = ins[l], outs'[l] = outs[l]
  PROVE  IsBacked(l)'
<1>1. Lying(place', l) = Lying(place, l) BY LyingSame
<1>2. /\ Lying(place, l) \in Nat /\ wip[l] \in Nat
      /\ ins[l] \in Nat /\ outs[l] \in Nat
  BY BackedIs DEF Comparable
<1>3. QED BY <1>1, <1>2, BackedStep

\* A step that sets the placement of one lot in one place.
LEMMA BackedPut ==
  ASSUME Comparable, NEW g \in Lots, NEW c \in Locations, NEW kg \in Nat,
         place' = [place EXCEPT ![<<g, c>>] = kg], NEW l \in Lots
  PROVE  /\ l # g => \A d \in Locations : place'[<<l, d>>] = place[<<l, d>>]
         /\ Lying(place', g) + place[<<g, c>>] = Lying(place, g) + kg
         /\ place[<<g, c>>] \in Nat
<1>1. place \in [Places -> Nat] /\ place' \in [Places -> Nat]
  BY LyingIs, LyingIsNext DEF Comparable
<1>2. <<g, c>> \in Places /\ \A d \in Locations : <<l, d>> \in Places
  BY DEF Places
<1>3. l # g => \A d \in Locations : place'[<<l, d>>] = place[<<l, d>>]
  BY <1>1, <1>2
<1>4. place'[<<g, c>>] = kg BY <1>1, <1>2
<1>5. \A d \in Locations : d # c => place'[<<g, d>>] = place[<<g, d>>]
  BY <1>1 DEF Places
<1>6. Lying(place', g) + place[<<g, c>>] = Lying(place, g) + place'[<<g, c>>]
  BY <1>1, <1>5, LyingPut
<1>7. QED BY <1>1, <1>2, <1>3, <1>4, <1>6

\* Receipts and their voids.
LEMMA BackedReceiving ==
  ASSUME Comparable, Receiving, NEW l \in Lots, IsBacked(l), l \notin used'
  PROVE  IsBacked(l)'
<1>1. PICK g \in GreenLots :
        \/ VoidPurchase(g)
        \/ \E kg \in Receipts, c \in Locations, i \in 0 .. Len(shelf) :
             BuyGreenBeans(g, kg, c, i)
  BY DEF Receiving
<1>2. g \in Lots BY KindsOfLots
<1>3. /\ Lying(place, l) \in Nat /\ wip[l] \in Nat
      /\ ins[l] \in Nat /\ outs[l] \in Nat
  BY BackedIs DEF Comparable
<1>4. CASE VoidPurchase(g)
  <2>1. l # g /\ UNCHANGED <<place, wip, ins>> BY <1>4 DEF VoidPurchase
  <2>2. outs'[l] = outs[l]
    BY <1>4, <2>1 DEF VoidPurchase, Comparable, TypeOK, Owners
  <2>3. QED BY <2>1, <2>2, BackedFrame
<1>5. ASSUME NEW kg \in Receipts, NEW c \in Locations, NEW i,
             BuyGreenBeans(g, kg, c, i)
      PROVE  IsBacked(l)'
  <2>1. kg \in Nat BY BoundsAssumption
  <2>2. /\ place' = [place EXCEPT ![<<g, c>>] = kg]
        /\ UNCHANGED <<wip, outs>> /\ ins' = [ins EXCEPT ![g] = @ + kg]
    BY <1>5 DEF BuyGreenBeans
  <2>3. /\ l # g => \A d \in Locations : place'[<<l, d>>] = place[<<l, d>>]
        /\ Lying(place', g) + place[<<g, c>>] = Lying(place, g) + kg
        /\ place[<<g, c>>] \in Nat
    BY <1>2, <2>1, <2>2, BackedPut
  <2>4. ins'[l] = IF l = g THEN ins[l] + kg ELSE ins[l]
    BY <1>2, <2>2 DEF Comparable, TypeOK, Owners
  <2>5. CASE l # g BY <2>2, <2>3, <2>4, <2>5, BackedFrame
  <2>6. CASE l = g
    <3>1. Lying(place', l) \in Nat BY BackedIsNext DEF Comparable
    <3>2. Lying(place', l) + wip'[l] <= Lying(place, l) + wip[l] + kg
      BY <1>3, <2>1, <2>2, <2>3, <2>6, <3>1
    <3>3. ins'[l] - outs'[l] >= ins[l] - outs[l] + kg
      BY <1>3, <2>1, <2>2, <2>4, <2>6
    <3>4. QED BY <2>1, <3>2, <3>3, BackedStep
  <2>7. QED BY <2>5, <2>6
<1>6. QED BY <1>1, <1>4, <1>5

\* What a roast has taken of a lot, place by place.
LEMMA TakenRow ==
  ASSUME NEW t \in Reservations, NEW l \in GreenLots
  PROVE  /\ Row(t, l, Locations) \in [Locations -> Nat]
         /\ \A c \in Locations : Row(t, l, Locations)[c] = t[<<l, c>>]
<1>1. \A c \in Locations : <<l, c>> \in GreenLots \X Locations OBVIOUS
<1>2. QED BY <1>1 DEF Row, Reservations

\* Charging moves beans from storage to the roaster.
LEMMA BackedStart ==
  ASSUME Comparable, NEW b \in Roasts, NEW kg, NEW t \in Reservations,
         StartRoast(b, kg, t), NEW l \in Lots, IsBacked(l)
  PROVE  IsBacked(l)'
<1>1. /\ UNCHANGED <<ins, outs>>
      /\ place' = [x \in Places |->
                     IF x[1] \in GreenLots THEN place[x] - t[x] ELSE place[x]]
      /\ wip'[l] = IF l \in GreenLots
                   THEN wip[l] + Total(Row(t, l, Locations)) ELSE wip[l]
  BY DEF StartRoast
<1>2. \A c \in Locations : <<l, c>> \in Places BY DEF Places
<1>3. CASE l \notin GreenLots
  BY <1>1, <1>2, <1>3, BackedFrame
<1>4. CASE l \in GreenLots
  <2> DEFINE h == Row(t, l, Locations)
  <2>1. h \in [Locations -> Nat] /\ \A c \in Locations : h[c] = t[<<l, c>>]
    BY <1>4, TakenRow
  <2>2. place \in [Places -> Nat] /\ place' \in [Places -> Nat]
    BY LyingIs, LyingIsNext DEF Comparable
  <2>3. wip'[l] = wip[l] + Total(h) BY <1>1, <1>4
  <2>4. \A c \in Locations : place'[<<l, c>>] = place[<<l, c>>] - h[c]
    BY <1>1, <1>2, <1>4, <2>1
  <2> HIDE DEF h
  <2>5. \A c \in Locations : place[<<l, c>>] = place'[<<l, c>>] + h[c]
    BY <1>2, <2>1, <2>2, <2>4
  <2>6. /\ Lying(place, l) = Lying(place', l) + Total(h)
        /\ Total(h) \in Nat
    BY <2>1, <2>2, <2>5, LyingMore
  <2>7. /\ wip[l] \in Nat /\ ins[l] \in Nat /\ outs[l] \in Nat
        /\ Lying(place', l) \in Nat
    BY BackedIs, BackedIsNext DEF Comparable
  <2>8. Lying(place', l) + wip'[l] <= Lying(place, l) + wip[l] + 0
    BY <2>3, <2>6, <2>7
  <2>9. ins'[l] - outs'[l] >= ins[l] - outs[l] + 0 BY <1>1, <2>7
  <2>10. QED BY <2>8, <2>9, BackedStep
<1>5. QED BY <1>3, <1>4

\* The way back moves them from the roaster to storage.
LEMMA BackedAbort ==
  ASSUME Comparable, NEW b \in Roasts, AbortRoast(b),
         NEW l \in Lots, IsBacked(l)
  PROVE  IsBacked(l)'
<1> DEFINE t == taken[b]
<1>1. /\ UNCHANGED <<ins, outs>>
      /\ place' = [x \in Places |->
                     IF x[1] \in GreenLots THEN place[x] + t[x] ELSE place[x]]
      /\ wip'[l] = wip[l] - TakenOutOf(b, l)
  BY DEF AbortRoast
<1>2. \A c \in Locations : <<l, c>> \in Places BY DEF Places
<1>3. /\ wip[l] \in Nat /\ ins[l] \in Nat /\ outs[l] \in Nat
      /\ Lying(place, l) \in Nat
  BY BackedIs DEF Comparable
<1>4. CASE l \notin GreenLots
  <2>1. wip'[l] = wip[l] BY <1>1, <1>3, <1>4 DEF TakenOutOf
  <2>2. QED BY <1>1, <1>2, <1>4, <2>1, BackedFrame
<1>5. CASE l \in GreenLots
  <2> DEFINE h == Row(t, l, Locations)
  <2>1. t \in Reservations BY DEF Comparable, TypeOK
  <2>2. h \in [Locations -> Nat] /\ \A c \in Locations : h[c] = t[<<l, c>>]
    BY <1>5, <2>1, TakenRow
  <2>3. place \in [Places -> Nat] /\ place' \in [Places -> Nat]
    BY LyingIs, LyingIsNext DEF Comparable
  <2>4. wip'[l] = wip[l] - Total(h)
    BY <1>1, <1>5 DEF TakenOutOf, TakenFrom
  <2>5. \A c \in Locations : place'[<<l, c>>] = place[<<l, c>>] + h[c]
    BY <1>1, <1>2, <1>5, <2>2
  <2> HIDE DEF h
  <2>6. /\ Lying(place', l) = Lying(place, l) + Total(h)
        /\ Total(h) \in Nat
    BY <2>2, <2>3, <2>5, LyingMore
  <2>7. Lying(place', l) + wip'[l] <= Lying(place, l) + wip[l] + 0
    BY <1>3, <2>4, <2>6
  <2>8. ins'[l] - outs'[l] >= ins[l] - outs[l] + 0 BY <1>1, <1>3
  <2>9. QED BY <2>7, <2>8, BackedStep
<1>6. QED BY <1>4, <1>5

\* What a roast uses up leaves the roaster and the books; what comes out of it
\* is put somewhere and booked in.
LEMMA BackedComplete ==
  ASSUME Comparable, NEW b \in Roasts, NEW out \in Nat, NEW c \in Locations,
         CompleteRoast(b, out, c), NEW l \in Lots, IsBacked(l)
  PROVE  IsBacked(l)'
<1>1. /\ place' = [place EXCEPT ![<<b, c>>] = out]
      /\ ins' = [ins EXCEPT ![b] = @ + out] /\ outs' = AddTaken(outs, b)
      /\ wip'[l] = wip[l] - TakenOutOf(b, l)
  BY DEF CompleteRoast, ConsumeCharged
<1>2. b \in Lots /\ b \notin GreenLots BY KindsOfLots
<1>3. /\ wip[l] \in Nat /\ ins[l] \in Nat /\ outs[l] \in Nat
      /\ Lying(place, l) \in Nat
  BY BackedIs DEF Comparable
<1>4. /\ l # b => \A d \in Locations : place'[<<l, d>>] = place[<<l, d>>]
      /\ Lying(place', b) + place[<<b, c>>] = Lying(place, b) + out
      /\ place[<<b, c>>] \in Nat
  BY <1>1, <1>2, BackedPut
<1>5. l # b => Lying(place', l) = Lying(place, l) BY <1>4, LyingSame
<1>6. Lying(place', l) \in Nat BY BackedIsNext DEF Comparable
<1> DEFINE mine == IF l \in GreenLots THEN TakenFrom(b, l) ELSE 0
           more == IF l = b THEN out ELSE 0
<1>7. mine \in Nat /\ more \in Nat
  BY TakenType DEF Comparable
<1>8. wip'[l] = wip[l] - mine BY <1>1 DEF TakenOutOf
<1>9. outs'[l] = outs[l] + mine
  BY <1>1, TakenRows DEF Comparable, TypeOK
<1>10. ins'[l] = ins[l] + more
  BY <1>1, <1>2, <1>3 DEF Comparable, TypeOK, Owners
<1>11. Lying(place', l) <= Lying(place, l) + more
  BY <1>3, <1>4, <1>5, <1>6
<1> HIDE DEF mine, more
<1> DEFINE d == more - mine
<1>12. Lying(place', l) + wip'[l] <= Lying(place, l) + wip[l] + d
  BY <1>3, <1>6, <1>7, <1>8, <1>11
<1>13. ins'[l] - outs'[l] >= ins[l] - outs[l] + d
  BY <1>3, <1>7, <1>9, <1>10
<1>14. d \in Int BY <1>7
<1> HIDE DEF d
<1>15. QED BY <1>12, <1>13, <1>14, BackedStep

\* What is scrapped leaves the roaster and the books.
LEMMA BackedScrap ==
  ASSUME Comparable, NEW b \in Roasts, ScrapRoast(b),
         NEW l \in Lots, IsBacked(l)
  PROVE  IsBacked(l)'
<1>1. /\ UNCHANGED <<place, ins>> /\ outs' = AddTaken(outs, b)
      /\ wip'[l] = wip[l] - TakenOutOf(b, l)
  BY DEF ScrapRoast, ConsumeCharged
<1>2. /\ wip[l] \in Nat /\ ins[l] \in Nat /\ outs[l] \in Nat
      /\ Lying(place, l) \in Nat
  BY BackedIs DEF Comparable
<1> DEFINE mine == IF l \in GreenLots THEN TakenFrom(b, l) ELSE 0
           d == 0 - mine
<1>3. mine \in Nat BY TakenType DEF Comparable
<1>4. wip'[l] = wip[l] - mine BY <1>1 DEF TakenOutOf
<1>5. outs'[l] = outs[l] + mine
  BY <1>1, TakenRows DEF Comparable, TypeOK
<1> HIDE DEF mine
<1>6. Lying(place', l) + wip'[l] <= Lying(place, l) + wip[l] + d
  BY <1>1, <1>2, <1>3, <1>4
<1>7. ins'[l] - outs'[l] >= ins[l] - outs[l] + d
  BY <1>1, <1>2, <1>3, <1>5
<1>8. d \in Int BY <1>3
<1> HIDE DEF d
<1>9. QED BY <1>6, <1>7, <1>8, BackedStep

\* The void of a roast closes its lot and books the green beans back, which
\* lie nowhere yet.
LEMMA BackedVoidRoast ==
  ASSUME Comparable, NEW b \in Roasts, VoidRoast(b),
         NEW l \in Lots, IsBacked(l), l \notin used'
  PROVE  IsBacked(l)'
<1>1. /\ wip' = wip /\ ins' = AddTaken(ins, b) /\ b \in used'
      /\ outs' = [outs EXCEPT ![b] = @ + roast[b].out]
      /\ place' = [x \in Places |-> IF x[1] = b THEN 0 ELSE place[x]]
  BY DEF VoidRoast
<1>2. l # b BY <1>1
<1>3. /\ wip[l] \in Nat /\ ins[l] \in Nat /\ outs[l] \in Nat
      /\ Lying(place, l) \in Nat
  BY BackedIs DEF Comparable
<1> DEFINE mine == IF l \in GreenLots THEN TakenFrom(b, l) ELSE 0
<1>4. mine \in Nat BY TakenType DEF Comparable
<1>5. ins'[l] = ins[l] + mine
  BY <1>1, TakenRows DEF Comparable, TypeOK
<1>6. outs'[l] = outs[l]
  BY <1>1, <1>2 DEF Comparable, TypeOK, Owners
<1>7. Lying(place', l) = Lying(place, l)
  BY <1>1, <1>2, LyingSame DEF Places
<1> HIDE DEF mine
<1>8. Lying(place', l) + wip'[l] <= Lying(place, l) + wip[l] + 0
  BY <1>1, <1>3, <1>7
<1>9. ins'[l] - outs'[l] >= ins[l] - outs[l] + 0
  BY <1>3, <1>4, <1>5, <1>6
<1>10. QED BY <1>8, <1>9, BackedStep

\* An issue takes from the books of a lot what it takes from where it lies,
\* and more only when nothing is left there.
LEMMA BackedIssue ==
  ASSUME Comparable, NEW i \in Issues, NEW p \in Products,
         NEW kg \in Nat, NEW alloc \in [OwnersOf(p) -> Nat],
         NEW draw \in [LotsOf(p) \X Locations -> Nat],
         NEW out \in Nat, NEW c \in Locations,
         IsFefoAllocation(alloc, p, kg), IsDraw(draw, alloc),
         IssueBeans(i, p, kg, alloc, draw, out, c),
         NEW l \in Lots, IsBacked(l), wip[l] = 0
  PROVE  IsBacked(l)'
<1>1. /\ wip' = wip /\ outs' = AddRows(outs, alloc)
      /\ ins' = [ins EXCEPT ![i] = @ + out]
      /\ place' = [x \in Places |->
                     IF x \in DOMAIN draw THEN place[x] - draw[x]
                     ELSE IF x = <<i, c>> THEN out ELSE place[x]]
  BY DEF IssueBeans
<1>2. /\ ins[l] \in Nat /\ outs[l] \in Nat /\ Lying(place, l) \in Nat
      /\ Balance(l) = ins[l] - outs[l]
      /\ Lying(place, l) <= ins[l] - outs[l]
  BY BackedIs DEF Comparable
<1>3. Lying(place', l) \in Nat BY BackedIsNext DEF Comparable
<1>4. place \in [Places -> Nat] /\ place' \in [Places -> Nat]
  BY LyingIs, LyingIsNext DEF Comparable
<1> DEFINE more == IF l = i THEN out ELSE 0
<1>5. ins'[l] = ins[l] + more /\ more \in Nat
  BY <1>1, <1>2, KindsOfLots DEF Comparable, TypeOK, Owners
<1> HIDE DEF more
<1>6. l \in Owners /\ l \notin Products BY SetsAssumption DEF Owners
<1>7. \A d \in Locations : <<l, d>> \in Places BY DEF Places
<1>8. CASE l \in LotsOf(p)
  <2>1. l \in DOMAIN alloc \ {p} /\ l \in DOMAIN alloc \ Products
    BY <1>6, <1>8 DEF OwnersOf
  <2> DEFINE n == alloc[l]
             h == Row(draw, l, Locations)
  <2>2. n \in Nat /\ outs'[l] = outs[l] + n
    BY <1>1, <1>6, <2>1 DEF AddRows
  <2>3. \A d \in Locations : <<l, d>> \in DOMAIN draw BY <1>8
  <2>4. h \in [Locations -> Nat] /\ \A d \in Locations : h[d] = draw[<<l, d>>]
    BY <2>3 DEF Row
  <2>5. \A d \in Locations : place'[<<l, d>>] = place[<<l, d>>] - h[d]
    BY <1>1, <1>7, <2>3, <2>4
  <2>6. Total(h) = IF n < Placed(l) THEN n ELSE Placed(l)
    BY <2>1 DEF IsDraw
  <2>7. Placed(l) = Lying(place, l) BY LyingIs DEF Comparable
  <2>8. n <= Balance(l) \/ n = 0
    <3>1. n <= IF IsUsable(l) THEN Available(l) ELSE 0
      BY <2>1 DEF IsFefoAllocation
    <3>2. Available(l) = Balance(l) BY <1>2 DEF Available
    <3>3. QED BY <1>2, <2>2, <3>1, <3>2
  <2> HIDE DEF n, h
  <2>9. \A d \in Locations : place[<<l, d>>] = place'[<<l, d>>] + h[d]
    BY <1>4, <1>7, <2>4, <2>5
  <2>10. Lying(place, l) = Lying(place', l) + Total(h) /\ Total(h) \in Nat
    BY <1>4, <2>4, <2>9, LyingMore
  <2>11. Lying(place', l) <= ins'[l] - outs'[l]
    BY <1>2, <1>3, <1>5, <2>2, <2>6, <2>7, <2>8, <2>10
  <2>12. Lying(place', l) + wip'[l] <= ins'[l] - outs'[l]
    BY <1>1, <1>3, <2>11
  <2>13. QED BY <2>12, BackedIsNext DEF Comparable
<1>9. CASE l \notin LotsOf(p)
  <2>1. outs'[l] = outs[l]
    <3>1. l \notin DOMAIN alloc BY <1>6, <1>9 DEF OwnersOf
    <3>2. QED BY <1>1, <1>6, <3>1 DEF AddRows
  <2>2. \A d \in Locations : <<l, d>> \notin DOMAIN draw BY <1>9
  <2>3. \A d \in Locations :
          place'[<<l, d>>] = IF l = i /\ d = c THEN out ELSE place[<<l, d>>]
    BY <1>1, <1>7, <2>2
  <2>4. CASE l # i
    <3>1. \A d \in Locations : place'[<<l, d>>] = place[<<l, d>>]
      BY <2>3, <2>4
    <3>2. ins'[l] = ins[l] BY <1>2, <1>5, <2>4 DEF more
    <3>3. wip'[l] = wip[l] BY <1>1
    <3>4. QED BY <2>1, <3>1, <3>2, <3>3, BackedFrame
  <2>5. CASE l = i
    <3>1. Lying(place', l) + place[<<l, c>>] = Lying(place, l) + out
      <4>1. \A d \in Locations : d # c => place'[<<l, d>>] = place[<<l, d>>]
        BY <2>3
      <4>2. place'[<<l, c>>] = out BY <2>3, <2>5
      <4>3. QED BY <1>4, <4>1, <4>2, LyingPut
    <3>2. place[<<l, c>>] \in Nat BY <1>4, <1>7
    <3>3. ins'[l] = ins[l] + out BY <1>5, <2>5 DEF more
    <3>4. Lying(place', l) <= ins'[l] - outs'[l]
      BY <1>2, <1>3, <2>1, <3>1, <3>2, <3>3
    <3>5. Lying(place', l) + wip'[l] <= ins'[l] - outs'[l]
      BY <1>1, <1>3, <3>4
    <3>6. QED BY <3>5, BackedIsNext DEF Comparable
  <2>6. QED BY <2>4, <2>5
<1>10. QED BY <1>8, <1>9

\* The void of an issue closes its lot, if it had one, and books back what the
\* issue took.
LEMMA BackedVoidIssue ==
  ASSUME Comparable, NEW i \in Issues, VoidIssue(i),
         NEW l \in Lots, IsBacked(l), l \notin used'
  PROVE  IsBacked(l)'
<1> DEFINE alloc == issue[i].alloc
           out == issue[i].out
<1>1. /\ wip' = wip /\ ins' = AddRows(ins, alloc)
      /\ outs' = [outs EXCEPT ![i] = @ + out]
      /\ out > 0 => i \in used'
      /\ place' = [x \in Places |-> IF x[1] = i THEN 0 ELSE place[x]]
  BY DEF VoidIssue
<1>2. alloc \in [Owners -> Nat] /\ out \in Nat
  BY DEF Comparable, TypeOK, Issue
<1> HIDE DEF alloc, out
<1>3. /\ wip[l] \in Nat /\ ins[l] \in Nat /\ outs[l] \in Nat
      /\ Lying(place, l) \in Nat
  BY BackedIs DEF Comparable
<1>4. l \in Owners BY DEF Owners
<1>5. ins'[l] = ins[l] + alloc[l] /\ alloc[l] \in Nat
  BY <1>1, <1>2, <1>4 DEF AddRows
<1>6. outs'[l] = outs[l]
  <2>1. l = i => out = 0 BY <1>1, <1>2
  <2>2. outs \in [Owners -> Nat] BY DEF Comparable, TypeOK
  <2>3. QED BY <1>1, <1>2, <1>3, <1>4, <2>1, <2>2
<1>7. Lying(place', l) <= Lying(place, l)
  <2>1. \A c \in Locations : <<l, c>> \in Places BY DEF Places
  <2>2. CASE l # i
    <3>1. \A c \in Locations : place'[<<l, c>>] = place[<<l, c>>]
      BY <1>1, <2>1, <2>2
    <3>2. Lying(place', l) = Lying(place, l) BY <3>1, LyingSame
    <3>3. QED BY <1>3, <3>2
  <2>3. CASE l = i
    <3>1. \A c \in Locations : place'[<<l, c>>] = 0
      BY <1>1, <2>1, <2>3
    <3>2. place' \in [Places -> Nat] BY LyingIsNext DEF Comparable
    <3>3. Lying(place', l) = 0 BY <3>1, <3>2, LyingNone
    <3>4. QED BY <1>3, <3>3
  <2>4. QED BY <2>2, <2>3
<1>8. Lying(place', l) \in Nat BY BackedIsNext DEF Comparable
<1>9. Lying(place', l) + wip'[l] <= Lying(place, l) + wip[l] + 0
  BY <1>1, <1>3, <1>7, <1>8
<1>10. ins'[l] - outs'[l] >= ins[l] - outs[l] + 0
  BY <1>3, <1>5, <1>6
<1>11. QED BY <1>9, <1>10, BackedStep

\* A placement that is removed.
LEMMA BackedRemove ==
  ASSUME Comparable, NEW g \in Lots, NEW c \in Locations,
         RemovePlacement(g, c), NEW l \in Lots, IsBacked(l)
  PROVE  IsBacked(l)'
<1>1. /\ place' = [place EXCEPT ![<<g, c>>] = 0]
      /\ UNCHANGED <<wip, ins, outs>>
  BY DEF RemovePlacement
<1>2. /\ l # g => \A d \in Locations : place'[<<l, d>>] = place[<<l, d>>]
      /\ Lying(place', g) + place[<<g, c>>] = Lying(place, g) + 0
      /\ place[<<g, c>>] \in Nat
  <2> DEFINE none == 0
  <2>1. none \in Nat /\ place' = [place EXCEPT ![<<g, c>>] = none] BY <1>1
  <2> HIDE DEF none
  <2>2. /\ l # g => \A d \in Locations : place'[<<l, d>>] = place[<<l, d>>]
        /\ Lying(place', g) + place[<<g, c>>] = Lying(place, g) + none
        /\ place[<<g, c>>] \in Nat
    BY <2>1, BackedPut
  <2>3. QED BY <2>2 DEF none
<1>3. CASE l # g BY <1>1, <1>2, <1>3, BackedFrame
<1>4. CASE l = g
  <2>1. /\ wip[l] \in Nat /\ ins[l] \in Nat /\ outs[l] \in Nat
        /\ Lying(place, l) \in Nat /\ Lying(place', l) \in Nat
    BY BackedIs, BackedIsNext DEF Comparable
  <2>2. Lying(place', l) + wip'[l] <= Lying(place, l) + wip[l] + 0
    BY <1>1, <1>2, <1>4, <2>1
  <2>3. ins'[l] - outs'[l] >= ins[l] - outs[l] + 0 BY <1>1, <2>1
  <2>4. QED BY <2>2, <2>3, BackedStep
<1>5. QED BY <1>3, <1>4

\* A lot is placed as far as its books go, counting what is placed already
\* and what is in the roaster.
LEMMA BackedPlace ==
  ASSUME Comparable, NEW g \in Lots, NEW c \in Locations, NEW kg \in Nat,
         Fits(g, c, kg), place' = [place EXCEPT ![<<g, c>>] = kg],
         UNCHANGED <<wip, ins, outs>>, NEW l \in Lots, IsBacked(l)
  PROVE  IsBacked(l)'
<1>1. /\ l # g => \A d \in Locations : place'[<<l, d>>] = place[<<l, d>>]
      /\ Lying(place', g) + place[<<g, c>>] = Lying(place, g) + kg
      /\ place[<<g, c>>] \in Nat
  BY BackedPut
<1>2. CASE l # g BY <1>1, <1>2, BackedFrame
<1>3. CASE l = g
  <2>1. /\ wip[l] \in Nat /\ ins[l] \in Nat /\ outs[l] \in Nat
        /\ Lying(place, l) \in Nat /\ Lying(place', l) \in Nat
        /\ Balance(l) = ins[l] - outs[l]
        /\ Lying(place, l) + wip[l] <= ins[l] - outs[l]
    BY BackedIs, BackedIsNext DEF Comparable
  <2>2. Placed(l) = Lying(place, l) /\ Overdrawn(l) = 0
    BY LyingIs DEF Comparable
  <2>3. Available(l) = ins[l] - outs[l] BY <2>1 DEF Available
  <2> DEFINE a == Lying(place, l)
             b == Lying(place', l)
             w == wip[l]
             o == place[<<g, c>>]
             n == ins[l] - outs[l]
  <2>4. a - 0 + w - o + kg <= n
    BY <1>3, <2>2, <2>3 DEF Fits
  <2>5. b + o = a + kg BY <1>1, <1>3
  <2>6. a \in Nat /\ b \in Nat /\ w \in Nat /\ o \in Nat /\ n \in Int
    BY <1>1, <2>1
  <2>7. IsBacked(l)' <=> b + w <= n BY BackedIsNext DEF Comparable
  <2> HIDE DEF a, b, w, o, n
  <2>8. b + w <= n BY <2>4, <2>5, <2>6
  <2>9. QED BY <2>7, <2>8
<1>4. QED BY <1>2, <1>3

\* A transfer leaves as much of every lot as there was.
LEMMA BackedTransfer ==
  ASSUME Comparable, NEW g \in Lots, NEW c \in Locations,
         NEW d \in Locations, c # d, NEW kg \in Nat, kg <= place[<<g, c>>],
         place' = [x \in Places |->
                     place[x] - (IF x = <<g, c>> THEN kg ELSE 0)
                              + (IF x = <<g, d>> THEN kg ELSE 0)],
         UNCHANGED <<wip, ins, outs>>, NEW l \in Lots, IsBacked(l)
  PROVE  IsBacked(l)'
<1> DEFINE y == <<g, c>>
           z == <<g, d>>
           mid == [place EXCEPT ![y] = place[y] - kg]
<1>1. place \in [Places -> Nat] /\ place' \in [Places -> Nat]
  BY LyingIs, LyingIsNext DEF Comparable
<1>2. y \in Places /\ z \in Places /\ y # z BY DEF Places
<1>3. \A e \in Locations : <<l, e>> \in Places BY DEF Places
<1>4. /\ \A e \in Locations : <<l, e>> = y <=> l = g /\ e = c
      /\ \A e \in Locations : <<l, e>> = z <=> l = g /\ e = d
  OBVIOUS
<1>5. place' = [x \in Places |-> place[x] - (IF x = y THEN kg ELSE 0)
                                         + (IF x = z THEN kg ELSE 0)]
  OBVIOUS
<1>6. kg <= place[y] OBVIOUS
<1> HIDE DEF y, z
<1>7. \A x \in Places : /\ x # y /\ x # z => place'[x] = place[x]
                        /\ x = y => place'[x] = place[x] - kg
                        /\ x = z => place'[x] = place[x] + kg
  BY <1>1, <1>2, <1>5
<1>8. CASE l # g
  <2>1. \A e \in Locations : place'[<<l, e>>] = place[<<l, e>>]
    BY <1>3, <1>4, <1>7, <1>8
  <2>2. QED BY <2>1, BackedFrame
<1>9. CASE l = g
  <2>1. mid \in [Places -> Nat] BY <1>1, <1>2, <1>6
  <2>2. /\ mid[y] = place[y] - kg
        /\ \A x \in Places : x # y => mid[x] = place[x]
    BY <1>1, <1>2
  <2> HIDE DEF mid
  <2>3. Lying(mid, l) + place[y] = Lying(place, l) + mid[y]
    <3>1. \A e \in Locations : e # c => mid[<<l, e>>] = place[<<l, e>>]
      BY <1>3, <1>4, <2>2
    <3>2. y = <<l, c>> BY <1>9 DEF y
    <3>3. Lying(mid, l) + place[<<l, c>>] = Lying(place, l) + mid[<<l, c>>]
      BY <1>1, <2>1, <3>1, LyingPut
    <3>4. QED BY <3>2, <3>3
  <2>4. Lying(place', l) + mid[z] = Lying(mid, l) + place'[z]
    <3>1. \A e \in Locations : e # d => place'[<<l, e>>] = mid[<<l, e>>]
      <4>1. ASSUME NEW e \in Locations, e # d
            PROVE  place'[<<l, e>>] = mid[<<l, e>>]
        <5>1. <<l, e>> # z /\ <<l, e>> \in Places BY <1>3, <1>4, <4>1
        <5>2. CASE <<l, e>> = y BY <1>7, <2>2, <5>1, <5>2
        <5>3. CASE <<l, e>> # y BY <1>7, <2>2, <5>1, <5>3
        <5>4. QED BY <5>2, <5>3
      <4>2. QED BY <4>1
    <3>2. z = <<l, d>> BY <1>9 DEF z
    <3>3. Lying(place', l) + mid[<<l, d>>] = Lying(mid, l) + place'[<<l, d>>]
      BY <1>1, <2>1, <3>1, LyingPut
    <3>4. QED BY <3>2, <3>3
  <2>5. mid[z] = place[z] /\ place'[z] = place[z] + kg
    BY <1>2, <1>7, <2>2
  <2>6. /\ Lying(mid, l) \in Nat /\ Lying(place, l) \in Nat
        /\ Lying(place', l) \in Nat /\ place[y] \in Nat /\ place[z] \in Nat
    BY <1>1, <1>2, <2>1, LyingType
  <2>7. Lying(place', l) = Lying(place, l)
    BY <1>6, <2>2, <2>3, <2>4, <2>5, <2>6
  <2>8. wip[l] \in Nat /\ ins[l] \in Nat /\ outs[l] \in Nat
    BY BackedIs DEF Comparable
  <2>9. wip' = wip /\ ins' = ins /\ outs' = outs OBVIOUS
  <2>10. Lying(place', l) + wip'[l] <= Lying(place, l) + wip[l] + 0
    BY <2>6, <2>7, <2>8, <2>9
  <2>11. ins'[l] - outs'[l] >= ins[l] - outs[l] + 0 BY <2>8, <2>9
  <2>12. QED BY <2>10, <2>11, BackedStep
<1>10. QED BY <1>8, <1>9

\* placeLot and transferLot, when what they read is still so.
LEMMA BackedWritePlacement ==
  ASSUME Comparable, NEW u \in Users, MayWrite(user[u]), WritePlacement(u),
         NEW l \in Lots, IsBacked(l)
  PROVE  IsBacked(l)'
<1> DEFINE t == user[u]
<1>1. t \in Task BY DEF Comparable, TypeOK
<1>2. UNCHANGED <<wip, ins, outs>> BY DEF WritePlacement
<1>3. CASE t.do = "place"
  <2>1. /\ t.lot \in Lots /\ t.at \in Locations /\ t.kg \in Nat
    BY <1>1, <1>3 DEF Task, Requests
  <2>2. /\ place' = [place EXCEPT ![<<t.lot, t.at>>] = t.kg]
        /\ Fits(t.lot, t.at, t.kg)
    BY <1>3 DEF WritePlacement, MayWrite
  <2>3. QED BY <1>2, <2>1, <2>2, BackedPlace
<1>4. CASE t.do = "transfer"
  <2>1. /\ t.lot \in Lots /\ t.from \in Locations /\ t.to \in Locations
        /\ t.kg \in Nat
    BY <1>1, <1>4 DEF Task, Requests
  <2>2. t.from # t.to /\ t.kg <= place[<<t.lot, t.from>>]
    BY <1>4 DEF MayWrite
  <2>3. place' = [x \in Places |->
          place[x] - (IF x = <<t.lot, t.from>> THEN t.kg ELSE 0)
                   + (IF x = <<t.lot, t.to>> THEN t.kg ELSE 0)]
    BY <1>4 DEF WritePlacement
  <2>4. QED BY <1>2, <2>1, <2>2, <2>3, BackedTransfer
<1>5. QED BY <1>3, <1>4 DEF WritePlacement

\* A confirmed count changes the books of a lot as it changes what lies there.
LEMMA BackedWriteCount ==
  ASSUME Comparable, NEW u \in Users, MayWrite(user[u]), WriteCount(u),
         NEW l \in Lots, IsBacked(l)
  PROVE  IsBacked(l)'
<1>1. user[u] \in Task BY DEF Comparable, TypeOK
<1>2. PICK n \in Counts : n = user[u].count
  BY <1>1 DEF WriteCount, Task, Requests
<1>3. PICK g \in Lots : g = count[n].lot
  BY <1>2 DEF Comparable, TypeOK, Count
<1>4. PICK c \in Locations : c = count[n].at
  BY <1>2 DEF Comparable, TypeOK, Count
<1>5. PICK kg \in Nat : kg = count[n].counted
  BY <1>2 DEF Comparable, TypeOK, Count
<1> DEFINE more == More(n)
           less == Less(n)
<1>6. /\ wip' = wip
      /\ place' = [place EXCEPT ![<<g, c>>] = kg]
      /\ ins' = [ins EXCEPT ![g] = @ + more]
      /\ outs' = [outs EXCEPT ![g] = @ + less]
  BY <1>2, <1>3, <1>4, <1>5 DEF WriteCount, More, Less
<1>7. /\ l # g => \A d \in Locations : place'[<<l, d>>] = place[<<l, d>>]
      /\ Lying(place', g) + place[<<g, c>>] = Lying(place, g) + kg
      /\ place[<<g, c>>] \in Nat
  BY <1>6, BackedPut
<1>8. count[n].system = place[<<g, c>>]
  BY <1>2, <1>3, <1>4 DEF MayWrite, WriteCount
<1>9. /\ more \in Nat /\ less \in Nat
      /\ more - less = kg - place[<<g, c>>]
  BY <1>5, <1>7, <1>8 DEF More, Less
<1> HIDE DEF more, less
<1>10. /\ wip[l] \in Nat /\ ins[l] \in Nat /\ outs[l] \in Nat
       /\ Lying(place, l) \in Nat /\ Lying(place', l) \in Nat
  BY BackedIs, BackedIsNext DEF Comparable
<1>11. /\ ins'[l] = IF l = g THEN ins[l] + more ELSE ins[l]
       /\ outs'[l] = IF l = g THEN outs[l] + less ELSE outs[l]
  BY <1>6 DEF Comparable, TypeOK, Owners
<1>12. CASE l # g BY <1>6, <1>7, <1>11, <1>12, BackedFrame
<1>13. CASE l = g
  <2> DEFINE d == more - less
  <2>1. Lying(place', l) + wip'[l] <= Lying(place, l) + wip[l] + d
    BY <1>6, <1>7, <1>9, <1>10, <1>13
  <2>2. ins'[l] - outs'[l] >= ins[l] - outs[l] + d
    BY <1>9, <1>10, <1>11, <1>13
  <2>3. d \in Int BY <1>9
  <2> HIDE DEF d
  <2>4. QED BY <2>1, <2>2, <2>3, BackedStep
<1>14. QED BY <1>12, <1>13

\* Roasts.
LEMMA BackedRoasting ==
  ASSUME Comparable, Roasting, NEW l \in Lots, IsBacked(l), l \notin used'
  PROVE  IsBacked(l)'
<1>1. PICK b \in Roasts :
        \/ \E kg \in 1 .. stock["GREEN"] :
             \E t \in [GreenLots \X Locations -> 0 .. kg],
                preferred \in {{}} \cup {{g} : g \in GreenLots} :
               IsReservation(t, kg, preferred) /\ StartRoast(b, kg, t)
        \/ \E out \in 1 .. roast[b].kg, c \in Locations :
             CompleteRoast(b, out, c)
        \/ AbortRoast(b) \/ ScrapRoast(b) \/ VoidRoast(b)
  BY DEF Roasting
<1>2. ASSUME NEW kg \in 1 .. stock["GREEN"],
             NEW t \in [GreenLots \X Locations -> 0 .. kg],
             StartRoast(b, kg, t)
      PROVE  IsBacked(l)'
  <2>1. t \in Reservations BY DEF Reservations
  <2>2. QED BY <1>2, <2>1, BackedStart
<1>3. ASSUME NEW out \in 1 .. roast[b].kg, NEW c \in Locations,
             CompleteRoast(b, out, c)
      PROVE  IsBacked(l)'
  <2>1. out \in Nat OBVIOUS
  <2>2. QED BY <1>3, <2>1, BackedComplete
<1>4. QED BY <1>1, <1>2, <1>3, BackedAbort, BackedScrap, BackedVoidRoast

\* Every step of one call at a time leaves what lies somewhere in the books,
\* but an issue of kilograms that are in the roaster.
LEMMA BackedNext ==
  ASSUME SInv, SInv', [SerialStep]_vars, NEW l \in Lots, IsBacked(l),
         l \notin used'
  PROVE  IsBacked(l)' \/ (issue' # issue /\ wip[l] > 0)
<1>1. TypeOK /\ OneCall /\ Comparable
  BY DEF SInv, Orderly, Comparable
<1>2. CASE UNCHANGED vars BY <1>1, <1>2, BackedFrame DEF vars
<1>3. ASSUME NEW u \in Users, MayWrite(user[u]),
             \/ WritePlacement(u) \/ WriteHold(u)
             \/ WriteCount(u) \/ GiveUp(u)
      PROVE  IsBacked(l)'
  <2>1. CASE WritePlacement(u) BY <1>1, <1>3, <2>1, BackedWritePlacement
  <2>2. CASE WriteHold(u) BY <1>1, <2>2, BackedFrame DEF WriteHold
  <2>3. CASE WriteCount(u) BY <1>1, <1>3, <2>3, BackedWriteCount
  <2>4. CASE GiveUp(u) BY <1>1, <2>4, BackedFrame DEF GiveUp
  <2>5. QED BY <1>3, <2>1, <2>2, <2>3, <2>4
<1>4. CASE Receiving BY <1>1, <1>4, BackedReceiving
<1>5. CASE Adjusting
  <2>1. PICK p \in Corrected, kg \in Kg : AdjustIn(p, kg) \/ AdjustOut(p, kg)
    BY <1>5 DEF Adjusting
  <2>2. l # p BY SetsAssumption, BoundsAssumption
  <2>3. ins'[l] = ins[l] /\ outs'[l] = outs[l]
    BY <1>1, <2>1, <2>2 DEF AdjustIn, AdjustOut, TypeOK, Owners
  <2>4. place' = place /\ wip' = wip BY <2>1 DEF AdjustIn, AdjustOut
  <2>5. QED BY <1>1, <2>3, <2>4, BackedFrame
<1>6. CASE Roasting BY <1>1, <1>6, BackedRoasting
<1>7. CASE Issuing
  <2>1. ASSUME NEW i \in Issues, VoidIssue(i) PROVE IsBacked(l)'
    BY <1>1, <2>1, BackedVoidIssue
  <2>2. ASSUME NEW i \in Issues, NEW p \in Products,
               NEW kg \in Nat, NEW alloc \in [OwnersOf(p) -> Nat],
               NEW draw \in [LotsOf(p) \X Locations -> Nat],
               NEW out \in Nat, NEW c \in Locations,
               IsFefoAllocation(alloc, p, kg), IsDraw(draw, alloc),
               IssueBeans(i, p, kg, alloc, draw, out, c)
        PROVE  IsBacked(l)' \/ (issue' # issue /\ wip[l] > 0)
    <3>1. wip[l] \in Nat BY <1>1 DEF TypeOK
    <3>2. issue' # issue
      <4>1. /\ issue[i].status = "NONE"
            /\ issue' = [issue EXCEPT ![i] =
                 [status |-> "COMPLETED", product |-> p, out |-> out,
                  alloc |-> AddRows(Nothing, alloc)]]
        BY <2>2 DEF IssueBeans
      <4>2. issue'[i].status = "COMPLETED" BY <1>1, <4>1 DEF TypeOK
      <4>3. QED BY <4>1, <4>2
    <3>3. CASE wip[l] = 0 BY <1>1, <2>2, <3>3, BackedIssue
    <3>4. QED BY <3>1, <3>2, <3>3
  <2>3. QED BY <1>7, <2>1, <2>2, IssuingCases
<1>8. CASE Counting
  BY <1>1, <1>8, BackedFrame DEF Counting, CancelCount, DraftCount
<1>9. CASE \E g \in Lots, c \in Locations : RemovePlacement(g, c)
  BY <1>1, <1>9, BackedRemove
<1>10. CASE \E u \in Users, t \in Requests : Read(u, t)
  BY <1>1, <1>10, BackedFrame DEF Read
<1>11. QED
  BY <1>1, <1>2, <1>3, <1>4, <1>5, <1>6, <1>7, <1>8, <1>9, <1>10, SerialSteps
     DEF Next

\* One call at a time, a step leaves the placements of a lot covered by its
\* books, unless it issues kilograms that are in the roaster or closes the lot.
THEOREM PlacedAlwaysStaysBacked == SerialSpec => PlacedStaysBacked
<1>1. SInv /\ SInv' /\ [SerialStep]_vars =>
        [\A l \in Lots : IsBacked(l) /\ l \notin used' =>
           IsBacked(l)' \/ (issue' # issue /\ wip[l] > 0)]_vars
  BY BackedNext
<1>2. QED BY <1>1, SerialInvariant, PTL DEF SerialSpec, PlacedStaysBacked

=============================================================================
