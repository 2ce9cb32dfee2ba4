----------------------------- MODULE Warehouse -----------------------------
(***************************************************************************)
(* Coffee in the warehouse: lots and where they lie, roasts that charge    *)
(* green beans and bring roasted ones, grinding and production that take   *)
(* beans first expired first out, counts, corrections and voids.           *)
(*                                                                         *)
(* Receipts, roasts, grinding, production, corrections and voids are       *)
(* Serializable transactions: one action each.  placeLot, transferLot,     *)
(* confirmLocationOpname and setLotQcStatus read and write at              *)
(* READ COMMITTED or without a transaction: Read... is what they look at,  *)
(* Write what they do then.                                                *)
(*                                                                         *)
(* Data: one green bean, one roasted bean and one ground coffee; kilograms *)
(* are whole numbers; every lot was booked in, and purchase r.. of green   *)
(* beans is lot r...  Costs and journals are left out.                     *)
(***************************************************************************)
EXTENDS Quantity, Integers, Sequences

CONSTANTS
  GreenLots,  \* lots of green beans that may be bought
  Roasts,     \* parentRoastingBatch ids
  Issues,     \* grindingBatch and productionBatch ids
  Counts,     \* locationOpname ids
  Users,      \* callers of the READ COMMITTED handlers
  Locations,  \* storage locations that are not system locations
  Receipts,   \* kilograms of a purchase
  MaxKg,      \* bound: kilograms of a placement, a count or a correction
  Corrected,  \* the products whose stock is corrected by hand
  MaxAdjusted \* bound: kilograms of such corrections, in or out

\* What a ledger row may be about: a lot, or a product and no lot.
Products == {"GREEN", "ROASTED", "GROUND"}
Lots == GreenLots \cup Roasts \cup Issues  \* an output lot has its batch's id
Owners == Lots \cup Products
Places == Lots \X Locations

ASSUME SetsAssumption ==
  /\ \A S \in {GreenLots, Roasts, Issues, Counts, Users, Locations} :
       IsFiniteSet(S)
  /\ GreenLots # {} /\ Locations # {}
  /\ GreenLots \cap Roasts = {} /\ (GreenLots \cup Roasts) \cap Issues = {}
  /\ Lots \cap Products = {}
ASSUME BoundsAssumption ==
  /\ Corrected \subseteq Products
  /\ Receipts \subseteq Nat /\ MaxKg \in Nat /\ MaxAdjusted \in Nat

VARIABLES
  stock,    \* products.stockKg, the cached stock
  ins,      \* inventory_ledger rows IN, summed by what they are about
  outs,     \* inventory_ledger rows OUT
  drawn,    \* the lots with an OUT row that reverses nothing
  shelf,    \* the lots there are, by expiry date, then by arrival
  used,     \* lots with consumedAt
  held,     \* lots with qcStatus HOLD
  place,    \* lot_placements in storage locations
  wip,      \* lot_placements in ROASTING-WIP
  bought,   \* purchases by lot
  roast,    \* parent_roasting_batches
  taken,    \* roast_material_reservations
  issue,    \* grinding and production batches
  count,    \* location_opnames
  user      \* what a READ COMMITTED handler has read

vars == <<stock, ins, outs, drawn, shelf, used, held, place, wip, bought,
          roast, taken, issue, count, user>>
-----------------------------------------------------------------------------
ProductOf(x) ==
  IF x \in Products THEN x
  ELSE IF x \in GreenLots THEN "GREEN"
  ELSE IF x \in Roasts THEN "ROASTED" ELSE "GROUND"
LotsOf(p) == {l \in Lots : ProductOf(l) = p}
OwnersOf(p) == LotsOf(p) \cup {p}
Kg == 1 .. MaxKg
AtLeast0(n) == IF n < 0 THEN 0 ELSE n

Purchase == [status: {"NONE", "COMPLETED", "VOID"}, kg: Nat]
\* status and lifecycleStatus; ABORTED is recoverable, SCRAPPED is not.
Roast == [status: {"NONE", "CHARGED", "COMPLETED", "VOID", "ABORTED",
                   "SCRAPPED"}, kg: Nat, out: Nat]
Reservations == [GreenLots \X Locations -> Nat]
Issue == [status: {"NONE", "COMPLETED", "VOID"}, product: Products,
          alloc: [Owners -> Nat], out: Nat]
Count == [status: {"NONE", "DRAFT", "CONFIRMED", "CANCELLED"}, lot: Lots,
          at: Locations, system: Int, counted: Nat]
Requests ==
  [do: {"place"}, lot: Lots, at: Locations, kg: Kg]
    \cup [do: {"transfer"}, lot: Lots, from: Locations, to: Locations, kg: Kg]
    \cup [do: {"confirm"}, count: Counts]
    \cup [do: {"hold"}, lot: Lots, held: BOOLEAN]
Task == [do: {"idle"}] \cup Requests

Idle == [do |-> "idle"]
Nothing == [x \in Owners |-> 0]
NoReservations == [x \in GreenLots \X Locations |-> 0]
NoCount == [status |-> "NONE", lot |-> CHOOSE l \in Lots : TRUE,
            at |-> CHOOSE c \in Locations : TRUE, system |-> 0, counted |-> 0]

Init ==
  /\ stock = [p \in Products |-> 0]
  /\ ins = Nothing /\ outs = Nothing
  /\ drawn = {} /\ shelf = << >> /\ used = {} /\ held = {}
  /\ place = [x \in Places |-> 0]
  /\ wip = [l \in Lots |-> 0]
  /\ bought = [l \in GreenLots |-> [status |-> "NONE", kg |-> 0]]
  /\ roast = [b \in Roasts |-> [status |-> "NONE", kg |-> 0, out |-> 0]]
  /\ taken = [b \in Roasts |-> NoReservations]
  /\ issue = [i \in Issues |-> [status |-> "NONE", product |-> "ROASTED",
                                alloc |-> Nothing, out |-> 0]]
  /\ count = [n \in Counts |-> NoCount]
  /\ user = [u \in Users |-> Idle]
-----------------------------------------------------------------------------
(* What there is. *)

OnShelf == {shelf[i] : i \in DOMAIN shelf}
Before(l, m) ==
  \E i, j \in DOMAIN shelf : i < j /\ shelf[i] = l /\ shelf[j] = m

\* remainingFromLedger, before it is cut off at 0.
Balance(l) == ins[l] - outs[l]
PlacedAt(l, c) == AtLeast0(place[<<l, c>>])
Placed(l) == Total([c \in Locations |-> PlacedAt(l, c)])
Overdrawn(l) == Total([c \in Locations |-> AtLeast0(0 - place[<<l, c>>])])

\* The kilograms of lot l that roast b has charged.
TakenFrom(b, l) == Total(Row(taken[b], l, Locations))
Charged(l) ==
  Total([b \in Roasts |->
           IF roast[b].status = "CHARGED" THEN TakenFrom(b, l) ELSE 0])

\* committedKg of appendLedger, for a row that is about a batch of its own.
Committed(p, own) ==
  IF p # "GREEN" THEN 0
  ELSE Total([b \in Roasts |->
                IF roast[b].status = "CHARGED" /\ b \notin own
                THEN Total(taken[b]) ELSE 0])

\* The guard of appendLedger OUT for a row with a tenantId.
MutantMayIssue(p, kg, own) == TRUE
MayIssue(p, kg, own) == stock[p] >= kg + Committed(p, own)

\* A lot that roasts and FEFO look at.
IsUsable(l) == l \in OnShelf /\ l \notin used /\ l \notin held
-----------------------------------------------------------------------------
(* Receipts and corrections. *)

\* createGreenBeanPurchase: a lot, its placement and its IN row.  Its expiry
\* date may put it anywhere on the shelf.
BuyGreenBeans(l, kg, c, i) ==
  /\ bought[l].status = "NONE"
  /\ bought' = [bought EXCEPT ![l] = [status |-> "COMPLETED", kg |-> kg]]
  /\ shelf' = SubSeq(shelf, 1, i) \o <<l>> \o SubSeq(shelf, i + 1, Len(shelf))
  /\ place' = [place EXCEPT ![<<l, c>>] = kg]
  /\ ins' = [ins EXCEPT ![l] = @ + kg]
  /\ stock' = [stock EXCEPT !["GREEN"] = @ + kg]
  /\ UNCHANGED <<outs, drawn, used, held, wip, roast, taken, issue, count,
                 user>>

\* voidPurchaseCore: refused once the lot was drawn from; the placements stay.
MutantMayVoidLot(l) == TRUE
MayVoidLot(l) == l \notin drawn

VoidPurchase(l) ==
  LET kg == bought[l].kg
  IN  /\ bought[l].status = "COMPLETED"
      /\ MayVoidLot(l) /\ MayIssue("GREEN", kg, {})
      /\ bought' = [bought EXCEPT ![l].status = "VOID"]
      /\ outs' = [outs EXCEPT ![l] = @ + kg]
      /\ stock' = [stock EXCEPT !["GREEN"] = @ - kg]
      /\ used' = used \cup {l}
      /\ UNCHANGED <<ins, drawn, shelf, held, place, wip, roast, taken, issue,
                     count, user>>

\* adjustStock: a row without a lot, and without the tenantId that makes
\* appendLedger look at what roasts have committed.
AdjustIn(p, kg) ==
  /\ ins[p] + kg <= MaxAdjusted
  /\ ins' = [ins EXCEPT ![p] = @ + kg]
  /\ stock' = [stock EXCEPT ![p] = @ + kg]
  /\ UNCHANGED <<outs, drawn, shelf, used, held, place, wip, bought, roast,
                 taken, issue, count, user>>

AdjustOut(p, kg) ==
  /\ stock[p] >= kg
  /\ outs[p] + kg <= MaxAdjusted
  /\ outs' = [outs EXCEPT ![p] = @ + kg]
  /\ stock' = [stock EXCEPT ![p] = @ - kg]
  /\ UNCHANGED <<ins, drawn, shelf, used, held, place, wip, bought, roast,
                 taken, issue, count, user>>
-----------------------------------------------------------------------------
(* Roasts. *)

Eligible(l, c) == IF IsUsable(l) THEN PlacedAt(l, c) ELSE 0

\* Of what is taken from the placements of one lot, one at most is not all
\* that was there.
EmptiedInTurn(t, there(_, _)) ==
  \A x, y \in DOMAIN t :
    x[1] = y[1] /\ x # y /\ t[x] > 0 /\ t[y] > 0 =>
      t[x] = there(x[1], x[2]) \/ t[y] = there(y[1], y[2])

\* reserveRoastMaterialsInTx: a preferred lot first, then first expired first
\* out; the placements of one lot are emptied one after the other.
IsReservation(t, kg, preferred) ==
  LET comes(l, m) == IF (l \in preferred) # (m \in preferred)
                     THEN l \in preferred ELSE Before(l, m)
  IN  /\ \A x \in DOMAIN t : t[x] <= Eligible(x[1], x[2])
      /\ Total(t) = kg
      /\ \A x, y \in DOMAIN t :
           t[y] > 0 /\ comes(x[1], y[1]) => t[x] = Eligible(x[1], x[2])
      /\ EmptiedInTurn(t, Eligible)

\* createParentRoastingBatch and createStudioRoastingBatch: create, reserve
\* and charge in one transaction, with the batch left to be completed.
StartRoast(b, kg, t) ==
  /\ roast[b].status = "NONE"
  /\ stock["GREEN"] >= kg
  /\ roast' = [roast EXCEPT ![b].status = "CHARGED", ![b].kg = kg]
  /\ taken' = [taken EXCEPT ![b] = t]
  /\ place' = [x \in Places |->
                 IF x[1] \in GreenLots THEN place[x] - t[x] ELSE place[x]]
  /\ wip' = [l \in Lots |->
               IF l \in GreenLots
               THEN wip[l] + Total(Row(t, l, Locations))
               ELSE wip[l]]
  /\ UNCHANGED <<stock, ins, outs, drawn, shelf, used, held, bought, issue,
                 count, user>>

\* Rows for what roast b took, lot by lot, added to the rows q.
MutantAddTaken(q, b) == [q EXCEPT !["GREEN"] = @ + Total(taken[b])]
AddTaken(q, b) ==
  [x \in Owners |-> IF x \in GreenLots THEN q[x] + TakenFrom(b, x) ELSE q[x]]

\* consumeChargedReservationInTx for all reservations of a roast.
MutantTakenOutOf(b, l) == 0
TakenOutOf(b, l) == IF l \in GreenLots THEN TakenFrom(b, l) ELSE 0
ConsumeCharged(b) ==
  /\ \A l \in GreenLots : TakenFrom(b, l) <= wip[l]
  /\ MayIssue("GREEN", Total(taken[b]), {b})
  /\ wip' = [l \in Lots |-> wip[l] - TakenOutOf(b, l)]
  /\ drawn' = drawn \cup {l \in GreenLots : TakenFrom(b, l) > 0}

\* completeRoastInTx: the beans are used up, the output lot comes in.  Lots of
\* a batch carry no expiry date and go to the end of the shelf.
CompleteRoast(b, out, c) ==
  /\ roast[b].status = "CHARGED"
  /\ out < roast[b].kg
  /\ ConsumeCharged(b)
  /\ roast' = [roast EXCEPT ![b].status = "COMPLETED", ![b].out = out]
  /\ outs' = AddTaken(outs, b)
  /\ ins' = [ins EXCEPT ![b] = @ + out]
  /\ stock' = [stock EXCEPT !["GREEN"] = @ - Total(taken[b]),
                            !["ROASTED"] = @ + out]
  /\ shelf' = Append(shelf, b)
  /\ place' = [place EXCEPT ![<<b, c>>] = out]
  /\ UNCHANGED <<used, held, bought, taken, issue, count, user>>

\* abortRoastInTx RECOVERABLE, also by voidParentRoastingBatch: the beans go
\* back to where they lay.
AbortRoast(b) ==
  /\ roast[b].status = "CHARGED"
  /\ \A l \in GreenLots : TakenFrom(b, l) <= wip[l]
  /\ roast' = [roast EXCEPT ![b].status = "ABORTED"]
  /\ wip' = [l \in Lots |-> wip[l] - TakenOutOf(b, l)]
  /\ place' = [x \in Places |->
                 IF x[1] \in GreenLots THEN place[x] + taken[b][x]
                                       ELSE place[x]]
  /\ UNCHANGED <<stock, ins, outs, drawn, shelf, used, held, bought, taken,
                 issue, count, user>>

\* abortRoastInTx SCRAP: the beans are lost.
ScrapRoast(b) ==
  /\ roast[b].status = "CHARGED"
  /\ ConsumeCharged(b)
  /\ roast' = [roast EXCEPT ![b].status = "SCRAPPED"]
  /\ outs' = AddTaken(outs, b)
  /\ stock' = [stock EXCEPT !["GREEN"] = @ - Total(taken[b])]
  /\ UNCHANGED <<ins, shelf, used, held, place, bought, taken, issue, count,
                 user>>

\* voidParentRoastingBatch of a completed roast: rows are mirrored, the green
\* lots come to life without a placement, the output lot is gone.
VoidRoast(b) ==
  LET out == roast[b].out
  IN  /\ roast[b].status = "COMPLETED"
      /\ MayVoidLot(b) /\ MayIssue("ROASTED", out, {b})
      /\ roast' = [roast EXCEPT ![b].status = "VOID"]
      /\ ins' = AddTaken(ins, b)
      /\ outs' = [outs EXCEPT ![b] = @ + out]
      /\ stock' = [stock EXCEPT !["GREEN"] = @ + Total(taken[b]),
                                !["ROASTED"] = @ - out]
      /\ used' = {b} \cup (used \ {l \in GreenLots : TakenFrom(b, l) > 0})
      /\ place' = [x \in Places |-> IF x[1] = b THEN 0 ELSE place[x]]
      /\ UNCHANGED <<drawn, shelf, held, wip, bought, taken, issue, count,
                     user>>
-----------------------------------------------------------------------------
(* Grinding and production. *)

\* What FEFO finds in a lot, the kilograms in the roaster included; a row
\* without a lot takes whatever is left.
Available(x) == AtLeast0(Balance(x))

\* appendFefoLedgerOut over the lots of product p.
ComesFirst(x, y) == y \in Products \/ Before(x, y)
IsFefoAllocation(alloc, p, kg) ==
  /\ \A x \in DOMAIN alloc \ {p} :
       alloc[x] <= IF IsUsable(x) THEN Available(x) ELSE 0
  /\ Total(alloc) = kg
  /\ \A x \in DOMAIN alloc \ {p}, y \in DOMAIN alloc :
       alloc[y] > 0 /\ IsUsable(x) /\ ComesFirst(x, y) =>
         alloc[x] = Available(x)

\* consumeLotPlacements: what lies in storage locations goes, one placement
\* after the other; what is not placed, or lies in ROASTING-WIP, does not.
IsDraw(draw, alloc) ==
  /\ \A l \in DOMAIN alloc \ Products :
       Total(Row(draw, l, Locations)) =
         IF alloc[l] < Placed(l) THEN alloc[l] ELSE Placed(l)
  /\ \A x \in DOMAIN draw : draw[x] <= PlacedAt(x[1], x[2])
  /\ EmptiedInTurn(draw, PlacedAt)

\* Its rows: one per lot, and one without a lot for the rest.
MutantAddRows(q, alloc) ==
  [x \in Owners |-> IF x \in DOMAIN alloc \ Products THEN q[x] + alloc[x]
                                                   ELSE q[x]]
AddRows(q, alloc) ==
  [x \in Owners |-> IF x \in DOMAIN alloc THEN q[x] + alloc[x] ELSE q[x]]

\* createGrindingBatch (out > 0, a lot of ground coffee comes in) and
\* createProductionBatch (out = 0, its output is counted in units).
IssueBeans(i, p, kg, alloc, draw, out, c) ==
  /\ issue[i].status = "NONE"
  /\ MayIssue(p, kg, {})
  /\ issue' = [issue EXCEPT ![i] =
       [status |-> "COMPLETED", product |-> p, out |-> out,
        alloc |-> AddRows(Nothing, alloc)]]
  /\ outs' = AddRows(outs, alloc)
  /\ drawn' = drawn \cup {l \in DOMAIN alloc \ {p} : alloc[l] > 0}
  /\ used' = used \cup {l \in DOMAIN alloc \ {p} :
                          alloc[l] > 0 /\ alloc[l] = Available(l)}
  /\ stock' = [q \in Products |-> stock[q] - (IF q = p THEN kg ELSE 0)
                                 + (IF q = "GROUND" THEN out ELSE 0)]
  /\ ins' = [ins EXCEPT ![i] = @ + out]
  /\ shelf' = IF out > 0 THEN Append(shelf, i) ELSE shelf
  /\ place' = [x \in Places |->
                 IF x \in DOMAIN draw THEN place[x] - draw[x]
                 ELSE IF x = <<i, c>> THEN out ELSE place[x]]
  /\ UNCHANGED <<held, wip, bought, roast, taken, count, user>>

\* voidGrindingBatch and voidProductionBatch.
VoidIssue(i) ==
  LET p == issue[i].product
      alloc == issue[i].alloc
      out == issue[i].out
  IN  /\ issue[i].status = "COMPLETED"
      /\ MayVoidLot(i)
      /\ stock["GROUND"] >= out
      /\ issue' = [issue EXCEPT ![i].status = "VOID"]
      /\ ins' = AddRows(ins, alloc)
      /\ outs' = [outs EXCEPT ![i] = @ + out]
      /\ stock' = [q \in Products |->
                     stock[q] + (IF q = p THEN Total(alloc) ELSE 0)
                              - (IF q = "GROUND" THEN out ELSE 0)]
      /\ used' = (IF out > 0 THEN {i} ELSE {})
                   \cup (used \ {l \in Lots : alloc[l] > 0})
      /\ place' = [x \in Places |-> IF x[1] = i THEN 0 ELSE place[x]]
      /\ UNCHANGED <<drawn, shelf, held, wip, bought, roast, taken, count,
                     user>>
-----------------------------------------------------------------------------
(* Placements, transfers, counts and quality control. *)

\* createLocationOpname: a draft with what the system thinks.
DraftCount(n, l, c, counted) ==
  /\ count[n].status = "NONE" /\ l \in OnShelf /\ l \notin used
  /\ count' = [count EXCEPT ![n] =
       [status |-> "DRAFT", lot |-> l, at |-> c, system |-> place[<<l, c>>],
        counted |-> counted]]
  /\ UNCHANGED <<stock, ins, outs, drawn, shelf, used, held, place, wip,
                 bought, roast, taken, issue, user>>

CancelCount(n) ==
  /\ count[n].status = "DRAFT"
  /\ count' = [count EXCEPT ![n].status = "CANCELLED"]
  /\ UNCHANGED <<stock, ins, outs, drawn, shelf, used, held, place, wip,
                 bought, roast, taken, issue, user>>

\* removePlacement.
RemovePlacement(l, c) ==
  /\ place[<<l, c>>] # 0
  /\ place' = [place EXCEPT ![<<l, c>>] = 0]
  /\ UNCHANGED <<stock, ins, outs, drawn, shelf, used, held, wip, bought,
                 roast, taken, issue, count, user>>

\* What the handlers check before they write.
MutantFits(l, c, kg) == kg <= Available(l)
Fits(l, c, kg) ==
  Placed(l) - Overdrawn(l) + wip[l] - place[<<l, c>>] + kg <= Available(l)
MayWrite(t) ==
  \/ /\ t.do = "place" /\ t.lot \in OnShelf /\ t.lot \notin used
     /\ Fits(t.lot, t.at, t.kg)
  \/ /\ t.do = "transfer" /\ t.lot \in OnShelf /\ t.lot \notin used
     /\ t.from # t.to /\ t.kg <= place[<<t.lot, t.from>>]
  \/ /\ t.do = "confirm" /\ count[t.count].status = "DRAFT"
     /\ count[t.count].lot \notin used
     /\ count[t.count].system =
          place[<<count[t.count].lot, count[t.count].at>>]
  \/ t.do = "hold" /\ t.lot \in OnShelf /\ t.lot \notin used

Read(u, t) ==
  /\ user[u].do = "idle" /\ MayWrite(t)
  /\ user' = [user EXCEPT ![u] = t]
  /\ UNCHANGED <<stock, ins, outs, drawn, shelf, used, held, place, wip,
                 bought, roast, taken, issue, count>>

\* placeLot sets the quantity, transferLot moves it.
WritePlacement(u) ==
  LET t == user[u]
  IN  /\ \/ /\ t.do = "place"
            /\ place' = [place EXCEPT ![<<t.lot, t.at>>] = t.kg]
         \/ /\ t.do = "transfer"
            /\ place' = [x \in Places |->
                 place[x] - (IF x = <<t.lot, t.from>> THEN t.kg ELSE 0)
                          + (IF x = <<t.lot, t.to>> THEN t.kg ELSE 0)]
      /\ user' = [user EXCEPT ![u] = Idle]
      /\ UNCHANGED <<stock, ins, outs, drawn, shelf, used, held, wip, bought,
                     roast, taken, issue, count>>

WriteHold(u) ==
  LET t == user[u]
  IN  /\ t.do = "hold"
      /\ held' = IF t.held THEN held \cup {t.lot} ELSE held \ {t.lot}
      /\ user' = [user EXCEPT ![u] = Idle]
      /\ UNCHANGED <<stock, ins, outs, drawn, shelf, used, place, wip, bought,
                     roast, taken, issue, count>>

\* confirmLocationOpname: the placement becomes what was counted, a row for
\* the difference, and the draft is claimed at the end.
WriteCount(u) ==
  LET n == user[u].count
      l == count[n].lot
      p == ProductOf(l)
      more == AtLeast0(count[n].counted - count[n].system)
      less == AtLeast0(count[n].system - count[n].counted)
  IN  /\ user[u].do = "confirm"
      /\ count[n].status = "DRAFT"
      /\ less > 0 => MayIssue(p, less, {})
      /\ place' = [place EXCEPT ![<<l, count[n].at>>] = count[n].counted]
      /\ ins' = [ins EXCEPT ![l] = @ + more]
      /\ outs' = [outs EXCEPT ![l] = @ + less]
      /\ drawn' = IF less > 0 THEN drawn \cup {l} ELSE drawn
      /\ stock' = [stock EXCEPT ![p] = @ + more - less]
      /\ count' = [count EXCEPT ![n].status = "CONFIRMED"]
      /\ user' = [user EXCEPT ![u] = Idle]
      /\ UNCHANGED <<shelf, used, held, wip, bought, roast, taken, issue>>

\* A call rolls back: a row it needs is gone, the stock does not allow it, or
\* the connection is lost.
GiveUp(u) ==
  /\ user[u].do # "idle"
  /\ user' = [user EXCEPT ![u] = Idle]
  /\ UNCHANGED <<stock, ins, outs, drawn, shelf, used, held, place, wip,
                 bought, roast, taken, issue, count>>
-----------------------------------------------------------------------------
Receiving ==
  \E l \in GreenLots :
    \/ VoidPurchase(l)
    \/ \E kg \in Receipts, c \in Locations, i \in 0 .. Len(shelf) :
         BuyGreenBeans(l, kg, c, i)

Adjusting ==
  \E p \in Corrected, kg \in Kg : AdjustIn(p, kg) \/ AdjustOut(p, kg)

Roasting ==
  \E b \in Roasts :
    \/ \E kg \in 1 .. stock["GREEN"] :
         \E t \in [GreenLots \X Locations -> 0 .. kg],
            preferred \in {{}} \cup {{l} : l \in GreenLots} :
           IsReservation(t, kg, preferred) /\ StartRoast(b, kg, t)
    \/ \E out \in 1 .. roast[b].kg, c \in Locations : CompleteRoast(b, out, c)
    \/ AbortRoast(b) \/ ScrapRoast(b) \/ VoidRoast(b)

Issuing ==
  \E i \in Issues :
    \/ VoidIssue(i)
    \/ \E p \in Products : \E kg \in 1 .. stock[p] :
         \E alloc \in [OwnersOf(p) -> 0 .. kg] :
           /\ IsFefoAllocation(alloc, p, kg)
           /\ \E draw \in [LotsOf(p) \X Locations -> 0 .. kg],
                 out \in 0 .. kg - 1, c \in Locations :
                /\ IsDraw(draw, alloc)
                /\ out > 0 => p = "ROASTED"
                /\ IssueBeans(i, p, kg, alloc, draw, out, c)

Counting ==
  \E n \in Counts :
    \/ CancelCount(n)
    \/ \E l \in Lots, c \in Locations, counted \in 0 .. MaxKg :
         DraftCount(n, l, c, counted)

Writing == \E u \in Users :
  WritePlacement(u) \/ WriteHold(u) \/ WriteCount(u) \/ GiveUp(u)

Next ==
  \/ Receiving \/ Adjusting \/ Roasting \/ Issuing \/ Counting \/ Writing
  \/ \E l \in Lots, c \in Locations : RemovePlacement(l, c)
  \/ \E u \in Users, t \in Requests : Read(u, t)

Spec == Init /\ [][Next]_vars

\* One call at a time.
Quiet == \A u \in Users : user[u].do = "idle"
SerialStep == Writing \/ (Quiet /\ Next)
SerialSpec == Init /\ [][SerialStep]_vars
-----------------------------------------------------------------------------
(* Properties. *)

\* Types; the cached stock, what lies in the roaster and what is written in
\* documents is never negative.
TypeOK ==
  /\ stock \in [Products -> Nat]
  /\ ins \in [Owners -> Nat] /\ outs \in [Owners -> Nat]
  /\ drawn \subseteq Lots /\ used \subseteq Lots /\ held \subseteq Lots
  /\ shelf \in Seq(Lots)
  /\ place \in [Places -> Int]
  /\ wip \in [Lots -> Nat]
  /\ bought \in [GreenLots -> Purchase]
  /\ roast \in [Roasts -> Roast]
  /\ taken \in [Roasts -> Reservations]
  /\ issue \in [Issues -> Issue]
  /\ count \in [Counts -> Count]
  /\ user \in [Users -> Task]

\* The cached stock of a product is what its ledger rows say, with a lot and
\* without one together (appendLedger changes both; audit-data-integrity.mts).
StockIsLedger ==
  \A p \in Products :
    stock[p] + Total([x \in OwnersOf(p) |-> outs[x]])
      = Total([x \in OwnersOf(p) |-> ins[x]])

\* What lies in ROASTING-WIP is what charged roasts have taken, lot by lot,
\* whatever is counted, placed, transferred or issued at the same time: no
\* other flow touches it (roast-lifecycle.ts:316-428, stock.ts:42-44).
WipIsCharged == \A l \in GreenLots : wip[l] = Charged(l)

\* The ledger of a lot is what the documents that still count say: what was
\* received, less what roasts used up or lost, less what issues took, and the
\* counted differences; what was voided has left no trace.
Received(l) ==
  IF l \in GreenLots
  THEN IF bought[l].status = "COMPLETED" THEN bought[l].kg ELSE 0
  ELSE IF l \in Roasts
  THEN IF roast[l].status = "COMPLETED" THEN roast[l].out ELSE 0
  ELSE IF issue[l].status = "COMPLETED" THEN issue[l].out ELSE 0
Roasted(l) ==
  IF l \notin GreenLots THEN 0
  ELSE Total([b \in Roasts |->
                IF roast[b].status \in {"COMPLETED", "SCRAPPED"}
                THEN TakenFrom(b, l) ELSE 0])
Issued(l) ==
  Total([i \in Issues |->
           IF issue[i].status = "COMPLETED" THEN issue[i].alloc[l] ELSE 0])
CountsOf(l) == {n \in Counts : count[n].status = "CONFIRMED"
                                 /\ count[n].lot = l}
Found(l) ==
  Total([n \in CountsOf(l) |-> AtLeast0(count[n].counted - count[n].system)])
Missed(l) ==
  Total([n \in CountsOf(l) |-> AtLeast0(count[n].system - count[n].counted)])
LotIsDocuments ==
  \A l \in Lots : Balance(l) = Received(l) + Found(l) - Missed(l)
                                 - Roasted(l) - Issued(l)

\* A voided roast or grinding has left nothing behind: no kilogram of its
\* output lies anywhere or is in a batch that still counts, and none is on the
\* books but what a count had found.
VoidLeavesNothing ==
  \A l \in Roasts \cup Issues :
    (IF l \in Roasts THEN roast[l].status ELSE issue[l].status) = "VOID" =>
      /\ Balance(l) = Found(l) /\ Placed(l) = 0
      /\ \A i \in Issues : issue[i].status = "COMPLETED" =>
           issue[i].alloc[l] = 0

\* What lies somewhere, in storage or in the roaster, is in the lot's books.
IsBacked(l) == Placed(l) + wip[l] <= Balance(l)
\* A step leaves the placements of a lot covered by its balance, unless it
\* issues the kilograms that are in the roaster, or closes the lot.
PlacedStaysBacked ==
  [][\A l \in Lots : IsBacked(l) /\ l \notin used' =>
       IsBacked(l)' \/ (issue' # issue /\ wip[l] > 0)]_vars

=============================================================================
