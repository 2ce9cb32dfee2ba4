---------------------------- MODULE StockPromise ----------------------------
(***************************************************************************)
(* What stock reservations promise to the orders that share one product:   *)
(* a unit is promised to one order at most, what is promised stays so      *)
(* until the order is called off or gets its goods, and an order that gets *)
(* its goods takes the units promised to it, all of them and no others.    *)
(***************************************************************************)
EXTENDS Naturals, Quantity

CONSTANT Orders

VARIABLES
  goods,   \* units on hand, and those other flows took, promised or not
  promise  \* units promised to each order

Init == goods \in Nat /\ promise = [o \in Orders |-> 0]

\* Units nobody was promised are promised to an order, or sold at once.
Reserve(o) ==
  \E n \in 1 .. goods :
    /\ Total(promise) + n <= goods /\ promise[o] = 0
    /\ promise' = [promise EXCEPT ![o] = n]
    /\ goods' = goods
Sell == /\ goods' \in 0 .. goods /\ Total(promise) <= goods'
        /\ promise' = promise

\* An order gets what it was promised, or is called off.
HandOver(o) == /\ goods' = goods - promise[o]
               /\ promise' = [promise EXCEPT ![o] = 0]
CallOff(o) == /\ goods' = goods
              /\ promise' = [promise EXCEPT ![o] = 0]

\* Units come in, and orders may be promised some: nobody loses any.
Supply == /\ goods' \in Nat /\ goods' >= goods
          /\ promise' \in [Orders -> Nat] /\ Total(promise') <= goods'
          /\ \A o \in Orders : promise'[o] >= promise[o]

Next == \/ Sell \/ Supply
        \/ \E o \in Orders : Reserve(o) \/ HandOver(o) \/ CallOff(o)

Spec == Init /\ [][Next]_<<goods, promise>>
=============================================================================
