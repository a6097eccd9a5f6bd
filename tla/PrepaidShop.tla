---------------------------- MODULE PrepaidShop ----------------------------
(***************************************************************************)
(* What placing orders promises: a shop that serves one customer at a      *)
(* time.  An order is sold once for its key and paid at once from the      *)
(* purse.  A wish is an order somebody could not pay yet; it is granted    *)
(* once, with its payment or after it, by a new order or by the one its    *)
(* key already has.  A payment is accepted or rejected once, and nothing   *)
(* else puts money into a purse.                                           *)
(***************************************************************************)
EXTENDS Integers, Sequences

CONSTANTS Users, Keys, Quantities, Prices, Amounts

VARIABLES purse,      \* what each customer has left
          orders,     \* the sales: customer, key, quantity and charge
          answers,    \* the order each customer's keys stand for
          wishes,     \* orders to be placed once they are paid for
          payments    \* payments and their verdicts

shop == <<purse, orders, answers, wishes, payments>>

Nothing == 0
NoAnswer == [quantity |-> 0, order |-> Nothing]

ShopInit ==
  /\ purse = [u \in Users |-> 0]
  /\ answers = [u \in Users |-> [k \in Keys |-> NoAnswer]]
  /\ orders = <<>> /\ wishes = <<>> /\ payments = <<>>

-----------------------------------------------------------------------------

(* A sale to a customer who has `funds`, at a price of the service. *)
Sell(u, k, q, funds) ==
  /\ answers[u][k] = NoAnswer
  /\ \E price \in Prices :
       /\ price * q \in 1..funds
       /\ orders' = Append(orders, [user |-> u, key |-> k, quantity |-> q,
                                    charge |-> price * q])
       /\ purse' = [purse EXCEPT ![u] = funds - price * q]
  /\ answers' = [answers EXCEPT ![u][k] = [quantity |-> q,
                                           order |-> Len(orders) + 1]]

Buy(u, k, q) == Sell(u, k, q, purse[u]) /\ UNCHANGED <<wishes, payments>>

Wish(u, k, q) ==
  /\ wishes' = Append(wishes, [user |-> u, key |-> k, quantity |-> q,
                               order |-> Nothing])
  /\ UNCHANGED <<purse, orders, answers, payments>>

Grant(i, o) ==
  /\ wishes[i].order = Nothing
  /\ wishes' = [wishes EXCEPT ![i].order = o]

(* The wish is granted by a sale to a customer who has `funds` ... *)
GrantNew(i, funds) ==
  /\ Sell(wishes[i].user, wishes[i].key, wishes[i].quantity, funds)
  /\ Grant(i, Len(orders) + 1)

(* ... or by the order that its key had all along. *)
GrantOld(i) ==
  LET answer == answers[wishes[i].user][wishes[i].key]
  IN /\ answer.quantity = wishes[i].quantity
     /\ Grant(i, answer.order)
     /\ UNCHANGED <<orders, answers>>

(* A payment is begun, for a wish of the customer or for none. *)
Promise(u, amount, i) ==
  /\ i # Nothing => wishes[i].user = u
  /\ payments' = Append(payments, [user |-> u, amount |-> amount,
                                   status |-> "PENDING", wish |-> i])
  /\ UNCHANGED <<purse, orders, answers, wishes>>

Decide(d, verdict) ==
  /\ payments[d].status = "PENDING"
  /\ payments' = [payments EXCEPT ![d].status = verdict]

Reject(d) ==
  /\ Decide(d, "REJECTED")
  /\ UNCHANGED <<purse, orders, answers, wishes>>

(* The payment is accepted, and its wish granted with it or not. *)
Accept(d) ==
  LET u == payments[d].user
      i == payments[d].wish
      funds == purse[u] + payments[d].amount
  IN /\ Decide(d, "APPROVED")
     /\ \/ /\ purse' = [purse EXCEPT ![u] = funds]
           /\ \/ UNCHANGED <<orders, answers, wishes>>
              \/ i # Nothing /\ GrantOld(i)
        \/ i # Nothing /\ GrantNew(i, funds)

(* A wish that was paid for is granted later. *)
GrantLater(i) ==
  /\ \E d \in DOMAIN payments : /\ payments[d].wish = i
                                /\ payments[d].status = "APPROVED"
  /\ \/ GrantNew(i, purse[wishes[i].user])
     \/ GrantOld(i) /\ UNCHANGED purse
  /\ UNCHANGED payments

-----------------------------------------------------------------------------

ShopNext ==
  \/ \E u \in Users, k \in Keys, q \in Quantities : Buy(u, k, q) \/ Wish(u, k, q)
  \/ \E u \in Users, amount \in Amounts, i \in {Nothing} \cup DOMAIN wishes :
        Promise(u, amount, i)
  \/ \E d \in DOMAIN payments : Accept(d) \/ Reject(d)
  \/ \E i \in DOMAIN wishes : GrantLater(i)

ShopSpec == ShopInit /\ [][ShopNext]_shop
=============================================================================
