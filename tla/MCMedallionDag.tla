---------------------------- MODULE MCMedallionDag ----------------------------
(* Two DAG runs over a Silver layer that changes under them, in one of three *)
(* ways: the payments have an amount no suite allows and a refund of a day   *)
(* on which nothing is captured, and are then corrected, while there is no   *)
(* inventory; the stock of an item is out of range, and then corrected,      *)
(* while its product is missing; or the payments are missing.  The orders    *)
(* always are.                                                               *)
EXTENDS MedallionDag

Payment(id, day, amount, status) ==
    [payment_id |-> id, day |-> day, amount |-> amount, status |-> status]

Refunded == Payment(1, 1, 10, "refunded")
Captured == Payment(2, 1, 10, "captured")
TooLarge == Payment(3, 2, 1000001, "captured")

MCRows == {Refunded, Captured, TooLarge}
          \cup {[inventory_id |-> 1, quantity_on_hand |-> q] : q \in {5, 10000001}}
          \cup {[product_id |-> 1]}

History(payments, inventory, products) ==
    [t \in Tables |-> CASE t = "payments"  -> payments
                        [] t = "inventory" -> inventory
                        [] t = "products"  -> products
                        [] t = "orders"    -> << >>]

Inventory(q) == {[inventory_id |-> 1, quantity_on_hand |-> q]}
Products == {[product_id |-> 1]}

MCHistories ==
    {History(<<{Refunded, TooLarge}, {Refunded, Captured}>>, << >>, << >>),
     History(<<{Captured}>>, <<Inventory(10000001), Inventory(5)>>, << >>),
     History(<< >>, <<Inventory(10000001), Inventory(5)>>, <<Products>>)}
MCBuilt == {"payments", "inventory", "products"}

MCSuites == <<InventorySuite, PaymentsSuite>>
MCBuilders == Runs \X (1..Retries + 1)
MCDbtMarts == {"revenue_daily"}
=============================================================================
