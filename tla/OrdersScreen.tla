----------------------------- MODULE OrdersScreen -----------------------------
(***************************************************************************)
(* The order history of the mobile app (app/(tabs)/orders.tsx).           *)
(*                                                                         *)
(* OrdersScreen renders the hard-coded ORDERS: per order its date, a      *)
(* status badge (green for 'Delivered', amber otherwise), one line per    *)
(* item and "Total: $" + order.total.toFixed(2).  The only computation is *)
(* that of the shown total from the stored literal; what it is compared   *)
(* with is the menu price of each item (MENU_ITEMS, index.tsx) and the    *)
(* delivery fee every cart pays (cart.tsx).                                *)
(***************************************************************************)
EXTENDS Naturals, Sequences, SequencesExt, JsNumber

\* MENU_ITEMS (index.tsx): the price of each menu item, in cents.
MenuPrice == [n \in {"Classic Potato Roll", "Cheese Loaded Roll",
                     "Spicy Jalapeno Roll"} |->
                CASE n = "Classic Potato Roll" -> 499
                  [] n = "Cheese Loaded Roll"  -> 599
                  [] n = "Spicy Jalapeno Roll" -> 549]

\* ORDERS: status, items and the total literal (in cents) of each order.
Orders ==
    << [status |-> "Delivered",
        items  |-> << [name |-> "Classic Potato Roll", quantity |-> 2],
                      [name |-> "Cheese Loaded Roll", quantity |-> 1] >>,
        total  |-> 1597],
       [status |-> "Delivered",
        items  |-> << [name |-> "Spicy Jalapeno Roll", quantity |-> 3] >>,
        total  |-> 1647] >>

\* const deliveryFee = 2.99 of the cart screen, in cents.
Fee == 299

VARIABLES
    shownTotal, \* the cents of each order card's "Total: $..." line
    badge,      \* the colour of each order card's status badge
    rendered    \* whether OrdersScreen has rendered

vars == <<shownTotal, badge, rendered>>

Cards == 1..Len(Orders)

TypeOK ==
    /\ shownTotal \in [Cards -> Nat]
    /\ badge \in [Cards -> {"green", "amber"}]
    /\ rendered \in BOOLEAN

Init ==
    /\ shownTotal = [o \in Cards |-> 0]
    /\ badge = [o \in Cards |-> "amber"]
    /\ rendered = FALSE

\* OrdersScreen maps ORDERS to cards: the badge colour from the status and
\* the total literal parsed to a double and shown with toFixed(2).
Render ==
    /\ ~rendered
    /\ \E parsed \in [Cards -> UNION {Literal(Orders[o].total) : o \in Cards}] :
         /\ \A o \in Cards : parsed[o] \in Literal(Orders[o].total)
         /\ shownTotal' = [o \in Cards |-> ToFixed2(parsed[o])]
    /\ badge' = [o \in Cards |->
                   IF Orders[o].status = "Delivered" THEN "green" ELSE "amber"]
    /\ rendered' = TRUE

Next == Render

Spec == Init /\ [][Next]_vars

-----------------------------------------------------------------------------
\* The exact sum of menu price * quantity over the items of order o.
ItemsSubtotal(o) ==
    FoldLeft(LAMBDA acc, it : acc + MenuPrice[it.name] * it.quantity,
             0, Orders[o].items)

\* The spec's invariant of an order record (spec.md section 3): its total
\* is the sum of unit price * quantity over its items plus the fixed
\* delivery fee, the same total the cart screen shows for those items.
\* Checked against what the "Total: $" line of every order card shows.
OrderTotalIncludesFee ==
    rendered => \A o \in Cards : shownTotal[o] = ItemsSubtotal(o) + Fee
=============================================================================
