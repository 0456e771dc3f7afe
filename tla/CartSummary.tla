----------------------------- MODULE CartSummary -----------------------------
(***************************************************************************)
(* The cart summary of the mobile app (app/(tabs)/cart.tsx, CartScreen).  *)
(*                                                                         *)
(* Every render of CartScreen folds CART_ITEMS with reduce into a          *)
(* subtotal of price * quantity, adds the delivery fee 2.99 and shows the  *)
(* three amounts with toFixed(2).  All of it is double arithmetic.  A      *)
(* render is one ReduceStep per item followed by Commit, which computes    *)
(* the fee and the total and puts the three strings on screen; React may  *)
(* render the component again at any time (Rerender).                     *)
(*                                                                         *)
(* ideal is the spec's subtotal in exact cents, folded alongside acc: it  *)
(* is what acc would be with exact arithmetic, and is what the screen is  *)
(* meant to show.                                                          *)
(***************************************************************************)
EXTENDS Naturals, Sequences, JsNumber

CONSTANTS
    CartItems,  \* CART_ITEMS: a sequence of [price (cents), quantity]
    QtyBound    \* no quantity in CartItems exceeds it

ASSUME CartAssumption ==
    /\ QtyBound \in Nat
    /\ CartItems \in Seq([price : Nat, quantity : 0..QtyBound])

\* const deliveryFee = 2.99, in cents.
DeliveryFee == 299

\* What one item may add to the distance between acc and the exact
\* subtotal: the error of its price literal times its quantity, the error
\* of the product and the error of the addition.
ItemErr == (QtyBound + 2) * RoundErr

\* The rounding never moves a shown amount: the worst distance of the
\* total from its exact value stays under half a cent.
ASSUME AccuracyAssumption ==
    2 * (Len(CartItems) * ItemErr + 2 * RoundErr) < Scale

VARIABLES
    pc,         \* "reduce" while the fold runs, "done" once committed
    i,          \* items folded so far in this render
    acc,        \* the reduce accumulator (a double, in units)
    ideal,      \* the same fold in exact arithmetic (cents)
    shown,      \* the three amounts on screen, in cents
    rendered    \* whether a render has been committed yet

vars == <<pc, i, acc, ideal, shown, rendered>>

Amounts == [subtotal : Nat, fee : Nat, total : Nat]

TypeOK ==
    /\ pc \in {"reduce", "done"}
    /\ i \in 0..Len(CartItems)
    /\ acc \in Nat
    /\ ideal \in Nat
    /\ shown \in Amounts
    /\ rendered \in BOOLEAN

Init ==
    /\ pc = "reduce"
    /\ i = 0
    /\ acc = 0
    /\ ideal = 0
    /\ shown = [subtotal |-> 0, fee |-> 0, total |-> 0]
    /\ rendered = FALSE

\* One call of the reduce callback: acc + item.price * item.quantity.
ReduceStep ==
    /\ pc = "reduce"
    /\ i < Len(CartItems)
    /\ LET item == CartItems[i + 1] IN
         \E price \in Literal(item.price) :
           \E product \in Double(price * item.quantity) :
             /\ acc' \in Double(acc + product)
             /\ ideal' = ideal + item.price * item.quantity
    /\ i' = i + 1
    /\ pc' = "reduce"
    /\ UNCHANGED <<shown, rendered>>

\* The reduce has returned: total = subtotal + deliveryFee, and the
\* summary rows show subtotal, fee and total with toFixed(2).
Commit ==
    /\ pc = "reduce"
    /\ i = Len(CartItems)
    /\ \E fee \in Literal(DeliveryFee) :
         \E total \in Double(acc + fee) :
           shown' = [subtotal |-> ToFixed2(acc),
                     fee      |-> ToFixed2(fee),
                     total    |-> ToFixed2(total)]
    /\ rendered' = TRUE
    /\ pc' = "done"
    /\ UNCHANGED <<i, acc, ideal>>

\* React calls CartScreen again; the old summary stays on screen until
\* the new render commits.
Rerender ==
    /\ pc = "done"
    /\ pc' = "reduce"
    /\ i' = 0
    /\ acc' = 0
    /\ ideal' = 0
    /\ UNCHANGED <<shown, rendered>>

Next == ReduceStep \/ Commit \/ Rerender

Spec == Init /\ [][Next]_vars

-----------------------------------------------------------------------------
(***************************************************************************)
(* Properties.                                                             *)
(***************************************************************************)

\* The spec's summary: subtotal = sum of price * quantity, total =
\* subtotal + delivery fee.  ideal holds that subtotal once the fold is
\* complete.
SpecAmounts == [subtotal |-> ideal, fee |-> DeliveryFee,
                total |-> ideal + DeliveryFee]

\* Whatever the doubles of the literals, products and sums come out as,
\* the summary a render of CartScreen commits is, to the cent, the spec's
\* subtotal, fee and total (cart.tsx lines 22-24 and 55-63).  Nothing
\* but Commit changes the screen, so between renders it keeps showing them.
CartTotalsExact ==
    pc = "done" => shown = SpecAmounts
=============================================================================
