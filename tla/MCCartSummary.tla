---------------------------- MODULE MCCartSummary ----------------------------
(* CartSummary on the cart of app/(tabs)/cart.tsx. *)
EXTENDS CartSummary

\* CART_ITEMS: Classic Potato Roll 4.99 x 2, Cheese Loaded Roll 5.99 x 1.
MCCartItems == <<[price |-> 499, quantity |-> 2],
                 [price |-> 599, quantity |-> 1]>>
=============================================================================
