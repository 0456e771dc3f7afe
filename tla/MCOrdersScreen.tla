--------------------------- MODULE MCOrdersScreen ---------------------------
(* OrdersScreen on the data of orders.tsx, index.tsx and cart.tsx. *)
EXTENDS OrdersScreen
=============================================================================
