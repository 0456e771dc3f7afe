---------------------------- MODULE MCStorefront ----------------------------
(* The storefront's navigation from the home page. *)
EXTENDS Storefront
=============================================================================
