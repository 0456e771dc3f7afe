------------------------------ MODULE Storefront ------------------------------
(***************************************************************************)
(* The storefront's navigation as its code fixes it: RootLayout           *)
(* (src/app/layout.tsx) puts the same links on every page, Home           *)
(* (src/app/page.tsx) adds a "Shop Now" link, and src/app defines two     *)
(* routes, / and /products.  A path with no route gets Next.js's          *)
(* not-found page, which is also rendered inside RootLayout, so its links *)
(* can still be followed.  What a page shows while it loads is the        *)
(* browser's and Next.js's, not this repository's, and is left out.       *)
(***************************************************************************)

\* The pages src/app defines: app/page.tsx and app/products/page.tsx.
Routes == {"/", "/products"}

\* The <a href> links of RootLayout's <nav>.
NavLinks == {"/", "/products", "/cart", "/account"}

\* The <Link href="/products"> "Shop Now" of Home.
HomeLinks == {"/products"}

VARIABLE url   \* the path the browser shows

\* The links on the page at url: the nav bar's, and Home's on /.
LinksOn == NavLinks \cup (IF url = "/" THEN HomeLinks ELSE {})

Init == url = "/"

\* A click on a link of the page shown.
Follow(l) ==
    /\ l \in LinksOn
    /\ url' = l

Next == \E l \in NavLinks \cup HomeLinks : Follow(l)

Spec == Init /\ [][Next]_url

-----------------------------------------------------------------------------
\* Every link the storefront shows leads to one of its pages: no click
\* reaches the not-found page.
NavLinksResolve == url \in Routes
=============================================================================
