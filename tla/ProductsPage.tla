----------------------------- MODULE ProductsPage -----------------------------
(***************************************************************************)
(* The product listing of the storefront (src/app/products/page.tsx).     *)
(*                                                                         *)
(* Every request of /products runs ProductsPage on the server: it awaits  *)
(* getProducts, which selects every row of the hosted "products" table    *)
(* ordered by created_at descending and returns the rows, or [] when the  *)
(* query yields no data; the page then renders one card per product.      *)
(* Requests run concurrently with each other and with whoever writes the  *)
(* table (not part of this repository: the environment of the model).     *)
(*                                                                         *)
(* seen and last are history variables of the model, not program state:  *)
(* seen[q] is the table request q's query read, last the table read and   *)
(* the page rendered by the most recent render of any request.            *)
(***************************************************************************)
EXTENDS Naturals, Sequences, SequencesExt

CONSTANTS
    Products,       \* rows of the products table, as model values
    Requests,       \* concurrent requests of /products
    MaxTime,        \* the last value of the clock created_at is read from
    QueryMayFail,   \* whether the select can come back without data
    Null            \* data of a query that failed

ASSUME ProductsAssumption ==
    /\ IsFiniteSet(Products)
    /\ MaxTime \in Nat
    /\ QueryMayFail \in BOOLEAN
    /\ Null \notin Seq(Products)

NoTime == MaxTime + 1   \* created_at of a row never inserted

VARIABLES
    table,      \* the rows now in the products table
    created,    \* created_at of each row ever inserted
    now,        \* the database clock
    pc,         \* per request: "idle", "query" (awaiting getProducts), "render"
    data,       \* per request: what the select returned
    page,       \* per request: the cards of the page it last rendered
    seen,       \* history: per request, the table its query read
    last        \* history: [table, page] of the most recent render

vars == <<table, created, now, pc, data, page, seen, last>>

\* The orders the select may return the rows of T in: every row once,
\* created_at never increasing.  Rows with the same created_at may come
\* back in either order.
NewestFirst(T) ==
    {s \in SetToSeqs(T) :
        \A k \in 1..(Len(s) - 1) : created[s[k]] >= created[s[k + 1]]}

TypeOK ==
    /\ table \subseteq Products
    /\ created \in [Products -> 0..NoTime]
    /\ now \in 0..MaxTime
    /\ pc \in [Requests -> {"idle", "query", "render"}]
    /\ data \in [Requests -> Seq(Products) \cup {Null}]
    /\ page \in [Requests -> Seq(Products)]
    /\ seen \in [Requests -> SUBSET Products]
    /\ last \in [table : SUBSET Products, page : Seq(Products)] \cup {Null}

Init ==
    /\ table = {}
    /\ created = [r \in Products |-> NoTime]
    /\ now = 0
    /\ pc = [q \in Requests |-> "idle"]
    /\ data = [q \in Requests |-> <<>>]
    /\ page = [q \in Requests |-> <<>>]
    /\ seen = [q \in Requests |-> {}]
    /\ last = Null

-----------------------------------------------------------------------------
(* The environment: the table is written by others, the clock advances.   *)

\* A new row; created_at defaults to the current time.
InsertProduct(r) ==
    /\ created[r] = NoTime
    /\ table' = table \cup {r}
    /\ created' = [created EXCEPT ![r] = now]
    /\ UNCHANGED <<now, pc, data, page, seen, last>>

DeleteProduct(r) ==
    /\ r \in table
    /\ table' = table \ {r}
    /\ UNCHANGED <<created, now, pc, data, page, seen, last>>

Tick ==
    /\ now < MaxTime
    /\ now' = now + 1
    /\ UNCHANGED <<table, created, pc, data, page, seen, last>>

-----------------------------------------------------------------------------
(* A request of /products.                                                *)

\* ProductsPage is called and awaits getProducts, which creates the
\* server client from the request's cookies and sends the select.
Request(q) ==
    /\ pc[q] = "idle"
    /\ pc' = [pc EXCEPT ![q] = "query"]
    /\ UNCHANGED <<table, created, now, data, page, seen, last>>

\* The select runs against the table as it is now and returns its rows
\* newest first, or no data.
QueryReturns(q) ==
    /\ pc[q] = "query"
    /\ \E d \in NewestFirst(table) \cup (IF QueryMayFail THEN {Null} ELSE {}) :
         data' = [data EXCEPT ![q] = d]
    /\ seen' = [seen EXCEPT ![q] = table]
    /\ pc' = [pc EXCEPT ![q] = "render"]
    /\ UNCHANGED <<table, created, now, page, last>>

\* Mutation: getProducts returns products without the || [] fallback.
RenderWithoutFallback(q) ==
    /\ pc[q] = "render"
    /\ page' = [page EXCEPT ![q] = data[q]]
    /\ last' = [table |-> seen[q], page |-> data[q]]
    /\ pc' = [pc EXCEPT ![q] = "idle"]
    /\ UNCHANGED <<table, created, now, data, seen>>

\* return products || []: the rows the select returned, or none.
Fetched(q) == IF data[q] = Null THEN <<>> ELSE data[q]

\* getProducts returns products || [] and the page maps it to cards.
Render(q) ==
    /\ pc[q] = "render"
    /\ page' = [page EXCEPT ![q] = Fetched(q)]
    /\ last' = [table |-> seen[q], page |-> Fetched(q)]
    /\ pc' = [pc EXCEPT ![q] = "idle"]
    /\ UNCHANGED <<table, created, now, data, seen>>

Next ==
    \/ \E r \in Products : InsertProduct(r) \/ DeleteProduct(r)
    \/ Tick
    \/ \E q \in Requests : Request(q) \/ QueryReturns(q) \/ Render(q)

Spec == Init /\ [][Next]_vars

\* The server resumes an awaiting ProductsPage once its select has
\* answered.  The datastore gets no fairness: getProducts awaits the
\* select with no timeout, abort signal or retry, so nothing in the code
\* makes the answer come.
ServerFairness == \A q \in Requests : WF_vars(Render(q))

FairSpec == Spec /\ ServerFairness

-----------------------------------------------------------------------------
(***************************************************************************)
(* Properties.                                                             *)
(***************************************************************************)

\* Spec.md section 8: "re-rendering with unchanged constant data produces
\* an unchanged view tree".  Checked as: a render that read the
\* same table as the previous render shows the same page.
RenderIdempotent ==
    [][\A q \in Requests :
         (Render(q) /\ last # Null /\ last.table = seen[q])
            => page'[q] = last.page]_vars

=============================================================================
