-------------------------- MODULE ProductsPageProofs --------------------------
(***************************************************************************)
(* Type correctness of ProductsPage for every finite set of rows, every  *)
(* set of requests and every clock bound.                                  *)
(***************************************************************************)
EXTENDS ProductsPage, FiniteSetTheorems, SequenceTheorems, TLAPS

\* The orders the select may return the row set T in are sequences that
\* list every row of T once and nothing else.
LEMMA SnapshotOrders ==
    ASSUME NEW T, IsFiniteSet(T), NEW s \in SetToSeqs(T)
    PROVE  /\ s \in Seq(T)
           /\ Len(s) = Cardinality(T)
           /\ ToSet(s) = T
<1> DEFINE n == Cardinality(T)
<1>1. n \in Nat
  BY FS_CardinalityType
<1>2. s \in [1..n -> T] /\ \A i, j \in 1..n : i # j => s[i] # s[j]
  BY DEF SetToSeqs
<1>3. s \in Seq(T) /\ Len(s) = n
  BY <1>1, <1>2
<1>4. s \in Injection(1..n, T)
  BY <1>2 DEF Injection, IsInjective
<1>5. IsFiniteSet(1..n) /\ Cardinality(1..n) = n
  BY <1>1, FS_Interval
<1>6. s \in Surjection(1..n, T)
  BY <1>4, <1>5, FS_Injection
<1>7. ToSet(s) = T
  BY <1>2, <1>6 DEF Surjection, ToSet
<1>8. QED
  BY <1>3, <1>7
-----------------------------------------------------------------------------
\* What a select returns is a sequence of rows of the table.
LEMMA SelectIsSeq ==
    ASSUME TypeOK, NEW d \in NewestFirst(table)
    PROVE  d \in Seq(Products)
<1>1. IsFiniteSet(table)
  BY ProductsAssumption, FS_Subset DEF TypeOK
<1>2. d \in SetToSeqs(table)
  BY DEF NewestFirst
<1>3. d \in Seq(table)
  BY <1>1, <1>2, SnapshotOrders
<1>4. QED
  BY <1>3, SeqMonotonic DEF TypeOK

LEMMA TypeInit == Init => TypeOK
BY ProductsAssumption, EmptySeq DEF Init, TypeOK, NoTime

LEMMA TypeStep == TypeOK /\ [Next]_vars => TypeOK'
<1> SUFFICES ASSUME TypeOK, [Next]_vars PROVE TypeOK'
  OBVIOUS
<1>1. ASSUME NEW r \in Products, InsertProduct(r) PROVE TypeOK'
  BY <1>1, ProductsAssumption DEF InsertProduct, TypeOK, NoTime
<1>2. ASSUME NEW r \in Products, DeleteProduct(r) PROVE TypeOK'
  BY <1>2 DEF DeleteProduct, TypeOK
<1>3. CASE Tick
  BY <1>3, ProductsAssumption DEF Tick, TypeOK
<1>4. ASSUME NEW q \in Requests, Request(q) PROVE TypeOK'
  BY <1>4 DEF Request, TypeOK
<1>5. ASSUME NEW q \in Requests, QueryReturns(q) PROVE TypeOK'
  <2>1. PICK d \in NewestFirst(table) \cup (IF QueryMayFail THEN {Null} ELSE {}) :
          /\ data' = [data EXCEPT ![q] = d]
          /\ seen' = [seen EXCEPT ![q] = table]
          /\ pc' = [pc EXCEPT ![q] = "render"]
          /\ UNCHANGED <<table, created, now, page, last>>
    BY <1>5, Zenon DEF QueryReturns
  <2>2. d \in Seq(Products) \cup {Null}
    BY <2>1, SelectIsSeq
  <2>3. QED
    BY <2>1, <2>2 DEF TypeOK
<1>6. ASSUME NEW q \in Requests, Render(q) PROVE TypeOK'
  <2>1. Fetched(q) \in Seq(Products)
    BY EmptySeq DEF Fetched, TypeOK
  <2>2. QED
    BY <1>6, <2>1 DEF Render, TypeOK
<1>7. CASE UNCHANGED vars
  BY <1>7 DEF vars, TypeOK
<1>8. QED
  BY <1>1, <1>2, <1>3, <1>4, <1>5, <1>6, <1>7 DEF Next

\* Every reachable state of the listing is well typed: in particular every
\* page is a sequence of rows, never the null a failed select returns,
\* because getProducts falls back to [] (products || []).
THEOREM TypeCorrect == Spec => []TypeOK
BY TypeInit, TypeStep, PTL DEF Spec
=============================================================================
