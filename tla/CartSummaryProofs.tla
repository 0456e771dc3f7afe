-------------------------- MODULE CartSummaryProofs --------------------------
(***************************************************************************)
(* Proofs about the cart summary, for every cart, every Scale and every    *)
(* RoundErr the assumptions allow.                                        *)
(***************************************************************************)
EXTENDS CartSummary, SequenceTheorems, TLAPS

\* acc stays within i * ItemErr units of the exact subtotal of the items
\* folded so far.
AccClose ==
    /\ ideal * Scale - i * ItemErr <= acc
    /\ acc <= ideal * Scale + i * ItemErr

\* The inductive invariant: types, the error bound of the fold, and what a
\* committed render shows.
IInv ==
    /\ TypeOK
    /\ AccClose
    /\ pc = "done" => i = Len(CartItems) /\ shown = SpecAmounts

-----------------------------------------------------------------------------
(***************************************************************************)
(* Lemmas about the number model.                                         *)
(***************************************************************************)

\* A double of an exact value r is a non-negative amount within RoundErr
\* of r.
LEMMA DoubleBound ==
    \A r \in Int : \A v \in Double(r) :
        /\ v \in Nat
        /\ r - RoundErr <= v
        /\ v <= r + RoundErr
  <1> SUFFICES ASSUME NEW r \in Int, NEW v \in Double(r)
               PROVE  v \in Nat /\ r - RoundErr <= v /\ v <= r + RoundErr
    OBVIOUS
  <1>1. CASE r = 0
    BY <1>1, NumberAssumption DEF Double
  <1>2. CASE r # 0
    BY <1>2, NumberAssumption DEF Double
  <1>3. QED
    BY <1>1, <1>2

\* Integer division by a positive d brackets its dividend.
LEMMA DivBounds ==
    ASSUME NEW n \in Int, NEW d \in Nat \ {0}
    PROVE  /\ n \div d \in Int
           /\ (n \div d) * d <= n
           /\ n < (n \div d + 1) * d
  OBVIOUS

\* A strict inequality between multiples of a positive d cancels d.
LEMMA MulCancel ==
    ASSUME NEW a \in Int, NEW b \in Int, NEW d \in Nat \ {0}, a * d < b * d
    PROVE  a < b
  OBVIOUS

\* toFixed(2) of an amount less than half a cent from c cents is c.
LEMMA ToFixedExact ==
    ASSUME NEW c \in Nat, NEW v \in Int,
           2 * (v - c * Scale) < Scale,
           2 * (c * Scale - v) < Scale
    PROVE  ToFixed2(v) = c
  <1> DEFINE n == 2 * v + Scale
             d == 2 * Scale
             q == n \div d
  <1>1. n \in Int /\ d \in Nat \ {0}
    BY NumberAssumption DEF n, d
  <1>2. c * d <= n /\ n < (c + 1) * d
    BY NumberAssumption DEF n, d
  <1>3. q \in Int /\ q * d <= n /\ n < (q + 1) * d
    BY <1>1, DivBounds DEF q
  <1>4. c < q + 1
    BY <1>1, <1>2, <1>3, MulCancel
  <1>5. q < c + 1
    BY <1>1, <1>2, <1>3, MulCancel
  <1>6. QED
    BY <1>3, <1>4, <1>5 DEF ToFixed2, q, n, d

\* toFixed(2) of a non-negative amount is a number of cents.
LEMMA ToFixedNat ==
    ASSUME NEW v \in Nat
    PROVE  ToFixed2(v) \in Nat
  <1> DEFINE n == 2 * v + Scale
             d == 2 * Scale
  <1>1. n \in Nat /\ d \in Nat \ {0}
    BY NumberAssumption DEF n, d
  <1>2. n \div d \in Nat
    BY <1>1
  <1>3. QED
    BY <1>2 DEF ToFixed2, n, d

\* Scaling two amounts at most e apart by a quantity q moves them at most
\* q * e apart, and no more than QtyBound * e.
LEMMA ScaleBound ==
    ASSUME NEW x \in Int, NEW y \in Int, NEW q \in 0..QtyBound,
           NEW e \in Nat, y - e <= x, x <= y + e
    PROVE  /\ y * q - QtyBound * e <= x * q
           /\ x * q <= y * q + QtyBound * e
  <1>1. QtyBound \in Nat
    BY CartAssumption
  <1>2. y * q - q * e <= x * q /\ x * q <= y * q + q * e
    BY <1>1
  <1>3. q * e <= QtyBound * e
    BY <1>1
  <1>4. QED
    BY <1>1, <1>2, <1>3

-----------------------------------------------------------------------------
(***************************************************************************)
(* Type correctness.                                                       *)
(***************************************************************************)

\* An item of the cart is a price in cents and a quantity within QtyBound.
LEMMA ItemType ==
    ASSUME NEW k \in 1..Len(CartItems)
    PROVE  /\ CartItems[k].price \in Nat
           /\ CartItems[k].quantity \in 0..QtyBound
  <1>1. CartItems[k] \in [price : Nat, quantity : 0..QtyBound]
    BY CartAssumption, ElementOfSeq
  <1>2. QED
    BY <1>1

LEMMA TypeInit == Init => TypeOK
    <2>1. Len(CartItems) \in Nat
      BY CartAssumption, LenProperties
    <2> SUFFICES ASSUME Init PROVE TypeOK
      OBVIOUS
    <2>2. i \in 0..Len(CartItems)
      BY <2>1 DEF Init
    <2>3. shown \in Amounts
      BY DEF Init, Amounts
    <2>4. QED
      BY <2>2, <2>3 DEF Init, TypeOK

LEMMA TypeInductive == TypeOK /\ [Next]_vars => TypeOK'
    <2> SUFFICES ASSUME TypeOK, [Next]_vars PROVE TypeOK'
      OBVIOUS
    <2>1. CASE ReduceStep
      <3> DEFINE item == CartItems[i + 1]
      <3>1. i + 1 \in 1..Len(CartItems)
        BY <2>1 DEF ReduceStep, TypeOK
      <3>2. item.price \in Nat /\ item.quantity \in 0..QtyBound
        BY <3>1, ItemType
      <3>3. PICK price \in Literal(item.price) :
              \E product \in Double(price * item.quantity) :
                acc' \in Double(acc + product)
        BY <2>1 DEF ReduceStep
      <3>4. price \in Nat
        BY <3>2, DoubleBound, NumberAssumption DEF Literal
      <3>5. PICK product \in Double(price * item.quantity) :
              acc' \in Double(acc + product)
        BY <3>3
      <3>6. product \in Nat
        BY <3>2, <3>4, DoubleBound
      <3>7. acc' \in Nat
        <4>1. acc + product \in Int
          BY <3>6 DEF TypeOK
        <4>2. QED
          BY <3>5, <4>1, DoubleBound
      <3>8. ideal' \in Nat
        BY <2>1, <3>2 DEF ReduceStep, TypeOK
      <3>9. QED
        BY <2>1, <3>1, <3>7, <3>8 DEF ReduceStep, TypeOK
    <2>2. CASE Commit
      <3>1. PICK fee \in Literal(DeliveryFee) :
              \E total \in Double(acc + fee) :
                shown' = [subtotal |-> ToFixed2(acc), fee |-> ToFixed2(fee),
                          total |-> ToFixed2(total)]
        BY <2>2 DEF Commit
      <3>2. fee \in Nat
        BY DoubleBound, NumberAssumption DEF Literal, DeliveryFee
      <3>3. PICK total \in Double(acc + fee) :
              shown' = [subtotal |-> ToFixed2(acc), fee |-> ToFixed2(fee),
                        total |-> ToFixed2(total)]
        BY <3>1
      <3>4. total \in Nat
        BY <3>2, DoubleBound DEF TypeOK
      <3>5. shown' \in Amounts
        BY <3>2, <3>3, <3>4, ToFixedNat DEF TypeOK, Amounts
      <3>6. QED
        BY <2>2, <3>5 DEF Commit, TypeOK
    <2>3. CASE Rerender
      BY <2>3 DEF Rerender, TypeOK
    <2>4. CASE UNCHANGED vars
      BY <2>4 DEF vars, TypeOK
    <2>5. QED
      BY <2>1, <2>2, <2>3, <2>4 DEF Next

\* Every state of every behaviour of the cart summary is well typed.
THEOREM TypeCorrect == Spec => []TypeOK
  BY TypeInit, TypeInductive, PTL DEF Spec
-----------------------------------------------------------------------------
(***************************************************************************)
(* The shown summary is exact.  CartTotalsExact alone is not inductive:   *)
(* Commit can only be shown to round acc to the exact subtotal if acc is   *)
(* known to be close to it, which is AccClose, kept by every ReduceStep.  *)
(***************************************************************************)

\* The arithmetic of one reduce step: if the price literal, the product
\* and the sum are each within RoundErr of their exact values, the new
\* accumulator is within (k + 1) * ItemErr of the new exact subtotal.
LEMMA FoldStepArith ==
    ASSUME NEW a0 \in Int, NEW id0 \in Nat, NEW k \in Nat,
           NEW p \in Nat, NEW q \in 0..QtyBound,
           NEW price \in Int, NEW product \in Int, NEW a1 \in Int,
           p * Scale - RoundErr <= price, price <= p * Scale + RoundErr,
           price * q - RoundErr <= product, product <= price * q + RoundErr,
           a0 + product - RoundErr <= a1, a1 <= a0 + product + RoundErr,
           id0 * Scale - k * ItemErr <= a0, a0 <= id0 * Scale + k * ItemErr
    PROVE  /\ (id0 + p * q) * Scale - (k + 1) * ItemErr <= a1
           /\ a1 <= (id0 + p * q) * Scale + (k + 1) * ItemErr
  <1>1. QtyBound \in Nat /\ RoundErr \in Nat /\ Scale \in Nat
        /\ ItemErr \in Nat
    BY NumberAssumption, CartAssumption DEF ItemErr
  <1>2. q * RoundErr <= QtyBound * RoundErr
    BY <1>1
  <1>3. /\ (price - p * Scale) * q <= q * RoundErr
        /\ (p * Scale - price) * q <= q * RoundErr
    BY <1>1
  <1>4. /\ price * q - (p * Scale) * q = (price - p * Scale) * q
        /\ (p * Scale) * q - price * q = (p * Scale - price) * q
        /\ (id0 + p * q) * Scale = id0 * Scale + (p * Scale) * q
    BY <1>1
  <1>5. (k + 1) * ItemErr = k * ItemErr + QtyBound * RoundErr + 2 * RoundErr
    BY <1>1 DEF ItemErr
  <1>6. /\ (p * Scale) * q - q * RoundErr <= price * q
        /\ price * q <= (p * Scale) * q + q * RoundErr
    BY <1>1, <1>3, <1>4
  <1>7. /\ id0 * Scale - k * ItemErr + (p * Scale) * q - q * RoundErr
             - 2 * RoundErr <= a1
        /\ a1 <= id0 * Scale + k * ItemErr + (p * Scale) * q + q * RoundErr
             + 2 * RoundErr
    BY <1>1, <1>6
  <1>8. QED
    BY <1>1, <1>2, <1>4, <1>5, <1>7

\* One ReduceStep moves acc at most ItemErr further from the exact
\* subtotal than it was.
LEMMA ReduceKeepsClose ==
    ASSUME TypeOK, AccClose, ReduceStep
    PROVE  AccClose'
  <1> DEFINE p == CartItems[i + 1].price
             q == CartItems[i + 1].quantity
  <1>1. i + 1 \in 1..Len(CartItems) /\ i' = i + 1 /\ ideal' = ideal + p * q
    BY DEF ReduceStep, TypeOK
  <1>2. p \in Nat /\ q \in 0..QtyBound
    BY <1>1, ItemType
  <1>3. ASSUME NEW price \in Literal(p),
               NEW product \in Double(price * q),
               acc' \in Double(acc + product)
        PROVE  /\ price \in Int /\ product \in Int /\ acc' \in Int
               /\ p * Scale - RoundErr <= price
               /\ price <= p * Scale + RoundErr
               /\ price * q - RoundErr <= product
               /\ product <= price * q + RoundErr
               /\ acc + product - RoundErr <= acc'
               /\ acc' <= acc + product + RoundErr
    <2>1. price \in Nat /\ p * Scale - RoundErr <= price
                       /\ price <= p * Scale + RoundErr
      <3>1. p * Scale \in Int /\ price \in Double(p * Scale)
        BY <1>2, NumberAssumption DEF Literal
      <3>2. QED
        BY <3>1, DoubleBound
    <2>2. product \in Nat /\ price * q - RoundErr <= product
                         /\ product <= price * q + RoundErr
      BY <1>2, <2>1, NumberAssumption DEF Double
    <2>3. acc' \in Nat /\ acc + product - RoundErr <= acc'
                      /\ acc' <= acc + product + RoundErr
      BY <2>2, <1>3, NumberAssumption DEF Double, TypeOK
    <2>4. QED
      BY <2>1, <2>2, <2>3
  <1>4. PICK price, product :
          /\ price \in Int /\ product \in Int /\ acc' \in Int
          /\ p * Scale - RoundErr <= price
          /\ price <= p * Scale + RoundErr
          /\ price * q - RoundErr <= product
          /\ product <= price * q + RoundErr
          /\ acc + product - RoundErr <= acc'
          /\ acc' <= acc + product + RoundErr
    BY <1>3, Zenon DEF ReduceStep
  <1>5. acc \in Int /\ ideal \in Nat /\ i \in Nat
    BY DEF TypeOK
  <1>6. /\ ideal * Scale - i * ItemErr <= acc
        /\ acc <= ideal * Scale + i * ItemErr
    BY DEF AccClose
  <1>7. /\ (ideal + p * q) * Scale - (i + 1) * ItemErr <= acc'
        /\ acc' <= (ideal + p * q) * Scale + (i + 1) * ItemErr
    BY <1>2, <1>4, <1>5, <1>6, FoldStepArith, Zenon
  <1>8. QED
    BY <1>1, <1>7 DEF AccClose

\* The arithmetic of Commit: amounts less than half a cent from whole
\* cents are shown as those cents.
LEMMA CommitArith ==
    ASSUME NEW a \in Int, NEW id \in Nat, NEW err \in Nat,
           NEW fee \in Int, NEW total \in Int,
           2 * (err + 2 * RoundErr) < Scale,
           id * Scale - err <= a, a <= id * Scale + err,
           DeliveryFee * Scale - RoundErr <= fee,
           fee <= DeliveryFee * Scale + RoundErr,
           a + fee - RoundErr <= total, total <= a + fee + RoundErr
    PROVE  /\ ToFixed2(a) = id
           /\ ToFixed2(fee) = DeliveryFee
           /\ ToFixed2(total) = id + DeliveryFee
  <1>1. RoundErr \in Nat /\ Scale \in Nat /\ DeliveryFee \in Nat
    BY NumberAssumption DEF DeliveryFee
  <1>2. (id + DeliveryFee) * Scale = id * Scale + DeliveryFee * Scale
    BY <1>1
  <1>3. ToFixed2(a) = id
    BY <1>1, ToFixedExact
  <1>4. ToFixed2(fee) = DeliveryFee
    BY <1>1, ToFixedExact
  <1>5. /\ 2 * (total - (id + DeliveryFee) * Scale) < Scale
        /\ 2 * ((id + DeliveryFee) * Scale - total) < Scale
    BY <1>1, <1>2
  <1>6. ToFixed2(total) = id + DeliveryFee
    BY <1>1, <1>5, ToFixedExact
  <1>7. QED
    BY <1>3, <1>4, <1>6

\* With acc that close, Commit shows the exact amounts.
LEMMA CommitShowsExact ==
    ASSUME TypeOK, AccClose, i = Len(CartItems), Commit
    PROVE  shown' = SpecAmounts'
  <1> DEFINE err == Len(CartItems) * ItemErr
  <1>1. err \in Nat /\ 2 * (err + 2 * RoundErr) < Scale
    BY NumberAssumption, CartAssumption, LenProperties, AccuracyAssumption
       DEF ItemErr
  <1>2. ideal * Scale - err <= acc /\ acc <= ideal * Scale + err
    BY DEF AccClose
  <1>3. ASSUME NEW fee \in Literal(DeliveryFee), NEW total \in Double(acc + fee)
        PROVE  /\ fee \in Int /\ total \in Int
               /\ DeliveryFee * Scale - RoundErr <= fee
               /\ fee <= DeliveryFee * Scale + RoundErr
               /\ acc + fee - RoundErr <= total
               /\ total <= acc + fee + RoundErr
    <2>1. fee \in Nat /\ DeliveryFee * Scale - RoundErr <= fee
                     /\ fee <= DeliveryFee * Scale + RoundErr
      BY NumberAssumption DEF Literal, Double, DeliveryFee
    <2>2. QED
      BY <2>1, NumberAssumption DEF Double, TypeOK
  <1>4. PICK fee, total :
          /\ fee \in Int /\ total \in Int
          /\ DeliveryFee * Scale - RoundErr <= fee
          /\ fee <= DeliveryFee * Scale + RoundErr
          /\ acc + fee - RoundErr <= total
          /\ total <= acc + fee + RoundErr
          /\ shown' = [subtotal |-> ToFixed2(acc), fee |-> ToFixed2(fee),
                        total |-> ToFixed2(total)]
    BY <1>3, Zenon DEF Commit
  <1>5. /\ ToFixed2(acc) = ideal
        /\ ToFixed2(fee) = DeliveryFee
        /\ ToFixed2(total) = ideal + DeliveryFee
    <2>1. acc \in Int /\ ideal \in Nat
      BY DEF TypeOK
    <2>2. QED
      BY <1>1, <1>2, <1>4, <2>1, CommitArith, Zenon
  <1>6. ideal' = ideal
    BY DEF Commit
  <1>7. QED
    BY <1>4, <1>5, <1>6 DEF SpecAmounts

\* IInv is inductive.
LEMMA IInvInductive == IInv /\ [Next]_vars => IInv'
  <1> SUFFICES ASSUME IInv, [Next]_vars PROVE IInv'
    OBVIOUS
  <1>1. TypeOK'
    BY TypeInductive DEF IInv
  <1>2. CASE ReduceStep
    BY <1>1, <1>2, ReduceKeepsClose DEF IInv, ReduceStep
  <1>3. CASE Commit
    <2>1. i = Len(CartItems)
      BY <1>3 DEF Commit
    <2>2. shown' = SpecAmounts'
      BY <1>3, <2>1, CommitShowsExact DEF IInv
    <2>3. AccClose'
      BY <1>3 DEF Commit, AccClose, IInv
    <2>4. QED
      BY <1>1, <1>3, <2>1, <2>2, <2>3 DEF IInv, Commit
  <1>4. CASE Rerender
    <2>1. AccClose'
      BY <1>4, NumberAssumption, CartAssumption DEF Rerender, AccClose, ItemErr
    <2>2. QED
      BY <1>1, <1>4, <2>1 DEF IInv, Rerender
  <1>5. CASE UNCHANGED vars
    BY <1>1, <1>5 DEF IInv, AccClose, SpecAmounts, vars
  <1>6. QED
    BY <1>2, <1>3, <1>4, <1>5 DEF Next

\* Every summary a render of CartScreen commits shows the spec's subtotal,
\* delivery fee and total to the cent (cart.tsx lines 22-24, 55-63), for
\* every cart and every rounding of its doubles within RoundErr.
THEOREM TotalsExact == Spec => []CartTotalsExact
  <1>1. Init => IInv
    BY TypeInit, NumberAssumption, CartAssumption
       DEF Init, IInv, AccClose, ItemErr
  <1>2. IInv => CartTotalsExact
    BY DEF IInv, CartTotalsExact
  <1>3. QED
    BY <1>1, <1>2, IInvInductive, PTL DEF Spec
=============================================================================
