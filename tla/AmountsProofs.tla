---------------------------- MODULE AmountsProofs ----------------------------
(***************************************************************************)
(* The checkout's arithmetic, for every unit size and int32 range that     *)
(* MoneyAssumption allows, and every price, quantity and number of items:  *)
(* what money.Sum returns; that the total PlaceOrder computes is exact,    *)
(* that an ordinary order reaches chargeCard with a well-formed amount,    *)
(* and that it is the amount the web frontend shows.                       *)
(***************************************************************************)
EXTENDS Prices, MCMoney, FiniteSums, SequenceTheorems

(* What money.Sum returns.                                                 *)

\* The only carries Sum can meet: valid operands have less than two units of
\* nanos between them.
LEMMA CarryIsAtMostOne ==
  ASSUME NEW k \in Int, -(2 * NanosMod) < k, k < 2 * NanosMod
  PROVE  Quotient(k, NanosMod) = IF k >= NanosMod THEN 1
                                 ELSE IF k <= -NanosMod THEN -1 ELSE 0
  BY MoneyAssumption DEF Quotient

\* A value inside the int32 range is unchanged by the wrap.
LEMMA Int32Identity ==
  ASSUME NEW k \in Int, -HalfInt32 <= k, k < HalfInt32
  PROVE  Int32(k) = k
  BY MoneyAssumption DEF Int32

\* A value below the range by less than half of it wraps to the top.
LEMMA Int32Underflow ==
  ASSUME NEW k \in Int, -(3 * HalfInt32) <= k, k < -HalfInt32
  PROVE  Int32(k) = k + 2 * HalfInt32
  BY MoneyAssumption DEF Int32

\* The components of Sum's result, by the branch it takes.
LEMMA NormaliseCases ==
  ASSUME NEW u \in Int, NEW k \in Int, NEW c,
         -(2 * NanosMod) < k, k < 2 * NanosMod
  PROVE  LET m == Normalise(u, k, c) IN
         /\ m.units \in Int /\ m.nanos \in Int /\ m.currency = c
         /\ SameSign(u, k) /\ k >= NanosMod =>
                m.units = u + 1 /\ m.nanos = k - NanosMod
         /\ SameSign(u, k) /\ k <= -NanosMod =>
                m.units = u - 1 /\ m.nanos = k + NanosMod
         /\ SameSign(u, k) /\ -NanosMod < k /\ k < NanosMod =>
                m.units = u /\ m.nanos = k
         /\ ~SameSign(u, k) /\ u > 0 => m.units = u - 1 /\ m.nanos = k + NanosMod
         /\ ~SameSign(u, k) /\ u <= 0 /\ k >= NanosMod - HalfInt32 =>
                m.units = u + 1 /\ m.nanos = k - NanosMod
         /\ ~SameSign(u, k) /\ u <= 0 /\ k < NanosMod - HalfInt32 =>
                m.units = u + 1 /\ m.nanos = k - NanosMod + 2 * HalfInt32
<1>1. ASSUME SameSign(u, k)
      PROVE  /\ Normalise(u, k, c).units = u + Quotient(k, NanosMod)
             /\ Normalise(u, k, c).nanos = k - NanosMod * Quotient(k, NanosMod)
             /\ Normalise(u, k, c).currency = c
  BY <1>1 DEF Normalise, Remainder
<1>2. ASSUME ~SameSign(u, k), u > 0
      PROVE  /\ Normalise(u, k, c).units = u - 1
             /\ Normalise(u, k, c).nanos = Int32(k + NanosMod)
             /\ Normalise(u, k, c).currency = c
  BY <1>2 DEF Normalise
<1>3. ASSUME ~SameSign(u, k), u <= 0
      PROVE  /\ Normalise(u, k, c).units = u + 1
             /\ Normalise(u, k, c).nanos = Int32(k - NanosMod)
             /\ Normalise(u, k, c).currency = c
  BY <1>3 DEF Normalise
<1>4. CASE SameSign(u, k)
  <2>1. Quotient(k, NanosMod) = IF k >= NanosMod THEN 1
                                ELSE IF k <= -NanosMod THEN -1 ELSE 0
    BY CarryIsAtMostOne
  <2>2. QED
    BY <1>1, <1>4, <2>1, MoneyAssumption
<1>5. CASE ~SameSign(u, k) /\ u > 0
  <2>1. k < 0
    BY <1>5, MoneyAssumption DEF SameSign
  <2>2. Int32(k + NanosMod) = k + NanosMod
    BY <2>1, Int32Identity, MoneyAssumption
  <2>3. QED
    BY <1>2, <1>5, <2>2, MoneyAssumption
<1>6. CASE ~SameSign(u, k) /\ u <= 0
  <2>1. ASSUME k >= NanosMod - HalfInt32
        PROVE  Int32(k - NanosMod) = k - NanosMod
    BY <2>1, Int32Identity, MoneyAssumption
  <2>2. ASSUME k < NanosMod - HalfInt32
        PROVE  Int32(k - NanosMod) = k - NanosMod + 2 * HalfInt32
    BY <2>2, Int32Underflow, MoneyAssumption
  <2>3. QED
    BY <1>3, <1>6, <2>1, <2>2, MoneyAssumption
<1>7. QED
  BY <1>4, <1>5, <1>6

-----------------------------------------------------------------------------

\* What two operands that pass Sum's checks add up to, before Sum normalises
\* it: nanos of less than two units, the amounts being linear.
LEMMA AddedComponents ==
  ASSUME NEW l \in MoneyValue, NEW r \in MoneyValue, IsValid(l), IsValid(r)
  PROVE  /\ l.units + r.units \in Int
         /\ l.nanos + r.nanos \in Int
         /\ -(2 * NanosMod) < l.nanos + r.nanos
         /\ l.nanos + r.nanos < 2 * NanosMod
         /\ Amount(l) + Amount(r) =
                (l.units + r.units) * NanosMod + (l.nanos + r.nanos)
         /\ l.units + r.units > 0 => l.nanos + r.nanos > -NanosMod
         /\ l.units + r.units < 0 => l.nanos + r.nanos < NanosMod
<1>1. /\ l.units \in Int /\ l.nanos \in Int /\ r.units \in Int /\ r.nanos \in Int
      /\ -NanosMod < l.nanos /\ l.nanos < NanosMod
      /\ -NanosMod < r.nanos /\ r.nanos < NanosMod
      /\ l.units > 0 => l.nanos >= 0
      /\ l.units < 0 => l.nanos <= 0
      /\ r.units > 0 => r.nanos >= 0
      /\ r.units < 0 => r.nanos <= 0
  BY MoneyAssumption DEF MoneyValue, IsValid, ValidNanos, SignMatches
<1>2. /\ l.units + r.units \in Int
      /\ l.nanos + r.nanos \in Int
      /\ -(2 * NanosMod) < l.nanos + r.nanos
      /\ l.nanos + r.nanos < 2 * NanosMod
  BY <1>1, MoneyAssumption
<1>3. (l.units + r.units) * NanosMod = l.units * NanosMod + r.units * NanosMod
  BY <1>1, MoneyAssumption
<1>4. /\ l.units * NanosMod \in Int
      /\ r.units * NanosMod \in Int
  BY <1>1, MoneyAssumption
<1>5. /\ l.units + r.units > 0 => l.units > 0 \/ r.units > 0
      /\ l.units + r.units < 0 => l.units < 0 \/ r.units < 0
  BY <1>1
<1>6. /\ l.units + r.units > 0 => l.nanos + r.nanos > -NanosMod
      /\ l.units + r.units < 0 => l.nanos + r.nanos < NanosMod
  BY <1>1, <1>5, MoneyAssumption
<1>7. Amount(l) + Amount(r) =
          (l.units + r.units) * NanosMod + (l.nanos + r.nanos)
  <2> DEFINE p == l.units * NanosMod
             q == r.units * NanosMod
             s == (l.units + r.units) * NanosMod
  <2>1. p \in Int /\ q \in Int /\ s = p + q
    BY <1>3, <1>4
  <2>2. Amount(l) = p + l.nanos /\ Amount(r) = q + r.nanos
    BY DEF Amount
  <2> HIDE DEF p, q, s
  <2>3. Amount(l) + Amount(r) = s + (l.nanos + r.nanos)
    BY <1>1, <2>1, <2>2
  <2>4. QED
    BY <2>3 DEF s
<1>8. QED
  BY <1>2, <1>6, <1>7

\* money.Sum is exact: the amount of the sum of two valid values is the sum
\* of their amounts, unless the borrow leaves the int32 range.
THEOREM SumIsExactForAll ==
  ASSUME NEW l \in MoneyValue, NEW r \in MoneyValue, IsValid(l), IsValid(r),
         ~ (/\ l.units + r.units = 0
            /\ l.nanos + r.nanos < NanosMod - HalfInt32)
  PROVE  Amount(Sum(l, r)) = Amount(l) + Amount(r)
<1> DEFINE u == l.units + r.units
           k == l.nanos + r.nanos
           m == Sum(l, r)
<1>1. /\ u \in Int /\ k \in Int /\ -(2 * NanosMod) < k /\ k < 2 * NanosMod
      /\ Amount(l) + Amount(r) = u * NanosMod + k
  BY AddedComponents
<1>2. m = Normalise(u, k, l.currency)
  BY DEF Sum
<1>3. u < 0 /\ ~SameSign(u, k) => k > 0
  BY <1>1 DEF SameSign
<1>4. \/ m.units = u + 1 /\ m.nanos = k - NanosMod
      \/ m.units = u - 1 /\ m.nanos = k + NanosMod
      \/ m.units = u /\ m.nanos = k
  <2> HIDE DEF u, k, m
  <2>1. SameSign(u, k) \/ (~SameSign(u, k) /\ u > 0) \/ (~SameSign(u, k) /\ u <= 0)
    BY <1>1
  <2>2. ~SameSign(u, k) /\ u <= 0 => k >= NanosMod - HalfInt32
    BY <1>1, <1>3, MoneyAssumption DEF u, k
  <2>3. QED
    BY <1>1, <1>2, <2>1, <2>2, NormaliseCases, MoneyAssumption
<1>5. /\ (u + 1) * NanosMod = u * NanosMod + NanosMod
      /\ (u - 1) * NanosMod = u * NanosMod - NanosMod
  BY <1>1, MoneyAssumption
<1>6. u * NanosMod \in Int
  BY <1>1, MoneyAssumption
<1> HIDE DEF u, k, m
<1>7. m.units * NanosMod + m.nanos = u * NanosMod + k
  <2> DEFINE p == u * NanosMod
  <2>1. p \in Int /\ k \in Int /\ NanosMod \in Int
    BY <1>1, <1>6, MoneyAssumption
  <2>2. CASE m.units = u + 1 /\ m.nanos = k - NanosMod
    <3>1. m.units * NanosMod = p + NanosMod
      BY <1>5, <2>2
    <3> HIDE DEF p
    <3>2. QED
      BY <2>1, <2>2, <3>1 DEF p
  <2>3. CASE m.units = u - 1 /\ m.nanos = k + NanosMod
    <3>1. m.units * NanosMod = p - NanosMod
      BY <1>5, <2>3
    <3> HIDE DEF p
    <3>2. QED
      BY <2>1, <2>3, <3>1 DEF p
  <2>4. CASE m.units = u /\ m.nanos = k
    BY <2>4
  <2>5. QED
    BY <1>4, <2>2, <2>3, <2>4
<1>8. QED
  BY <1>1, <1>7 DEF Amount, m

\* money.Sum returns a representable value, with matching signs and less than
\* a unit of nanos, exactly when the units do not cancel, or the nanos cancel
\* too, or make a unit.
THEOREM SumIsValidForAll ==
  ASSUME NEW l \in MoneyValue, NEW r \in MoneyValue, IsValid(l), IsValid(r)
  PROVE  IsValid(Sum(l, r)) <=>
            \/ l.units + r.units # 0
            \/ l.nanos + r.nanos = 0
            \/ l.nanos + r.nanos >= NanosMod
<1> DEFINE u == l.units + r.units
           k == l.nanos + r.nanos
           m == Sum(l, r)
<1>1. /\ u \in Int /\ k \in Int /\ -(2 * NanosMod) < k /\ k < 2 * NanosMod
      /\ u > 0 => k > -NanosMod
      /\ u < 0 => k < NanosMod
  BY AddedComponents
<1>2. m = Normalise(u, k, l.currency)
  BY DEF Sum
<1>3. /\ u > 0 => SameSign(u, k) \/ k < 0
      /\ u < 0 => SameSign(u, k) \/ k > 0
      /\ u = 0 => (SameSign(u, k) <=> k = 0)
      /\ SameSign(u, k) /\ k > 0 => u > 0
      /\ SameSign(u, k) /\ k < 0 => u < 0
  BY <1>1 DEF SameSign
<1> HIDE DEF u, k, m
<1>4. IsValid(m) <=> u # 0 \/ k = 0 \/ k >= NanosMod
  <2>1. /\ m.units \in Int /\ m.nanos \in Int
    BY <1>1, <1>2, NormaliseCases
  <2>2. CASE u > 0
    <3>1. \/ m.units = u + 1 /\ m.nanos = k - NanosMod /\ k >= NanosMod
          \/ m.units = u /\ m.nanos = k /\ 0 <= k /\ k < NanosMod
          \/ m.units = u - 1 /\ m.nanos = k + NanosMod /\ k < 0
      BY <1>1, <1>2, <1>3, <2>2, NormaliseCases, MoneyAssumption
    <3>2. QED
      BY <1>1, <2>1, <2>2, <3>1, MoneyAssumption
         DEF IsValid, SignMatches, ValidNanos
  <2>3. CASE u < 0
    <3>1. \/ m.units = u - 1 /\ m.nanos = k + NanosMod /\ k <= -NanosMod
          \/ m.units = u /\ m.nanos = k /\ -NanosMod < k /\ k <= 0
          \/ m.units = u + 1 /\ m.nanos = k - NanosMod /\ k > 0
      BY <1>1, <1>2, <1>3, <2>3, NormaliseCases, MoneyAssumption
    <3>2. QED
      BY <1>1, <2>1, <2>3, <3>1, MoneyAssumption
         DEF IsValid, SignMatches, ValidNanos
  <2>4. CASE u = 0
    BY <1>1, <1>2, <1>3, <2>1, <2>4, NormaliseCases, MoneyAssumption
       DEF IsValid, SignMatches, ValidNanos
  <2>5. QED
    BY <1>1, <2>2, <2>3, <2>4
<1>5. QED
  BY <1>4 DEF u, k, m

\* Prices, which are not negative: their sum is exact, never has negative
\* units, and is a price again as soon as it reaches one unit or is zero.
THEOREM SumOfPrices ==
  ASSUME NEW l \in MoneyValue, NEW r \in MoneyValue, IsValid(l), IsValid(r),
         l.units >= 0, l.nanos >= 0, r.units >= 0, r.nanos >= 0
  PROVE  LET m == Sum(l, r) IN
         /\ m \in MoneyValue
         /\ m.currency = l.currency
         /\ Amount(m) = Amount(l) + Amount(r)
         /\ m.units >= l.units + r.units
         /\ m.nanos >= -NanosMod /\ m.nanos < NanosMod
         /\ IsValid(m) => m.nanos >= 0
         /\ \/ l.units + r.units > 0
            \/ l.nanos + r.nanos = 0
            \/ l.nanos + r.nanos >= NanosMod
            => IsValid(m) /\ m.nanos >= 0
<1> DEFINE u == l.units + r.units
           k == l.nanos + r.nanos
           m == Sum(l, r)
<1>1. /\ u \in Int /\ k \in Int /\ u >= 0 /\ k >= 0 /\ k < 2 * NanosMod
      /\ l.currency \in Currencies
  BY AddedComponents DEF MoneyValue
<1>2. m = Normalise(u, k, l.currency)
  BY DEF Sum
<1>3. Amount(m) = Amount(l) + Amount(r)
  BY <1>1, SumIsExactForAll, MoneyAssumption
<1>4. IsValid(m) <=> u # 0 \/ k = 0 \/ k >= NanosMod
  BY SumIsValidForAll
<1>5. m = [currency |-> m.currency, units |-> m.units, nanos |-> m.nanos]
  BY <1>2 DEF Normalise
<1>6. SameSign(u, k) <=> u > 0 \/ k = 0
  BY <1>1 DEF SameSign
<1> HIDE DEF u, k, m
<1>7. /\ m.units \in Int /\ m.nanos \in Int /\ m.currency = l.currency
      /\ m.units >= u /\ m.nanos >= -NanosMod /\ m.nanos < NanosMod
      /\ (u > 0 \/ k = 0 \/ k >= NanosMod) => m.nanos >= 0
  BY <1>1, <1>2, <1>6, NormaliseCases, MoneyAssumption
<1>8. m \in MoneyValue
  BY <1>1, <1>5, <1>7 DEF MoneyValue
<1>9. QED
  BY <1>1, <1>3, <1>4, <1>7, <1>8 DEF u, k, m

-----------------------------------------------------------------------------
(* What PlaceOrder makes of it.                                            *)

\* A valid money value whose components are not negative.
Price(m) == m \in MoneyValue /\ IsValid(m) /\ m.units >= 0 /\ m.nanos >= 0

\* What the invariant says of one accumulator.
Accumulator(m) ==
    /\ m \in [currency : {shipping.currency}, units : Nat, nanos : Int]
    /\ m.nanos \in -NanosMod .. NanosMod - 1
    /\ IsValid(m) => m.nanos >= 0

LEMMA CostsArePrices ==
  ASSUME NEW m \in Costs, shipping \in Costs
  PROVE  Price(m) /\ Accumulator(m)
  BY CostsAssumption, MoneyAssumption
     DEF Price, Accumulator, MoneyValue, IsValid, ValidNanos

LEMMA ValidAccumulatorIsPrice ==
  ASSUME NEW m, Accumulator(m), IsValid(m), shipping \in Costs
  PROVE  Price(m)
  BY CostsArePrices DEF Price, Accumulator, MoneyValue

\* One addition of the loop: it fails only on an invalid operand, and its
\* result is an accumulator again.
LEMMA Addition ==
  ASSUME NEW l, NEW r, Accumulator(l), Accumulator(r), shipping \in Costs,
         SumError(l, r) = NoError
  PROVE  LET m == Sum(l, r) IN
         /\ Accumulator(m)
         /\ Amount(m) = Amount(l) + Amount(r)
         /\ m.units >= l.units + r.units
         /\ \/ l.units + r.units > 0
            \/ l.nanos + r.nanos = 0
            \/ l.nanos + r.nanos >= NanosMod
            => IsValid(m)
<1>1. IsValid(l) /\ IsValid(r)
  BY DEF SumError, ErrInvalidValue, NoError
<1>2. Price(l) /\ Price(r)
  BY <1>1, ValidAccumulatorIsPrice
<1> DEFINE m == Sum(l, r)
<1>3. /\ m \in MoneyValue
      /\ m.currency = l.currency
      /\ Amount(m) = Amount(l) + Amount(r)
      /\ m.units >= l.units + r.units
      /\ m.nanos >= -NanosMod /\ m.nanos < NanosMod
      /\ IsValid(m) => m.nanos >= 0
      /\ \/ l.units + r.units > 0
         \/ l.nanos + r.nanos = 0
         \/ l.nanos + r.nanos >= NanosMod
         => IsValid(m) /\ m.nanos >= 0
  BY <1>2, SumOfPrices DEF Price
<1>4. l.currency = shipping.currency /\ l.units \in Nat /\ r.units \in Nat
  BY DEF Accumulator
<1> HIDE DEF m
<1>5. Accumulator(m)
  <2> DEFINE mu == m.units
             mk == m.nanos
  <2>a. /\ mu \in Int /\ mk \in Int /\ mu >= l.units + r.units
        /\ mk >= -NanosMod /\ mk < NanosMod
    BY <1>3 DEF MoneyValue
  <2>1. mu \in Nat /\ mk \in -NanosMod .. NanosMod - 1
    <3> HIDE DEF mu, mk
    <3>1. mk \in -NanosMod .. NanosMod - 1
      BY <2>a, MoneyAssumption
    <3>2. l.units + r.units \in Nat
      BY <1>4
    <3>3. mu \in Nat
      BY <2>a, <3>2
    <3>4. QED
      BY <3>1, <3>3
  <2>2. m \in [currency : {shipping.currency}, units : Nat, nanos : Int]
    BY <1>3, <1>4, <2>1 DEF MoneyValue
  <2>3. QED
    BY <1>3, <2>1, <2>2 DEF Accumulator
<1>6. QED
  BY <1>3, <1>5 DEF m

LEMMA NoErrorOnValid ==
  ASSUME NEW l, NEW r, Accumulator(l), Accumulator(r), IsValid(l), IsValid(r)
  PROVE  SumError(l, r) = NoError
  BY DEF SumError, Accumulator

LEMMA ErrorIsInvalid ==
  ASSUME NEW l, NEW r, Accumulator(l), Accumulator(r), SumError(l, r) # NoError
  PROVE  ~IsValid(l) \/ ~IsValid(r)
  BY NoErrorOnValid

LEMMA ZeroIsPrice ==
  ASSUME shipping \in Costs
  PROVE  /\ Accumulator(Zero) /\ IsValid(Zero)
         /\ Zero.units = 0 /\ Zero.nanos = 0
  BY MoneyAssumption DEF Zero, Accumulator, IsValid, ValidNanos, SignMatches

\* The type invariant and AccumulatorsArePrices, restated.
LEMMA Restated ==
  TypeOK /\ AccumulatorsArePrices <=>
      /\ shipping \in Costs /\ items \in Seq(OrderItem)
      /\ pc \in {"shipping", "items", "multiply", "charge", "panic"}
      /\ i \in 1 .. Len(items) + 1 /\ n \in Nat
      /\ Accumulator(total) /\ Accumulator(out)
      /\ pc = "multiply" => i <= Len(items)
  BY DEF TypeOK, AccumulatorsArePrices, Accumulator

LEMMA ItemFacts ==
  ASSUME TypeOK, i <= Len(items)
  PROVE  /\ i \in DOMAIN items
         /\ items[i].cost \in Costs /\ items[i].quantity \in Nat
         /\ Price(items[i].cost) /\ Accumulator(items[i].cost)
         /\ Amount(items[i].cost) \in Int
<1>1. i \in DOMAIN items /\ items[i] \in OrderItem
  BY DEF TypeOK
<1>2. items[i].cost \in Costs /\ items[i].quantity \in Nat
  BY <1>1, CostsAssumption DEF OrderItem
<1>3. Price(items[i].cost) /\ Accumulator(items[i].cost)
  BY <1>2, CostsArePrices DEF TypeOK
<1>4. QED
  BY <1>1, <1>2, <1>3, MoneyAssumption DEF Price, MoneyValue, Amount

-----------------------------------------------------------------------------

LEMMA InitIInv == Init => IInv
<1> SUFFICES ASSUME Init PROVE IInv
  OBVIOUS
<1>1. shipping \in Costs /\ items \in Seq(OrderItem)
  BY SeqDef, CostsAssumption DEF Init
<1>2. Accumulator(Zero) /\ IsValid(Zero)
  BY <1>1, ZeroIsPrice
<1>3. TypeOK /\ AccumulatorsArePrices
  BY <1>1, <1>2, Restated DEF Init
<1>4. QED
  BY <1>3 DEF Init, IInv, MultiplyInvariant, OrdinaryInvariant

LEMMA AddShippingIInv == IInv /\ AddShipping => IInv'
<1> SUFFICES ASSUME IInv, AddShipping PROVE IInv'
  OBVIOUS
<1> USE DEF IInv
<1>1. /\ shipping \in Costs /\ Accumulator(total) /\ Accumulator(out)
      /\ Accumulator(shipping) /\ Price(shipping)
      /\ UNCHANGED <<shipping, items, i, out, n>>
  BY Restated, CostsArePrices DEF AddShipping, Must
<1>2. CASE Must(total, shipping)
  <2>1. ~Ordinary
    BY <1>1, <1>2, ErrorIsInvalid, ZeroIsPrice
       DEF Must, OrdinaryInvariant, AddShipping, Price
  <2>2. (TypeOK /\ AccumulatorsArePrices)'
    BY <1>1, <1>2 DEF Must, TypeOK, AccumulatorsArePrices
  <2>3. QED
    BY <1>1, <1>2, <2>1, <2>2
       DEF Must, MultiplyInvariant, OrdinaryInvariant, Ordinary
<1>3. CASE SumError(total, shipping) = NoError /\ ~Must(total, shipping)
  <2>1. /\ total' = Sum(total, shipping) /\ pc' = "items"
    BY <1>3 DEF AddShipping
  <2>2. /\ Accumulator(total')
        /\ total'.units >= total.units + shipping.units
        /\ total.units + shipping.units > 0 => IsValid(total')
    BY <1>1, <1>3, <2>1, Addition
  <2>3. (TypeOK /\ AccumulatorsArePrices)'
    BY <1>1, <2>1, <2>2 DEF TypeOK, AccumulatorsArePrices, Accumulator
  <2>4. OrdinaryInvariant'
    <3>1. total.units \in Nat /\ shipping.units \in Nat
      BY <1>1 DEF Accumulator
    <3>2. total'.units \in Nat
      BY <2>2 DEF Accumulator
    <3>3. QED
      BY <1>1, <2>1, <2>2, <3>1, <3>2 DEF OrdinaryInvariant, Ordinary
  <2>5. QED
    BY <2>1, <2>3, <2>4 DEF MultiplyInvariant
<1>4. QED
  BY <1>2, <1>3 DEF AddShipping, Must

LEMMA StartItemIInv == IInv /\ StartItem => IInv'
<1> SUFFICES ASSUME IInv, StartItem PROVE IInv'
  OBVIOUS
<1> USE DEF IInv, StartItem
<1>1. /\ items[i].cost \in Costs /\ items[i].quantity \in Nat
      /\ Price(items[i].cost) /\ Accumulator(items[i].cost)
      /\ Amount(items[i].cost) \in Int
  BY ItemFacts
<1>2. (TypeOK /\ AccumulatorsArePrices)'
  BY <1>1 DEF TypeOK, AccumulatorsArePrices, Accumulator
<1>3. MultiplyInvariant'
  <2> DEFINE a == Amount(items[i].cost)
             q == items[i].quantity
  <2>1. a \in Int /\ q \in Nat
    BY <1>1
  <2>2. out' = items[i].cost /\ n' = q /\ i' = i /\ items' = items
    OBVIOUS
  <2>3. Amount(out') = a
    BY <2>2 DEF Amount
  <2> SUFFICES \/ n' = 0 /\ q = 0 /\ out' = items[i].cost
               \/ n' >= 1 /\ n' <= q /\ Amount(out') + (n' - 1) * a = q * a
    BY <2>2 DEF MultiplyInvariant, Amount
  <2> HIDE DEF a, q
  <2>4. a + (q - 1) * a = q * a
    BY <2>1
  <2>5. QED
    BY <2>1, <2>2, <2>3, <2>4
<1>4. OrdinaryInvariant'
  BY <1>1 DEF OrdinaryInvariant, Ordinary, Price
<1>5. QED
  BY <1>2, <1>3, <1>4

LEMMA MultiplyStepIInv == IInv /\ MultiplyStep => IInv'
<1> SUFFICES ASSUME IInv, MultiplyStep PROVE IInv'
  OBVIOUS
<1> USE DEF IInv
<1> DEFINE cost == items[i].cost
           q == items[i].quantity
<1>1. /\ i <= Len(items) /\ i \in DOMAIN items
      /\ cost \in Costs /\ q \in Nat /\ Price(cost) /\ Accumulator(cost)
      /\ Amount(cost) \in Int
  BY ItemFacts DEF MultiplyStep, AccumulatorsArePrices
<1>2. /\ shipping \in Costs /\ Accumulator(total) /\ Accumulator(out)
      /\ pc = "multiply" /\ n \in Nat /\ n > 1
      /\ UNCHANGED <<shipping, items, i, total>>
  BY Restated DEF MultiplyStep, Must
<1>3. n <= q /\ Amount(out) + (n - 1) * Amount(cost) = q * Amount(cost)
  BY <1>2 DEF MultiplyInvariant
<1>4. CASE Must(out, cost)
  <2>1. ~Ordinary
    BY <1>1, <1>2, <1>4, ErrorIsInvalid DEF Must, OrdinaryInvariant, Price
  <2>2. (TypeOK /\ AccumulatorsArePrices)'
    BY <1>2, <1>4 DEF Must, TypeOK, AccumulatorsArePrices
  <2>3. QED
    BY <1>2, <1>4, <2>1, <2>2
       DEF Must, MultiplyInvariant, OrdinaryInvariant, Ordinary
<1>5. CASE SumError(out, cost) = NoError /\ ~Must(out, cost)
  <2>1. out' = Sum(out, cost) /\ n' = n - 1 /\ pc' = pc
    BY <1>5 DEF MultiplyStep
  <2>2. /\ Accumulator(out')
        /\ Amount(out') = Amount(out) + Amount(cost)
        /\ out'.units >= out.units + cost.units
        /\ \/ out.units + cost.units > 0
           \/ out.nanos + cost.nanos = 0
           \/ out.nanos + cost.nanos >= NanosMod
           => IsValid(out')
    BY <1>1, <1>2, <1>5, <2>1, Addition
  <2>3. (TypeOK /\ AccumulatorsArePrices)'
    BY <1>2, <2>1, <2>2 DEF TypeOK, AccumulatorsArePrices, Accumulator
  <2>4. MultiplyInvariant'
    <3> DEFINE a == Amount(cost)
               o == Amount(out)
    <3>1. a \in Int /\ o \in Int
      BY <1>1, <1>2, MoneyAssumption DEF Amount, Accumulator
    <3>2. Amount(out') = o + a /\ o + (n - 1) * a = q * a
      BY <1>3, <2>2
    <3>3. (n - 1) * a = a + (n' - 1) * a
      <4> HIDE DEF a, o
      <4>1. QED
        BY <1>2, <2>1, <3>1
    <3>4. (n' - 1) * a \in Int /\ (n - 1) * a \in Int
      <4> HIDE DEF a, o
      <4>1. QED
        BY <1>2, <2>1, <3>1
    <3>5. Amount(out') + (n' - 1) * a = q * a
      <4> DEFINE x == (n - 1) * a
                 y == (n' - 1) * a
                 z == Amount(out')
                 w == q * a
      <4>1. x \in Int /\ y \in Int /\ x = a + y /\ z = o + a /\ o + x = w
        BY <3>2, <3>3, <3>4
      <4> HIDE DEF x, y, z, w, a, o
      <4>2. z + y = w
        BY <3>1, <4>1
      <4>3. QED
        BY <4>2 DEF y, z, w
    <3>6. /\ n' >= 1 /\ n' <= q
      BY <1>1, <1>2, <1>3, <2>1
    <3>7. /\ items[i]' = items[i]
          /\ Amount(items[i].cost)' = a /\ Amount(out)' = Amount(out')
      BY <1>2 DEF Amount
    <3>8. QED
      BY <3>5, <3>6, <3>7 DEF MultiplyInvariant
  <2>5. OrdinaryInvariant'
    <3> SUFFICES ASSUME Ordinary
                 PROVE  /\ IsValid(out')
                        /\ out'.units >= 1 \/ (Amount(out') = 0 /\ Amount(cost) = 0)
      BY <1>2, <2>1 DEF OrdinaryInvariant, Ordinary, Amount, IsValid, SignMatches, ValidNanos
    <3>1. /\ IsValid(out) /\ Price(out) /\ Multipliable(items[i]) /\ q > 1
          /\ out = cost \/ out.units >= 1 \/ (Amount(out) = 0 /\ Amount(cost) = 0)
      <4>1. IsValid(out)
        BY <1>2 DEF OrdinaryInvariant
      <4>2. out = cost \/ out.units >= 1 \/ (Amount(out) = 0 /\ Amount(cost) = 0)
        BY <1>2 DEF OrdinaryInvariant
      <4>3. Price(out)
        BY <1>2, <4>1, ValidAccumulatorIsPrice
      <4>4. Multipliable(items[i])
        BY <1>1 DEF Ordinary
      <4>5. q > 1
        <5> HIDE DEF q, cost
        <5>1. QED
          BY <1>1, <1>2, <1>3
      <4>6. QED
        BY <4>1, <4>2, <4>3, <4>4, <4>5
    <3>2. /\ cost.units \in Nat /\ cost.nanos \in Nat /\ cost.nanos < NanosMod
          /\ out.units \in Nat /\ out.nanos \in Nat /\ out.nanos < NanosMod
          /\ out'.units \in Nat
      BY <1>1, <2>2, <3>1, MoneyAssumption
         DEF Price, Accumulator, MoneyValue, IsValid, ValidNanos
    <3>3. CASE out.units + cost.units > 0
      BY <2>2, <3>2, <3>3
    <3>4. CASE out.units = 0 /\ cost.units = 0
      <4>1. Amount(out) = out.nanos /\ Amount(cost) = cost.nanos
        BY <3>2, <3>4, MoneyAssumption DEF Amount
      <4>2. CASE out.nanos = 0 /\ cost.nanos = 0
        BY <2>2, <4>1, <4>2
      <4>3. CASE out = cost /\ cost.nanos # 0
        <5>1. out.nanos + cost.nanos >= NanosMod
          <6>1. 2 * Amount(cost) >= NanosMod
            <7>1. q <= 1 \/ Amount(cost) = 0 \/ 2 * Amount(cost) >= NanosMod
              BY <3>1 DEF Multipliable
            <7> HIDE DEF q, cost
            <7>2. QED
              BY <1>1, <3>1, <4>1, <4>3, <7>1
          <6> HIDE DEF cost
          <6>2. QED
            BY <3>2, <4>1, <4>3, <6>1, MoneyAssumption
        <5>2. Amount(out') >= NanosMod /\ IsValid(out')
          BY <2>2, <3>2, <4>1, <5>1, MoneyAssumption
        <5>3. out'.nanos < NanosMod /\ out'.nanos \in Int
          BY <2>2, MoneyAssumption DEF Accumulator
        <5>4. out'.units # 0
          BY <5>2, <5>3, MoneyAssumption DEF Amount
        <5>5. QED
          BY <3>2, <5>2, <5>4
      <4>4. QED
        BY <3>1, <3>4, <4>1, <4>2, <4>3
    <3>5. QED
      BY <3>2, <3>3, <3>4
  <2>6. QED
    BY <2>3, <2>4, <2>5
<1>6. QED
  BY <1>4, <1>5 DEF MultiplyStep, Must

LEMMA AddItemIInv == IInv /\ AddItem => IInv'
<1> SUFFICES ASSUME IInv, AddItem PROVE IInv'
  OBVIOUS
<1> USE DEF IInv
<1>1. /\ shipping \in Costs /\ Accumulator(total) /\ Accumulator(out)
      /\ pc = "multiply" /\ i <= Len(items) /\ i \in Nat /\ Len(items) \in Nat
      /\ UNCHANGED <<shipping, items, out, n>>
  <2>1. items \in Seq(OrderItem) /\ i \in 1 .. Len(items) + 1
    BY Restated
  <2>2. Len(items) \in Nat
    BY <2>1, LenProperties
  <2>3. /\ shipping \in Costs /\ Accumulator(total) /\ Accumulator(out)
    BY Restated
  <2>4. pc = "multiply" /\ UNCHANGED <<shipping, items, out, n>>
    BY DEF AddItem, Must
  <2>5. i <= Len(items)
    BY <2>4, Restated
  <2>6. i \in Nat
    BY <2>1, <2>2
  <2>7. QED
    BY <2>2, <2>3, <2>4, <2>5, <2>6
<1>2. CASE Must(total, out)
  <2>1. ~Ordinary
    BY <1>1, <1>2, ErrorIsInvalid DEF Must, OrdinaryInvariant
  <2>2. (TypeOK /\ AccumulatorsArePrices)'
    BY <1>1, <1>2 DEF Must, TypeOK, AccumulatorsArePrices
  <2>3. QED
    BY <1>1, <1>2, <2>1, <2>2
       DEF Must, MultiplyInvariant, OrdinaryInvariant, Ordinary
<1>3. CASE SumError(total, out) = NoError /\ ~Must(total, out)
  <2>1. total' = Sum(total, out) /\ i' = i + 1 /\ pc' = "items"
    BY <1>3 DEF AddItem
  <2>2. /\ Accumulator(total')
        /\ total'.units >= total.units + out.units
        /\ total.units + out.units > 0 => IsValid(total')
    BY <1>1, <1>3, <2>1, Addition
  <2>3. (TypeOK /\ AccumulatorsArePrices)'
    BY <1>1, <2>1, <2>2 DEF TypeOK, AccumulatorsArePrices, Accumulator
  <2>4. total.units \in Nat /\ out.units \in Nat /\ total'.units \in Nat
    BY <1>1, <2>2 DEF Accumulator
  <2>5. OrdinaryInvariant'
    BY <1>1, <2>1, <2>2, <2>4 DEF OrdinaryInvariant, Ordinary
  <2>6. QED
    BY <2>1, <2>3, <2>5 DEF MultiplyInvariant
<1>4. QED
  BY <1>2, <1>3 DEF AddItem, Must

LEMMA ChargeIInv == IInv /\ Charge => IInv'
  BY DEF IInv, Charge, TypeOK, AccumulatorsArePrices, MultiplyInvariant,
         OrdinaryInvariant, Ordinary, Zero

LEMMA StutterIInv == IInv /\ UNCHANGED vars => IInv'
  BY DEF IInv, vars, TypeOK, AccumulatorsArePrices, MultiplyInvariant,
         OrdinaryInvariant, Ordinary, Zero

\* The inductive invariant: the type of the running values, what MultiplySlow
\* has left to add, and the range an ordinary order stays in.
THEOREM OrderTotalInvariant == Spec => []IInv
<1>1. IInv /\ [Next]_vars => IInv'
  BY AddShippingIInv, StartItemIInv, MultiplyStepIInv, AddItemIInv, ChargeIInv,
     StutterIInv DEF Next
<1>2. QED
  BY InitIInv, <1>1, PTL DEF Spec

\* No panic and a well-formed charge for every ordinary order.
THEOREM OrdinaryOrdersAreChargedForAll == Spec => []OrdinaryOrdersAreCharged
<1>1. IInv => OrdinaryOrdersAreCharged
  BY DEF IInv, OrdinaryInvariant, OrdinaryOrdersAreCharged
<1>2. QED
  BY OrderTotalInvariant, <1>1, PTL

\* Each item adds its billed amount to the total, to the nano.
LEMMA ItemIsAdded ==
  ASSUME IInv, [Next]_vars, pc = "multiply", pc' = "items"
  PROVE  Amount(total') = Amount(total) + Billed(items[i]) * Amount(items[i].cost)
<1>1. AddItem /\ SumError(total, out) = NoError /\ total' = Sum(total, out) /\ n <= 1
  BY DEF Next, AddShipping, StartItem, MultiplyStep, AddItem, Charge, Must, vars
<1>2. /\ shipping \in Costs /\ Accumulator(total) /\ Accumulator(out) /\ n \in Nat
      /\ i <= Len(items)
  BY Restated DEF IInv
<1>3. Amount(total') = Amount(total) + Amount(out)
  BY <1>1, <1>2, Addition
<1>4. /\ Amount(items[i].cost) \in Int /\ Amount(out) \in Int
      /\ items[i].quantity \in Nat
  BY <1>2, ItemFacts, MoneyAssumption DEF IInv, Accumulator, Amount
<1>5. Amount(out) = Billed(items[i]) * Amount(items[i].cost)
  <2> DEFINE a == Amount(items[i].cost)
             o == Amount(out)
             q == items[i].quantity
  <2>1. CASE n = 0
    <3>1. n = 0 /\ q = 0 /\ out = items[i].cost
      BY <2>1 DEF IInv, MultiplyInvariant
    <3>2. QED
      BY <1>4, <3>1 DEF Billed
  <2>2. CASE n = 1
    <3>1. 1 <= q /\ o + (1 - 1) * a = q * a
      BY <2>2 DEF IInv, MultiplyInvariant
    <3>2. Billed(items[i]) = q
      BY <1>4, <3>1 DEF Billed
    <3> HIDE DEF a, o
    <3>3. o = q * a
      BY <1>4, <3>1 DEF a, o
    <3>4. QED
      BY <3>2, <3>3 DEF a, o
  <2>3. n = 0 \/ n = 1
    <3>1. n \in Nat /\ n <= 1
      BY <1>1, <1>2
    <3> HIDE DEF a, o, q
    <3>2. QED
      BY <3>1
  <2>4. QED
    BY <2>1, <2>2, <2>3
<1>6. QED
  BY <1>3, <1>5

-----------------------------------------------------------------------------
(* The total is what is due.                                               *)

\* What an item is billed, in nanos, as the function that is added up.
BilledAmounts == [j \in DOMAIN items |-> Billed(items[j]) * Amount(items[j].cost)]

LEMMA DueIs ==
  ASSUME TypeOK
  PROVE  /\ DOMAIN items = 1 .. Len(items) /\ Len(items) \in Nat
         /\ \A j \in DOMAIN items : BilledAmounts[j] \in Int
         /\ Due(0) = Amount(shipping)
         /\ \A k \in 1 .. Len(items) : Due(k) = Due(k - 1) + BilledAmounts[k]
<1>1. DOMAIN items = 1 .. Len(items) /\ Len(items) \in Nat
      /\ \A j \in 1 .. Len(items) : items[j] \in OrderItem
  BY LenProperties, ElementOfSeq DEF TypeOK
<1>2. Amount(shipping) \in Int
  BY CostsArePrices, MoneyAssumption DEF TypeOK, Price, MoneyValue, Amount
<1>3. ASSUME NEW j \in DOMAIN items PROVE BilledAmounts[j] \in Int
  <2>1. items[j].cost \in Costs /\ items[j].quantity \in Nat
    BY <1>1, CostsAssumption DEF OrderItem
  <2>2. Amount(items[j].cost) \in Int /\ Billed(items[j]) \in Int
    <3>1. Price(items[j].cost)
      BY <2>1, CostsArePrices DEF TypeOK
    <3>2. items[j].cost.units \in Int /\ items[j].cost.nanos \in Int /\ NanosMod \in Int
      BY <3>1, MoneyAssumption DEF Price, MoneyValue
    <3>3. Amount(items[j].cost) \in Int
      BY <3>2 DEF Amount
    <3>4. Billed(items[j]) \in Int
      BY <2>1 DEF Billed
    <3> QED BY <3>3, <3>4
  <2>3. BilledAmounts[j] = Billed(items[j]) * Amount(items[j].cost)
    BY DEF BilledAmounts
  <2> QED BY <2>2, <2>3
<1>4. \A k : Due(k) = Amount(shipping) + SumFunctionOnSet(BilledAmounts, 1 .. k)
  BY DEF Due, BilledAmounts
<1>5. Due(0) = Amount(shipping)
  <2>1. 1 .. 0 = {}
    OBVIOUS
  <2>2. SumFunctionOnSet(BilledAmounts, {}) = 0
    BY SumType, FS_EmptySet
  <2> QED BY <1>2, <1>4, <2>1, <2>2
<1>6. ASSUME NEW k \in 1 .. Len(items) PROVE Due(k) = Due(k - 1) + BilledAmounts[k]
  <2>1. /\ k \in Nat /\ k - 1 \in Nat /\ 1 .. k = (1 .. k - 1) \cup {k}
        /\ k \notin 1 .. k - 1 /\ 1 .. k \subseteq DOMAIN items
    BY <1>1
  <2>2. IsFiniteSet(1 .. k - 1)
    BY <2>1, FS_Interval
  <2>3. \A y \in (1 .. k - 1) \cup {k} : BilledAmounts[y] \in Int
    BY <1>3, <2>1
  <2>4. SumFunctionOnSet(BilledAmounts, 1 .. k)
          = BilledAmounts[k] + SumFunctionOnSet(BilledAmounts, 1 .. k - 1)
    BY <2>1, <2>2, <2>3, SumAdds
  <2>5. BilledAmounts[k] \in Int /\ SumFunctionOnSet(BilledAmounts, 1 .. k - 1) \in Int
    BY <2>1, <2>2, <2>3, SumType
  <2> QED BY <1>2, <1>4, <2>4, <2>5
<1> QED BY <1>1, <1>3, <1>5, <1>6

LEMMA LoopInvariantStays ==
  ASSUME IInv, IInv', LoopInvariant, [Next]_vars PROVE LoopInvariant'
<1>1. /\ shipping' = shipping /\ items' = items /\ TypeOK
      /\ \A k : Due(k)' = Due(k')
  BY DEF Next, AddShipping, StartItem, MultiplyStep, AddItem, Charge, vars, IInv, Due, Billed
<1>2. Len(items) \in Nat /\ i \in 1 .. Len(items) + 1
  BY <1>1, DueIs DEF TypeOK
<1>3. CASE AddShipping /\ pc' # "panic"
  <2>1. /\ pc = "shipping" /\ pc' = "items" /\ i' = i /\ i = 1 /\ total = Zero
        /\ total' = Sum(total, shipping) /\ SumError(total, shipping) = NoError
    BY <1>3 DEF AddShipping, Must, LoopInvariant
  <2>2. Amount(total') = Amount(Zero) + Amount(shipping)
    BY <1>1, <2>1, Restated, CostsArePrices, Addition DEF IInv
  <2>3. Amount(Zero) = 0 /\ Amount(shipping) \in Int
    BY <1>1, CostsArePrices, MoneyAssumption
       DEF TypeOK, Zero, Amount, Price, MoneyValue
  <2>4. Amount(total') = Due(0)
    BY <1>1, <2>2, <2>3, DueIs
  <2> QED BY <1>1, <2>1, <2>4 DEF LoopInvariant, TotalIsExact, Due, Billed
<1>4. CASE pc = "multiply" /\ pc' = "items"
  <2>1. AddItem /\ i' = i + 1
    BY <1>4 DEF Next, AddShipping, StartItem, MultiplyStep, AddItem, Charge, Must, vars
  <2>2. Amount(total') = Amount(total) + Billed(items[i]) * Amount(items[i].cost)
    BY <1>4, ItemIsAdded
  <2>3. Amount(total) = Due(i - 1)
    BY <1>4 DEF LoopInvariant, TotalIsExact
  <2>4. i \in 1 .. Len(items)
    BY <1>2, <1>4 DEF IInv, AccumulatorsArePrices
  <2>5. Due(i) = Due(i - 1) + BilledAmounts[i]
    BY <1>1, <2>4, DueIs
  <2>6. BilledAmounts[i] = Billed(items[i]) * Amount(items[i].cost)
    BY <1>1, <2>4, DueIs DEF BilledAmounts
  <2>7. Amount(total') = Due(i)
    BY <2>2, <2>3, <2>5, <2>6
  <2>8. i' - 1 = i
    BY <1>2, <2>1
  <2> QED BY <1>1, <1>4, <2>7, <2>8 DEF LoopInvariant, TotalIsExact, Due, Billed
<1>5. CASE pc' = "panic"
  BY <1>5 DEF LoopInvariant, TotalIsExact
<1>6. CASE /\ UNCHANGED <<i, total>>
           /\ pc \in {"items", "multiply"} /\ pc' \in {"items", "multiply", "charge"}
           /\ pc' = "charge" => i > Len(items)
  BY <1>1, <1>2, <1>6 DEF LoopInvariant, TotalIsExact, Due, Billed
<1>7. CASE UNCHANGED vars
  BY <1>7 DEF vars, LoopInvariant, TotalIsExact, Due, Billed, Zero
<1> QED BY <1>3, <1>4, <1>5, <1>6, <1>7
        DEF Next, AddShipping, StartItem, MultiplyStep, AddItem, Charge, Must, vars

LEMMA LoopIsExact == Spec => []LoopInvariant
<1>1. Init => LoopInvariant
  BY DEF Init, LoopInvariant, TotalIsExact
<1>2. IInv /\ IInv' /\ LoopInvariant /\ [Next]_vars => LoopInvariant'
  BY LoopInvariantStays
<1> QED BY OrderTotalInvariant, <1>1, <1>2, PTL DEF Spec

\* PlaceOrder, checkout/main.go:338-342: whatever the intermediate sums look
\* like, the total is the shipping cost and each price times its quantity.
THEOREM TotalIsExactForAll == Spec => []TotalIsExact
<1>1. LoopInvariant => TotalIsExact
  BY DEF LoopInvariant
<1> QED BY LoopIsExact, <1>1, PTL

-----------------------------------------------------------------------------
(* What is shown is what is charged.                                       *)

\* Carrying what exceeds a unit keeps the amount.
LEMMA CarriedKeeps ==
  ASSUME NEW u \in Int, NEW k \in Int
  PROVE  ProductPrice(Carried(u, k)) = u * NanosMod + k
<1> DEFINE q == k \div NanosMod
           r == k % NanosMod
<1>1. NanosMod \in Int /\ NanosMod > 0
  BY MoneyAssumption
<1>2. q \in Int /\ r \in Int /\ NanosMod * q + r = k
  BY <1>1
<1>3. ProductPrice(Carried(u, k)) = (u + q) * NanosMod + r
  BY DEF ProductPrice, Carried
<1> HIDE DEF q, r
<1>4. (u + q) * NanosMod = NanosMod * (u + q)
  BY <1>1, <1>2
<1>5. NanosMod * (u + q) = NanosMod * u + NanosMod * q
  BY <1>1, <1>2, Distributes
<1>6. NanosMod * u = u * NanosMod /\ NanosMod * u \in Int /\ NanosMod * q \in Int
  BY <1>1, <1>2
<1> DEFINE a == NanosMod * u
           b == NanosMod * q
<1>7. a \in Int /\ b \in Int /\ b + r = k
      /\ ProductPrice(Carried(u, k)) = (a + b) + r /\ u * NanosMod = a
  BY <1>2, <1>3, <1>4, <1>5, <1>6
<1> HIDE DEF a, b
<1> QED BY <1>2, <1>7

\* What an item of a quantity that is not zero is billed, in three ways.
LEMMA ItemIsShown ==
  ASSUME TypeOK, NEW j \in DOMAIN items, items[j].quantity # 0
  PROVE  /\ items[j].quantity * items[j].cost.units \in Int
         /\ items[j].quantity * items[j].cost.nanos \in Int
         /\ BilledAmounts[j] = NanosMod * (items[j].quantity * items[j].cost.units)
                                 + items[j].quantity * items[j].cost.nanos
         /\ BilledAmounts[j] = ProductPrice(ItemTotal(items[j]))
<1> DEFINE q == items[j].quantity
           u == items[j].cost.units
           k == items[j].cost.nanos
<1>1. items[j] \in OrderItem
  BY DueIs, ElementOfSeq DEF TypeOK
<1>2. q \in Int /\ items[j].cost \in Costs
  <2>1. items[j].cost \in Costs /\ items[j].quantity \in Nat
    BY <1>1, CostsAssumption DEF OrderItem
  <2> QED BY <2>1
<1>3. Price(items[j].cost)
  BY <1>2, CostsArePrices DEF TypeOK
<1>4. u \in Int /\ k \in Int /\ NanosMod \in Int
  BY <1>3, MoneyAssumption DEF Price, MoneyValue
<1>5. BilledAmounts[j] = q * (u * NanosMod + k)
  BY DEF BilledAmounts, Billed, Amount
<1>6. ProductPrice(ItemTotal(items[j])) = (u * q) * NanosMod + k * q
  <2>1. u * q \in Int /\ k * q \in Int
    BY <1>2, <1>4
  <2>2. ItemTotal(items[j]) = Carried(u * q, k * q)
    BY DEF ItemTotal
  <2> QED BY <2>1, <2>2, CarriedKeeps
<1> HIDE DEF q, u, k
<1>7. q * u \in Int /\ q * k \in Int /\ u * NanosMod \in Int
      /\ u * q = q * u /\ k * q = q * k
  BY <1>2, <1>4
<1>8. q * (u * NanosMod + k) = q * (u * NanosMod) + q * k
  BY <1>2, <1>4, <1>7, Distributes
<1>9. q * (u * NanosMod) = NanosMod * (q * u) /\ (u * q) * NanosMod = NanosMod * (q * u)
  BY <1>2, <1>4
<1> QED BY <1>5, <1>6, <1>7, <1>8, <1>9 DEF q, u, k

LEMMA ChargeIsShown ==
  ASSUME IInv, LoopInvariant PROVE ShownIsCharged
<1> SUFFICES ASSUME pc = "charge", \A j \in DOMAIN items : items[j].quantity # 0
             PROVE  /\ ProductPrice(DisplayedTotal(items, shipping)) = Amount(total)
                    /\ ProductPrice(shipping) +
                         SumFunction([j \in DOMAIN items |-> ProductPrice(ItemTotal(items[j]))])
                           = Amount(total)
  BY DEF ShownIsCharged
<1> DEFINE f == [j \in DOMAIN items |-> items[j].quantity * items[j].cost.units]
           g == [j \in DOMAIN items |-> items[j].quantity * items[j].cost.nanos]
           t == [j \in DOMAIN items |-> ProductPrice(ItemTotal(items[j]))]
           D == DOMAIN items
           F == SumFunctionOnSet(f, D)
           G == SumFunctionOnSet(g, D)
           B == SumFunctionOnSet(BilledAmounts, D)
<1>1. TypeOK /\ D = 1 .. Len(items) /\ Len(items) \in Nat /\ IsFiniteSet(D)
  BY DueIs, FS_Interval DEF IInv
<1>2. Price(shipping)
  BY <1>1, CostsArePrices DEF TypeOK
<1>3. shipping.units \in Int /\ shipping.nanos \in Int /\ NanosMod \in Int
  BY <1>2, MoneyAssumption DEF Price, MoneyValue
<1>4. Amount(total) = Amount(shipping) + B
  <2>1. Amount(total) = Due(i - 1) /\ i - 1 = Len(items)
    BY <1>1 DEF LoopInvariant, TotalIsExact
  <2> QED BY <1>1, <2>1 DEF Due, BilledAmounts
<1>5. \A j \in D : /\ f[j] \in Int /\ g[j] \in Int
                    /\ BilledAmounts[j] = NanosMod * f[j] + g[j]
                    /\ BilledAmounts[j] = t[j]
  BY <1>1, ItemIsShown
<1>6. B = NanosMod * F + G /\ F \in Int /\ G \in Int
  <2> HIDE DEF f, g, t, D
  <2>1. \A j \in D : f[j] \in Int /\ g[j] \in Int /\ BilledAmounts[j] = NanosMod * f[j] + g[j]
    BY <1>5
  <2>2. SumFunctionOnSet(BilledAmounts, D) =
          NanosMod * SumFunctionOnSet(f, D) + SumFunctionOnSet(g, D)
    <3>1. IsFiniteSet(D)
      BY <1>1
    <3>2. NanosMod \in Int
      BY <1>3
    <3> HIDE DEF F, G, B
    <3> QED BY <2>1, <3>1, <3>2, SumLinear, SMTT(30)
  <2>3. F \in Int
    BY <1>1, <2>1, SumType
  <2>4. G \in Int
    BY <1>1, <2>1, SumType
  <2> QED BY <2>2, <2>3, <2>4
<1>7. B = SumFunctionOnSet(t, D)
  <2> HIDE DEF t, D
  <2> QED BY <1>1, <1>5, SumSame
<1>8. UnitsOf(items) = F /\ NanosOf(items) = G /\ SumFunction(t) = SumFunctionOnSet(t, D)
  BY DEF UnitsOf, NanosOf, SumFunction
<1>9. ProductPrice(DisplayedTotal(items, shipping))
        = (F + shipping.units) * NanosMod + (G + shipping.nanos)
  <2>1. DisplayedTotal(items, shipping) = Carried(F + shipping.units, G + shipping.nanos)
    BY <1>8 DEF DisplayedTotal
  <2> HIDE DEF F, G
  <2>2. F + shipping.units \in Int /\ G + shipping.nanos \in Int
    BY <1>3, <1>6
  <2> QED BY <2>1, <2>2, CarriedKeeps
<1>10. ProductPrice(shipping) = Amount(shipping)
  BY DEF ProductPrice, Amount
<1>11. (F + shipping.units) * NanosMod + (G + shipping.nanos)
         = (shipping.units * NanosMod + shipping.nanos) + (NanosMod * F + G)
  <2> HIDE DEF F, G
  <2> DEFINE u == shipping.units
             k == shipping.nanos
  <2>1. u \in Int /\ k \in Int
    BY <1>3
  <2> HIDE DEF u, k
  <2>2. (F + u) * NanosMod = NanosMod * (F + u)
    BY <1>3, <1>6, <2>1
  <2>3. NanosMod * (F + u) = NanosMod * F + NanosMod * u
    BY <1>3, <1>6, <2>1, Distributes
  <2>4. NanosMod * u = u * NanosMod /\ u * NanosMod \in Int /\ NanosMod * F \in Int
    BY <1>3, <1>6, <2>1
  <2> DEFINE a == u * NanosMod
             b == NanosMod * F
  <2>5. a \in Int /\ b \in Int /\ (F + u) * NanosMod = b + a
    BY <2>2, <2>3, <2>4
  <2> HIDE DEF a, b
  <2>6. (F + u) * NanosMod + (G + k) = (a + k) + (b + G)
    BY <1>6, <2>1, <2>5
  <2> QED BY <2>6 DEF a, b, u, k
<1> HIDE DEF F, G, B, t, D
<1> QED BY <1>4, <1>6, <1>7, <1>8, <1>9, <1>10, <1>11 DEF Amount, t

\* CartItems.tsx:37 and pages/cart/checkout/[orderId]/index.tsx:22 of the web
\* frontend, beside checkout/main.go:338: the total on the cart page, and that
\* on the page of the order, are what is charged.
THEOREM ShownIsChargedForAll == Spec => []ShownIsCharged
<1>1. IInv /\ LoopInvariant => ShownIsCharged
  BY ChargeIsShown
<1> QED BY OrderTotalInvariant, LoopIsExact, <1>1, PTL

-----------------------------------------------------------------------------
(* Single sums, as the runs check them.                                    *)

Registers == left \in MoneyValue /\ right \in MoneyValue

LEMMA RegistersHoldMoney == Calculating => []Registers
<1>0. \A x \in Int : Int32(x) \in Int
  BY MoneyAssumption DEF Int32
<1>1. Operands \subseteq MoneyValue
  BY MoneyAssumption, UnitsAreBounded DEF Operands, MoneyValue
<1>2. TurnOn => Registers
  BY <1>1 DEF TurnOn, Registers
<1>3. Registers /\ [Press]_registers => Registers'
  <2> SUFFICES ASSUME Registers, [Press]_registers PROVE Registers'
    OBVIOUS
  <2>1. CASE Enter
    BY <1>1, <2>1 DEF Enter, Registers
  <2>2. CASE Add
    <3>1. /\ left.units + right.units \in Int /\ left.nanos + right.nanos \in Int
          /\ left.currency \in Currencies
      BY DEF Registers, MoneyValue
    <3>2. IsValid(left) /\ IsValid(right)
      BY <2>2 DEF Add, SumError, NoError, ErrInvalidValue, ErrMismatchingCurrency
    <3> DEFINE m == Sum(left, right)
               record == [currency |-> m.currency, units |-> m.units, nanos |-> m.nanos]
    <3>3. /\ -(2 * NanosMod) < left.nanos + right.nanos
          /\ left.nanos + right.nanos < 2 * NanosMod
      BY <3>2, AddedComponents DEF Registers
    <3>4. m.units \in Int /\ m.nanos \in Int /\ m.currency \in Currencies
      BY <3>1, <3>3, NormaliseCases DEF Sum
    <3>5. m = record
      BY DEF Sum, Normalise
    <3>6. record \in MoneyValue
      <4> HIDE DEF m
      <4> QED BY <3>4 DEF MoneyValue
    <3> QED BY <2>2, <3>5, <3>6 DEF Add, Registers
  <2>3. CASE Flip
    <3>1. /\ left \in [currency : Currencies, units : Int, nanos : Int]
          /\ -left.units \in Int /\ -left.nanos \in Int
      BY DEF Registers, MoneyValue
    <3>2. Negate(left) \in MoneyValue
      BY <1>0, <3>1 DEF Negate, MoneyValue
    <3> QED BY <2>3, <3>2 DEF Flip, Registers
  <2>4. CASE UNCHANGED registers
    BY <2>4 DEF registers, Registers
  <2> QED BY <2>1, <2>2, <2>3, <2>4 DEF Press
<1> QED BY <1>2, <1>3, PTL DEF Calculating

\* money.go:81-109: adding two valid values, in any order and after any other
\* sums and changes of sign, neither loses nor makes up a nano.
THEOREM EverySumIsExact == Calculating => []SumIsExact
<1>1. Registers => SumIsExact
  <2>1. SumError(left, right) = NoError => IsValid(left) /\ IsValid(right)
    BY DEF SumError, NoError, ErrInvalidValue, ErrMismatchingCurrency
  <2> QED BY <2>1, SumIsExactForAll DEF Registers, SumIsExact
<1> QED BY RegistersHoldMoney, <1>1, PTL

\* money.go:81-109: and its sum is well formed exactly when the units do not
\* cancel, or the nanos cancel too, or make a unit.
THEOREM EverySumIsValid == Calculating => []SumIsValidExactly
<1>1. Registers => SumIsValidExactly
  <2>1. SumError(left, right) = NoError => IsValid(left) /\ IsValid(right)
    BY DEF SumError, NoError, ErrInvalidValue, ErrMismatchingCurrency
  <2> QED BY <2>1, SumIsValidForAll DEF Registers, SumIsValidExactly
<1> QED BY RegistersHoldMoney, <1>1, PTL

=============================================================================
