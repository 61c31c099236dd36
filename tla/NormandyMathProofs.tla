--------------------------- MODULE NormandyMathProofs ---------------------------
(***************************************************************************)
(* What the fixed-point formulas guarantee for every amount, rate and      *)
(* scale factor, and how totals over the users change and compare.         *)
(***************************************************************************)
EXTENDS NormandyMath, Totals, FiniteSetTheorems, TLAPS

-------------------------------------------------------------------------------
(***************************************************************************)
(* Division and truncation                                                 *)
(***************************************************************************)

\* A quotient of naturals is a natural, and multiplies back to at most the
\* dividend.
LEMMA QuotientBounds ==
  ASSUME NEW a \in Nat, NEW n \in Nat \ {0}
  PROVE  /\ a \div n \in Nat
         /\ n * (a \div n) <= a
         /\ a < n * (a \div n) + n
<1>1. a = n * (a \div n) + (a % n) /\ a % n \in 0 .. (n - 1)
  OBVIOUS
<1>2. a \div n \in Int
  OBVIOUS
<1>3. a \div n >= 0
  OBVIOUS
<1> QED
  BY <1>1, <1>2, <1>3

\* A product is monotone in a factor.
LEMMA ProductMonotone ==
  ASSUME NEW a \in Nat, NEW b \in Nat, NEW n \in Nat, a <= b
  PROVE  a * n <= b * n /\ a * n \in Nat
OBVIOUS

\* A quotient is below any bound whose product with the divisor reaches the
\* dividend.
LEMMA QuotientAtMost ==
  ASSUME NEW a \in Nat, NEW n \in Nat \ {0}, NEW b \in Nat, a <= b * n
  PROVE  a \div n <= b
<1> DEFINE q == a \div n
<1>1. q \in Nat /\ n * q <= a
  BY QuotientBounds
<1>2. SUFFICES ASSUME q > b PROVE FALSE
  BY <1>1
<1>3. (b + 1) * n <= q * n
  BY <1>1, <1>2, ProductMonotone
<1>4. (b + 1) * n = b * n + n
  OBVIOUS
<1>5. q * n = n * q
  BY <1>1
<1> HIDE DEF q
<1>6. b * n \in Nat
  OBVIOUS
<1> QED
  BY <1>1, <1>3, <1>4, <1>5, <1>6

\* A remainder is below the divisor and at most the dividend.
LEMMA RemainderBounds ==
  ASSUME NEW a \in Nat, NEW n \in Nat \ {0}
  PROVE  a % n \in 0 .. (n - 1) /\ a % n <= a
<1>1. a = n * (a \div n) + (a % n) /\ a % n \in 0 .. (n - 1)
  OBVIOUS
<1>2. a \div n \in Nat
  BY QuotientBounds
<1> DEFINE k == n * (a \div n)
           r == a % n
<1>3. k \in Nat /\ r \in Int /\ a = k + r
  BY <1>1, <1>2
<1> HIDE DEF k, r
<1>4. r <= a
  BY <1>3
<1> QED
  BY <1>1, <1>4 DEF r

\* A natural cast to u64 fits in u64 and has not grown.
LEMMA AsU64Type ==
  ASSUME NEW x \in Nat
  PROVE  AsU64(x) \in U64 /\ AsU64(x) <= x /\ AsU64(x) \in Nat
<1>1. U64Max \in Nat /\ U64Max + 1 \in Nat \ {0}
  BY MathAssumption
<1>2. x % (U64Max + 1) \in 0 .. (U64Max + 1 - 1) /\ x % (U64Max + 1) <= x
  BY <1>1, RemainderBounds
<1> QED
  BY <1>1, <1>2 DEF AsU64, U64

-------------------------------------------------------------------------------
(***************************************************************************)
(* Interest and fees                                                       *)
(***************************************************************************)

\* Interest is a natural.
LEMMA InterestType ==
  ASSUME NEW amount \in Nat, NEW bips \in Nat, NEW elapsed \in Nat
  PROVE  Interest(amount, bips, elapsed) \in Nat
<1>1. amount * bips * elapsed \in Nat
  OBVIOUS
<1>2. BIP_DENOMINATOR * SECONDS_PER_YEAR \in Nat \ {0}
  BY MathAssumption
<1> QED
  BY <1>1, <1>2, QuotientBounds DEF Interest

\* The protocol's cut is its share rounded down, so it is never more than the
\* interest it is cut from.
THEOREM CutWithinShare ==
  ASSUME NEW gross \in Nat
  PROVE  /\ ProtocolCut(gross) \in Nat
         /\ BIP_DENOMINATOR * ProtocolCut(gross) <= PROTOCOL_FEE_BIPS * gross
         /\ ProtocolCut(gross) <= gross
<1>1. /\ BIP_DENOMINATOR \in Nat \ {0}
      /\ PROTOCOL_FEE_BIPS \in Nat
      /\ PROTOCOL_FEE_BIPS <= BIP_DENOMINATOR
  BY MathAssumption
<1>2. gross * PROTOCOL_FEE_BIPS \in Nat
  BY <1>1
<1>3. gross * PROTOCOL_FEE_BIPS <= gross * BIP_DENOMINATOR
  BY <1>1
<1>4. ProtocolCut(gross) <= gross
  BY <1>1, <1>2, <1>3, QuotientAtMost DEF ProtocolCut
<1>5. /\ ProtocolCut(gross) \in Nat
      /\ BIP_DENOMINATOR * ProtocolCut(gross) <= gross * PROTOCOL_FEE_BIPS
  BY <1>1, <1>2, QuotientBounds DEF ProtocolCut
<1> QED
  BY <1>1, <1>4, <1>5

-------------------------------------------------------------------------------
(***************************************************************************)
(* Shares                                                                  *)
(***************************************************************************)

\* The scale factor never falls below its start, RAY.
LEMMA ScaleFactorAtLeastRay ==
  ASSUME NEW earned \in Nat, NEW deposits \in Nat \ {0}
  PROVE  ScaleFactor(earned, deposits) \in Nat /\ ScaleFactor(earned, deposits) >= RAY
<1>1. RAY \in Nat /\ earned * RAY \in Nat
  BY MathAssumption
<1>2. (earned * RAY) \div deposits \in Nat
  BY <1>1, QuotientBounds
<1> QED
  BY <1>1, <1>2 DEF ScaleFactor

\* Required reserves are a u64, whatever the ratio.
LEMMA RequiredReservesType ==
  ASSUME NEW deposits \in Nat, NEW ratio \in Nat
  PROVE  RequiredReserves(deposits, ratio) \in U64
<1>1. deposits * ratio \in Nat /\ BIP_DENOMINATOR \in Nat \ {0}
  BY MathAssumption
<1>2. (deposits * ratio) \div BIP_DENOMINATOR \in Nat
  BY <1>1, QuotientBounds
<1> QED
  BY <1>2, AsU64Type DEF RequiredReserves

\* When the reserves fit in a word the cast keeps them, and what is asked for is
\* the ratio of the deposits to within a token.
LEMMA ReservesCoverRatio ==
  ASSUME NEW deposits \in Nat, NEW ratio \in Nat,
         (deposits * ratio) \div BIP_DENOMINATOR <= U64Max
  PROVE  deposits * ratio < BIP_DENOMINATOR * (RequiredReserves(deposits, ratio) + 1)
<1> DEFINE x == deposits * ratio
           q == x \div BIP_DENOMINATOR
<1>1. U64Max \in Nat /\ BIP_DENOMINATOR \in Nat \ {0}
  BY MathAssumption
<1>2. x \in Nat
  OBVIOUS
<1>3. q <= U64Max /\ RequiredReserves(deposits, ratio) = q % (U64Max + 1)
  BY DEF RequiredReserves, AsU64
<1> HIDE DEF x
<1>4. q \in Nat /\ x < BIP_DENOMINATOR * q + BIP_DENOMINATOR
  BY <1>1, <1>2, QuotientBounds
<1> HIDE DEF q
<1>5. q % (U64Max + 1) = q
  BY <1>1, <1>3, <1>4
<1>6. BIP_DENOMINATOR * (q + 1) = BIP_DENOMINATOR * q + BIP_DENOMINATOR
  BY <1>1, <1>4
<1>7. x < BIP_DENOMINATOR * (q + 1)
  BY <1>4, <1>6
<1> QED
  BY <1>3, <1>5, <1>7 DEF x

\* A deposit buys at most as many scaled units as it has tokens.
LEMMA ScaledWithinAmount ==
  ASSUME NEW amount \in Nat, NEW scale \in Nat, scale >= RAY
  PROVE  /\ ScaledAmount(amount, scale) \in U64
         /\ ScaledAmount(amount, scale) <= amount
<1>1. RAY \in Nat \ {0} /\ scale \in Nat \ {0}
  BY MathAssumption
<1>2. amount * RAY \in Nat /\ amount * RAY <= amount * scale
  BY <1>1
<1>3. /\ (amount * RAY) \div scale \in Nat
      /\ (amount * RAY) \div scale <= amount
  BY <1>1, <1>2, QuotientBounds, QuotientAtMost
<1>4. /\ AsU64((amount * RAY) \div scale) \in U64
      /\ AsU64((amount * RAY) \div scale) <= (amount * RAY) \div scale
  BY <1>3, AsU64Type
<1>5. AsU64((amount * RAY) \div scale) \in Nat
  BY <1>4, MathAssumption DEF U64
<1> QED
  BY <1>3, <1>4, <1>5 DEF ScaledAmount

\* A payout is a u64, and multiplies back to at most the scaled value.
LEMMA PayoutBounds ==
  ASSUME NEW scaled \in Nat, NEW scale \in Nat
  PROVE  /\ Payout(scaled, scale) \in U64
         /\ Payout(scaled, scale) \in Nat
         /\ Payout(scaled, scale) * RAY <= scaled * scale
<1>1. RAY \in Nat \ {0} /\ scaled * scale \in Nat
  BY MathAssumption
<1> DEFINE q == (scaled * scale) \div RAY
<1>2. q \in Nat /\ RAY * q <= scaled * scale
  BY <1>1, QuotientBounds
<1>3. AsU64(q) \in U64 /\ AsU64(q) <= q /\ AsU64(q) \in Nat
  BY <1>2, AsU64Type
<1> HIDE DEF q
<1>4. AsU64(q) * RAY <= q * RAY
  BY <1>1, <1>2, <1>3, ProductMonotone
<1>5. q * RAY = RAY * q
  BY <1>1, <1>2
<1>6. AsU64(q) * RAY \in Nat /\ RAY * q \in Nat
  BY <1>1, <1>2, <1>3
<1>7. AsU64(q) * RAY <= scaled * scale
  BY <1>1, <1>2, <1>4, <1>5, <1>6
<1> QED
  BY <1>3, <1>7 DEF Payout, q

\* A deposit taken out again at the scale factor it went in at pays at most
\* what was put in: rounding never favours the depositor.
THEOREM DepositRoundTrip ==
  ASSUME NEW amount \in Nat, NEW scale \in Nat, scale >= RAY
  PROVE  Payout(ScaledAmount(amount, scale), scale) <= amount
<1> DEFINE s == ScaledAmount(amount, scale)
           q == (amount * RAY) \div scale
<1>1. RAY \in Nat \ {0} /\ scale \in Nat \ {0}
  BY MathAssumption
<1>2. amount * RAY \in Nat
  BY <1>1
<1>3. q \in Nat /\ scale * q <= amount * RAY
  BY <1>1, <1>2, QuotientBounds
<1>4. s \in Nat /\ s <= q
  BY <1>3, AsU64Type DEF ScaledAmount
<1>5. Payout(s, scale) \in Nat /\ Payout(s, scale) * RAY <= s * scale
  BY <1>4, PayoutBounds
<1> DEFINE y == Payout(s, scale)
<1> HIDE DEF s, q, y
<1>6. s * scale <= q * scale /\ s * scale \in Nat
  BY <1>1, <1>3, <1>4, ProductMonotone
<1>7. q * scale = scale * q
  BY <1>1, <1>3
<1>8. y \in Nat /\ y * RAY \in Nat /\ y * RAY <= amount * RAY
  BY <1>1, <1>2, <1>3, <1>5, <1>6, <1>7 DEF y
<1>9. y <= amount
  <2>1. SUFFICES ASSUME y > amount PROVE FALSE
    BY <1>8
  <2>2. (amount + 1) * RAY <= y * RAY
    BY <1>1, <1>8, <2>1, ProductMonotone
  <2>3. (amount + 1) * RAY = amount * RAY + RAY
    BY <1>1
  <2> QED
    BY <1>1, <1>2, <1>8, <2>2, <2>3
<1> QED
  BY <1>9 DEF y, s

-------------------------------------------------------------------------------
(***************************************************************************)
(* Gains                                                                   *)
(***************************************************************************)

\* What a share is worth above the tokens put in, times RAY: what it takes from
\* the interest.
Gain(scaled, deposited, scale) ==
  IF scaled * scale > deposited * RAY THEN scaled * scale - deposited * RAY ELSE 0

\* A share is worth its deposit and its gain, at most.
LEMMA GainType ==
  ASSUME NEW scaled \in Nat, NEW deposited \in Nat, NEW scale \in Nat
  PROVE  /\ Gain(scaled, deposited, scale) \in Nat
         /\ scaled * scale <= deposited * RAY + Gain(scaled, deposited, scale)
<1> DEFINE x == scaled * scale
           y == deposited * RAY
<1>1. x \in Nat /\ y \in Nat
  BY MathAssumption
<1>2. Gain(scaled, deposited, scale) = IF x > y THEN x - y ELSE 0
  BY DEF Gain
<1> HIDE DEF x, y
<1>3. /\ Gain(scaled, deposited, scale) \in Nat
      /\ x <= y + Gain(scaled, deposited, scale)
  BY <1>1, <1>2
<1> QED
  BY <1>3 DEF x, y

\* A gain is below any bound that covers what the share is worth.
LEMMA GainAtMost ==
  ASSUME NEW scaled \in Nat, NEW deposited \in Nat, NEW scale \in Nat, NEW b \in Nat,
         scaled * scale <= deposited * RAY + b
  PROVE  Gain(scaled, deposited, scale) <= b
<1> DEFINE x == scaled * scale
           y == deposited * RAY
<1>1. x \in Nat /\ y \in Nat /\ x <= y + b
  BY MathAssumption
<1>2. Gain(scaled, deposited, scale) = IF x > y THEN x - y ELSE 0
  BY DEF Gain
<1> HIDE DEF x, y
<1> QED
  BY <1>1, <1>2

\* Right after an accrual a lender's gain is at most its deposit's part of the
\* interest per token.
LEMMA GainAtScaleFactor ==
  ASSUME NEW scaled \in Nat, NEW deposited \in Nat, scaled <= deposited,
         NEW earned \in Nat, NEW deposits \in Nat \ {0}
  PROVE  Gain(scaled, deposited, ScaleFactor(earned, deposits))
           <= deposited * ((earned * RAY) \div deposits)
<1> DEFINE q == (earned * RAY) \div deposits
           sf == ScaleFactor(earned, deposits)
<1>1. RAY \in Nat /\ q \in Nat
  <2>1. RAY \in Nat /\ earned * RAY \in Nat
    BY MathAssumption
  <2> QED
    BY <2>1, QuotientBounds
<1>2. sf = RAY + q
  BY DEF ScaleFactor
<1> HIDE DEF q, sf
<1>3. scaled * sf <= deposited * sf
  BY <1>1, <1>2, ProductMonotone
<1>4. deposited * sf = deposited * RAY + deposited * q /\ deposited * q \in Nat
  BY <1>1, <1>2
<1>5. sf \in Nat
  BY <1>1, <1>2
<1>6. deposited * q \in Nat /\ scaled * sf <= deposited * RAY + deposited * q
  BY <1>3, <1>4
<1>7. Gain(scaled, deposited, sf) <= deposited * q
  <2> DEFINE b == deposited * q
  <2>1. b \in Nat /\ scaled * sf <= deposited * RAY + b
    BY <1>6
  <2> HIDE DEF b
  <2>2. Gain(scaled, deposited, sf) <= b
    BY <1>5, <2>1, GainAtMost
  <2> QED
    BY <2>2 DEF b
<1> QED
  BY <1>7 DEF q, sf

\* What a deposit buys is worth at most what is put in.
LEMMA ScaledWorth ==
  ASSUME NEW amount \in Nat, NEW scale \in Nat, scale >= RAY
  PROVE  ScaledAmount(amount, scale) * scale <= amount * RAY
<1> DEFINE q == (amount * RAY) \div scale
           s == ScaledAmount(amount, scale)
<1>1. scale \in Nat \ {0} /\ amount * RAY \in Nat
  BY MathAssumption
<1>2. q \in Nat /\ scale * q <= amount * RAY
  BY <1>1, QuotientBounds
<1>3. s \in Nat /\ s <= q
  BY <1>2, AsU64Type DEF ScaledAmount
<1> HIDE DEF q, s
<1>4. s * scale <= q * scale /\ q * scale = scale * q
  BY <1>2, <1>3, ProductMonotone
<1>5. s * scale \in Nat /\ scale * q \in Nat
  BY <1>2, <1>3
<1>6. s * scale <= amount * RAY
  BY <1>1, <1>2, <1>4, <1>5
<1> QED
  BY <1>6 DEF s

\* A deposit adds nothing to the gain of its lender.
LEMMA GainOfDeposit ==
  ASSUME NEW scaled \in Nat, NEW deposited \in Nat, NEW amount \in Nat,
         NEW scale \in Nat, scale >= RAY
  PROVE  Gain(scaled + ScaledAmount(amount, scale), deposited + amount, scale)
           <= Gain(scaled, deposited, scale)
<1> DEFINE s == ScaledAmount(amount, scale)
           g == Gain(scaled, deposited, scale)
<1>1. s \in Nat
  BY ScaledWithinAmount, MathAssumption DEF U64
<1>2. s * scale <= amount * RAY
  BY ScaledWorth
<1>3. g \in Nat /\ scaled * scale <= deposited * RAY + g
  BY GainType
<1> HIDE DEF s, g
<1>4. /\ (scaled + s) * scale = scaled * scale + s * scale
      /\ (deposited + amount) * RAY = deposited * RAY + amount * RAY
      /\ scaled * scale \in Nat /\ s * scale \in Nat
      /\ deposited * RAY \in Nat /\ amount * RAY \in Nat
  BY <1>1, MathAssumption
<1>5. (scaled + s) * scale <= (deposited + amount) * RAY + g
  BY <1>2, <1>3, <1>4
<1>6. Gain(scaled + s, deposited + amount, scale) <= g
  BY <1>1, <1>3, <1>5, GainAtMost
<1> QED
  BY <1>6 DEF s, g


-------------------------------------------------------------------------------
(***************************************************************************)
(* Totals, by counting units: what a change of one entry does to the       *)
(* total, and how totals compare                                           *)
(***************************************************************************)

\* The units of x alone.
UnitsOf(f, x) == {x} \X (1 .. f[x])

\* One entry has as many units as tokens.
LEMMA UnitsOfCount ==
  ASSUME NEW f, NEW x, f[x] \in Nat
  PROVE  /\ IsFiniteSet(UnitsOf(f, x))
         /\ Cardinality(UnitsOf(f, x)) = f[x]
<1>1. IsFiniteSet({x}) /\ Cardinality({x}) = 1
  BY FS_Singleton
<1>2. IsFiniteSet(1 .. f[x]) /\ Cardinality(1 .. f[x]) = f[x]
  BY FS_Interval
<1>3. /\ IsFiniteSet({x} \X (1 .. f[x]))
      /\ Cardinality({x} \X (1 .. f[x])) = Cardinality({x}) * Cardinality(1 .. f[x])
  BY <1>1, <1>2, FS_Product
<1> QED
  BY <1>1, <1>2, <1>3 DEF UnitsOf

\* A total over a finite set is a number.
LEMMA TotalType ==
  ASSUME NEW S, IsFiniteSet(S), NEW f \in [S -> Nat]
  PROVE  /\ IsFiniteSet(Units(f))
         /\ Total(f) \in Nat
<1> DEFINE G == [x \in S |-> UnitsOf(f, x)]
           T == {UnitsOf(f, x) : x \in S}
<1>1. G \in Surjection(S, T)
  BY DEF Surjection
<1>2. IsFiniteSet(T)
  BY <1>1, FS_Surjection
<1>3. \A U \in T : IsFiniteSet(U)
  BY UnitsOfCount
<1>4. IsFiniteSet(UNION T)
  BY <1>2, <1>3, FS_UNION
<1>5. Units(f) = UNION T
  BY DEF Units, UnitsOf
<1> QED
  BY <1>4, <1>5, FS_CardinalityType DEF Total

\* An entry is at most the total.
LEMMA TotalMember ==
  ASSUME NEW S, IsFiniteSet(S), NEW f \in [S -> Nat], NEW x \in S
  PROVE  f[x] <= Total(f)
<1>1. UnitsOf(f, x) \in SUBSET Units(f)
  BY DEF Units, UnitsOf
<1>2. Cardinality(UnitsOf(f, x)) <= Cardinality(Units(f))
  BY <1>1, TotalType, FS_Subset
<1> QED
  BY <1>2, UnitsOfCount DEF Total

\* A total of zeros is zero.
LEMMA TotalZero ==
  ASSUME NEW S, NEW f \in [S -> Nat], \A x \in S : f[x] = 0
  PROVE  Total(f) = 0
<1>1. \A x \in S : UnitsOf(f, x) = {}
  <2> SUFFICES ASSUME NEW x \in S PROVE UnitsOf(f, x) = {}
    OBVIOUS
  <2>1. 1 .. f[x] = {}
    OBVIOUS
  <2> QED
    BY <2>1 DEF UnitsOf
<1>2. Units(f) = {}
  BY <1>1 DEF Units, UnitsOf
<1> QED
  BY <1>2, FS_EmptySet DEF Total

\* A function that is nowhere larger has no larger total.
LEMMA TotalMonotone ==
  ASSUME NEW S, IsFiniteSet(S), NEW f \in [S -> Nat], NEW g \in [S -> Nat],
         \A x \in S : f[x] <= g[x]
  PROVE  Total(f) <= Total(g)
<1>1. \A x \in S : UnitsOf(f, x) \subseteq UnitsOf(g, x)
  <2> SUFFICES ASSUME NEW x \in S PROVE UnitsOf(f, x) \subseteq UnitsOf(g, x)
    OBVIOUS
  <2>1. f[x] \in Nat /\ g[x] \in Nat /\ f[x] <= g[x]
    OBVIOUS
  <2>2. 1 .. f[x] \subseteq 1 .. g[x]
    BY <2>1
  <2> QED
    BY <2>2 DEF UnitsOf
<1>2. Units(f) \in SUBSET Units(g)
  BY <1>1 DEF Units, UnitsOf
<1> QED
  BY <1>2, TotalType, FS_Subset DEF Total

\* The units of everyone but x.
RestOf(f, x) == UNION {UnitsOf(f, y) : y \in DOMAIN f \ {x}}

\* The total is one entry and the rest.
LEMMA TotalSplit ==
  ASSUME NEW S, IsFiniteSet(S), NEW f \in [S -> Nat], NEW x \in S
  PROVE  /\ Cardinality(RestOf(f, x)) \in Nat
         /\ Total(f) = Cardinality(RestOf(f, x)) + f[x]
<1>1. Units(f) = RestOf(f, x) \union UnitsOf(f, x)
  BY DEF Units, UnitsOf, RestOf
<1>2. RestOf(f, x) \intersect UnitsOf(f, x) = {}
  BY DEF UnitsOf, RestOf
<1>3. IsFiniteSet(RestOf(f, x))
  BY <1>1, TotalType, FS_Subset
<1>4. IsFiniteSet(UnitsOf(f, x)) /\ Cardinality(UnitsOf(f, x)) = f[x]
  BY UnitsOfCount
<1>5. Cardinality(Units(f)) = Cardinality(RestOf(f, x)) + f[x] - Cardinality({})
  BY <1>1, <1>2, <1>3, <1>4, FS_Union
<1> QED
  BY <1>3, <1>5, FS_EmptySet, FS_CardinalityType DEF Total

\* Changing one entry changes the total by as much.
THEOREM TotalUpdate ==
  ASSUME NEW S, IsFiniteSet(S), NEW f \in [S -> Nat], NEW x \in S, NEW v \in Nat
  PROVE  Total([f EXCEPT ![x] = v]) = Total(f) - f[x] + v
<1> DEFINE g == [f EXCEPT ![x] = v]
<1>1. g \in [S -> Nat] /\ g[x] = v
  OBVIOUS
<1>2. \A y \in S \ {x} : UnitsOf(g, y) = UnitsOf(f, y)
  BY DEF UnitsOf
<1>3. RestOf(g, x) = RestOf(f, x)
  BY <1>1, <1>2 DEF RestOf
<1>4. Total(g) = Cardinality(RestOf(f, x)) + v
  BY <1>1, <1>3, TotalSplit
<1>5. /\ Cardinality(RestOf(f, x)) \in Nat
      /\ Total(f) = Cardinality(RestOf(f, x)) + f[x]
  BY TotalSplit
<1> QED
  BY <1>4, <1>5

-------------------------------------------------------------------------------
(***************************************************************************)
(* Sums and multiples, entry by entry                                      *)
(***************************************************************************)

\* What holds of the empty set and survives each new element holds of a finite
\* set: Good is the set of the subsets it holds of.
LEMMA SubsetInduction ==
  ASSUME NEW S, IsFiniteSet(S), NEW Good \in SUBSET (SUBSET S), {} \in Good,
         \A T \in Good, x \in S : T \union {x} \in Good
  PROVE  S \in Good
<1> DEFINE R == StrictSubsetOrdering(S)
           Bad == (SUBSET S) \ Good
<1>1. SUFFICES ASSUME S \notin Good PROVE FALSE
  OBVIOUS
<1>2. IsWellFoundedOn(R, SUBSET S)
  BY FS_StrictSubsetOrderingWellFounded, FS_FiniteSubsetsOfFinite
<1>3. \A T, U \in SUBSET S : T \subseteq U /\ T # U => <<T, U>> \in R
  BY DEF StrictSubsetOrdering
<1>4. Bad \subseteq SUBSET S /\ Bad # {}
  BY <1>1
<1>5. \E U \in Bad : \A T \in Bad : ~ (<<T, U>> \in R)
  <2> HIDE DEF R, Bad
  <2> QED
    BY <1>2, <1>4, WFMin
<1> HIDE DEF R
<1>6. PICK U \in Bad : \A T \in Bad : ~ (<<T, U>> \in R)
  BY <1>5
<1>7. PICK x \in U : TRUE
  BY <1>6
<1>8. U \ {x} \in Good
  BY <1>3, <1>6, <1>7
<1>9. (U \ {x}) \union {x} = U /\ x \in S
  BY <1>6, <1>7
<1> QED
  BY <1>6, <1>8, <1>9

\* f on the set T, and zero elsewhere.
Within(f, T) == [x \in DOMAIN f |-> IF x \in T THEN f[x] ELSE 0]

\* The total of f on T grows by an entry with each new element of T.
LEMMA TotalWithin ==
  ASSUME NEW S, IsFiniteSet(S), NEW f \in [S -> Nat]
  PROVE  /\ Total(Within(f, {})) = 0
         /\ Within(f, S) = f
         /\ \A T \in SUBSET S, x \in S : x \notin T =>
              Total(Within(f, T \union {x})) = Total(Within(f, T)) + f[x]
         /\ \A T \in SUBSET S : Total(Within(f, T)) \in Nat
<1>1. \A T \in SUBSET S : Within(f, T) \in [S -> Nat]
  BY DEF Within
<1>2. Total(Within(f, {})) = 0
  <2>1. \A x \in S : Within(f, {})[x] = 0
    BY DEF Within
  <2> QED
    BY <1>1, <2>1, TotalZero
<1>3. ASSUME NEW T \in SUBSET S, NEW x \in S, x \notin T
      PROVE  Total(Within(f, T \union {x})) = Total(Within(f, T)) + f[x]
  <2> DEFINE g == Within(f, T)
  <2>1. g \in [S -> Nat] /\ g[x] = 0 /\ f[x] \in Nat /\ Total(g) \in Nat
    BY <1>1, <1>3, TotalType DEF Within
  <2>2. Within(f, T \union {x}) = [g EXCEPT ![x] = f[x]]
    BY DEF Within
  <2> HIDE DEF g
  <2>3. Total([g EXCEPT ![x] = f[x]]) = Total(g) - g[x] + f[x]
    BY <2>1, TotalUpdate
  <2>4. Total([g EXCEPT ![x] = f[x]]) = Total(g) + f[x]
    BY <2>1, <2>3
  <2> QED
    BY <2>2, <2>4 DEF g
<1>4. Within(f, S) = f
  BY DEF Within
<1> QED
  BY <1>1, <1>2, <1>3, <1>4, TotalType

\* The total of a sum is the sum of the totals.
LEMMA TotalSum ==
  ASSUME NEW S, IsFiniteSet(S), NEW f \in [S -> Nat], NEW g \in [S -> Nat]
  PROVE  Total([x \in S |-> f[x] + g[x]]) = Total(f) + Total(g)
<1> DEFINE h == [x \in S |-> f[x] + g[x]]
           Good == {T \in SUBSET S :
             Total(Within(h, T)) = Total(Within(f, T)) + Total(Within(g, T))}
<1>1. h \in [S -> Nat] /\ \A x \in S : h[x] = f[x] + g[x]
  OBVIOUS
<1> HIDE DEF h
<1>2. {} \in Good
  BY <1>1, TotalWithin
<1>3. ASSUME NEW T \in Good, NEW x \in S PROVE T \union {x} \in Good
  <2>1. CASE x \in T
    <3>1. T \union {x} = T
      BY <2>1
    <3> QED
      BY <3>1
  <2>2. CASE x \notin T
    <3> DEFINE U == T \union {x}
    <3>1. U \in SUBSET S
      OBVIOUS
    <3>2. /\ Total(Within(h, U)) = Total(Within(h, T)) + h[x]
          /\ Total(Within(f, U)) = Total(Within(f, T)) + f[x]
          /\ Total(Within(g, U)) = Total(Within(g, T)) + g[x]
      BY <1>1, <2>2, TotalWithin
    <3>3. /\ Total(Within(f, T)) \in Nat /\ Total(Within(g, T)) \in Nat
          /\ f[x] \in Nat /\ g[x] \in Nat /\ h[x] = f[x] + g[x]
      BY <1>1, TotalWithin
    <3>4. Total(Within(h, T)) = Total(Within(f, T)) + Total(Within(g, T))
      OBVIOUS
    <3> HIDE DEF U
    <3>5. Total(Within(h, U)) = Total(Within(f, U)) + Total(Within(g, U))
      BY <3>2, <3>3, <3>4
    <3>6. U \in Good
      BY <3>1, <3>5
    <3> QED
      BY <3>6 DEF U
  <2> QED
    BY <2>1, <2>2
<1>4. S \in Good
  <2>1. Good \in SUBSET (SUBSET S)
    OBVIOUS
  <2> HIDE DEF Good
  <2> QED
    BY <1>2, <1>3, <2>1, SubsetInduction
<1>5. Total(Within(h, S)) = Total(Within(f, S)) + Total(Within(g, S))
  BY <1>4
<1> QED
  BY <1>1, <1>5, TotalWithin DEF h

\* The total of a multiple is the multiple of the total.
LEMMA TotalMultiple ==
  ASSUME NEW S, IsFiniteSet(S), NEW f \in [S -> Nat], NEW k \in Nat
  PROVE  Total([x \in S |-> k * f[x]]) = k * Total(f)
<1> DEFINE h == [x \in S |-> k * f[x]]
           Good == {T \in SUBSET S : Total(Within(h, T)) = k * Total(Within(f, T))}
<1>1. h \in [S -> Nat] /\ \A x \in S : h[x] = k * f[x]
  OBVIOUS
<1> HIDE DEF h
<1>2. {} \in Good
  BY <1>1, TotalWithin
<1>3. ASSUME NEW T \in Good, NEW x \in S PROVE T \union {x} \in Good
  <2>1. CASE x \in T
    <3>1. T \union {x} = T
      BY <2>1
    <3> QED
      BY <3>1
  <2>2. CASE x \notin T
    <3> DEFINE U == T \union {x}
    <3>1. U \in SUBSET S
      OBVIOUS
    <3>2. /\ Total(Within(h, U)) = Total(Within(h, T)) + h[x]
          /\ Total(Within(f, U)) = Total(Within(f, T)) + f[x]
      BY <1>1, <2>2, TotalWithin
    <3>3. /\ Total(Within(f, T)) \in Nat
          /\ f[x] \in Nat /\ h[x] = k * f[x]
      BY <1>1, TotalWithin
    <3>4. Total(Within(h, T)) = k * Total(Within(f, T))
      OBVIOUS
    <3>5. k * Total(Within(f, T)) + k * f[x] = k * (Total(Within(f, T)) + f[x])
      BY <3>3
    <3> HIDE DEF U
    <3>6. Total(Within(h, U)) = k * Total(Within(f, U))
      BY <3>2, <3>3, <3>4, <3>5
    <3>7. U \in Good
      BY <3>1, <3>6
    <3> QED
      BY <3>7 DEF U
  <2> QED
    BY <2>1, <2>2
<1>4. S \in Good
  <2>1. Good \in SUBSET (SUBSET S)
    OBVIOUS
  <2> HIDE DEF Good
  <2> QED
    BY <1>2, <1>3, <2>1, SubsetInduction
<1>5. Total(Within(h, S)) = k * Total(Within(f, S))
  BY <1>4
<1> QED
  BY <1>1, <1>5, TotalWithin DEF h

\* Interest is a product divided and rounded down.
LEMMA InterestBounds ==
  ASSUME NEW amount \in Nat, NEW bips \in Nat, NEW elapsed \in Nat
  PROVE  LET unit == BIP_DENOMINATOR * SECONDS_PER_YEAR
             i == Interest(amount, bips, elapsed)
         IN  /\ i \in Nat /\ unit \in Nat
             /\ unit * i <= bips * (amount * elapsed)
             /\ bips * (amount * elapsed) < unit * i + unit
<1> DEFINE x == amount * bips * elapsed
           unit == BIP_DENOMINATOR * SECONDS_PER_YEAR
<1>1. x \in Nat /\ x = bips * (amount * elapsed)
  <2>1. amount * bips = bips * amount /\ amount * bips \in Nat
    OBVIOUS
  <2>2. (bips * amount) * elapsed = bips * (amount * elapsed)
    OBVIOUS
  <2> QED
    BY <2>1, <2>2
<1>2. unit \in Nat \ {0}
  BY MathAssumption
<1>3. Interest(amount, bips, elapsed) = x \div unit
  BY DEF Interest
<1> HIDE DEF x, unit
<1>4. x \div unit \in Nat /\ unit * (x \div unit) <= x /\ x < unit * (x \div unit) + unit
  BY <1>1, <1>2, QuotientBounds
<1>5. /\ Interest(amount, bips, elapsed) \in Nat /\ unit \in Nat
      /\ unit * Interest(amount, bips, elapsed) <= bips * (amount * elapsed)
      /\ bips * (amount * elapsed) < unit * Interest(amount, bips, elapsed) + unit
  BY <1>1, <1>2, <1>3, <1>4
<1> QED
  BY <1>5 DEF unit

\* Interest is counted in a positive unit.
LEMMA UnitType == Unit \in Nat \ {0}
BY MathAssumption DEF Unit

\* Interest on an amount, at a rate and for a time that are all bounded.
LEMMA InterestAtMost ==
  ASSUME NEW amount \in Nat, NEW bips \in Nat, NEW elapsed \in Nat,
         NEW limit \in Nat, NEW rate \in Nat, NEW span \in Nat,
         amount <= limit, bips <= rate, elapsed <= span
  PROVE  /\ amount * bips \in Nat /\ limit * rate \in Nat
         /\ amount * bips <= limit * rate
         /\ amount * bips * elapsed <= limit * rate * elapsed
         /\ limit * rate * elapsed <= limit * rate * span
         /\ limit * rate * elapsed \in Nat /\ limit * rate * span \in Nat
         /\ Unit * Interest(amount, bips, elapsed) <= limit * rate * elapsed
         /\ Interest(amount, bips, elapsed) \in Nat
<1> DEFINE x == amount * bips
           m == limit * rate
<1>1. /\ x <= limit * bips /\ x \in Nat /\ limit * bips \in Nat
  BY ProductMonotone
<1>2. bips * limit <= rate * limit /\ bips * limit = limit * bips /\ rate * limit = m
  BY ProductMonotone
<1>3. m \in Nat /\ x <= m
  BY <1>1, <1>2
<1> HIDE DEF x, m
<1>4. x * elapsed <= m * elapsed /\ x * elapsed \in Nat /\ m * elapsed \in Nat
  BY <1>1, <1>3, ProductMonotone
<1>5. elapsed * m <= span * m /\ elapsed * m = m * elapsed /\ span * m = m * span
      /\ span * m \in Nat
  BY <1>3, ProductMonotone
<1>6. Unit \in Nat \ {0}
  BY UnitType
<1>7. Interest(amount, bips, elapsed) = (x * elapsed) \div Unit
  BY DEF Interest, Unit, x
<1>8. /\ (x * elapsed) \div Unit \in Nat
      /\ Unit * ((x * elapsed) \div Unit) <= x * elapsed
  BY <1>4, <1>6, QuotientBounds
<1> DEFINE i == Interest(amount, bips, elapsed)
<1>9. i \in Nat /\ Unit * i <= x * elapsed /\ Unit * i \in Nat
  BY <1>6, <1>7, <1>8
<1> HIDE DEF i
<1>10. Unit * i <= m * elapsed
  BY <1>4, <1>9
<1>11. m * elapsed <= m * span /\ m * span \in Nat
  BY <1>5
<1> QED
  BY <1>1, <1>3, <1>4, <1>9, <1>10, <1>11 DEF x, m, i

\* A multiple of the unit within a bound is at most the bound's quotient.
LEMMA UnitsAtMost ==
  ASSUME NEW n \in Nat, NEW most \in Nat, Unit * n <= most
  PROVE  n <= most \div Unit
<1> DEFINE q == most \div Unit
<1>1. Unit \in Nat \ {0}
  BY UnitType
<1>2. q \in Nat /\ most < Unit * q + Unit
  BY <1>1, QuotientBounds
<1> HIDE DEF q
<1>3. SUFFICES ASSUME q + 1 <= n PROVE FALSE
  BY <1>2 DEF q
<1>4. (q + 1) * Unit <= n * Unit
  BY <1>1, <1>2, <1>3, ProductMonotone
<1>5. (q + 1) * Unit = Unit * q + Unit /\ n * Unit = Unit * n
      /\ Unit * q \in Nat /\ Unit * n \in Nat
  BY <1>1, <1>2
<1> QED
  BY <1>1, <1>2, <1>4, <1>5

\* A number within a word is not changed by the cast.
LEMMA AsU64Identity ==
  ASSUME NEW x \in Nat, x <= U64Max
  PROVE  AsU64(x) = x
<1>1. U64Max \in Nat /\ x \in 0 .. U64Max
  BY MathAssumption
<1>2. \A y \in 0 .. U64Max : y % (U64Max + 1) = y
  BY <1>1
<1> QED
  BY <1>1, <1>2 DEF AsU64

\* A new entry adds to the total.
LEMMA TotalExtended ==
  ASSUME NEW S, NEW x, x \notin S, NEW f \in [S -> Nat],
         NEW T, T = S \union {x}, IsFiniteSet(T), NEW g \in [T -> Nat],
         \A y \in S : g[y] = f[y]
  PROVE  Total(g) = Total(f) + g[x]
<1>1. x \in T /\ T \ {x} = S
  OBVIOUS
<1>2. \A y \in S : UnitsOf(g, y) = UnitsOf(f, y)
  BY DEF UnitsOf
<1>3. RestOf(g, x) = UNION {UnitsOf(f, y) : y \in S}
  BY <1>1, <1>2 DEF RestOf
<1>4. Units(f) = UNION {UnitsOf(f, y) : y \in S}
  BY DEF Units, UnitsOf
<1>5. Total(g) = Cardinality(RestOf(g, x)) + g[x]
  BY <1>1, TotalSplit
<1> QED
  BY <1>3, <1>4, <1>5 DEF Total

\* The total of k on T and nothing elsewhere.
LEMMA TotalConstantOn ==
  ASSUME NEW S, NEW T \in SUBSET S, IsFiniteSet(T), NEW k \in Nat
  PROVE  Total([x \in S |-> IF x \in T THEN k ELSE 0]) = Cardinality(T) * k
<1> DEFINE f == [x \in S |-> IF x \in T THEN k ELSE 0]
<1>1. \A x \in S : 1 .. f[x] = IF x \in T THEN 1 .. k ELSE {}
  OBVIOUS
<1>2. DOMAIN f = S
  OBVIOUS
<1> HIDE DEF f
<1>3. Units(f) = T \X (1 .. k)
  <2>1. ASSUME NEW u \in Units(f) PROVE u \in T \X (1 .. k)
    <3>1. PICK x \in S : u \in {x} \X (1 .. f[x])
      BY <1>2 DEF Units
    <3>2. CASE x \in T
      BY <1>1, <3>1, <3>2
    <3>3. CASE x \notin T
      <4>1. 1 .. f[x] = {}
        BY <1>1, <3>3
      <4> QED
        BY <3>1, <4>1
    <3> QED
      BY <3>2, <3>3
  <2>2. \A x \in T, i \in 1 .. k : <<x, i>> \in {x} \X (1 .. f[x])
    BY <1>1
  <2>3. \A u \in T \X (1 .. k) : u \in Units(f)
    BY <1>2, <2>2 DEF Units
  <2> QED
    BY <2>1, <2>3
<1>4. IsFiniteSet(1 .. k) /\ Cardinality(1 .. k) = k
  BY FS_Interval
<1>5. Cardinality(T \X (1 .. k)) = Cardinality(T) * Cardinality(1 .. k)
  BY <1>4, FS_Product
<1> QED
  BY <1>3, <1>4, <1>5 DEF Total, f

===============================================================================
