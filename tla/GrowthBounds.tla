---------------------------- MODULE GrowthBounds ----------------------------
(***************************************************************************)
(* The tables of safe_expr.py: which argument of which function is bounded *)
(* and by what, and how large each function's result can be at arguments   *)
(* within those bounds. A growth bound takes the magnitudes of the bounded *)
(* positions (NoMag where an argument is absent or symbolic) and returns   *)
(* an upper bound of the result, Inf where there is none.                  *)
(***************************************************************************)
EXTENDS Magnitudes

Value(cap) == [kind |-> "value", cap |-> cap]
DigitsOf(cap) == [kind |-> "digits", cap |-> cap]

(* The caps: the argument of a function that grows, the digits of a number to  *)
(* be factored or to take a root of, the order of a polynomial, the primes     *)
(* nextprime may skip.                                                         *)
HeavyArgCap == Value(MaxHeavyArg)
FactorArgCap == DigitsOf(MaxFactorDigits)
RootArgCap == DigitsOf(MaxRootDigits)
OrderCap == Value(MaxOrder)
IthPrimeCap == Value(MaxIthPrimeSkip)

RisingFalling == {"rf", "ff", "RisingFactorial", "FallingFactorial"}
OneParameter == {"gegenbauer", "assoc_legendre", "assoc_laguerre"}
TwoParameters == {"jacobi", "jacobi_normalized"}
NoParameter == {"hermite", "hermite_prob", "chebyshevt", "chebyshevu", "legendre", "laguerre"}
Orthogonal == NoParameter \cup OneParameter \cup TwoParameters

HeavyFunctions ==
  {"factorial", "factorial2", "subfactorial", "binomial", "fibonacci", "lucas", "tribonacci",
   "catalan", "bernoulli", "euler", "harmonic", "primorial", "prime", "primepi", "gamma",
   "loggamma", "npartitions", "totient", "divisor_sigma", "bell", "genocchi", "motzkin",
   "andre", "partition", "digamma", "zeta", "polygamma"} \cup RisingFalling

FunctionArgCaps ==
  [f \in HeavyFunctions |-> HeavyArgCap]
  @@ [f \in {"factorint", "primefactors", "divisors", "mobius", "nextprime", "isprime"}
        |-> FactorArgCap]
  @@ [f \in {"sqrt", "root", "cbrt"} |-> RootArgCap]
  @@ [f \in Orthogonal |-> OrderCap]

ExtraBoundedPositions ==
  [f \in RisingFalling \cup NoParameter \cup
        {"polygamma", "divisor_sigma", "bell", "bernoulli", "euler", "fibonacci", "genocchi",
         "harmonic", "tribonacci", "zeta"} |-> 1 :> HeavyArgCap]
  @@ "nextprime" :> (1 :> IthPrimeCap)
  @@ "N" :> (1 :> Value(MaxNumericDigits))
  @@ "series" :> (3 :> OrderCap)
  @@ "fps" :> (5 :> OrderCap)
  @@ [f \in OneParameter |-> [i \in 1 .. 2 |-> HeavyArgCap]]
  @@ [f \in TwoParameters |-> [i \in 1 .. 3 |-> HeavyArgCap]]

UnboundedPositions ==
  ("binomial" :> {1}) @@ ("bell" :> {2}) @@ ("primorial" :> {1}) @@ ("npartitions" :> {1})
  @@ ("factorint" :> 1 .. 8) @@ ("primefactors" :> {1, 2}) @@ ("divisors" :> {1, 2})
  @@ ("root" :> {1, 2, 3}) @@ ("sqrt" :> {1}) @@ ("cbrt" :> {1})

NoSpec == [kind |-> "none", cap |-> 0]

(* _position_spec: the bound of one argument position, if it has one.         *)
PositionSpec(name, i) ==
  IF name \in DOMAIN UnboundedPositions /\ i \in UnboundedPositions[name] THEN NoSpec
  ELSE IF i = 0 THEN IF name \in DOMAIN FunctionArgCaps THEN FunctionArgCaps[name] ELSE NoSpec
  ELSE IF name \in DOMAIN ExtraBoundedPositions /\ i \in DOMAIN ExtraBoundedPositions[name]
       THEN ExtraBoundedPositions[name][i] ELSE NoSpec

(* _bounded_positions: every bounded position of a function.                  *)
BoundedPositions(name) ==
  {i \in 0 .. 5 : IF i = 0 THEN PositionSpec(name, 0) # NoSpec
                  ELSE name \in DOMAIN ExtraBoundedPositions
                       /\ i \in DOMAIN ExtraBoundedPositions[name]}

(* Arguments outside these domains have no growth bound. No position is left   *)
(* that needs a magnitude of at least one.                                     *)
NonnegativeDomainPositions == {<<"binomial", 0>>, <<"harmonic", 1>>}
MagnitudeAtLeastOneDomainPositions == {}

(* _domain_violation, of an argument with this sign and magnitude.             *)
DomainViolation(name, i, negative, magnitude) ==
  \/ negative /\ <<name, i>> \in NonnegativeDomainPositions
  \/ ~AtMost(One, magnitude) /\ <<name, i>> \in MagnitudeAtLeastOneDomainPositions

\* ---------------------------------------------------------------- growth
(* _safe_pow10 of the bound of a position, rounded up to an integer; Huge     *)
(* when it is absent or not finite.                                           *)
SafePow10(a) == IF a = NoMag \/ a[1] = Huge THEN Huge ELSE Up(a)
Fact(n) == IF n > 8 THEN Huge ELSE Factorial[n]

GrowthStirlingFactorial(b) == <<Fact(SafePow10(b[0])), 1>>
Growth2n(b) == <<PowN(2, SafePow10(b[0])), 1>>

GrowthBinomialGeneral(n, k) ==
  IF Huge \in {SafePow10(n), SafePow10(k)} THEN Inf
  ELSE <<PowN(SafePow10(n) + SafePow10(k), SafePow10(k)), 1>>
GrowthRfFf(b) == GrowthBinomialGeneral(b[0], b[1])

GrowthPrimorial(b) == LET n == SafePow10(b[0]) IN <<IF n < 6 THEN PowN(3 * n, n) ELSE Huge, 1>>
GrowthPrime(b) ==
  LET n == SafePow10(b[0])
  IN IF n = Huge THEN Inf ELSE IF n < 6 THEN <<12, 1>> ELSE <<(n * (LnMilli(n) + 600)) \div 1000, 1>>
GrowthNextprime(b) ==
  IF SafePow10(b[0]) = Huge THEN Inf
  ELSE <<SatMul(SafePow10(b[0]), PowN(2, IF b[1] = NoMag THEN 1 ELSE SafePow10(b[1]))), 1>>
GrowthPrimepi(b) == <<SafePow10(b[0]), 1>>
GrowthTotient(b) == <<SafePow10(b[0]), 1>>
GrowthNpartitions(b) == IF SafePow10(b[0]) = Huge THEN Inf
                        ELSE <<PartitionsCeiling(SafePow10(b[0])), 1>>
GrowthDivisorSigma(b) ==
  IF SafePow10(b[0]) = Huge THEN Inf
  ELSE <<PowN(SafePow10(b[0]), 1 + (IF SafePow10(b[1]) = Huge THEN 1 ELSE SafePow10(b[1]))), 1>>
GrowthHarmonic(b) ==
  LET n == SafePow10(b[0])
  IN IF n = Huge \/ (b[1] # NoMag /\ SafePow10(b[1]) = Huge) THEN Inf
     ELSE IF n <= 1 THEN <<10, 1>> ELSE Mag(LnMilli(n) + 1000, 1000)
GrowthDigamma(b) ==
  LET z == SafePow10(b[0])
  IN IF z = Huge THEN Inf ELSE IF z <= 1 THEN <<10, 1>> ELSE Mag(LnMilli(z) + 2000, 1000)
(* The order zero is digamma; an order of at least one has its factorial.     *)
GrowthPolygamma(b, orderExactZero) ==
  LET z == SafePow10(b[1])
      digamma == IF z > 1 THEN Mag(LnMilli(z) + 2000, 1000) ELSE <<3, 1>>
  IN IF z = Huge THEN Inf
     ELSE IF orderExactZero \/ SafePow10(b[0]) = Huge THEN digamma
     ELSE Larger(digamma, Times(GrowthStirlingFactorial(b), <<2, 1>>))
GrowthGamma(b) == GrowthStirlingFactorial(b)
(* |B_n1| / n1 grows as n1! * 4 / (2 pi)^n1; with two arguments, times a^s.    *)
GrowthZeta(b) ==
  LET s == SafePow10(b[0])
      base == IF s = 0 THEN <<10, 1>>
              ELSE Larger(One, Over(<<Sat(4 * Fact(s + 1)), 1>>, <<PowN(6, s + 1), 1>>))
  IN IF s = Huge \/ s > 7 THEN Inf
     ELSE IF b[1] = NoMag THEN base ELSE Times(base, <<PowN(SafePow10(b[1]), s), 1>>)

(* _growth_poly_second_arg: a polynomial of degree scale * n in its second     *)
(* argument.                                                                   *)
PolySecondArg(base, b, scale) ==
  IF b[1] = NoMag THEN base
  ELSE IF Huge \in {SafePow10(b[0]), SafePow10(b[1])} THEN Inf
  ELSE Times(base, <<PowN(Larger(One, <<SafePow10(b[1]), 1>>)[1], scale * SafePow10(b[0])), 1>>)

Growth2Factorial(b) == Times(GrowthStirlingFactorial(b), <<2, 1>>)
GrowthBaseN(base, b) == <<PowN(base, IF SafePow10(b[0]) = Huge THEN 16 ELSE SafePow10(b[0])), 1>>

PhiMilli[n \in 0 .. 14] == IF n = 0 THEN 1000 ELSE (PhiMilli[n - 1] * 1618) \div 1000
GrowthFibonacciBase(b) ==
  LET n == SafePow10(b[0])
  IN IF n > 14 THEN Inf ELSE IF n < 4 THEN <<3, 1>> ELSE <<((PhiMilli[n] \div 10) * 457) \div 100000, 1>>
GrowthLucas(b) ==
  LET n == SafePow10(b[0])
  IN IF n > 14 THEN Inf ELSE IF n < 3 THEN <<3, 1>> ELSE <<(PhiMilli[n] + (PhiMilli[n] \div 43)) \div 1000, 1>>

(* _growth_orthogonal_poly: n! times (p + n)^n for each parameter times        *)
(* (2x + 1)^n.                                                                 *)
GrowthOrthogonalPoly(b, x, params) ==
  LET n == SafePow10(b[0])
      factor(p, k, c) == IF p = NoMag THEN One ELSE IF SafePow10(p) = Huge THEN Inf
                         ELSE <<PowN(k * SafePow10(p) + c, n), 1>>
  IN IF n = Huge THEN Inf
     ELSE FoldLeft(LAMBDA acc, i : Times(acc, factor(b[i], 1, n)),
                   Times(GrowthStirlingFactorial(b), factor(b[x], 2, 1)), params)

(* The polynomial of a second argument; a root is at most its radicand; mobius *)
(* and isprime are at most one.                                                *)
GrowthBell(b) == PolySecondArg(GrowthStirlingFactorial(b), b, 1)
GrowthBernoulli(b) == PolySecondArg(Growth2Factorial(b), b, 1)
GrowthPassThroughArg0(b) == IF b[0] = NoMag THEN Inf ELSE b[0]
GrowthTinyBounded(maxAbs) == <<maxAbs, 1>>

GrowthBoundNames ==
  (HeavyFunctions \cup Orthogonal \cup {"nextprime", "root", "mobius", "isprime"})

(* _GROWTH_BOUNDS: the bound of each name.                                     *)
GrowthBounds(name, b) ==
  CASE name = "binomial" -> Growth2n(b)
    [] name \in RisingFalling -> GrowthRfFf(b)
    [] name = "primorial" -> GrowthPrimorial(b)
    [] name = "prime" -> GrowthPrime(b)
    [] name = "nextprime" -> GrowthNextprime(b)
    [] name = "primepi" -> GrowthPrimepi(b)
    [] name = "totient" -> GrowthTotient(b)
    [] name \in {"npartitions", "partition"} -> GrowthNpartitions(b)
    [] name = "divisor_sigma" -> GrowthDivisorSigma(b)
    [] name = "harmonic" -> GrowthHarmonic(b)
    [] name = "polygamma" -> GrowthPolygamma(b, FALSE)
    [] name = "digamma" -> GrowthDigamma(b)
    [] name = "fibonacci" -> PolySecondArg(GrowthFibonacciBase(b), b, 1)
    [] name = "tribonacci" -> PolySecondArg(GrowthBaseN(2, b), b, 2)
    [] name = "lucas" -> GrowthLucas(b)
    [] name = "catalan" -> GrowthBaseN(4, b)
    [] name = "motzkin" -> GrowthBaseN(3, b)
    [] name \in {"factorial", "factorial2", "subfactorial"} -> GrowthStirlingFactorial(b)
    [] name = "bell" -> GrowthBell(b)
    [] name \in {"bernoulli", "euler", "genocchi"} -> GrowthBernoulli(b)
    [] name = "andre" -> Growth2Factorial(b)
    [] name = "zeta" -> GrowthZeta(b)
    [] name = "root" -> GrowthPassThroughArg0(b)
    [] name \in {"mobius", "isprime"} -> GrowthTinyBounded(1)
    [] name \in {"gamma", "loggamma"} -> GrowthGamma(b)
    [] name \in NoParameter -> GrowthOrthogonalPoly(b, 1, <<>>)
    [] name \in OneParameter -> GrowthOrthogonalPoly(b, 2, <<1>>)
    [] name \in TwoParameters -> GrowthOrthogonalPoly(b, 3, <<1, 2>>)
=============================================================================
