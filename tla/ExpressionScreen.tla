-------------------------- MODULE ExpressionScreen --------------------------
(***************************************************************************)
(* The scan of a parsed, unevaluated expression in safe_expr.py            *)
(* (reject_explosive and what it calls): upper bounds for the number every *)
(* numeric subtree would print, for every argument of a function that is   *)
(* expensive, and for every power.                                         *)
(*                                                                         *)
(* A node is a record with one shape for all kinds: "int" and "rat" carry  *)
(* v / q, "float" too (its exact value), "sym" is a free symbol, "const" a *)
(* NumberSymbol, "inf" an infinite bound, "tuple" a container, "fn" a call *)
(* of name; the operators % // << >> are calls of those names, as the      *)
(* deferred parse makes them.  A refusal is TRUE; its wording is left out. *)
(* The memo of the code is a cache and is left out.                        *)
(***************************************************************************)
EXTENDS GrowthBounds

CONSTANTS CoeffMaxBase, CoeffMaxExp,  \* _COEFF_MAX_BASE, _COEFF_MAX_EXP
          SlowSummandCap, DefaultSummandCap, \* 200 and 50 terms in the code
          MeasuredFile                \* _measured_safe_callables.json

Node(k, v, q, name, args) == [k |-> k, v |-> v, q |-> q, name |-> name, args |-> args]
IntN(n) == Node("int", n, 1, "", <<>>)
RatN(p, q) == Node("rat", p, q, "", <<>>)
FloatN(p, q) == Node("float", p, q, "", <<>>)
Sym(x) == Node("sym", 0, 1, x, <<>>)
Const == Node("const", 0, 1, "pi", <<>>)
Infinite == Node("inf", 0, 1, "oo", <<>>)
(* The parser makes sums, products, powers, literals and symbols itself; only  *)
(* a name a caller may have typed is a stand-in.                               *)
AddN(args) == Node("add", 0, 1, "", args)
MulN(args) == Node("mul", 0, 1, "", args)
PowNode(b, e) == Node("pow", 0, 1, "", <<b, e>>)
Fn(name, args) == Node("fn", 0, 1, name, args)
TupleN(args) == Node("tuple", 0, 1, "", args)

Abs(n) == IF n < 0 THEN -n ELSE n
Args(node) == Range(node.args)
IsNumber(node) == node.k \in {"int", "rat"}
Calls(node, names) == node.k = "fn" /\ node.name \in names
(* The operators that the deferred parse turns into calls of inert markers.     *)
Binops == {"<<", ">>", "%", "//"}
(* The names with a bound of any kind; sqrt and cbrt are powers, see Deferred.  *)
DeferredStandinNames == (DOMAIN FunctionArgCaps \cup DOMAIN ExtraBoundedPositions) \ {"sqrt", "cbrt"}
(* _load_measured_safe_callables: a file that cannot be read allows nothing.    *)
MeasuredSafe == IF MeasuredFile.readable THEN MeasuredFile.allowlist ELSE {}
Containers == {"divisors", "factorint", "primefactors"}
EvalfCoercions == {"floor", "ceiling", "Abs", "frac", "sign", "Max", "Min"}
SumNames == {"summation", "product", "Sum", "Product"}
IntegralNames == {"integrate", "Integral"}

RECURSIVE FreeSymbols(_), Subtrees(_)
FreeSymbols(node) == IF node.k = "sym" THEN {node.name} ELSE UNION {FreeSymbols(a) : a \in Args(node)}
Symbolic(node) == FreeSymbols(node) # {}

(* _walk: every node, through tuples too.                                     *)
Subtrees(node) == {node} \cup UNION {Subtrees(a) : a \in Args(node)}

\* An estimate: the magnitudes of the printed numerator and denominator,
\* whether they are known, and whether resolving them met a refusal.
Est(num, den, ok) == [num |-> num, den |-> den, ok |-> ok, bad |-> FALSE]
Known(m) == Est(m, One, TRUE)
Unknown == Est(One, One, FALSE)
Refused == [Unknown EXCEPT !.bad = TRUE]
Ratio(e) == Over(e.num, e.den)

\* ----------------------------------------------------- exact factorization
NoFactors == [ok |-> FALSE, terms |-> <<>>, sign |-> 0]
Factors(terms, sign) == [ok |-> TRUE, terms |-> terms, sign |-> sign]
Merge(s, t) == LET all == [x \in DOMAIN s \cup DOMAIN t |->
                             (IF x \in DOMAIN s THEN s[x] ELSE 0) + (IF x \in DOMAIN t THEN t[x] ELSE 0)]
               IN [x \in {y \in DOMAIN all : all[y] # 0} |-> all[x]]

RECURSIVE FactorMultiset(_)
(* _factor_multiset: a product of integer powers as a signed multiset of its   *)
(* bases. An integer is a base as it stands; a table function is an opaque     *)
(* base, taken as positive.                                                    *)
FactorMultiset(node) ==
  CASE node.k = "int" ->
         IF node.v = 0 THEN Factors(<<>>, 0)
         ELSE Factors(IF Abs(node.v) = 1 THEN <<>> ELSE IntN(Abs(node.v)) :> 1,
                      IF node.v > 0 THEN 1 ELSE -1)
    [] node.k = "mul" ->
         FoldLeft(LAMBDA acc, a :
                    LET f == FactorMultiset(a)
                    IN IF ~acc.ok \/ acc.sign = 0 THEN acc
                       ELSE IF ~f.ok THEN NoFactors
                       ELSE IF f.sign = 0 THEN Factors(<<>>, 0)
                       ELSE Factors(Merge(acc.terms, f.terms), acc.sign * f.sign),
                  Factors(<<>>, 1), node.args)
    [] node.k = "pow" /\ node.args[2].k = "int" ->
         LET e == node.args[2].v
             f == FactorMultiset(node.args[1])
         IN IF e = 0 THEN Factors(<<>>, 1)
            ELSE IF ~f.ok THEN NoFactors
            ELSE IF f.sign = 0 THEN IF e > 0 THEN Factors(<<>>, 0) ELSE NoFactors
            ELSE Factors([x \in DOMAIN f.terms |-> f.terms[x] * e], IF e % 2 = 0 THEN 1 ELSE f.sign)
    [] Calls(node, DOMAIN FunctionArgCaps) -> Factors(node :> 1, 1)
    [] OTHER -> NoFactors

RECURSIVE CoprimeRefine(_), MaxPower(_, _)
MaxPower(n, g) == IF n % g = 0 THEN 1 + MaxPower(n \div g, g) ELSE 0
(* _coprime_refine_multiset: split bases until no two share a factor.          *)
CoprimeRefine(terms) ==
  LET pairs == {<<a, b>> \in (DOMAIN terms) \X (DOMAIN terms) : a.v < b.v /\ Gcd(a.v, b.v) > 1}
  IN IF pairs = {} THEN terms
     ELSE LET p == CHOOSE x \in pairs : TRUE
              g == Gcd(p[1].v, p[2].v)
              left(n) == n.v \div g ^ MaxPower(n.v, g)
              part(v, e) == IF v = 1 \/ e = 0 THEN <<>> ELSE IntN(v) :> e
              rest == [x \in DOMAIN terms \ {p[1], p[2]} |-> terms[x]]
              shared == terms[p[1]] * MaxPower(p[1].v, g) + terms[p[2]] * MaxPower(p[2].v, g)
          IN CoprimeRefine(Merge(Merge(rest, part(g, shared)),
                                 Merge(part(left(p[1]), terms[p[1]]), part(left(p[2]), terms[p[2]]))))

(* _table_multiset_trusted: a multiset with an opaque base bounds nothing.     *)
Trusted(f) == f.ok /\ \A x \in DOMAIN f.terms : x.k = "int"

(* _multiset_log_num_den, over _safe_log10_pow.                                *)
MultisetNumDen(terms) ==
  LET side(sign) == FoldSet(LAMBDA x, acc : SatMul(acc, PowN(Sat(x.v), sign * terms[x])), 1,
                            {x \in DOMAIN terms : sign * terms[x] > 0})
  IN <<side(1), side(-1)>>

(* _split_coefficient: the part of a term small enough to multiply out.        *)
IsCoeff(x, e) == x.k = "int" /\ e \in 1 .. CoeffMaxExp /\ x.v <= CoeffMaxBase
Coefficient(terms) == FoldSet(LAMBDA x, acc : acc * x.v ^ terms[x], 1,
                              {x \in DOMAIN terms : IsCoeff(x, terms[x])})
CoeffRest(terms) == [x \in {y \in DOMAIN terms : ~IsCoeff(y, terms[y])} |-> terms[x]]

(* _cancel_additive_inverses: the terms of a sum without the groups of like    *)
(* terms whose coefficients sum to zero.                                       *)
CancelAdditiveInverses(args) ==
  LET f == Each(args, FactorMultiset)
      like(i, j) == f[i].ok /\ f[j].ok /\ f[j].sign # 0
                    /\ CoeffRest(f[i].terms) = CoeffRest(f[j].terms)
      group(i) == {j \in DOMAIN args : like(i, j)}
      kept(i) == \/ ~f[i].ok
                 \/ /\ f[i].sign # 0
                    /\ 0 # FoldSet(LAMBDA j, acc : acc + f[j].sign * Coefficient(f[j].terms), 0, group(i))
      indices == SetToSeq({j \in DOMAIN args : kept(j)})
  IN Each(indices, LAMBDA i : args[i])

\* ------------------------------------------------------- exact rationals
\* A signed rational <<p, q>> in lowest terms; NoRat has no value, Big one
\* that is too long to keep.
NoRat == <<0, 0>>
Big == <<1, 0>>
RatLimit == 30000
Exact(r) == r[2] # 0
Rat(p, q) ==
  LET g == Gcd(Abs(p), Abs(q))
      s == IF q < 0 THEN -1 ELSE 1
  IN IF q = 0 THEN NoRat
     ELSE IF Abs(p) \div g >= RatLimit \/ Abs(q) \div g >= RatLimit THEN Big
     ELSE <<s * (p \div g), s * (q \div g)>>
RatOp(a, b, r) == IF NoRat \in {a, b} THEN NoRat ELSE IF Big \in {a, b} THEN Big ELSE r
RatMul(a, b) == RatOp(a, b, Rat(a[1] * b[1], a[2] * b[2]))
RatAdd(a, b) == RatOp(a, b, Rat(a[1] * b[2] + b[1] * a[2], a[2] * b[2]))
RECURSIVE RatPow(_, _)
RatPow(a, e) ==
  IF ~Exact(a) THEN a ELSE IF e < 0 THEN RatPow(Rat(a[2], a[1]), -e)
  ELSE IF e = 0 THEN <<1, 1>> ELSE IF e = 1 \/ a \in {<<0, 1>>, <<1, 1>>} THEN a
  ELSE LET r == RatPow(a, e - 1) IN IF ~Exact(r) THEN r ELSE RatMul(a, r)
FloorDiv(a, b) == IF b > 0 THEN a \div b ELSE (-a) \div (-b)
RatBinop(op, a, b) ==
  RatOp(a, b,
    CASE op = "<<" -> IF b[2] = 1 /\ b[1] >= 0 THEN RatMul(a, RatPow(<<2, 1>>, b[1])) ELSE NoRat
      [] op = ">>" -> IF a[2] = 1 /\ b[2] = 1 /\ b[1] >= 0
                      THEN <<a[1] \div 2 ^ Min({b[1], 20}), 1>> ELSE NoRat
      [] op = "%" -> IF b[1] # 0 /\ a[2] = 1 /\ b[2] = 1
                     THEN <<a[1] - b[1] * FloorDiv(a[1], b[1]), 1>> ELSE NoRat
      [] op = "//" -> IF b[1] # 0 THEN <<FloorDiv(a[1] * b[2], a[2] * b[1]), 1>> ELSE NoRat)
MagOf(r) == Mag(Abs(r[1]), r[2])

RECURSIVE ResolveExact(_)
(* _resolve_exact_rational: the exact value of a numeric subtree that has no   *)
(* call in it, if it is short (_exact_rational_too_big).                       *)
ResolveExact(node) ==
  LET known(r) == IF Exact(r) THEN r ELSE NoRat
  IN IF Symbolic(node) THEN NoRat ELSE
     CASE node.k \in {"int", "rat", "float"} -> known(Rat(node.v, node.q))
       [] node.k = "mul" -> known(FoldLeft(LAMBDA acc, a : RatMul(acc, ResolveExact(a)), <<1, 1>>, node.args))
       [] node.k = "add" -> known(FoldLeft(LAMBDA acc, a : RatAdd(acc, ResolveExact(a)), <<0, 1>>, node.args))
       [] node.k = "pow" -> IF node.args[2].k # "int" THEN NoRat
                            ELSE known(RatPow(ResolveExact(node.args[1]), node.args[2].v))
       [] Calls(node, Binops) -> known(RatBinop(node.name, ResolveExact(node.args[1]), ResolveExact(node.args[2])))
       [] OTHER -> NoRat

\* What SymPy's assumptions tell of an unevaluated number: nothing about a call.
HasCall(node) == \E t \in Subtrees(node) : t.k = "fn"
KnownNegative(node) == ~HasCall(node) /\ Exact(ResolveExact(node)) /\ ResolveExact(node)[1] < 0
KnownNonnegative(node) == ~HasCall(node) /\ Exact(ResolveExact(node)) /\ ResolveExact(node)[1] >= 0
KnownRational(node) == Exact(ResolveExact(node)) /\ \A t \in Subtrees(node) : t.k \notin {"fn", "float"}

\* ------------------------------------------------------------ magnitudes
RECURSIVE Log10NumDen(_), ResolveArg(_), TableAware(_), TruePow(_), TableBound(_), FunctionArgCap(_)

\* A mutant: a sum bounded by its largest term, denominators left out.
SumNumDenMutant(args) ==
  LET e == Each(args, Log10NumDen)
  IN Est(Largest({p.num : p \in Range(e)}), Largest({p.den : p \in Range(e)}), \A p \in Range(e) : p.ok)

(* _log10_num_den: bounds for the numerator and the denominator a subtree      *)
(* would print. A sum is bounded over the product of its denominators; a       *)
(* power with an exponent that is no literal by the exponent's upper bound.    *)
SumNumDen(args) ==
  LET kept == CancelAdditiveInverses(args)
      e == Each(kept, Log10NumDen)
      den == FoldLeft(LAMBDA acc, p : Times(acc, p.den), One, e)
      num == Times(Times(Largest({p.num : p \in Range(e)}), den), <<Len(e), 1>>)
  IN IF kept = <<>> THEN Known(One) ELSE Est(num, den, \A p \in Range(e) : p.ok)
PowerNumDen(base, exp) ==
  LET b == Log10NumDen(base)
      e == TableAware(exp)
      n == IF exp.k = "int" THEN Abs(exp.v) ELSE 0
      scaled(m) == <<RationalPower(m[1], Ratio(e)), 1>>
  IN IF exp.k = "int"
     THEN IF n = 0 THEN Known(One)
          ELSE IF exp.v > 0 THEN Est(Power(b.num, n), Power(b.den, n), b.ok)
          ELSE Est(Power(b.den, n), Power(b.num, n), b.ok)
     ELSE IF b.ok /\ b.num = One /\ b.den = One THEN Known(One)
     ELSE IF ~e.ok \/ CeilingNumDen(e.num, e.den) \/ (~b.ok /\ Ratio(e)[1] = Huge) THEN Unknown
     ELSE Est(scaled(b.num), scaled(b.den), b.ok)
Log10NumDen(node) ==
  LET f == FactorMultiset(node)
      nd == MultisetNumDen(f.terms)
      parts == Each(node.args, Log10NumDen)
  IN CASE Trusted(f) -> Est(<<nd[1], 1>>, <<nd[2], 1>>, TRUE)
       [] node.k = "rat" -> Est(<<Larger(One, <<Sat(Abs(node.v)), 1>>)[1], 1>>, <<Sat(node.q), 1>>, TRUE)
       [] node.k = "float" -> Known(One)
       [] node.k = "mul" -> Est(FoldLeft(LAMBDA acc, p : Times(acc, p.num), One, parts),
                                FoldLeft(LAMBDA acc, p : Times(acc, p.den), One, parts),
                                \A i \in DOMAIN parts : parts[i].ok)
       [] node.k = "add" -> SumNumDen(node.args)
       [] node.k = "pow" -> PowerNumDen(node.args[1], node.args[2])
       [] OTHER -> Unknown

(* _digit_count_over_cap_for_node: a literal is counted exactly.               *)
DigitsOverCapForNode(node, side, m, cap) ==
  IF node.k = "int" /\ side = "den" THEN FALSE
  ELSE IF IsNumber(node) THEN Digits(Sat(Abs(IF side = "num" THEN node.v ELSE node.q))) > cap
  ELSE DigitCountOverCap(m, cap)

(* _true_pow_magnitude: how far from one a power is, whatever it prints.       *)
FromOne(m) == Larger(m, <<m[2], m[1]>>)
TruePowPart(node) ==
  LET r == ResolveArg(node)
      p == TruePow(node)
  IN IF p # NoMag THEN p
     ELSE IF Symbolic(node) \/ r.bad \/ ~r.ok THEN NoMag ELSE FromOne(Ratio(r))
TruePow(node) ==
  LET known == SelectSeq(Each(node.args, TruePowPart), LAMBDA m : m # NoMag)
      b == IF node.args[1].k = "float" THEN Known(MagOf(<<node.args[1].v, node.args[1].q>>))
           ELSE Log10NumDen(node.args[1])
      e == ResolveArg(node.args[2])
  IN CASE node.k = "mul" -> IF known = <<>> THEN NoMag ELSE FoldLeft(Times, One, known)
       [] node.k = "add" -> IF known = <<>> THEN NoMag ELSE Largest(Range(known))
       [] node.k = "float" -> IF node.v = 0 THEN NoMag ELSE FromOne(MagOf(<<node.v, node.q>>))
       [] node.k = "pow" ->
            IF node.args[2].k = "int" /\ node.args[2].v = 0 THEN One
            ELSE IF ~b.ok \/ b.num[1] = 0 THEN NoMag
            ELSE IF Ratio(b) = One THEN One
            ELSE IF e.bad \/ ~e.ok \/ Ratio(e)[1] = Huge THEN NoMag
            ELSE <<RationalPower(Up(FromOne(Ratio(b))), Ratio(e)), 1>>
       [] OTHER -> NoMag

\* ------------------------------------------- functions near poles and e^x
(* The functions of one real argument: bounded by a constant, by e^x or e^(x^2), *)
(* by e^(x^1.5).                                                                 *)
Si == {"erfc", "Si", "fresnels", "fresnelc"}
ExpBounded == {"erfi", "Ei", "Li", "li", "Chi", "Shi"}
Airy == {"airyai", "airybi", "airyaiprime", "airybiprime"}
Elementary == {"sin", "cos", "tanh", "erf", "exp"}
PoleSensitiveNames == {"gamma", "loggamma", "digamma", "polygamma", "zeta", "LambertW", "expint", "Ci"}
                      \cup Si \cup ExpBounded \cup Airy \cup Elementary

(* These are no hazard by themselves, only inside another call.                  *)
PoleSensitiveGrowthTopLevelNames == {"gamma", "loggamma", "digamma", "zeta"}

NotHandled == [given |-> FALSE, est |-> Unknown]
Handled(e) == [given |-> TRUE, est |-> e]
(* Every one of them first needs the exact value of its argument: a symbol     *)
(* leaves it unresolved, any other argument without one is refused.            *)
WithExact(arg, est(_)) ==
  Handled(IF Symbolic(arg) THEN Unknown
          ELSE IF ~Exact(ResolveExact(arg)) THEN Refused ELSE est(ResolveExact(arg)))
RLess(r, n) == r[1] < n * r[2]
Bounds(i, m) == [j \in 0 .. 3 |-> IF j = i THEN m ELSE NoMag]
LnOf(r) == Mag(Abs(LnMilli(Abs(r[1])) - LnMilli(r[2])), 1000)
MagPlus(a, n) == Mag(a[1] + n * a[2], a[2])

PoleGamma(node) ==
  WithExact(node.args[1], LAMBDA z :
    IF RLess(z, 1) THEN Refused
    ELSE Known(IF node.name = "digamma" THEN GrowthDigamma(Bounds(0, MagOf(z)))
               ELSE GrowthGamma(Bounds(0, MagOf(z)))))
PolePolygamma(node) ==
  LET order == ResolveExact(node.args[1])
      symbolic == Symbolic(node.args[1])
      b(z) == [j \in 0 .. 3 |-> IF j = 1 THEN MagOf(z) ELSE IF j # 0 \/ symbolic THEN NoMag
                                ELSE IF order[1] = 0 THEN One ELSE MagOf(order)]
  IN IF Len(node.args) < 2 THEN NotHandled
     ELSE IF ~symbolic /\ ~(order[2] = 1 /\ order[1] >= 0) THEN Handled(Refused)
     ELSE WithExact(node.args[2], LAMBDA z : IF RLess(z, 1) THEN Refused
                                             ELSE Known(GrowthPolygamma(b(z), order = <<0, 1>>)))
PoleZeta(node) ==
  WithExact(node.args[1], LAMBDA s :
    IF s = <<1, 1>> THEN Unknown
    ELSE IF Len(node.args) >= 2
    THEN WithExact(node.args[2], LAMBDA a :
           IF s[2] = 1 /\ s[1] >= 2 /\ ~RLess(a, 1) THEN Known(<<2, 1>>) ELSE Refused).est
    ELSE IF s[2] = 1 /\ s[1] <= 0 THEN Known(GrowthZeta(Bounds(0, <<-s[1], 1>>)))
    ELSE IF ~RLess(s, 2) THEN Known(<<2, 1>>) ELSE Refused)
PoleExpint(node) ==
  IF Len(node.args) < 2 THEN NotHandled
  ELSE WithExact(node.args[1], LAMBDA n :
         IF ~(n[2] = 1 /\ n[1] >= 1) THEN Refused
         ELSE WithExact(node.args[2], LAMBDA x :
                IF ~RLess(x, 1) THEN Known(One)
                ELSE IF x[1] > 0 THEN Known(MagPlus(LnOf(x), 1)) ELSE Refused).est)
PoleUnbounded(node) == WithExact(node.args[1], LAMBDA x : Known(IF node.name \in {"erfc", "Si"} THEN <<2, 1>> ELSE One))
PoleCi(node) ==
  WithExact(node.args[1], LAMBDA x : IF x[1] <= 0 THEN Refused
                                     ELSE Known(IF ~AtMost(MagOf(x), One) THEN <<2, 1>> ELSE MagPlus(LnOf(x), 1)))
(* -1/e is rounded to -1/3 here; above it, ln(x + 1).                           *)
PoleLambertW(node) ==
  WithExact(node.args[1], LAMBDA x : IF 3 * x[1] < -x[2] THEN Refused
                                     ELSE Known(IF x[1] < 0 THEN One ELSE MagPlus(LnOf(RatAdd(x, <<1, 1>>)), 0)))
PoleExpBounded(node) ==
  WithExact(node.args[1], LAMBDA x :
    LET exponent == IF node.name = "erfi" THEN RatMul(x, x) ELSE <<Abs(x[1]), x[2]>>
    IN IF \/ node.name \in {"Chi", "li", "Li"} /\ x[1] <= 0
          \/ node.name = "Ei" /\ x[1] = 0
          \/ node.name \in {"Li", "li"} /\ x = <<1, 1>>
       THEN Refused
       ELSE IF node.name \in {"Chi", "Ei"} /\ AtMost(MagOf(x), One)
       THEN Known(MagPlus(LnOf(x), IF node.name = "Ei" THEN 3 ELSE 1))
       ELSE IF node.name \in {"li", "Li"} /\ RLess(x, 3) THEN Known(<<4, 1>>)
       ELSE IF ~AtMost(MagOf(exponent), <<MaxHeavyArg, 1>>) THEN Refused
       ELSE Known(<<ExpFloor(Up(MagOf(exponent))), 1>>))
PoleAiry(node) ==
  WithExact(node.args[1], LAMBDA x :
    LET exponent == RationalPower(Up(MagOf(x)), <<3, 2>>)
    IN IF exponent > MaxHeavyArg THEN Refused ELSE Known(<<ExpFloor(exponent), 1>>))
PoleElementary(node) ==
  WithExact(node.args[1], LAMBDA x :
    IF node.name # "exp" \/ x[1] < 0 THEN Known(One)
    ELSE IF ~AtMost(MagOf(x), <<MaxHeavyArg, 1>>) THEN Refused ELSE Known(<<ExpFloor(Up(MagOf(x))), 1>>))

(* _pole_sensitive_magnitude: a call near whose poles, or for whose growth,    *)
(* an estimate is not enough.                                                  *)
PoleSensitive(node) ==
  IF ~Calls(node, PoleSensitiveNames) \/ node.args = <<>> THEN NotHandled
  ELSE CASE node.name \in {"gamma", "loggamma", "digamma"} -> PoleGamma(node)
         [] node.name = "polygamma" -> PolePolygamma(node)
         [] node.name = "zeta" -> PoleZeta(node)
         [] node.name = "expint" -> PoleExpint(node)
         [] Len(node.args) # 1 -> NotHandled
         [] node.name \in Si -> PoleUnbounded(node)
         [] node.name = "Ci" -> PoleCi(node)
         [] node.name = "LambertW" -> PoleLambertW(node)
         [] node.name \in ExpBounded -> PoleExpBounded(node)
         [] node.name \in Airy -> PoleAiry(node)
         [] OTHER -> PoleElementary(node)

\* ----------------------------------------------------- the table functions
IntegerValued ==
  {"factorial", "factorial2", "subfactorial", "fibonacci", "lucas", "tribonacci", "catalan",
   "primorial", "prime", "primepi", "rf", "ff", "npartitions", "totient", "divisor_sigma", "bell",
   "genocchi", "motzkin", "andre", "partition", "nextprime", "mobius", "isprime"}

(* _zeta_two_arg_domain_violation.                                             *)
ZetaTwoArg(node) ==
  /\ Calls(node, {"zeta"}) /\ Len(node.args) >= 2
  /\ ~Symbolic(node.args[1]) /\ ~Symbolic(node.args[2]) /\ ~HasCall(node.args[1])
  /\ LET s == ResolveExact(node.args[1])
     IN s[2] = 1 /\ s[1] < 2 /\ node.args[1] # IntN(1)

(* _function_arg_cap_violation: an argument at a bounded position that is      *)
(* refused, unresolved, outside its domain or above its cap.                   *)
OverCap(arg, r, spec) ==
  IF spec.kind = "value" THEN ~AtMost(Ratio(r), <<spec.cap, 1>>)
  ELSE DigitsOverCapForNode(arg, "num", r.num, spec.cap)
FunctionArgCap(node) ==
  /\ Calls(node, DOMAIN FunctionArgCaps)
  /\ \/ \E i \in BoundedPositions(node.name) :
          /\ i < Len(node.args)
          /\ LET arg == node.args[i + 1]
                 r == ResolveArg(arg)
             IN /\ ~Symbolic(arg)
                /\ \/ r.bad \/ ~r.ok
                   \/ DomainViolation(node.name, i, KnownNegative(arg), Ratio(r))
                   \/ OverCap(arg, r, PositionSpec(node.name, i))
     \/ ZetaTwoArg(node)

(* _binomial_n_is_confirmed_nonneg_int.                                        *)
BinomialNConfirmed(node) ==
  LET n == ResolveExact(node.args[1])
  IN Calls(node, {"binomial"}) /\ node.args # <<>> /\ n[2] = 1 /\ n[1] >= 0

(* _table_function_bound: a bound for the result of a table function, from the *)
(* bounds of its arguments. sqrt and cbrt have none and are refused; the       *)
(* functions that return a container have none and are not a number.           *)
TableBound(node) ==
  LET n == Len(node.args)
      arg(i) == ResolveArg(node.args[i + 1])
      b == [i \in 0 .. 3 |-> IF i \in BoundedPositions(node.name) /\ i < n /\ ~Symbolic(node.args[i + 1])
                             THEN Ratio(arg(i)) ELSE NoMag]
      k == IF n >= 2 /\ ~Symbolic(node.args[2]) THEN arg(1) ELSE Unknown
      general == node.name = "binomial" /\ ~BinomialNConfirmed(node)
  IN IF FunctionArgCap(node) THEN [bound |-> NoMag, bad |-> TRUE]
     ELSE IF node.name \notin GrowthBoundNames
     THEN [bound |-> NoMag, bad |-> node.name \notin Containers]
     ELSE IF general
     THEN IF k.bad THEN [bound |-> NoMag, bad |-> TRUE]
          ELSE [bound |-> GrowthBinomialGeneral(b[0], IF k.ok THEN Ratio(k) ELSE NoMag), bad |-> FALSE]
     ELSE [bound |-> GrowthBounds(node.name, b), bad |-> FALSE]

\* -------------------------------------------------- elementary and markers
(* _evalf_coercion_cheap: whether SymPy may turn the argument into a float.    *)
EvalfCheap(arg, r) ==
  \/ arg.k \in {"int", "rat", "float"}
  \/ Calls(arg, IntegerValued)
  \/ /\ ~(TruePow(arg) # NoMag /\ DigitCountOverCap(TruePow(arg), MaxSymbolicExponent))
     /\ ~DigitCountOverCap(Ratio(r), MaxSymbolicExponent)

LnUp(n) == IF n > 10 THEN 11 ELSE 1 + (LnMilli(n) \div 1000)

\* The first operand that stops the loop over all of them, or 0.
FirstProblem(rs) == IF \E i \in DOMAIN rs : rs[i].bad \/ ~rs[i].ok
                    THEN Min({i \in DOMAIN rs : rs[i].bad \/ ~rs[i].ok}) ELSE 0

(* sign is at most one, Max and Min at most their largest argument, a logarithm *)
(* far below its argument.                                                     *)
ElementaryBoundRules ==
  ("sign" :> "bounded1") @@ [f \in {"Max", "Min"} |-> "passthrough"] @@ ("log" :> "log")

(* _elementary_function_magnitude.                                             *)
ElementaryMagnitude(node, otherwise) ==
  LET rs == Each(node.args, ResolveArg)
      stop == FirstProblem(rs)
      dear == {i \in DOMAIN rs : (stop = 0 \/ i < stop) /\ ~EvalfCheap(node.args[i], rs[i])}
  IN CASE ElementaryBoundRules[node.name] = "log" ->
            IF Len(node.args) # 1 \/ (stop = 1 /\ ~rs[1].bad) THEN otherwise
            ELSE IF stop = 1 THEN Refused
            ELSE Known(<<LnUp(Up(FromOne(Ratio(rs[1])))), 1>>)
       [] node.name = "sign" /\ Len(node.args) # 1 -> Known(One)
       [] node.args = <<>> -> Known(One)
       [] OTHER ->
            IF dear # {} THEN Refused
            ELSE IF stop # 0 THEN IF rs[stop].bad THEN Refused ELSE otherwise
            ELSE Known(IF ElementaryBoundRules[node.name] = "bounded1" THEN One ELSE Largest({Ratio(rs[i]) : i \in DOMAIN rs}))

(* _exact_literal_log10 and _divisor_lower_log10: a lower bound of a divisor.   *)
DivisorLower(node) ==
  IF node.k \in {"int", "rat", "float"} /\ node.v # 0 THEN MagOf(Rat(node.v, node.q))
  ELSE IF (BinomialNConfirmed(node) \/ Calls(node, IntegerValued)) /\ ~TableBound(node).bad THEN One
  ELSE NoMag

\* A mutant: every operator bounded by its left operand.
MarkerMagnitudeMutant(node) ==
  LET l == IF Symbolic(node.args[1]) THEN Unknown ELSE ResolveArg(node.args[1])
  IN IF l.ok THEN Known(Ratio(l)) ELSE l

(* _resolve_marker_magnitude: shifts, remainder and floor division.            *)
MarkerMagnitude(node) ==
  LET left == node.args[1]
      right == node.args[2]
      l == IF Symbolic(left) THEN Unknown ELSE ResolveArg(left)
      r == IF Symbolic(right) THEN Unknown ELSE ResolveArg(right)
      unreducible == /\ TruePow(left) # NoMag
                     /\ 10 ^ MaxNumericDigits * TruePow(left)[2] < TruePow(left)[1]
      safeDivisor == r.ok /\ KnownRational(right)
  IN IF l.bad \/ r.bad THEN Refused
     ELSE CASE node.name = "<<" ->
                 IF ~(l.ok /\ r.ok) THEN Unknown
                 ELSE Known(Times(Ratio(l), <<RationalPower(2, Ratio(r)), 1>>))
            [] node.name = ">>" -> IF l.ok THEN Known(Ratio(l)) ELSE Unknown
            [] node.name = "%" ->
                 IF (~safeDivisor \/ Symbolic(left)) /\ unreducible THEN Refused
                 ELSE IF r.ok THEN Known(Ratio(r)) ELSE Unknown
            [] node.name = "//" ->
                 IF ~l.ok THEN Unknown
                 ELSE IF ~safeDivisor /\ unreducible THEN Refused
                 ELSE IF DivisorLower(right) = NoMag THEN Unknown
                 ELSE Known(Over(Ratio(l), DivisorLower(right)))

(* _float_value_log10: a float's value, not the few digits it prints.           *)
FloatMagnitude(node) == IF node.v = 0 THEN One ELSE MagOf(<<node.v, node.q>>)

(* _resolve_arg_magnitude: the magnitude of an argument, through table          *)
(* functions, markers, roundings and what is built from them.                  *)
ResolveArg(node) ==
  LET l == Log10NumDen(node)
      unresolved == Est(l.num, l.den, FALSE)
      rs == Each(node.args, ResolveArg)
      stop == FirstProblem(rs)
      t == TableBound(node)
      composed(m) == IF stop = 0 THEN Known(m) ELSE IF rs[stop].bad THEN Refused ELSE unresolved
  IN CASE node.k = "float" -> Known(FloatMagnitude(node))
       [] node.k # "float" /\ l.ok -> l
       [] Calls(node, Binops) -> MarkerMagnitude(node)
       [] node.k = "const" -> Known(<<10, 1>>)
       [] node.k = "fn" /\ PoleSensitive(node).given -> PoleSensitive(node).est
       [] Calls(node, DOMAIN FunctionArgCaps) /\ ~PoleSensitive(node).given ->
            IF t.bad THEN Refused ELSE IF t.bound # NoMag THEN Known(t.bound) ELSE unresolved
       [] Calls(node, {"floor", "ceiling", "Abs", "frac"}) /\ Len(node.args) = 1 ->
            IF rs[1].bad THEN Refused ELSE IF ~rs[1].ok THEN unresolved
            ELSE IF ~EvalfCheap(node.args[1], rs[1]) THEN Refused
            ELSE IF node.name = "frac" THEN Known(One)
            ELSE IF node.name = "Abs" THEN rs[1] ELSE Known(Ratio(rs[1]))
       [] Calls(node, DOMAIN ElementaryBoundRules) -> ElementaryMagnitude(node, unresolved)
       [] node.k = "pow" /\ ~l.ok ->
            IF Symbolic(node) THEN unresolved
            ELSE IF rs[1].bad THEN Refused
            ELSE IF ~rs[1].ok \/ ~AtMost(One, Ratio(rs[1])) THEN unresolved
            ELSE IF rs[2].bad THEN Refused
            ELSE IF ~rs[2].ok \/ Ratio(rs[2])[1] = Huge THEN unresolved
            ELSE Known(<<RationalPower(Up(Ratio(rs[1])), Ratio(rs[2])), 1>>)
       [] node.k = "mul" /\ ~l.ok ->
            composed(FoldLeft(LAMBDA acc, r : Times(acc, Ratio(r)), One, rs))
       [] node.k = "add" /\ ~l.ok ->
            composed(Times(Largest({Ratio(rs[i]) : i \in DOMAIN rs}), <<Len(rs), 1>>))
       [] OTHER -> unresolved

(* _is_positive_table_integer, _is_table_reciprocal and                         *)
(* _table_product_is_negative: products of integers, n! and their reciprocals. *)
PositiveTableInteger(node) ==
  Calls(node, {"factorial", "bell"}) /\ Len(node.args) = 1 /\ node.args[1].k = "int" /\ node.args[1].v >= 0
TableReciprocal(node) ==
  node.k = "pow" /\ node.args[2].k = "int" /\ node.args[2].v < 0 /\ PositiveTableInteger(node.args[1])
TableProductIsNegative(node) ==
  /\ node.k = "mul"
  /\ \A f \in Args(node) : (f.k = "int" /\ f.v # 0) \/ PositiveTableInteger(f) \/ TableReciprocal(f)
  /\ Cardinality({i \in DOMAIN node.args : node.args[i].k = "int" /\ node.args[i].v < 0}) % 2 = 1

(* _resolved_table_aware_magnitude: the magnitude of an exponent; dividing by a *)
(* positive table integer only makes it smaller.                               *)
TableAware(node) ==
  LET l == Log10NumDen(node)
      otherwise == Est(l.num, l.den, FALSE)
      numerator == MulN(SelectSeq(node.args, LAMBDA f : ~TableReciprocal(f)))
      r == ResolveArg(IF node.k = "mul" THEN numerator ELSE node)
      t == TableBound(node)
  IN IF l.ok THEN l
     ELSE IF Calls(node, GrowthBoundNames) THEN IF t.bound # NoMag THEN Known(t.bound) ELSE otherwise
     ELSE IF \/ node.k \in {"mul", "add"}
             \/ node.k = "pow" /\ KnownNonnegative(node.args[2])
     THEN IF r.ok /\ ~r.bad THEN r ELSE otherwise
     ELSE otherwise

\* -------------------------------------------- one refusal rule per operator
(* _deferred_binop_violation.                                                   *)
BinopViolation(node) ==
  LET r == ResolveArg(node)
  IN /\ Calls(node, Binops)
     /\ ~\E a \in Args(node) : Calls(a, Containers)
     /\ r.bad \/ (IF r.ok THEN DigitCeiling(Ratio(r)) ELSE ~Symbolic(node))

(* _pow_table_base_violation.                                                   *)
PowTableBase(node) ==
  /\ node.k = "pow" /\ Calls(node.args[1], GrowthBoundNames) /\ ~Symbolic(node)
  /\ LET r == ResolveArg(node.args[1])
     IN \/ r.bad
        \/ r.ok /\ node.args[2].k = "int" /\ node.args[2].v # 0
             /\ DigitCeiling(Power(Ratio(r), Abs(node.args[2].v)))

(* _table_function_growth_violation: the result of a table function.           *)
TableGrowth(node) ==
  /\ Calls(node, GrowthBoundNames) /\ node.args # <<>> /\ ~Symbolic(node.args[1])
  /\ node.name \notin PoleSensitiveGrowthTopLevelNames
  /\ IF node.name = "polygamma"
     THEN LET order == ResolveExact(node.args[1])
              z == IF Len(node.args) >= 2 THEN ResolveExact(node.args[2]) ELSE NoRat
              pole == PoleSensitive(node)
          IN /\ order # <<0, 1>>
             /\ (Exact(order) /\ order[1] < 0) =>
                   order = <<-1, 1>> /\ z[2] = 1 /\ ~(z[1] \in 1 .. MaxHeavyArg + 1)
             /\ pole.given
             /\ pole.est.bad \/ (pole.est.ok /\ DigitCeiling(Ratio(pole.est)))
     ELSE LET t == TableBound(node)
          IN t.bad \/ (t.bound # NoMag /\ DigitCeiling(t.bound))

(* _evalf_coercion_violation.                                                   *)
EvalfCoercion(node) == Calls(node, EvalfCoercions) /\ ~Symbolic(node) /\ ResolveArg(node).bad

(* _n_precision_violation, _series_order_violation and _fps_order_violation.    *)
OrderTooLarge(node, name, i) ==
  /\ Calls(node, {name}) /\ Len(node.args) > i /\ ~Symbolic(node.args[i + 1])
  /\ LET r == ResolveArg(node.args[i + 1])
     IN r.bad \/ ~r.ok \/ ~AtMost(Ratio(r), <<PositionSpec(name, i).cap, 1>>)
NPrecision(node) == OrderTooLarge(node, "N", 1)
SeriesOrder(node) == OrderTooLarge(node, "series", 3)
FpsOrder(node) == OrderTooLarge(node, "fps", 5)

RECURSIVE Flatten(_), Substitute(_, _), NumericCeilingScan(_)
(* _flatten_container_values.                                                   *)
Flatten(node) == IF node.k = "tuple" THEN FlattenSeq(Each(node.args, Flatten))
                 ELSE <<node>>
Substitute(node, env) ==
  IF node.k = "sym" /\ node.name \in DOMAIN env THEN env[node.name]
  ELSE [node EXCEPT !.args = Each(node.args, LAMBDA a : Substitute(a, env))]

(* _classify_summation_limits: a variable, a variable with two bounds, or a    *)
(* shape that is not understood.                                               *)
LimitKind(arg) == IF arg.k = "sym" THEN "symbol"
                  ELSE IF Len(Flatten(arg)) = 3 /\ Flatten(arg)[1].k = "sym" THEN "triple" ELSE "invalid"
LimitRefused(arg) ==
  \/ LimitKind(arg) = "invalid"
  \/ /\ LimitKind(arg) = "triple"
     /\ \E i \in 2 .. 3 :
          LET bound == Flatten(arg)[i]
              r == ResolveArg(bound)
          IN /\ ~Symbolic(bound) /\ bound.k # "inf"
             /\ r.bad \/ ~r.ok \/ DigitsOverCapForNode(bound, "num", r.num, MaxNumericDigits)

(* _summand_table_name_range_cap: the fewest terms any table function in the    *)
(* summand allows.                                                              *)
CheapSummands == {"factorial", "factorial2", "subfactorial", "fibonacci", "lucas", "tribonacci", "primepi",
                  "npartitions", "totient", "divisor_sigma", "partition", "mobius"}
RecognizedFunctions == DOMAIN FunctionArgCaps \cup EvalfCoercions \cup PoleSensitiveNames \cup MeasuredSafe
                       \cup Binops \cup SumNames \cup IntegralNames
                       \cup {"N", "Mod", "series", "fps", "Piecewise", "log"}
SummandRangeCap(summand, none) ==
  LET names == {t.name : t \in {s \in Subtrees(summand) : s.k = "fn"}} \cap (RecognizedFunctions \ SumNames)
      cap(f) == IF f \in CheapSummands THEN MaxHeavyArg
                ELSE IF f \in {"catalan", "bell", "genocchi", "andre"} THEN SlowSummandCap ELSE DefaultSummandCap
  IN IF names = {} THEN none ELSE Min({cap(f) : f \in names})

(* The limits of a sum or product whose bounds are known.                        *)
KnownLimits(node) ==
  {i \in 2 .. Len(node.args) :
     /\ LimitKind(node.args[i]) = "triple"
     /\ \A j \in 2 .. 3 : ~Symbolic(Flatten(node.args[i])[j]) /\ Exact(ResolveExact(Flatten(node.args[i])[j]))}
LimitVar(node, i) == Flatten(node.args[i])[1].name
Lower(node, i) == ResolveExact(Flatten(node.args[i])[2])
Upper(node, i) == ResolveExact(Flatten(node.args[i])[3])
TotalTerms(node) ==
  FoldSet(LAMBDA i, acc : SatMul(acc, 1 + Up(MagOf(RatAdd(Upper(node, i), RatMul(<<-1, 1>>, Lower(node, i)))))),
          1, KnownLimits(node))

(* The term at one end of every range.                                          *)
BoundVars(node) == {LimitVar(node, i) : i \in KnownLimits(node)} \cap FreeSymbols(node.args[1])
TermAt(node, end(_, _)) ==
  LET lit(r) == IF r[2] = 1 THEN IntN(r[1]) ELSE RatN(r[1], r[2])
  IN Substitute(node.args[1], [x \in BoundVars(node) |->
                  lit(end(node, CHOOSE i \in KnownLimits(node) : LimitVar(node, i) = x))])
Extreme(node, i) == IF AtMost(MagOf(Lower(node, i)), MagOf(Upper(node, i))) THEN Upper(node, i) ELSE Lower(node, i)

(* The term at the end of larger magnitude is scanned; all ranges at once, and   *)
(* whichever way a range runs.                                                   *)
BoundaryTermUnsafe(node) == BoundVars(node) # {} /\ NumericCeilingScan(TermAt(node, Extreme))

(* A product of as many terms as there are, each as large as the larger of the   *)
(* terms at the two ends, a constant one too.                                    *)
ProductTooLong(node) ==
  LET corners == {ResolveArg(TermAt(node, Lower)), ResolveArg(TermAt(node, Upper))}
      known == {Ratio(r) : r \in {c \in corners : c.ok /\ ~c.bad}}
  IN /\ node.name \in {"product", "Product"}
     /\ \/ \E c \in corners : c.bad
        \/ known # {} /\ ~AtMost(Power(Largest(known), TotalTerms(node)), <<10 ^ MaxNumericDigits, 1>>)

(* _summation_product_violation: the limits are within bounds, the largest      *)
(* term is, the product of all terms is, and there are not too many terms.      *)
SummationProduct(node) ==
  LET cap == Min({SummandRangeCap(node.args[1], Huge),
                  IF node.name \in {"product", "Product"} THEN MaxHeavyArg ELSE Huge})
  IN /\ Calls(node, SumNames) /\ Len(node.args) >= 2
     /\ \/ \E i \in 2 .. Len(node.args) : LimitRefused(node.args[i])
        \/ /\ KnownLimits(node) # {}
           /\ \/ BoundaryTermUnsafe(node)
              \/ ProductTooLong(node)
              \/ cap < Huge /\ TotalTerms(node) > cap

(* _integrate_limit_violation.                                                  *)
IntegrateLimit(node) ==
  Calls(node, IntegralNames) /\ \E i \in 2 .. Len(node.args) : LimitRefused(node.args[i])

(* _expint_top_level_violation.                                                 *)
ExpintTopLevel(node) == Calls(node, {"expint"}) /\ PoleSensitive(node).given /\ PoleSensitive(node).est.bad

(* _binomial_k_violation: k is free unless n is not a known natural number.     *)
BinomialK(node) ==
  /\ Calls(node, {"binomial"}) /\ Len(node.args) >= 2
  /\ ~BinomialNConfirmed(node) /\ ~Symbolic(node.args[2])
  /\ LET r == ResolveArg(node.args[2])
     IN r.bad \/ ~r.ok \/ ~AtMost(Ratio(r), <<MaxHeavyArg, 1>>)

RECURSIVE HidesNumeric(_)
(* _arg_hides_numeric and _unbounded_generic_call_violation: a function nobody  *)
(* measured may only be called with symbols.                                    *)
HidesNumeric(arg) == ~Symbolic(arg) \/ (arg.k = "tuple" /\ \E a \in Args(arg) : HidesNumeric(a))
UnboundedGenericCall(node) ==
  node.k = "fn" /\ node.name \notin RecognizedFunctions /\ \E a \in Args(node) : HidesNumeric(a)

(* _measured_safe_argument_cap_violation.                                       *)
MeasuredSafeArgument(node) ==
  /\ Calls(node, MeasuredSafe)
  /\ \E a \in UNION {Range(Flatten(x)) : x \in Args(node)} :
       /\ ~Symbolic(a)
       /\ LET r == ResolveArg(a)
              cap == <<MaxHeavyArg, 1>>
          IN \/ r.bad \/ ~r.ok \/ ~AtMost(Ratio(r), cap)
             \/ TruePow(a) # NoMag /\ ~AtMost(TruePow(a), cap)

\* ------------------------------------------------------------ the two scans
(* The rules of one node, in both scans.                                        *)
NodeViolation(node) ==
  \/ FunctionArgCap(node) \/ TableGrowth(node) \/ EvalfCoercion(node) \/ NPrecision(node)
  \/ SeriesOrder(node) \/ SummationProduct(node) \/ IntegrateLimit(node) \/ ExpintTopLevel(node)
  \/ FpsOrder(node) \/ BinomialK(node) \/ UnboundedGenericCall(node) \/ MeasuredSafeArgument(node)

(* Where the scan goes on below a node: not below a number whose size is known,  *)
(* and not to the literal exponent of a power.                                   *)
Arithmetic(node) == node.k \in {"int", "mul", "add", "pow"}
ScannedBelow(node) ==
  IF Arithmetic(node) /\ Log10NumDen(node).ok THEN {}
  ELSE IF node.k = "pow" /\ node.args[2].k = "int" THEN {node.args[1]} ELSE Args(node)

(* _numeric_ceiling_scan: the rules at every node from the root down.            *)
NumericCeilingScan(node) ==
  LET l == Log10NumDen(node)
  IN \/ node.k # "tuple" /\ (BinopViolation(node) \/ PowTableBase(node) \/ NodeViolation(node))
     \/ Arithmetic(node) /\ CeilingNumDen(l.num, l.den)
     \/ \E a \in ScannedBelow(node) : NumericCeilingScan(a)

(* The powers of reject_explosive: a tower, a root of a long number, a power    *)
(* whose own size is known, and an exponent over a symbolic base.               *)
TowerOfPowers(node) == node.args[2].k = "pow"
RootTooLong(base, exp) ==
  LET r == ResolveArg(base)
  IN /\ exp.k = "rat" /\ exp.v = 1 /\ exp.q >= 2
     /\ \/ r.bad
        \/ r.ok /\ (DigitsOverCapForNode(base, "num", r.num, MaxRootDigits)
                    \/ DigitsOverCapForNode(base, "den", r.den, MaxRootDigits))
NumericPowerTooLong(base, exp) ==
  LET b == Log10NumDen(base)
  IN exp.k = "int" /\ Abs(exp.v) > 1 /\ b.ok
     /\ CeilingNumDen(Power(b.num, Abs(exp.v)), Power(b.den, Abs(exp.v)))
SymbolicPowerTooLong(exp) ==
  LET f == FactorMultiset(exp)
      terms == CoprimeRefine(f.terms)
      r == TableAware(exp)
      positive == ~KnownNegative(exp) /\ ~TableProductIsNegative(exp)
      over(m) == ~AtMost(m, One) /\ ~AtMost(m, <<MaxSymbolicExponent, 1>>)
  IN IF Trusted(f)
     THEN /\ f.sign > 0 /\ \A x \in DOMAIN terms : terms[x] >= 0
          /\ over(<<MultisetNumDen(terms)[1], 1>>)
     ELSE r.ok /\ positive /\ over(Ratio(r))
PowViolation(node) ==
  LET base == node.args[1]
      exp == node.args[2]
  IN /\ node.k = "pow"
     /\ \/ TowerOfPowers(node)
        \/ /\ ~Symbolic(exp)
           /\ IF Symbolic(base) THEN SymbolicPowerTooLong(exp)
              ELSE RootTooLong(base, exp) \/ NumericPowerTooLong(base, exp)

(* reject_explosive: the numeric scan, then the rules of the calls and of the    *)
(* powers at every node of the tree.                                            *)
RejectExplosive(tree) ==
  \/ NumericCeilingScan(tree)
  \/ \E node \in Subtrees(tree) : NodeViolation(node) \/ PowViolation(node)
=============================================================================
