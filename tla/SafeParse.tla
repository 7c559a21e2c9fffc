------------------------------ MODULE SafeParse ------------------------------
(***************************************************************************)
(* safe_parse of safe_expr.py: the stages one caller string goes through    *)
(* before SymPy may evaluate it, and what SymPy has built at each of them.  *)
(*                                                                          *)
(* A text is the tree it denotes with what the tokenizer and SymPy's parser *)
(* do on it. The deferred parse builds inert stand-ins and markers only;    *)
(* the second parse, with evaluate=False, computes the operators % // << >> *)
(* and calls functions on plain numbers; the third evaluates everything.    *)
(***************************************************************************)
EXTENDS ExpressionScreen

CONSTANT Texts   \* the expressions of the instance, see TextOf

\* lex is what the tokenizer finds: "ok" or the reason it stops at.
\* deferred, shape, value and scan say whether that stage raises.
TextOf(tree, lex, deferred, shape, value, scan) ==
  [tree |-> tree, lex |-> lex, deferred |-> deferred, shape |-> shape, value |-> value, scan |-> scan]

\* ---------------------------------------------------- the token screens
RECURSIVE Literals(_)
Literals(node) == IF node.k = "int" THEN <<Abs(node.v)>>
                  ELSE FlattenSeq(Each(node.args, Literals))

(* _heavy_call_violation: any literal in a bounded argument of a heavy call.    *)
HeavyCall(tree) ==
  \E call \in Subtrees(tree) : Calls(call, HeavyFunctions) /\
    \E i \in DOMAIN call.args :
      /\ PositionSpec(call.name, i - 1) # NoSpec
      /\ \E n \in Range(Literals(call.args[i])) : n > PositionSpec(call.name, i - 1).cap

(* _call_arg_cap_violation: a lone literal above a value cap, or literals whose *)
(* digits together are above a digit cap.                                       *)
CallArgCap(spec, literals) ==
  CASE spec.kind = "value" -> Len(literals) = 1 /\ literals[1] > spec.cap
    [] spec.kind = "digits" -> FoldLeft(LAMBDA acc, n : acc + Digits(n), 0, literals) > spec.cap
    [] OTHER -> FALSE
(* _oversized_call_arg_violation.                                               *)
OversizedCallArg(tree) ==
  \E call \in Subtrees(tree) : Calls(call, DOMAIN FunctionArgCaps) /\
    \E i \in DOMAIN call.args : CallArgCap(PositionSpec(call.name, i - 1), Literals(call.args[i]))

(* classify_unsafe: the category of the first thing wrong with the text.        *)
ClassifyUnsafe(t) ==
  CASE t.lex \in {"not_a_string", "control_character", "untokenisable"} -> "validation"
    [] t.lex = "tokenizer_fault" -> "ceiling"
    [] t.lex = "denied_token" -> "security"
    [] HeavyCall(t.tree) \/ OversizedCallArg(t.tree) -> "ceiling"
    [] t.lex = "long_exponent" -> "ceiling"
    [] OTHER -> "none"

Plain(node) == IsNumber(node) \/ node.k = "float"

\* ------------------------------------------------- what evaluation computes
RECURSIVE TrueValue(_), Binom(_, _), Rising(_, _, _), Square(_, _)
Binom(n, k) == IF k = 0 THEN 1 ELSE IF k > n THEN 0 ELSE (Binom(n - 1, k - 1) * n) \div k
Rising(x, k, step) == IF k = 0 THEN 1 ELSE x * Rising(x + step, k - 1, step)
Square(n, r) == IF r * r > n THEN -1 ELSE IF r * r = n THEN r ELSE Square(n, r + 1)
(* The integer sequences of the table, at 1 .. 7.                               *)
Sequence == [factorial2 |-> <<1, 2, 3, 8, 15, 48, 105>>, subfactorial |-> <<0, 1, 2, 9, 44, 265, 1854>>,
             fibonacci |-> <<1, 1, 2, 3, 5, 8, 13>>, lucas |-> <<1, 3, 4, 7, 11, 18, 29>>,
             tribonacci |-> <<1, 1, 2, 4, 7, 13, 24>>, motzkin |-> <<1, 2, 4, 9, 21, 51, 127>>,
             bell |-> <<1, 2, 5, 15, 52, 203, 877>>, andre |-> <<1, 1, 2, 5, 16, 61, 272>>,
             euler |-> <<0, -1, 0, 5, 0, -61, 0>>, gamma |-> <<1, 1, 2, 6, 24, 120, 720>>,
             partition |-> <<1, 2, 3, 5, 7, 11, 15>>, npartitions |-> <<1, 2, 3, 5, 7, 11, 15>>,
             prime |-> <<2, 3, 5, 7, 11, 13, 17>>, primorial |-> <<2, 6, 30, 210, 2310, 30030, 510510>>,
             primepi |-> <<0, 1, 2, 2, 3, 3, 4>>, totient |-> <<1, 1, 2, 2, 4, 2, 6>>,
             divisor_sigma |-> <<1, 3, 4, 7, 6, 12, 8>>]
TrueCall(name, a) ==
  CASE \E i \in DOMAIN a : a[i] = NoRat -> NoRat
    [] \E i \in DOMAIN a : a[i] = Big -> Big
    [] name = "Abs" -> <<Abs(a[1][1]), a[1][2]>>
    [] name = "floor" -> <<a[1][1] \div a[1][2], 1>>
    [] \E i \in DOMAIN a : a[i][2] # 1 \/ a[i][1] < 0 -> NoRat
    [] name = "factorial" -> IF a[1][1] > 7 THEN Big ELSE <<Factorial[a[1][1]], 1>>
    [] name = "catalan" -> IF a[1][1] > 7 THEN Big ELSE <<Binom(2 * a[1][1], a[1][1]) \div (a[1][1] + 1), 1>>
    [] name = "binomial" -> IF a[1][1] > 14 THEN Big ELSE <<Binom(a[1][1], a[2][1]), 1>>
    [] name \in RisingFalling -> IF a[1][1] > 9 \/ a[2][1] > 4 THEN Big
                                 ELSE <<Rising(a[1][1], a[2][1], IF name \in {"rf", "RisingFactorial"} THEN 1 ELSE -1), 1>>
    [] name \in DOMAIN Sequence /\ Len(a) = 1 /\ a[1][1] \in DOMAIN Sequence[name] -> <<Sequence[name][a[1][1]], 1>>
    [] OTHER -> NoRat
(* The exact value of a subtree, where this model knows it: NoRat elsewhere.    *)
TrueValue(node) ==
  LET a == Each(node.args, TrueValue)
  IN CASE Plain(node) -> Rat(node.v, node.q)
       [] node.k = "add" -> FoldLeft(RatAdd, <<0, 1>>, a)
       [] node.k = "mul" -> FoldLeft(RatMul, <<1, 1>>, a)
       [] node.k = "pow" ->
            IF a[2][2] = 1 THEN RatPow(a[1], a[2][1])
            ELSE IF a[2] = <<1, 2>> /\ Exact(a[1]) /\ a[1][1] >= 0 /\ Square(a[1][1], 0) >= 0 /\ a[1][2] = 1
            THEN <<Square(a[1][1], 0), 1>> ELSE NoRat
       [] Calls(node, Binops) -> RatBinop(node.name, a[1], a[2])
       [] node.k = "fn" -> TrueCall(node.name, a)
       [] OTHER -> NoRat

\* A mutant: only calls are looked for, not the operators.
TouchesTableMutant(tree) == \E node \in Subtrees(tree) : Calls(node, DOMAIN FunctionArgCaps)

(* The operators that compute as soon as both operands are numbers.             *)
UnprotectedOperators == {"%", "//", "<<", ">>"}

(* _expression_touches_table_or_unprotected_operator.                           *)
TouchesTable(tree) ==
  \E node \in Subtrees(tree) :
    Calls(node, DOMAIN FunctionArgCaps \cup DOMAIN ExtraBoundedPositions \cup UnprotectedOperators)

(* What sqrt and cbrt make, in every parse: an unevaluated power.               *)
RECURSIVE Deferred(_)
Deferred(node) ==
  LET args == Each(node.args, Deferred)
  IN IF Calls(node, {"sqrt", "cbrt"} \ DeferredStandinNames) /\ Len(args) = 1
     THEN PowNode(args[1], RatN(1, IF node.name = "sqrt" THEN 2 ELSE 3))
     ELSE [node EXCEPT !.args = args]

(* _bare_class_violation: a name of a SymPy class that is not called.           *)
BareClass(tree) == \E node \in Subtrees(tree) : node.k = "class"

RECURSIVE EagerlyBuilt(_), ShapeOf(_)
(* What the second parse computes although it does not evaluate: evaluate=False *)
(* reaches the arithmetic operators and the elementary functions only, and six  *)
(* functions coerce their argument whatever it is.                              *)
Unevaluated == {"Abs", "sign", "log", "exp", "sin", "cos", "tanh", "sqrt", "cbrt"}
Coercing == {f \in DOMAIN FunctionArgCaps : FunctionArgCaps[f] = DigitsOf(MaxFactorDigits)}
EagerlyBuilt(node) ==
  /\ node.k = "fn" /\ node.name \notin Unevaluated
  /\ \/ node.name \in Coercing /\ ~Symbolic(node)
     \/ \A a \in Args(node) : Plain(a) \/ EagerlyBuilt(a)

(* The tree of the second parse: what it computed is a literal.                 *)
ShapeOf(node) ==
  LET r == TrueValue(node)
  IN IF EagerlyBuilt(node) /\ Exact(r)
     THEN IF r[2] = 1 THEN IntN(r[1]) ELSE RatN(r[1], r[2])
     ELSE [node EXCEPT !.args = Each(node.args, ShapeOf)]

\* ----------------------------------------------------------------- verdicts
\* What the operators above say of a text and of the nodes in it.
NodeFacts(node) == [node |-> node, value |-> TrueValue(node), est |-> Log10NumDen(node),
                    numeric |-> ~Symbolic(node), eager |-> EagerlyBuilt(node)]
Verdicts(t) ==
  LET tree == Deferred(t.tree)
  IN [text |-> t, category |-> ClassifyUnsafe(t), touches |-> TouchesTable(t.tree), bare |-> BareClass(tree),
      rejects |-> RejectExplosive(tree), rejectsShape |-> RejectExplosive(ShapeOf(tree)),
      value |-> TrueValue(tree), nodes |-> {NodeFacts(n) : n \in Subtrees(tree)}]
VerdictsOfTexts == {Verdicts(t) : t \in Texts}
VerdictTable == LET table == VerdictsOfTexts IN table

\* The constant that is given VerdictTable: TLC computes it once.
CONSTANT Screened

VARIABLES is,         \* the string being parsed, and the verdicts on it
          evaluate,   \* the caller's evaluate flag
          stage,      \* the step of safe_parse that comes next
          scanShape,  \* whether the deferred parse gave a tree
          shape,      \* whether the second parse gave a tree
          built,      \* the nodes SymPy has computed as numbers
          outcome     \* "none", a refusal's category, or what is returned

vars == <<is, evaluate, stage, scanShape, shape, built, outcome>>

Init ==
  /\ is \in Screened /\ evaluate \in BOOLEAN
  /\ stage = "classify" /\ scanShape = FALSE /\ shape = FALSE
  /\ built = {} /\ outcome = "none"

Return(o) == outcome' = o /\ stage' = "done"
GoTo(s) == stage' = s /\ UNCHANGED outcome

Classify ==
  /\ stage = "classify"
  /\ IF is.category # "none" THEN Return(is.category) ELSE GoTo("deferred")
  /\ UNCHANGED <<is, evaluate, scanShape, shape, built>>

(* _reject_explosive_safely: a scan that raises refuses.                        *)
RejectSafely(rejects) == is.text.scan = "raises" \/ rejects

(* The deferred parse and the scan of what it built. When it fails, only a text *)
(* without a table function or one of the operators may go on unscanned.        *)
DeferredScan ==
  /\ stage = "deferred"
  /\ IF is.text.deferred = "raises"
     THEN /\ UNCHANGED scanShape
          /\ IF is.touches THEN Return("validation") ELSE GoTo("shape")
     ELSE /\ scanShape' = TRUE
          /\ IF is.bare THEN Return("validation")
             ELSE IF RejectSafely(is.rejects) THEN Return("ceiling") ELSE GoTo("shape")
  /\ UNCHANGED <<is, evaluate, shape, built>>

(* The second parse and its scan.                                               *)
ShapeScan ==
  /\ stage = "shape"
  /\ built' = {n \in is.nodes : n.eager}
  /\ IF is.text.shape # "ok" THEN UNCHANGED shape /\ GoTo("decide")
     ELSE /\ shape' = TRUE
          /\ IF is.bare THEN Return("validation")
             ELSE IF RejectSafely(is.rejectsShape) THEN Return("ceiling") ELSE GoTo("decide")
  /\ UNCHANGED <<is, evaluate, scanShape>>

(* What a failed second parse means: only the ValueError that says "is not an   *)
(* integer", of a text the deferred scan has accepted, may still be evaluated.  *)
Decide ==
  /\ stage = "decide"
  /\ IF ~shape /\ (~scanShape \/ is.text.shape # "not_an_integer") THEN Return("validation")
     ELSE IF ~evaluate THEN Return(IF shape THEN "shape" ELSE "validation")
     ELSE GoTo("evaluate")
  /\ UNCHANGED <<is, evaluate, scanShape, shape, built>>

(* The third parse evaluates every numeric subtree.                             *)
Evaluate ==
  /\ stage = "evaluate"
  /\ built' = {n \in is.nodes : n.numeric}
  /\ IF is.text.value = "raises" THEN Return("validation") ELSE GoTo("output")
  /\ UNCHANGED <<is, evaluate, scanShape, shape>>

(* _generic_result_size_violation: a matrix, a container or an expression with    *)
(* too many parts.                                                              *)
GenericResultSize(value) == value = "large_container"

(* The checks on the value itself, before it is returned.                       *)
Output ==
  /\ stage = "output"
  /\ LET r == is.value
         side(n) == <<Max({1, Abs(n)}), 1>>
     IN Return(IF \/ is.text.value = "long_float" \/ GenericResultSize(is.text.value)
                  \/ r = Big \/ (Exact(r) /\ CeilingNumDen(side(r[1]), side(r[2])))
               THEN "ceiling" ELSE "value")
  /\ UNCHANGED <<is, evaluate, scanShape, shape, built>>

Done == stage = "done" /\ UNCHANGED vars

Next == Classify \/ DeferredScan \/ ShapeScan \/ Decide \/ Evaluate \/ Output \/ Done

Spec == Init /\ [][Next]_vars

-----------------------------------------------------------------------------
ValueOf(node) == (CHOOSE n \in is.nodes : n.node = node).value

\* A number with a float in it has the float's precision.
HasFloat(node) == \E t \in Subtrees(node) : t.k = "float"

\* The nodes that can be much longer than their parts.
Amplifies(node) == ~HasFloat(node) /\ (node.k = "pow" \/ Calls(node, DOMAIN FunctionArgCaps \cup {"<<"}))

\* A negative power of a sum: its estimate swaps two upper bounds (4707) and is no
\* bound.
SumReciprocal(node) == \E t \in Subtrees(node) : t.k = "pow" /\ ValueOf(t.args[2])[1] < 0
                         /\ \E s \in Subtrees(t.args[1]) : s.k = "add"
Prints(r, digits) == r # Big /\ (Exact(r) => Abs(r[1]) < 10 ^ digits /\ r[2] < 10 ^ digits)

(* A function with a cost cap is called with an argument within it               *)
(* (_FUNCTION_ARG_CAPS), however the argument is spelled.                        *)
CallWithinCap(n) ==
  Calls(n, DOMAIN FunctionArgCaps) =>
    \A i \in DOMAIN n.args :
      LET spec == PositionSpec(n.name, i - 1)
          v == ValueOf(n.args[i])
      IN spec.kind = "value" => v # Big /\ (Exact(v) => Abs(v[1]) <= spec.cap * v[2])

(* Of the subtrees that hold no negative power of a sum, SymPy has computed no    *)
(* power, shift or table function with more digits than can be printed, and       *)
(* called no capped function above its cap: both scans stand before SymPy, but    *)
(* the second parse computes operators and calls early, and either parse may fail *)
(* and leave one scan (safe_parse). With a negative power of a sum it is false:   *)
(* factorial(3*3*(3-2)**-1) passes a cap of 5, since the estimate of the power    *)
(* swaps the sides (safe_expr.py:4707). The size is claimed where TrueValue has   *)
(* one: factorial, binomial, catalan, rf, ff and the names of Sequence at         *)
(* integers; not for the rational results of harmonic, bernoulli, genocchi and    *)
(* zeta, nor for polynomials. The caps are claimed of every function.             *)
NothingHugeIsBuilt ==
  \A n \in built : ~SumReciprocal(n.node) =>
    /\ Amplifies(n.node) => Prints(n.value, MaxNumericDigits)
    /\ CallWithinCap(n.node)

(* An estimate that is resolved covers the number it stands for: the longer of    *)
(* its printed numerator and denominator is within the larger estimate            *)
(* (_log10_num_den; which side it is depends on the sign of an exponent).         *)
EstimateCovers ==
  \A n \in is.nodes :
    (stage = "classify" /\ n.numeric /\ n.est.ok /\ Exact(n.value) /\ n.value[1] # 0 /\ ~HasFloat(n.node))
      => Max({Abs(n.value[1]), n.value[2]}) <= Max({n.est.num[1], n.est.den[1]})
=============================================================================
