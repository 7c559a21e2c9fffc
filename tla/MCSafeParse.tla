---------------------------- MODULE MCSafeParse ----------------------------
(***************************************************************************)
(* The texts of the instance: arithmetic, shifts, divisions and calls two  *)
(* levels deep over a few integers, one call of every other kind of        *)
(* function, sums and powers over symbols, and texts that a stage of       *)
(* safe_parse fails on.                                                    *)
(***************************************************************************)
EXTENDS SafeParse

Leaves == {IntN(n) : n \in {-2, 0, 1, 2, 3, 7, 12}} \cup {RatN(1, 2), FloatN(5, 2)}
Few == {IntN(n) : n \in {-2, 2, 3}}

Binary(A, B) == {AddN(<<a, b>>) : a \in A, b \in B} \cup {MulN(<<a, b>>) : a \in A, b \in B}
                \cup {PowNode(a, b) : a \in A, b \in B}
                \cup {Fn(op, <<a, b>>) : op \in Binops, a \in A, b \in B}
Unary(A) == {Fn(f, <<a>>) : f \in {"factorial", "catalan", "Abs"}, a \in A}
Pairs(A, B) == {Fn(f, <<a, b>>) : f \in {"binomial", "rf", "ff"}, a \in A, b \in B}

Depth1 == Binary(Leaves, Leaves) \cup Unary(Leaves) \cup Pairs(Leaves, Few)
Small1 == Binary(Few, Few) \cup Unary({IntN(3), IntN(4)})
Depth2 == Binary(Small1, Few) \cup Binary(Few, Small1) \cup Unary(Small1) \cup Pairs(Small1, Few)

\* Products and sums of a power: terms that cancel, denominators, reciprocals.
Powers == {PowNode(a, b) : a \in Few, b \in Few}
Mixed == {MulN(<<a, b>>) : a \in Powers, b \in Powers} \cup {AddN(<<a, MulN(<<b, c>>)>>) : a, c \in Powers, b \in Few}
         \cup {Fn("factorial", <<MulN(<<a, b>>)>>) : a \in Powers, b \in Powers}
         \cup {Fn("factorial", <<MulN(<<a, b, PowNode(AddN(<<c, d>>), IntN(-1))>>)>>) : a, b, c, d \in Few}

\* Every other function, at arguments on both sides of its cap.
x == Sym("x")
OneArgument == (GrowthBoundNames \ (RisingFalling \cup Orthogonal \cup {"binomial", "polygamma"}))
               \cup (PoleSensitiveNames \ {"polygamma", "expint"})
               \cup EvalfCoercions \cup {"factorint", "sqrt", "log", "measured", "unknown"}
Applied == {Fn(f, <<IntN(n)>>) : f \in DOMAIN Sequence, n \in 2 .. 4}
Others == {Fn(f, <<a>>) : f \in OneArgument, a \in {IntN(2), IntN(7), RatN(1, 2), Fn("factorial", <<IntN(4)>>), x}}
          \cup {Fn(f, <<a>>) : f \in DOMAIN Sequence, a \in {IntN(3), IntN(4), IntN(5)} \cup Applied}
          \cup {Fn(f, <<IntN(2), a>>) : f \in {"polygamma", "zeta", "expint", "harmonic", "N", "Max", "bell", "LambertW"} \cup Orthogonal,
                                        a \in {IntN(3), IntN(7), x}}
          \cup {Fn("jacobi", <<IntN(2), IntN(1), IntN(1), IntN(3)>>), Fn("gegenbauer", <<IntN(3), IntN(2), IntN(7)>>),
                Fn("series", <<x, x, IntN(0), IntN(7)>>), Fn("fps", <<x, x, x, x, x, IntN(3)>>)}

Limit(lo, hi) == TupleN(<<Sym("k"), lo, hi>>)
Sums == {Fn(f, <<body, Limit(IntN(1), hi)>>) :
           f \in {"summation", "product", "integrate"}, hi \in {IntN(2), IntN(7), Infinite, x},
           body \in {Sym("k"), PowNode(IntN(2), Sym("k")), Fn("factorial", <<Sym("k")>>), Fn("bell", <<Sym("k")>>)}}
        \cup {Fn("summation", <<x, IntN(3)>>), Fn("summation", <<x, x>>)}
OverSymbols == {PowNode(x, e) : e \in Leaves \cup Unary(Leaves) \cup Powers
                                   \cup {MulN(<<IntN(-2), Fn("factorial", <<IntN(4)>>)>>)}}
               \cup {AddN(<<x, e>>) : e \in Powers} \cup {Fn("%", <<x, IntN(3)>>), Fn("//", <<IntN(7), x>>)}

Fine(tree) == TextOf(tree, "ok", "ok", "ok", "ok", "ok")
Sample == {IntN(3), AddN(<<IntN(2), IntN(3)>>), PowNode(IntN(2), IntN(12)), Fn("<<", <<IntN(3), IntN(12)>>),
           Fn("factorial", <<IntN(3)>>), Fn("factorial", <<IntN(7)>>), Fn("factorial", <<PowNode(IntN(2), IntN(3))>>),
           Node("class", 0, 1, "Integer", <<>>)}
Faulty == {TextOf(tree, lex, "ok", "ok", "ok", "ok") : tree \in Sample,
             lex \in {"not_a_string", "control_character", "untokenisable", "tokenizer_fault", "denied_token", "long_exponent"}}
          \cup {TextOf(tree, "ok", deferred, second, value, scan) : tree \in Sample, deferred \in {"ok", "raises"},
                  second \in {"ok", "raises", "not_an_integer"}, value \in {"ok", "raises", "long_float", "large_container"},
                  scan \in {"ok", "raises"}}

(* The allowlist file of the instance.                                          *)
MeasuredFileDef == [readable |-> TRUE, allowlist |-> {"measured"}]

TextsDef == {Fine(t) : t \in Leaves \cup Depth1 \cup Depth2 \cup Mixed \cup Others \cup Sums \cup OverSymbols} \cup Faulty
=============================================================================
