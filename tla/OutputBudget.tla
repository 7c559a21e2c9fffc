---------------------------- MODULE OutputBudget ----------------------------
(***************************************************************************)
(* split_output_budget of codecalc/executor.py: one budget of cap bytes    *)
(* for stdout and stderr together, over the lengths of the two streams.    *)
(***************************************************************************)
EXTENDS Integers

Least(a, b) == IF a <= b THEN a ELSE b

\* Too much, all in all; exactly cap is not.
Truncated(cap, out, err) == out + err > cap

\* What both streams are sure of.
Share(cap, n) == Least(n, cap \div 2)

\* Mutant: stdout is served first.
OutKeepMutant(cap, out, err) == Least(out, cap)

\* The bytes kept of each stream: its share, and what the other leaves of its
\* own, stdout first.
OutKeep(cap, out, err) ==
    LET spare == cap - Share(cap, out) - Share(cap, err)
    IN  IF Truncated(cap, out, err)
        THEN Share(cap, out) + Least(spare, out - Share(cap, out))
        ELSE out

ErrKeep(cap, out, err) ==
    LET spare == cap - OutKeep(cap, out, err) - Share(cap, err)
    IN  IF Truncated(cap, out, err)
        THEN Share(cap, err) + Least(spare, err - Share(cap, err))
        ELSE err

\* A cut moves back over at most back bytes (three in UTF-8) to the start of a
\* character: the lengths a stream of n bytes with budget keep may end up with.
CutUtf8(n, keep, back) ==
    IF n <= keep THEN {n} ELSE {k \in 0 .. keep : k >= keep - back}

\* What _BoundedDrain retains of a stream of n bytes.
Retained(cap, n) == Least(n, cap + 1)
=============================================================================
