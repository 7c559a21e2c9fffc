--------------------------- MODULE MCReachability ---------------------------
(***************************************************************************)
(* Every program of a family goes through the analysis: `y = 0`, then an   *)
(* if statement or a loop around one, then an `if` that returns.           *)
(***************************************************************************)
EXTENDS Reachability

VARIABLES
    program,  \* the program
    entries   \* what the analysis reports of it, empty before it ran
vars == <<program, entries>>

Test(var, op, c) == [op |-> op, var |-> var, c |-> c]
Assign(line, var, value) == [kind |-> "assign", line |-> line, var |-> var, value |-> value]
Plus(var, c) == [op |-> "add", var |-> var, c |-> c]
Zero == [op |-> "const", c |-> 0]
One == [op |-> "const", c |-> 1]
Return(line) == [kind |-> "return", line |-> line]
If(line, test, stmt, else) ==
    [kind |-> "if", line |-> line, test |-> test, body |-> <<stmt>>, else |-> else]

Tests == {Test("n", "<", 2), Test("n", "==", 1), Test("y", "==", 1), Test("y", "==", 0)}
LoopTests == {Test("x", "==", 1), Test("x", "==", 2), Test("y", "==", 0), Test("n", "<", 2)}
Leaves(line) == {Assign(line, "y", One), Assign(line, "y", Plus("y", 1)), Return(line),
                 Assign(line, "n", Plus("n", -1))}

\* With an else, without one, with a guard that does not translate.
Ifs(line) ==
    {If(line, test, stmt, else) : test \in Tests \cup {NoTest}, stmt \in Leaves(line + 1),
                                  else \in {<<>>} \cup {<<s>> : s \in Leaves(line + 2)}}

For(line, var, stop, step, body) ==
    [kind |-> "for", line |-> line, var |-> var, stop |-> stop, step |-> step, body |-> body]

\* With an elif, or alone; in a loop also followed by an assignment, or in a loop.
IfsInLoop(line) ==
    {If(line, test, stmt, else) : test \in LoopTests, stmt \in Leaves(line + 1),
        else \in {<<>>, <<If(line + 2, Test("n", "==", 1), Return(line + 3), <<>>)>>}}
Bodies(line) ==
    {<<Assign(line, "n", Plus("n", -1))>>}
        \cup {<<s>> : s \in IfsInLoop(line)}
        \cup {<<s, Assign(line + 5, "y", Plus("y", 1))>> : s \in IfsInLoop(line)}
        \cup {<<For(line, "z", 2, 1, <<s>>)>> : s \in IfsInLoop(line + 1)}
        \cup {<<For(line, "z", 2, 1, <<Assign(line + 1, "y", Plus("y", 1)), Return(line + 2)>>)>>}
RECURSIVE Mentions(_, _)
Mentions(body, var) == \E i \in DOMAIN body :
    \/ body[i].kind = "if" /\ body[i].test.var = var
    \/ body[i].kind = "for" /\ Mentions(body[i].body, var)

Loops(line) ==
    {For(line, "x", stop, step, body) : stop \in {0, 2, 4}, step \in {1, 2}, body \in Bodies(line + 1)}
    \cup
    {[kind |-> "while", line |-> line, test |-> Test("n", ">", 0), body |-> body] :
        body \in {b \in Bodies(line + 1) : ~Mentions(b, "x")}}

Programs ==
    {<<Assign(1, "y", Zero), stmt, If(30, test, Return(31), <<>>)>> :
        stmt \in Ifs(10) \cup Loops(10), test \in Tests}

Init == program \in Programs /\ entries = <<>>

\* branch_reachability.analyze
AnalyzeProgram ==
    /\ entries = <<>>
    /\ entries' = Analyze(program)
    /\ UNCHANGED program

Spec == Init /\ [][AnalyzeProgram]_vars

-----------------------------------------------------------------------------
Entries == {entries[i] : i \in DOMAIN entries}
Unrolled == \A i \in DOMAIN program :
    program[i].kind = "for" => Len(RangeValues(program[i])) <= UnrollLimit
Exact == Unrolled /\ \A i \in DOMAIN program :
    /\ program[i].kind # "while"
    /\ program[i].kind = "if" => program[i].test # NoTest

\* A branch that is reported dead is taken on no input, if every guard of the
\* program translates and every loop is unrolled: neither the merging of the
\* arms of an if, nor the chaining of the copies of a loop, nor a return in one
\* of them loses a path (_walk_if, _merge_envs, _walk_for_unrolled, _decide).
DeadNeverTaken ==
    Exact => \A e \in Entries : e.verdict = "dead" => \A n \in Params : ~Takes(program, n, e)

\* The branch of e is after statement i, or is in its body.
After(i, e) == i < Len(program) /\ e.line >= program[i + 1].line
Inside(i, e) == program[i].line < e.line /\ ~After(i, e)

\* A loop that is too long to unroll, and a `while` that never ends on n.
InLongFor(e) == \E i \in DOMAIN program :
    program[i].kind = "for" /\ Len(RangeValues(program[i])) > UnrollLimit /\ Inside(i, e)
NeverGetsTo(n, e) == ~Ends(program, n) /\ \E i \in DOMAIN program : program[i].kind = "while" /\ After(i, e)

\* A branch that is reported reachable has a witness, and running the program
\* on any witness, or on the input of an extreme value, takes the branch; the
\* input of an edge meets the guard.  A `while` is included, whose variables
\* are tainted after one representative iteration (_record, _boundary_for).
\* Two kinds of witness are none, although "a `reachable` verdict always
\* carries a witness that is a witness" (branch_reachability.py:114): of a
\* branch inside a `for` that is too long to unroll, whose variable is taken to
\* have any value of its range (1275), and of a branch after a `while` that
\* never ends on it.
WitnessesTakeIt ==
    \A e \in Entries :
        /\ e.verdict = "reachable" => e.witnesses # {}
        /\ \A n \in e.witnesses \cup (IF e.verdict = "reachable" THEN e.extremes ELSE {}) :
               Takes(program, n, e) \/ InLongFor(e) \/ NeverGetsTo(n, e)
        /\ \A n \in e.edges :
               \/ \E m \in Trace(program, n) : m[1] = "met" /\ m[2] = e.line
               \/ InLongFor(e) \/ NeverGetsTo(n, e)
=============================================================================
