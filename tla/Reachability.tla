---------------------------- MODULE Reachability ----------------------------
(***************************************************************************)
(* The static reachability analysis of codecalc/branch_reachability.py and *)
(* what running the same program does.                                     *)
(*                                                                         *)
(* A program is a block of statements over integer variables with one      *)
(* parameter "n".  z3 is external: a term is what it denotes, a function   *)
(* from valuations to integers, a path condition is the set of valuations  *)
(* that satisfy it, and solving is asking whether that set is empty.  A    *)
(* valuation gives the parameter and the symbol of the loop variable of a  *)
(* long `for` (one per program).  Symbols made for tainted values are      *)
(* never solved for, so a term only says that it mentions one.             *)
(*                                                                         *)
(* Left out: strings and booleans (a guard of the wrong type is one that   *)
(* does not translate), and directions in which an objective is unbounded. *)
(***************************************************************************)
EXTENDS Integers, Sequences, SequencesExt, FiniteSets, FiniteSetsExt

CONSTANTS
    Params,       \* values of the parameter
    UnrollLimit,  \* _MAX_UNROLL_ITERATIONS
    MaxStop,      \* bound: range() stops here at the latest
    MaxBranches,  \* max_branches
    Fuel          \* bound: statements a run executes

ASSUME ReachabilityAssumption ==
    /\ Params \subseteq Int /\ IsFiniteSet(Params) /\ Params # {}
    /\ UnrollLimit \in Nat /\ MaxStop \in Nat /\ MaxBranches \in Nat \ {0} /\ Fuel \in Nat

-----------------------------------------------------------------------------
(* Terms.                                                                  *)

Valuations == Params \X (0 .. MaxStop)  \* the parameter and the loop symbol
Term(f, taint) == [f |-> f, taint |-> taint]
Const(c) == Term([v \in Valuations |-> c], FALSE)
Parameter == Term([v \in Valuations |-> v[1]], FALSE)
LoopSymbol == Term([v \in Valuations |-> v[2]], FALSE)
TaintedSymbol == Term([v \in Valuations |-> 0], TRUE)

\* Comparisons, and the expressions `c`, `x` and `x + c`.
Compare(a, op, b) ==
    CASE op = "==" -> a = b [] op = "!=" -> a # b [] op = "<" -> a < b [] op = ">" -> a > b
Vars(e) == IF e.op = "const" THEN {} ELSE {e.var}
Translate(e, env) ==
    CASE e.op = "const" -> Const(e.c)
      [] e.op = "var" -> env[e.var].term
      [] e.op = "add" -> LET t == env[e.var].term
                         IN Term([v \in Valuations |-> t.f[v] + e.c], t.taint)

\* A guard: whether it translates, mentions a taint, and where it holds.
Guard(test, env) ==
    IF test.op = "bad" \/ test.var \notin DOMAIN env
    THEN [ok |-> FALSE, taint |-> FALSE, holds |-> {}]
    ELSE LET t == env[test.var].term
         IN [ok |-> TRUE, taint |-> t.taint,
             holds |-> {v \in Valuations : Compare(t.f[v], test.op, test.c)}]

-----------------------------------------------------------------------------
(* The context of a walk and what is recorded in it.                       *)

NewContext == [branches |-> <<>>, frames |-> <<>>, conservative |-> 0, unresolved |-> 0,
               pending |-> FALSE, supported |-> TRUE, truncated |-> FALSE, bindings |-> 0]

Rank(verdict) == CASE verdict = "dead" -> 0 [] verdict = "unknown" -> 1 [] OTHER -> 2

\* Into the innermost frame of an unrolled loop, where the better verdict of
\* a line wins, or at the end of the result.
Commit(ctx, entry) ==
    IF ctx.frames # <<>>
    THEN LET d == Len(ctx.frames)
             at == {i \in DOMAIN ctx.frames[d] : ctx.frames[d][i].line = entry.line}
         IN IF at = {} THEN [ctx EXCEPT !.frames[d] = Append(@, entry)]
            ELSE LET i == CHOOSE i \in at : TRUE
                 IN IF Rank(entry.verdict) > Rank(ctx.frames[d][i].verdict)
                    THEN [ctx EXCEPT !.frames[d][i] = entry] ELSE ctx
    ELSE IF Len(ctx.branches) >= MaxBranches THEN [ctx EXCEPT !.truncated = TRUE]
    ELSE [ctx EXCEPT !.branches = Append(@, entry)]

FlushFrame(ctx) ==
    FoldLeft(Commit, [ctx EXCEPT !.frames = Front(@)], Last(ctx.frames))

Unknown(line, kind) == [line |-> line, kind |-> kind, verdict |-> "unknown",
                        witnesses |-> {}, extremes |-> {}, edges |-> {}]

\* _decide: a condition that holds somewhere is not reported after a return
\* that was not resolved, an empty one not inside a representative iteration.
DecideMutant(cond, ctx) == IF cond # {} THEN "reachable" ELSE "dead"
Decide(cond, ctx) ==
    IF cond # {} THEN IF ctx.unresolved > 0 THEN "unknown" ELSE "reachable"
                 ELSE IF ctx.conservative > 0 THEN "unknown" ELSE "dead"

\* _boundary_for: inputs where the compared value is least or greatest on the
\* branch, and where it equals the constant on the way to the guard.
Extremes(test, cond, env) ==
    LET f == env[test.var].term.f
    IN {v[1] : v \in {u \in cond : \/ \A w \in cond : f[u] <= f[w]
                                   \/ \A w \in cond : f[u] >= f[w]}}
Edges(test, parent, env) ==
    {v[1] : v \in {u \in parent : env[test.var].term.f[u] = test.c}}

\* Any model is a witness: an entry has the inputs of all of them.
NoTest == [op |-> "bad"]
Record(ctx, line, kind, cond, test, parent, env) ==
    LET verdict == Decide(cond, ctx)
        bounded == test # NoTest /\ ctx.unresolved = 0
    IN IF ctx.frames = <<>> /\ Len(ctx.branches) >= MaxBranches THEN [ctx EXCEPT !.truncated = TRUE]
       ELSE Commit(ctx, [line |-> line, kind |-> kind, verdict |-> verdict,
                         witnesses |-> IF verdict = "reachable" THEN {v[1] : v \in cond} ELSE {},
                         extremes |-> IF bounded THEN Extremes(test, cond, env) ELSE {},
                         edges |-> IF bounded THEN Edges(test, parent, env) ELSE {}])

RecordUnknown(ctx, line, kind) ==
    IF ctx.frames = <<>> /\ Len(ctx.branches) >= MaxBranches THEN [ctx EXCEPT !.truncated = TRUE]
    ELSE Commit(ctx, Unknown(line, kind))

-----------------------------------------------------------------------------
(* The walk.  A result has the context, whether control falls through, the *)
(* condition under which it does, the environment, and whether a           *)
(* _TranslateError ended it.                                               *)

Result(ctx, falls, cond, env) ==
    [ctx |-> ctx, falls |-> falls, cond |-> cond, env |-> env, error |-> FALSE]
Raised(ctx) == [ctx |-> ctx, falls |-> TRUE, cond |-> {}, env |-> <<>>, error |-> TRUE]
Pending(ctx, b) == [ctx EXCEPT !.pending = b]

\* A binding is told apart from an equal one: the code compares identities.
Bind(env, var, term, tag) ==
    [x \in DOMAIN env \cup {var} |-> IF x = var THEN [term |-> term, tag |-> tag] ELSE env[x]]

\* _merge_envs, for two arms that both fall through.
MergeMutant(guard, then, else, tag) ==
    [x \in DOMAIN then \cap DOMAIN else |-> then[x]]
Merge(guard, then, else, tag) ==
    [x \in DOMAIN then \cap DOMAIN else |->
        IF then[x] = else[x] THEN then[x]
        ELSE [term |-> Term([v \in Valuations |-> IF v \in guard THEN then[x].term.f[v]
                                                                 ELSE else[x].term.f[v]],
                            then[x].term.taint \/ else[x].term.taint),
              tag |-> tag]]

RangeValues(stmt) == [i \in 1 .. (stmt.stop + stmt.step - 1) \div stmt.step |-> (i - 1) * stmt.step]

RECURSIVE HasReturn(_)
HasReturn(block) ==
    \E i \in DOMAIN block :
        LET s == block[i]
        IN \/ s.kind = "return"
           \/ s.kind \in {"if", "while", "for"} /\ HasReturn(s.body)
           \/ s.kind = "if" /\ HasReturn(s.else)

RECURSIVE WalkBlock(_, _, _, _), WalkIf(_, _, _, _, _), WalkCopies(_, _, _, _, _, _)

\* _walk_if.  The code after a guard that depends on a loop goes on with the
\* environment from before the statement.
WalkElse(stmt, env, cond, parent, ctx) ==
    IF Len(stmt.else) = 1 /\ stmt.else[1].kind = "if"
    THEN WalkIf(stmt.else[1], env, cond, ctx, "elif")
    ELSE IF stmt.else # <<>>
    THEN WalkBlock(stmt.else, env, Record(ctx, stmt.else[1].line, "else", cond, NoTest, parent, env), cond)
    ELSE Result(ctx, TRUE, cond, env)

WalkIf(stmt, env, parent, ctx, kind) ==
    LET g == Guard(stmt.test, env)
    IN IF ~g.ok THEN Raised(ctx)
       ELSE IF g.taint
       THEN Result(Pending(RecordUnknown(ctx, stmt.line, kind), TRUE), TRUE, parent, env)
       ELSE
       LET ifCond == parent \cap g.holds
           body == WalkBlock(stmt.body, env,
                             Record(ctx, stmt.line, kind, ifCond, stmt.test, parent, env), ifCond)
       IN IF body.error THEN Raised(body.ctx)
          ELSE
          LET orelse == WalkElse(stmt, env, parent \ g.holds, parent, Pending(body.ctx, FALSE))
          IN IF orelse.error THEN Raised(orelse.ctx)
             ELSE IF ~body.falls /\ ~orelse.falls
             THEN Result(Pending(orelse.ctx, FALSE), FALSE, {}, env)
             ELSE Result([orelse.ctx EXCEPT
                            !.pending = \/ body.ctx.pending /\ body.falls
                                        \/ @ /\ orelse.falls,
                            !.bindings = @ + 1],
                         TRUE,
                         (IF body.falls THEN body.cond ELSE {})
                            \cup (IF orelse.falls THEN orelse.cond ELSE {}),
                         IF ~body.falls THEN orelse.env
                         ELSE IF ~orelse.falls THEN body.env
                         ELSE Merge(g.holds, body.env, orelse.env, orelse.ctx.bindings))

\* _walk_for_unrolled: one copy of the body per value, chained.  `bumped` is
\* whether an earlier copy may have returned in a way that was not resolved.
WalkCopies(stmt, values, env, ctx, cond, bumped) ==
    IF values = <<>> THEN Result(ctx, TRUE, cond, env)
    ELSE
    LET copy == WalkBlock(stmt.body, Bind(env, stmt.var, Const(Head(values)), ctx.bindings),
                          [ctx EXCEPT !.bindings = @ + 1], cond)
        bump == copy.ctx.pending /\ ~bumped
        after == [copy.ctx EXCEPT !.pending = FALSE,
                                  !.unresolved = IF bump THEN @ + 1 ELSE @]
        rest == WalkCopies(stmt, Tail(values), copy.env, after,
                           IF copy.falls THEN copy.cond ELSE {}, bumped \/ bump)
    IN IF copy.error THEN Raised(copy.ctx)
       ELSE [rest EXCEPT
               !.falls = @ /\ copy.falls,
               !.ctx.unresolved = IF bump THEN @ - 1 ELSE @,
               !.ctx.pending = @ \/ (bump /\ ~rest.error)]

WalkUnrolled(stmt, env, ctx, cond) ==
    LET values == RangeValues(stmt)
        entered == IF values = <<>> THEN {} ELSE cond
        recorded == Record(ctx, stmt.line, "for", entered, NoTest, cond, env)
        copies == WalkCopies(stmt, values, env, [recorded EXCEPT !.frames = Append(@, <<>>)], cond, FALSE)
    IN IF values = <<>> THEN Result(Pending(recorded, FALSE), TRUE, cond, env)
       ELSE IF copies.error THEN Raised(FlushFrame(copies.ctx))
       ELSE [copies EXCEPT !.ctx = Pending(FlushFrame(@), @.pending /\ copies.falls)]

\* _walk_loop_conservative: one representative iteration, and every variable
\* the body binds is tainted afterwards.
Tainted(env, after, tag) ==
    [x \in DOMAIN env |-> IF x \in DOMAIN after /\ after[x] # env[x]
                          THEN [term |-> TaintedSymbol, tag |-> tag] ELSE env[x]]

WalkOnce(stmt, env, ctx, cond, entry, bodyEnv, loopCond) ==
    LET body == WalkBlock(stmt.body, bodyEnv, [ctx EXCEPT !.conservative = @ + 1], loopCond)
        left == [body.ctx EXCEPT !.conservative = @ - 1, !.bindings = @ + 1]
        env2 == Tainted(env, body.env, body.ctx.bindings)
    IN IF body.error THEN Raised([body.ctx EXCEPT !.conservative = @ - 1])
       ELSE IF ~body.falls THEN Result(left, TRUE, cond \ entry, env2)
       ELSE IF HasReturn(stmt.body) THEN Result(Pending(left, TRUE), TRUE, body.cond, env2)
       ELSE Result(left, TRUE, cond, env2)

WalkWhile(stmt, env, ctx, cond) ==
    LET g == Guard(stmt.test, env)
    IN IF ~g.ok THEN Raised(ctx)
       ELSE IF g.taint
       THEN Result(Pending(RecordUnknown(ctx, stmt.line, "while"), TRUE), TRUE, cond, env)
       ELSE WalkOnce(stmt, env,
                     Record(ctx, stmt.line, "while", cond \cap g.holds, stmt.test, cond, env),
                     cond, g.holds, env, cond \cap g.holds)

WalkLongFor(stmt, env, ctx, cond) ==
    WalkOnce(stmt, env, [Record(ctx, stmt.line, "for", cond, NoTest, cond, env) EXCEPT !.bindings = @ + 1],
             cond, Valuations, Bind(env, stmt.var, LoopSymbol, ctx.bindings),
             {v \in cond : v[2] < stmt.stop})

WalkLoop(stmt, env, ctx, cond) ==
    IF stmt.kind = "while" THEN WalkWhile(stmt, env, ctx, cond)
    ELSE IF Len(RangeValues(stmt)) <= UnrollLimit THEN WalkUnrolled(stmt, env, ctx, cond)
    ELSE WalkLongFor(stmt, env, ctx, cond)

\* _walk_block, one statement at a time; `bumped` as above.
RECURSIVE WalkFrom(_, _, _, _, _)
WalkFrom(block, env, ctx, cond, bumped) ==
    LET leave(c) == [c EXCEPT !.unresolved = IF bumped THEN @ - 1 ELSE @, !.pending = bumped]
    IN
    IF block = <<>> THEN Result(leave(ctx), TRUE, cond, env)
    ELSE
    LET stmt == Head(block)
    IN CASE stmt.kind = "return" -> Result(leave(ctx), FALSE, {}, env)
         [] stmt.kind = "assign" ->
              IF Vars(stmt.value) \subseteq DOMAIN env
              THEN WalkFrom(Tail(block), Bind(env, stmt.var, Translate(stmt.value, env), ctx.bindings),
                            [ctx EXCEPT !.bindings = @ + 1], cond, bumped)
              ELSE Raised(leave(ctx))
         [] OTHER ->
              LET walked == IF stmt.kind = "if" THEN WalkIf(stmt, env, cond, ctx, "if")
                                                ELSE WalkLoop(stmt, env, ctx, cond)
                  caught == Result(Pending(RecordUnknown([walked.ctx EXCEPT !.supported = FALSE],
                                                         stmt.line, stmt.kind), TRUE),
                                   TRUE, cond, env)
                  r == IF walked.error THEN caught ELSE walked
                  bump == r.ctx.pending /\ ~bumped
              IN IF ~r.falls
                 THEN Result(leave(r.ctx), FALSE, {}, IF stmt.kind = "if" THEN env ELSE r.env)
                 ELSE WalkFrom(Tail(block), r.env,
                               [r.ctx EXCEPT !.pending = FALSE,
                                             !.unresolved = IF bump THEN @ + 1 ELSE @],
                               r.cond, bumped \/ bump)

WalkBlock(block, env, ctx, cond) == WalkFrom(block, env, ctx, cond, FALSE)

\* analyze: the entries of the result, none when the program is refused.
Analyze(program) ==
    LET walk == WalkBlock(program, [x \in {"n"} |-> [term |-> Parameter, tag |-> -1]],
                          NewContext, Valuations)
    IN IF walk.error THEN <<>> ELSE walk.ctx.branches

-----------------------------------------------------------------------------
(* Running a program: the branches an input takes and the guards it meets. *)

RECURSIVE Exec(_, _), ExecLoop(_, _, _)
State(store, log, going, fuel) == [store |-> store, log |-> log, going |-> going, fuel |-> fuel]
Set(store, var, value) == [x \in DOMAIN store \cup {var} |-> IF x = var THEN value ELSE store[x]]
Value(e, store) == CASE e.op = "const" -> e.c [] e.op = "var" -> store[e.var]
                     [] e.op = "add" -> store[e.var] + e.c
Took(st, line, kind) == [st EXCEPT !.log = @ \cup {<<"took", line, kind, 0>>}]
Met(st, stmt) == [st EXCEPT !.log = @ \cup {<<"met", stmt.line, stmt.kind, st.store[stmt.test.var]>>}]
Holds(test, store) == Compare(store[test.var], test.op, test.c)

\* A guard the analysis cannot translate is one that is true on some inputs:
\* here it tests whether the parameter is odd.
Defined(test, store) == test.op = "bad" \/ test.var \in DOMAIN store
True(test, store) == IF test.op = "bad" THEN store["n"] % 2 = 1 ELSE Holds(test, store)
Meets(st, stmt) == IF stmt.test.op = "bad" THEN st ELSE Met(st, stmt)

ExecIf(stmt, st, kind) ==
    IF ~Defined(stmt.test, st.store) THEN [st EXCEPT !.going = FALSE]
    ELSE IF True(stmt.test, st.store) THEN Exec(stmt.body, Took(Meets(st, stmt), stmt.line, kind))
    ELSE IF stmt.else = <<>> THEN Meets(st, stmt)
    ELSE IF Len(stmt.else) = 1 /\ stmt.else[1].kind = "if"
    THEN Exec(<<[stmt.else[1] EXCEPT !.kind = "elif"]>>, Meets(st, stmt))
    ELSE Exec(stmt.else, Took(Meets(st, stmt), stmt.else[1].line, "else"))

ExecLoop(stmt, values, st) ==
    IF ~st.going \/ st.fuel = 0 THEN [st EXCEPT !.going = FALSE]
    ELSE IF stmt.kind = "while"
    THEN IF ~Defined(stmt.test, st.store) THEN [st EXCEPT !.going = FALSE]
         ELSE IF True(stmt.test, st.store)
         THEN ExecLoop(stmt, values, Exec(stmt.body, Took([Meets(st, stmt) EXCEPT !.fuel = @ - 1],
                                                          stmt.line, "while")))
         ELSE Meets(st, stmt)
    ELSE IF values = <<>> THEN st
    ELSE ExecLoop(stmt, Tail(values),
                  Exec(stmt.body, Took([st EXCEPT !.store = Set(@, stmt.var, Head(values)),
                                                  !.fuel = @ - 1], stmt.line, "for")))

Exec(block, st) ==
    IF block = <<>> \/ ~st.going THEN st
    ELSE
    LET stmt == Head(block)
    IN CASE stmt.kind = "return" -> [st EXCEPT !.going = FALSE]
         [] stmt.kind = "assign" ->
              IF Vars(stmt.value) \subseteq DOMAIN st.store
              THEN Exec(Tail(block), [st EXCEPT !.store = Set(@, stmt.var, Value(stmt.value, @))])
              ELSE [st EXCEPT !.going = FALSE]
         [] stmt.kind \in {"if", "elif"} -> Exec(Tail(block), ExecIf(stmt, st, stmt.kind))
         [] OTHER -> Exec(Tail(block), ExecLoop(stmt, IF stmt.kind = "for" THEN RangeValues(stmt) ELSE <<>>, st))

RunOn(program, n) == Exec(program, State([x \in {"n"} |-> n], {}, TRUE, Fuel))
Trace(program, n) == RunOn(program, n).log
Ends(program, n) == RunOn(program, n).fuel > 0
Takes(program, n, entry) == <<"took", entry.line, entry.kind, 0>> \in Trace(program, n)
=============================================================================
