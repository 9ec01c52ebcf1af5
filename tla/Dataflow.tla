------------------------------ MODULE Dataflow ------------------------------
(***************************************************************************)
(* The reference-depth analysis of src/src/check/check_dataflow.c: a walk of *)
(* a function body that computes, for every binding, how deep the storage is *)
(* that its references may point into (0 the caller's, larger is a shorter   *)
(* life).  Below it, what such a body can do when it runs, as the set of all *)
(* its paths, and what the analysis has to do with that.                     *)
(*                                                                         *)
(* Expressions   <<"ident", x>>, <<"new", level>>, <<"field", e, name>>,     *)
(*               <<"index", e>> (also a slice), <<"thru", e>> (deref, try,    *)
(*               conversion ...: one operand), <<"any", <<e, ...>>>> (the     *)
(*               operands of ??, of an operator or a call), <<"lit", [name   *)
(*               |-> e]>> and <<"null">>.                                     *)
(* Statements    <<"var", x, e>>, <<"assign", target, e>>, <<"if", S, S>>,    *)
(*               <<"while", S>>, <<"match", e, <<[binds, body], ...>>>>,      *)
(*               <<"block", S>>, <<"break">>, <<"return">>; S a sequence.     *)
(* Conditions and calls made as statements have no effect on depths.         *)
(***************************************************************************)
EXTENDS Naturals, Sequences, FiniteSets, FiniteSetsExt, SequencesExt, TLC

CONSTANTS
    MaxVars,        \* DFA_MAX_VARS
    MaxFields,      \* DFA_MAX_FIELDS
    MaxRounds,      \* DFA_ROUNDS
    MaxHops,        \* how deep an expression is followed (32)
    RefDepths        \* bindings this analysis has no case for (yield), with the depth the
                    \* walk before it recorded

Larger(a, b) == IF a > b THEN a ELSE b
Largest(S) == IF S = {} THEN 0 ELSE Max(S)

NoRow == [depth |-> 0, fields |-> <<>>]
NoFacts == [rows |-> <<>>, overflow |-> FALSE]

(* factOf: the row of a binding, made when it is asked for.                  *)
factOf(f, x) ==
    CASE x \in DOMAIN f.rows -> f
      [] Cardinality(DOMAIN f.rows) >= MaxVars -> [f EXCEPT !.overflow = TRUE]
      [] OTHER -> [f EXCEPT !.rows = @ @@ (x :> NoRow)]

raiseTo(f, x, depth) ==
    LET g == factOf(f, x) IN
    CASE depth = 0 -> f
      [] x \notin DOMAIN g.rows -> g
      [] OTHER -> [g EXCEPT !.rows[x].depth = Larger(@, depth)]

(* A field that has an entry is raised alone; a new entry raises the binding  *)
(* too; a field without room goes into the binding and spoils the result.     *)
raiseField(f, x, name, depth) ==
    LET g == factOf(f, x)
        v == g.rows[x] IN
    CASE x \notin DOMAIN g.rows -> g
      [] name \in DOMAIN v.fields -> [g EXCEPT !.rows[x].fields[name] = Larger(@, depth)]
      [] Cardinality(DOMAIN v.fields) < MaxFields ->
           [g EXCEPT !.rows[x] = [depth |-> Larger(v.depth, depth), fields |-> v.fields @@ (name :> depth)]]
      [] OTHER -> [g EXCEPT !.rows[x].depth = Larger(@, depth), !.overflow = TRUE]

(* Faulty variant: the join takes the later arm's word for a binding.        *)
joinIntoLast(dst, source) ==
    [rows |-> source.rows @@ dst.rows, overflow |-> dst.overflow \/ source.overflow]

joinInto(dst, source) ==
    LET Row(x, f) ==
            LET s == source.rows[x] IN
            FoldSet(LAMBDA k, g : raiseField(g, x, k, s.fields[k]), raiseTo(f, x, s.depth), DOMAIN s.fields)
        joined == FoldSet(Row, dst, DOMAIN source.rows) IN
    [joined EXCEPT !.overflow = @ \/ source.overflow]

(* The binding a place belongs to, if it is rooted in one.                  *)
RECURSIVE dfRootOf(_)
dfRootOf(e) ==
    CASE e[1] = "ident" -> {e[2]}
      [] e[1] \in {"field", "index"} -> dfRootOf(e[2])
      [] OTHER -> {}

factDepthOf(f, x) == IF x \in DOMAIN f.rows THEN f.rows[x].depth ELSE 0

anRefDepth(x) == IF x \in DOMAIN RefDepths THEN RefDepths[x] ELSE 0

(* Without a row, what the checker recorded.                                 *)
depthOf(f, x) == IF x \in DOMAIN f.rows THEN f.rows[x].depth ELSE anRefDepth(x)

(* The depth of a field read is the entry of that field under the binding at  *)
(* the root of the expression, else the binding's own depth, if it has one,    *)
(* else what the checker recorded.                                          *)
fieldDepthOf(f, e) ==
    LET roots == dfRootOf(e) IN
    IF roots = {} THEN 0
    ELSE LET x == CHOOSE r \in roots : TRUE IN
         IF x \in DOMAIN f.rows /\ e[3] \in DOMAIN f.rows[x].fields
         THEN f.rows[x].fields[e[3]]
         ELSE IF factDepthOf(f, x) > 0 THEN factDepthOf(f, x) ELSE anRefDepth(x)

RECURSIVE depthAt(_, _, _)
depthAt(f, e, hops) ==
    IF hops > MaxHops THEN 0 ELSE
    CASE e[1] = "ident" -> depthOf(f, e[2])
      [] e[1] = "new" -> e[2]
      [] e[1] = "field" -> fieldDepthOf(f, e)
      [] e[1] \in {"index", "thru"} -> depthAt(f, e[2], hops + 1)
      [] e[1] \in {"any", "lit"} -> Largest({depthAt(f, e[2][i], hops + 1) : i \in DOMAIN e[2]})
      [] OTHER -> 0

dfExprDepth(f, e) == depthAt(f, e, 0)

VarStmt(f, x, e) ==
    LET named ==
            IF e[1] = "lit"
            THEN FoldSet(LAMBDA k, g : raiseField(g, x, k, dfExprDepth(g, e[2][k])), f, DOMAIN e[2])
            ELSE f IN
    raiseTo(named, x, dfExprDepth(named, e))

(* A store of something without a live reference empties the field's entry;   *)
(* any other store raises.                                                   *)
AssignField(f, x, name, depth) ==
    IF depth > 0 THEN raiseField(f, x, name, depth)
    ELSE LET g == factOf(f, x) IN
         IF x \in DOMAIN g.rows /\ name \in DOMAIN g.rows[x].fields
         THEN [g EXCEPT !.rows[x].fields[name] = 0] ELSE g

(* A whole value brings the fields of the binding it is read from along.      *)
AssignWhole(f, x, e, depth) ==
    LET raised == raiseTo(f, x, depth)
        From(y, g) ==
            LET h == factOf(g, y) IN
            IF y \notin DOMAIN h.rows THEN h
            ELSE FoldSet(LAMBDA k, acc : raiseField(acc, x, k, h.rows[y].fields[k]), h, DOMAIN h.rows[y].fields) IN
    FoldSet(From, raised, dfRootOf(e))

AssignStmt(f, target, e) ==
    LET depth == dfExprDepth(f, e)
        Store(x, g) ==
            IF target[1] = "field" THEN AssignField(g, x, target[3], depth)
            ELSE AssignWhole(g, x, e, depth) IN
    FoldSet(Store, f, dfRootOf(target))

RECURSIVE dfStmt(_, _), dfBlock(_, _), dfLoop(_, _, _), dfArms(_, _, _, _)

dfBlock(f, S) == FoldLeft(dfStmt, f, S)

(* Faulty variant: one walk of a loop's body.                                *)
dfLoopOnce(f, S, rounds) == joinInto(f, dfBlock(f, S))

dfLoop(f, S, rounds) ==
    LET g == joinInto(f, dfBlock(f, S)) IN
    CASE g.rows = f.rows -> g
      [] rounds + 1 >= MaxRounds -> [g EXCEPT !.overflow = TRUE]
      [] OTHER -> dfLoop(g, S, rounds + 1)

(* The names an arm binds get the scrutinee's depth, in the facts every later *)
(* arm starts from.                                                          *)
dfArms(f, acc, e, arms) ==
    IF arms = <<>> THEN joinInto(f, acc)
    ELSE LET arm == Head(arms)
             bound == FoldSet(LAMBDA x, g : raiseTo(g, x, dfExprDepth(f, e)), f, arm.binds) IN
         dfArms(bound, joinInto(acc, dfBlock(bound, arm.body)), e, Tail(arms))

dfStmt(f, s) ==
    CASE s[1] = "var" -> VarStmt(f, s[2], s[3])
      [] s[1] = "assign" -> AssignStmt(f, s[2], s[3])
      [] s[1] = "if" -> joinInto(joinInto(f, dfBlock(f, s[2])), dfBlock(f, s[3]))
      [] s[1] = "while" -> dfLoop(f, s[2], 0)
      [] s[1] = "match" -> dfArms(f, f, s[2], s[3])
      [] s[1] = "block" -> dfBlock(f, s[2])
      [] OTHER -> f

dfAnalyze(S) == dfBlock(NoFacts, S)

----------------------------------------------------------------------------
(* What a body does.  A reference is the depth it points at, a struct is a    *)
(* function from its fields.  An environment gives every binding its value;   *)
(* a run of S is described by the environments seen (at any point), those at  *)
(* the end and those that leave by `break`.                                  *)

RECURSIVE Values(_, _)
Values(env, e) ==
    CASE e[1] = "ident" -> {env[e[2]]}
      [] e[1] = "new" -> {e[2]}
      [] e[1] = "field" -> {v[e[3]] : v \in Values(env, e[2])}
      [] e[1] = "index" -> UNION {{v[k] : k \in DOMAIN v} : v \in Values(env, e[2])}
      [] e[1] = "thru" -> Values(env, e[2])
      [] e[1] = "any" -> UNION {Values(env, e[2][i]) : i \in DOMAIN e[2]}
      [] e[1] = "lit" -> {v \in [DOMAIN e[2] -> UNION {Values(env, e[2][k]) : k \in DOMAIN e[2]}] :
                            \A k \in DOMAIN v : v[k] \in Values(env, e[2][k])}
      [] OTHER -> {0}

(* The environments after target := v.                                       *)
Stored(env, target, v) ==
    CASE target[1] = "ident" -> {[env EXCEPT ![target[2]] = v]}
      [] target[1] = "field" -> {[env EXCEPT ![target[2][2]][target[3]] = v]}
      [] target[1] = "index" -> {[env EXCEPT ![target[2][2]][k] = v] : k \in DOMAIN env[target[2][2]]}

Seen(S) == [seen |-> S, out |-> S, brk |-> {}]

RECURSIVE Runs(_, _), RunsSeq(_, _), RunsLoop(_, _)

RunsSeq(E, S) ==
    IF S = <<>> THEN Seen(E)
    ELSE LET first == Runs(E, Head(S))
             rest == RunsSeq(first.out, Tail(S)) IN
         [seen |-> E \cup first.seen \cup rest.seen, out |-> rest.out, brk |-> first.brk \cup rest.brk]

RunsLoop(E, S) ==
    LET body == RunsSeq(E, S) IN
    IF body.out \subseteq E
    THEN [seen |-> E \cup body.seen, out |-> E \cup body.brk, brk |-> {}]
    ELSE RunsLoop(E \cup body.out, S)

Runs(E, s) ==
    CASE s[1] = "var" -> Seen(UNION {{[env EXCEPT ![s[2]] = v] : v \in Values(env, s[3])} : env \in E})
      [] s[1] = "assign" -> Seen(UNION {UNION {Stored(env, s[2], v) : v \in Values(env, s[3])} : env \in E})
      [] s[1] = "if" ->
           LET a == RunsSeq(E, s[2])
               b == RunsSeq(E, s[3]) IN
           [seen |-> a.seen \cup b.seen, out |-> a.out \cup b.out, brk |-> a.brk \cup b.brk]
      [] s[1] = "while" -> RunsLoop(E, s[2])
      [] s[1] = "match" ->
           LET Bound(env, arm) ==
                   {[x \in DOMAIN env |-> IF x \in arm.binds THEN v ELSE env[x]] : v \in Values(env, s[2])}
               arms == {RunsSeq(UNION {Bound(env, s[3][i]) : env \in E}, s[3][i].body) : i \in DOMAIN s[3]} IN
           [seen |-> UNION {a.seen : a \in arms}, out |-> UNION {a.out : a \in arms}, brk |-> UNION {a.brk : a \in arms}]
      [] s[1] = "block" -> RunsSeq(E, s[2])
      [] s[1] = "break" -> [seen |-> E, out |-> {}, brk |-> E]
      [] s[1] = "return" -> [seen |-> E, out |-> {}, brk |-> {}]

(* A result counts only when nothing overflowed.                             *)
Usable(f) == ~f.overflow

(* The depth of a binding, its row's or the recorded one if that is larger,    *)
(* bounds every reference it holds at any point of any run; Boxes are the      *)
(* bindings that are structs.                                                *)
BoundsAlways(f, S, env, Boxes) ==
    \A e \in RunsSeq({env}, S).seen, x \in DOMAIN env :
        LET d == Larger(factDepthOf(f, x), anRefDepth(x)) IN
        IF x \in Boxes THEN \A k \in DOMAIN e[x] : e[x][k] <= d ELSE e[x] <= d

(* What the facts say of a field bounds what is in it at the end.             *)
BoundsAtEnd(f, S, env, Boxes) ==
    \A e \in RunsSeq({env}, S).out, x \in Boxes :
        \A k \in DOMAIN e[x] :
            e[x][k] <= Larger(dfExprDepth(f, <<"field", <<"ident", x>>, k>>), anRefDepth(x))

(* The expressions and the statements of a body, at any nesting.             *)
RECURSIVE Hops(_), Parts(_)
Hops(e) ==
    CASE e[1] \in {"index", "thru"} -> 1 + Hops(e[2])
      [] e[1] \in {"any", "lit"} -> 1 + Largest({Hops(e[2][i]) : i \in DOMAIN e[2]})
      [] OTHER -> 0

Parts(S) ==
    LET Inside(s) ==
            CASE s[1] = "if" -> Parts(s[2]) \cup Parts(s[3])
              [] s[1] \in {"while", "block"} -> Parts(s[2])
              [] s[1] = "match" -> UNION {Parts(s[3][i].body) : i \in DOMAIN s[3]}
              [] OTHER -> {} IN
    UNION {{S[i]} \cup Inside(S[i]) : i \in DOMAIN S}

(* No expression is nested deeper than the analysis follows it.              *)
Followed(S) ==
    \A s \in Parts(S) : s[1] \in {"var", "assign"} => Hops(s[3]) <= MaxHops

(* Some struct gets a whole value whose fields the analysis does not enter one *)
(* by one: a declaration by other than a literal, an assignment of other than  *)
(* a binding, or of a binding without a row.                                 *)
Rebuilt(S, Boxes) ==
    \E s \in Parts(S) :
        \/ s[1] = "var" /\ s[2] \in Boxes /\ s[3][1] # "lit"
        \/ /\ s[1] = "assign" /\ s[2][1] = "ident" /\ s[2][2] \in Boxes
           /\ s[3][1] # "ident" \/ s[3][2] \in DOMAIN RefDepths

(* A binding without a row is the source of an assignment and is read by        *)
(* another one: the first makes it an empty row, which hides what the checker  *)
(* recorded.                                                                *)
Forgets(S) ==
    \E s, t \in {p \in Parts(S) : p[1] \in {"var", "assign"}} :
        /\ s # t /\ s[1] = "assign" /\ s[2][1] # "field"
        /\ dfRootOf(s[3]) \cap dfRootOf(t[3]) \cap DOMAIN RefDepths # {}

(* The body with the arms of every `if` and `match` exchanged.                *)
RECURSIVE Swapped(_)
Swapped(S) ==
    LET One(s) ==
            CASE s[1] = "if" -> <<"if", Swapped(s[3]), Swapped(s[2])>>
              [] s[1] \in {"while", "block"} -> <<s[1], Swapped(s[2])>>
              [] s[1] = "match" -> <<"match", s[2], Reverse([i \in DOMAIN s[3] |-> [s[3][i] EXCEPT !.body = Swapped(@)]])>>
              [] OTHER -> s IN
    [i \in DOMAIN S |-> One(S[i])]
=============================================================================
