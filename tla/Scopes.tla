------------------------------- MODULE Scopes -------------------------------
(***************************************************************************)
(* Names and non-null proofs of the checker: scopes, the C names of          *)
(* bindings, and the stack of proofs that lets `p.field` through without a   *)
(* check where `p` is known not to be null (src/src/check/check.c,           *)
(* check_lookup.c and the cases of check_stmt.c and check_expr.c that use     *)
(* them).  Below it, what a body does when it runs.                          *)
(*                                                                         *)
(* A binding is a nullable reference and has a nullable field `f`.  A name is *)
(* a sequence: <<"p">> for p, <<"p", 2>> for p__2, written by the user or     *)
(* made by the checker.                                                     *)
(* Places      <<"id", x>>, <<"path", x>> (x.f).                             *)
(* Values      <<"null">>, <<"new">>, or a place that is read.               *)
(* Conditions  <<"ne", place>>, <<"eq", place>> (against null), <<"and", c,  *)
(*             d>>, <<"or", c, d>>, <<"deref", place>>, <<"some">>.           *)
(* Statements  <<"let", x, v>> (may shadow), <<"var", x, v>>, <<"set",       *)
(*             place, v>>, <<"use", place>> (dereference), <<"lend", x>>      *)
(*             (pass `ref x` to a mut ref parameter), <<"if", c, S, E>> (E is *)
(*             <<>> or <<S>>), <<"while", c, S>>, <<"block", S>>,             *)
(*             <<"break">>, <<"return">>; S is a sequence.                    *)
(***************************************************************************)
EXTENDS Naturals, Sequences, FiniteSets, SequencesExt, TLC

CONSTANTS ModuleNames       \* names of functions, structs, enums and globals, and the words of C

(* The part of Checker that this is about.  The proofs are a vector: cutting  *)
(* it changes `len` and leaves `data` in place.                              *)
NewChecker ==
    [scopes |-> << <<>> >>, marks |-> <<>>, data |-> <<>>, len |-> 0, uses |-> <<>>,
     cnames |-> {}, shared |-> {}, ok |-> TRUE, crossed |-> FALSE]

pushScope(c) == [c EXCEPT !.scopes = Append(@, <<>>), !.marks = Append(@, c.len)]
popScope(c) == [c EXCEPT !.scopes = Front(@), !.len = Last(c.marks), !.marks = Front(@)]

moduleNameTaken(cand) == cand \in ModuleNames

(* The k-th C name of x: x, x__2, x__3 ...                                    *)
Printed(x, k) == IF k = 1 THEN x ELSE Append(x, k)

(* Faulty variant: the number of uses is not carried on.                     *)
cNameForAgain(c, x) ==
    LET k == IF x \in c.cnames \/ moduleNameTaken(x) THEN 2 ELSE 1 IN
    [cand |-> Printed(x, k), uses |-> c.uses]

(* The C name: the next one, past the names the module has.  The names that    *)
(* other bindings of the function got are not looked at.                     *)
cNameFor(c, x) ==
    LET n == IF x \in DOMAIN c.uses THEN c.uses[x] ELSE 0
        k == CHOOSE k \in n + 1 .. n + 1 + Cardinality(ModuleNames) :
               /\ ~moduleNameTaken(Printed(x, k))
               /\ \A j \in n + 1 .. k - 1 : moduleNameTaken(Printed(x, j)) IN
    [cand |-> Printed(x, k), uses |-> (x :> k) @@ c.uses]

(* Declaring a name twice in a scope is for `let` only.                       *)
declare(c, x, shadow) ==
    LET top == Last(c.scopes)
        named == cNameFor(c, x) IN
    IF ~shadow /\ \E i \in DOMAIN top : top[i][1] = x THEN [c EXCEPT !.ok = FALSE]
    ELSE [c EXCEPT !.scopes[Len(c.scopes)] = Append(@, <<x, named.cand>>),
                   !.uses = named.uses, !.cnames = @ \cup {named.cand}]

(* The newest binding of the innermost scope that has one.                    *)
lookup(c, x) ==
    LET all == FlattenSeq(c.scopes)
        last == SelectLastInSeq(all, LAMBDA s : s[1] = x) IN
    IF last = 0 THEN <<"?">> ELSE all[last][2]

(* Proofs.  The key of a proof is the C name, and the field for a path.       *)
keyOf(c, place) == IF place[1] = "path" THEN <<lookup(c, place[2]), "f">> ELSE <<lookup(c, place[2]), "">>

isNarrowed(c, key) == \E i \in 1..c.len : c.data[i] = key

pushNarrow(c, key) ==
    IF isNarrowed(c, key) THEN c
    ELSE [c EXCEPT !.data = Append(SubSeq(@, 1, c.len), key) \o SubSeq(@, c.len + 2, Len(@)), !.len = @ + 1]

(* Faulty variant: a proof about a path stays when its root is written.       *)
unNarrowExact(c, cname) ==
    LET hits == {i \in 1..c.len : c.data[i] = <<cname, "">>} IN
    IF hits = {} THEN c
    ELSE LET i == CHOOSE i \in hits : \A j \in hits : i <= j IN
         [c EXCEPT !.len = i - 1,
                   !.crossed = @ \/ (c.marks # <<>> /\ i <= Last(c.marks))]

(* The first proof about the binding, or a path through it, is dropped and    *)
(* everything after it.  `crossed` records that this reached the proofs of an *)
(* enclosing block.                                                         *)
unNarrow(c, cname) ==
    LET hits == {i \in 1..c.len : c.data[i][1] = cname} IN
    IF hits = {} THEN c
    ELSE LET i == CHOOSE i \in hits : \A j \in hits : i <= j IN
         [c EXCEPT !.len = i - 1,
                   !.crossed = @ \/ (c.marks # <<>> /\ i <= Last(c.marks))]

(* Comparing with null proves something of a binding, or of a field of a      *)
(* local whose address was not taken; `shared` are the others.                *)
narrowTarget(c, cond) ==
    IF cond[1] \in {"ne", "eq"} /\ ~(cond[2][1] = "path" /\ lookup(c, cond[2][2]) \in c.shared)
    THEN {keyOf(c, cond[2])} ELSE {}

narrowWhen(c, cond, op) == IF cond[1] = op THEN narrowTarget(c, cond) ELSE {}

PushAll(c, keys) == IF keys = {} THEN c ELSE pushNarrow(c, CHOOSE k \in keys : TRUE)

RECURSIVE narrowFactsOf(_, _)
narrowFactsOf(c, cond) ==
    IF cond[1] = "and" THEN narrowFactsOf(narrowFactsOf(c, cond[2]), cond[3])
    ELSE PushAll(c, narrowWhen(c, cond, "ne"))

(* A dereference needs the non-null type, that is a proof.                    *)
Deref(c, place) == IF isNarrowed(c, keyOf(c, place)) THEN c ELSE [c EXCEPT !.ok = FALSE]

(* The right side of && and || is reached with what the left side proved.     *)
RECURSIVE checkCond(_, _)
checkCond(c, cond) ==
    CASE cond[1] \in {"and", "or"} ->
           LET left == checkCond(c, cond[2])
               known == IF cond[1] = "and" THEN narrowFactsOf(left, cond[2])
                        ELSE PushAll(left, narrowWhen(left, cond[2], "eq")) IN
           [checkCond(known, cond[3]) EXCEPT !.len = left.len]
      [] cond[1] = "deref" -> Deref(c, cond[2])
      [] OTHER -> c

RECURSIVE blockExits(_)
blockExits(S) ==
    S # <<>> /\ LET s == S[Len(S)] IN
                \/ s[1] \in {"return", "break"}
                \/ s[1] = "block" /\ blockExits(s[2])

RECURSIVE checkStmt(_, _), checkBlockBody(_, _)

checkBlockBody(c, S) == popScope(FoldLeft(checkStmt, pushScope(c), S))

(* Only an assignment to a name takes back what was proved of it.             *)
checkAssign(c, place) ==
    IF place[1] = "id" THEN unNarrow(c, lookup(c, place[2]))
    ELSE [c EXCEPT !.crossed = @ \/ isNarrowed(c, keyOf(c, place))]

(* ST_IF: the proofs of each arm end with it; after a guard that leaves, the   *)
(* opposite is proved for the rest of the block.                             *)
checkIf(c0, s) ==
    LET c == checkCond(c0, s[2])
        then == checkBlockBody(IF narrowWhen(c, s[2], "ne") # {} THEN narrowFactsOf(c, s[2]) ELSE c, s[3])
        after == [then EXCEPT !.len = c.len]
        whenFalse == narrowWhen(c, s[2], "eq") IN
    CASE s[4] # <<>> -> [checkBlockBody(PushAll(after, whenFalse), s[4][1]) EXCEPT !.len = c.len]
      [] s[4] = <<>> /\ blockExits(s[3]) -> PushAll(after, whenFalse)
      [] OTHER -> after

checkWhile(c0, s) ==
    LET c == popScope(checkCond(pushScope(c0), s[2]))
        known == IF narrowWhen(c, s[2], "ne") # {} THEN narrowFactsOf(c, s[2]) ELSE c IN
    [checkBlockBody(known, s[3]) EXCEPT !.len = c.len]

checkStmt(c, s) ==
    CASE s[1] = "let" -> declare(c, s[2], TRUE)
      [] s[1] = "var" -> declare(c, s[2], FALSE)
      [] s[1] = "set" -> checkAssign(c, s[2])
      [] s[1] = "use" -> Deref(c, s[2])
      [] s[1] = "lend" ->
           LET x == lookup(c, s[2]) IN [unNarrow(c, x) EXCEPT !.shared = @ \cup {x}]
      [] s[1] = "if" -> checkIf(c, s)
      [] s[1] = "while" -> checkWhile(c, s)
      [] s[1] = "block" -> checkBlockBody(c, s[2])
      [] OTHER -> c

(* The parameters are the first names of the body's scope.                   *)
checkBody(params, S) ==
    LET c == FoldLeft(LAMBDA b, x : declare(b, x, FALSE), NewChecker, params) IN
    FoldLeft(checkStmt, [c EXCEPT !.shared = c.cnames], S)

----------------------------------------------------------------------------
(* What a body does: a stack of scopes, each a sequence of [name, v, f] where *)
(* v and f say whether the reference, and its field, are there.               *)

Slot(env, x) ==         \* where the binding of x is: <<scope, index>>
    LET d == CHOOSE d \in DOMAIN env :
               /\ \E i \in DOMAIN env[d] : env[d][i].name = x
               /\ \A e \in DOMAIN env : (\E i \in DOMAIN env[e] : env[e][i].name = x) => e <= d IN
    <<d, SelectLastInSeq(env[d], LAMBDA b : b.name = x)>>

There(env, place) ==
    LET b == env[Slot(env, place[2])[1]][Slot(env, place[2])[2]] IN
    IF place[1] = "path" THEN b.f ELSE b.v

Put(env, place, there) ==
    LET at == Slot(env, place[2]) IN
    IF place[1] = "path" THEN [env EXCEPT ![at[1]][at[2]].f = there]
    ELSE [env EXCEPT ![at[1]][at[2]].v = there]

ValueOf(env, v) == CASE v[1] = "null" -> FALSE [] v[1] = "new" -> TRUE [] OTHER -> There(env, v)

(* The ways a condition can come out, and whether it dereferenced null.       *)
RECURSIVE Outcomes(_, _)
Outcomes(env, c) ==
    CASE c[1] = "ne" -> {[is |-> There(env, c[2]), bad |-> FALSE]}
      [] c[1] = "eq" -> {[is |-> ~There(env, c[2]), bad |-> FALSE]}
      [] c[1] = "some" -> {[is |-> b, bad |-> FALSE] : b \in BOOLEAN}
      [] c[1] = "deref" -> {[is |-> b, bad |-> ~There(env, c[2])] : b \in BOOLEAN}
      [] c[1] \in {"and", "or"} ->
           UNION {IF l.is = (c[1] = "and") /\ ~l.bad THEN Outcomes(env, c[3]) ELSE {l} : l \in Outcomes(env, c[2])}

Stay(E) == [out |-> E, brk |-> {}, bad |-> FALSE]
Push(E) == {Append(env, <<>>) : env \in E}
Pop(r) == [r EXCEPT !.out = {Front(env) : env \in @}, !.brk = {Front(env) : env \in @}]

RECURSIVE Runs(_, _), RunsSeq(_, _), RunsLoop(_, _, _)

RunsSeq(E, S) ==
    IF S = <<>> THEN Stay(E)
    ELSE LET first == Runs(E, Head(S))
             rest == RunsSeq(first.out, Tail(S)) IN
         [out |-> rest.out, brk |-> first.brk \cup rest.brk, bad |-> first.bad \/ rest.bad]

RunsBlock(E, S) == Pop(RunsSeq(Push(E), S))

Where(E, c, is) == {env \in E : \E o \in Outcomes(env, c) : o.is = is /\ ~o.bad}
BadIn(E, c) == \E env \in E : \E o \in Outcomes(env, c) : o.bad

RunsLoop(E, c, S) ==
    LET body == RunsBlock(Where(E, c, TRUE), S) IN
    IF body.out \subseteq E
    THEN [out |-> Where(E, c, FALSE) \cup body.brk, brk |-> {}, bad |-> body.bad \/ BadIn(E, c)]
    ELSE RunsLoop(E \cup body.out, c, S)

Runs(E, s) ==
    CASE s[1] \in {"let", "var"} ->
           Stay({[env EXCEPT ![Len(env)] = Append(@, [name |-> s[2], v |-> ValueOf(env, s[3]), f |-> FALSE])] : env \in E})
      [] s[1] = "set" -> Stay({Put(env, s[2], ValueOf(env, s[3])) : env \in E})
      [] s[1] = "use" -> [Stay({env \in E : There(env, s[2])}) EXCEPT !.bad = \E env \in E : ~There(env, s[2])]
      [] s[1] = "lend" -> Stay(UNION {{env, Put(env, <<"path", s[2]>>, FALSE)} : env \in E})
      [] s[1] = "if" ->
           LET a == RunsBlock(Where(E, s[2], TRUE), s[3])
               no == Where(E, s[2], FALSE)
               b == IF s[4] = <<>> THEN Stay(no) ELSE RunsBlock(no, s[4][1]) IN
           [out |-> a.out \cup b.out, brk |-> a.brk \cup b.brk, bad |-> a.bad \/ b.bad \/ BadIn(E, s[2])]
      [] s[1] = "while" -> RunsLoop(E, s[2], s[3])
      [] s[1] = "block" -> RunsBlock(E, s[2])
      [] s[1] = "break" -> [out |-> {}, brk |-> E, bad |-> FALSE]
      [] s[1] = "return" -> [out |-> {}, brk |-> {}, bad |-> FALSE]

(* The parameters may be anything at the start.                               *)
Entered(params) == {<< [i \in DOMAIN params |-> [name |-> params[i], v |-> b, f |-> d]] >> : b \in BOOLEAN, d \in BOOLEAN}

(* No run dereferences null.                                                 *)
NeverNull(S, params) == ~RunsSeq(Entered(params), S).bad

(* The names of the declarations of a body, in order.                         *)
RECURSIVE Declared(_)
Declared(S) ==
    LET One(s) == CASE s[1] \in {"let", "var"} -> <<s[2]>>
                    [] s[1] = "block" -> Declared(s[2])
                    [] s[1] = "while" -> Declared(s[3])
                    [] s[1] = "if" -> Declared(s[3]) \o IF s[4] = <<>> THEN <<>> ELSE Declared(s[4][1])
                    [] OTHER -> <<>> IN
    FlattenSeq([i \in DOMAIN S |-> One(S[i])])

(* One name of the function is another followed by __ and a number.           *)
LooksMade(S, params) ==
    LET names == ToSet(params \o Declared(S)) IN
    \E y \in names : Len(y) > 1 /\ Front(y) \in names
=============================================================================
