------------------------------- MODULE Parser -------------------------------
(***************************************************************************)
(* The parser (src/src/front/parser.c): types, expressions, statements and   *)
(* declarations.  A parse function takes a parser and returns [p, e]: the    *)
(* parser behind what it consumed and the node it built, Nil when it failed. *)
(* The first diagnostic ends the parse: Then, and every function called with *)
(* p.err set, stands for the `return NULL` after a call in the code.         *)
(* A declaration is a tuple of its kind, its parts and the set of            *)
(* annotations it records; an effect clause maps the keys written to bits.   *)
(*                                                                          *)
(* A node is a tuple that starts with its kind; positions are left out.  A  *)
(* token is [k, s, f]: kind, text, and for a format string its characters.  *)
(***************************************************************************)
EXTENDS Integers, Sequences, FiniteSets, SequencesExt

CONSTANTS
    DepthLimit,         \* PARSE_DEPTH_LIMIT
    TypeDepthLimit      \* PARSE_TYPE_DEPTH_LIMIT

Nil == <<"nil">>

Tok(k, s) == [k |-> k, s |-> s, f |-> <<>>]
Fmt(s, f) == [k |-> "FSTRING", s |-> s, f |-> f]
NL == Tok("NEWLINE", "\n")
EOF == Tok("EOF", "")

(* lexIsPunct's table.                                                     *)
Puncts == {"->", "==", "!=", "<=", ">=", "&&", "||", "...", "..", "::", "=>",
           "??", "+=", "-=", "*=", "/=", "%=", "|", "&", "^", "~", "@", "+",
           "-", "*", "/", "%", "=", "<", ">", "!", "?", "(", ")", "{", "}",
           "[", "]", ",", ":", ";", "."}

NewParser(toks) ==
    [toks |-> toks, pos |-> 1, inCond |-> FALSE, depth |-> 0, typeDepth |-> 0,
     sawGlobal |-> FALSE, err |-> FALSE]

----------------------------------------------------------------------------
(* Lookahead.  pk is clamped to the closing EOF and take never leaves it.   *)

pk(p, k) == p.toks[IF p.pos + k > Len(p.toks) THEN Len(p.toks) ELSE p.pos + k]
cur(p) == pk(p, 0)
atKind(p, k) == cur(p).k = k

Spells(t, v) == t.s = v /\ (t.k = "STRING" => v \notin Puncts)
at(p, v) == Spells(cur(p), v)
atAny(p, vs) == \E v \in vs : at(p, v)

take(p) == [p EXCEPT !.pos = Min({@ + 1, Len(p.toks)})]
TakeN(p, n) == [p EXCEPT !.pos = Min({@ + n, Len(p.toks)})]
accept(p, v) == IF at(p, v) THEN take(p) ELSE p
Fail(p) == [p EXCEPT !.err = TRUE]

expect(p, v) == IF p.err THEN p ELSE IF at(p, v) THEN take(p) ELSE Fail(p)

Node(p, e) == [p |-> p, e |-> IF p.err THEN Nil ELSE e]
Stop(p) == Node(Fail(p), Nil)

(* The next step of a parse function: `if (!x) return NULL;`.              *)
Then(r, Rest(_, _)) == IF r.p.err THEN Stop(r.p) ELSE Rest(r.p, r.e)

expectIdent(p) == IF p.err \/ ~atKind(p, "IDENT") THEN Stop(p)
                  ELSE Node(take(p), cur(p).s)

SkipWhile(p, Is(_)) ==
    [p EXCEPT !.pos = Min({i \in @..Len(p.toks) : i = Len(p.toks) \/ ~Is(p.toks[i])})]

skipNl(p) == SkipWhile(p, LAMBDA t : t.k = "NEWLINE")
skipJunk(p) ==
    SkipWhile(p, LAMBDA t : t.k = "NEWLINE" \/ (t.k # "STRING" /\ t.s = ";"))

(* One more level, or a diagnostic: parseTooDeepIn with its two budgets.    *)
Deeper(p, Inner(_)) ==
    IF p.err \/ p.depth >= DepthLimit THEN Stop(p)
    ELSE LET r == Inner([p EXCEPT !.depth = @ + 1]) IN
         [r EXCEPT !.p.depth = @ - 1]

TypeDeeper(p, Inner(_)) ==
    IF p.err \/ p.typeDepth >= TypeDepthLimit THEN Stop(p)
    ELSE LET r == Inner([p EXCEPT !.typeDepth = @ + 1]) IN
         [r EXCEPT !.p.typeDepth = @ - 1]

(* inCond is saved, set for one parse and restored.                        *)
WithCond(p, c, Inner(_)) ==
    LET r == Inner([p EXCEPT !.inCond = c]) IN [r EXCEPT !.p.inCond = p.inCond]

(* The loop of an argument list, `[p, e]` with the sequence in e:           *)
(* `while (!at(close)) { Item; if (accept(",")) skipNl; else break; }`      *)
RECURSIVE ListTail(_, _, _, _)
ListTail(p, close, Item(_), acc) ==
    IF p.err \/ at(p, close) THEN [p |-> p, e |-> acc]
    ELSE LET r == Item(p)
             more == at(r.p, ",") IN
         IF r.p.err THEN [p |-> r.p, e |-> acc]
         ELSE IF more THEN ListTail(skipNl(take(r.p)), close, Item, Append(acc, r.e))
         ELSE [p |-> r.p, e |-> Append(acc, r.e)]

List(p, close, Item(_)) == ListTail(p, close, Item, <<>>)

(* `{ items }`, with newlines and `;` between them.                          *)
RECURSIVE Items(_, _, _)
Items(p, Item(_), acc) ==
    IF p.err \/ at(p, "}") THEN [p |-> p, e |-> acc]
    ELSE Then(Item(p), LAMBDA q, x : Items(skipJunk(q), Item, Append(acc, x)))

Braced(p, Item(_)) ==
    Then(Items(skipJunk(expect(p, "{")), Item, <<>>), LAMBDA q, xs : Node(expect(q, "}"), xs))

(* A list with at least one element and no test for its end: type arguments. *)
ListOne(p, Item(_)) == ListTail(p, "no such token", Item, <<>>)

----------------------------------------------------------------------------
(* The parse functions call each other through Descend, at the end of the    *)
(* module, which is the one recursive operator of the descent.               *)
RECURSIVE Descend(_, _)

AType(p) == Descend("type", p)
AnExpr(p) == Descend("expr", p)
AUnary(p) == Descend("unary", p)
ABlock(p) == Descend("block", p)
AStmt(p) == Descend("stmt", p)
Arguments(p) == Descend("args", p)
Condition(p) == Descend("cond", p)
AFunc(p, noBody) == Descend(IF noBody THEN "signature" ELSE "function", p)

(* Types: parseType, parseTypeInner, parseFnType.                          *)

(* startsUpper, for the names of a model.                                  *)
Uppers == {"T", "U"}

ParseFnType(p) ==
    LET ps == List(skipNl(expect(take(p), "(")), ")", AType)
        r == AType(expect(expect(ps.p, ")"), "->")) IN
    Node(r.p, <<"fn", ps.e, r.e>>)

RECURSIVE PathTail(_, _)
PathTail(p, path) ==
    IF p.err \/ ~at(p, "::") THEN [p |-> p, e |-> path]
    ELSE LET q == take(p) IN
         IF cur(q).k \in {"IDENT", "TYPE"} THEN PathTail(take(q), Append(path, cur(q).s))
         ELSE [p |-> Fail(q), e |-> path]

ParseNamedType(p) ==
    LET n == PathTail(take(p), <<cur(p).s>>)
        as == ListOne(skipNl(take(n.p)), AType) IN
    IF n.p.err \/ ~at(n.p, "<") THEN Node(n.p, <<"named", n.e, <<>>, FALSE>>)
    ELSE Node(expect(skipNl(as.p), ">"), <<"named", n.e, as.e, FALSE>>)

ParseTypeInner(p) ==
    LET t == cur(p)
        inner == AType(take(p))
        elem == AType(expect(TakeN(p, 2), "]")) IN
    CASE at(p, "dyn") /\ pk(p, 1).k = "IDENT" ->
           IF pk(p, 1).s \in Uppers THEN Node(TakeN(p, 2), <<"dyn", pk(p, 1).s>>)
           ELSE Stop(p)
      [] at(p, "mut") ->
           IF inner.p.err THEN inner
           ELSE CASE inner.e[1] = "ref" -> Node(inner.p, [inner.e EXCEPT ![3] = TRUE])
                  [] inner.e[1] = "named" -> Node(inner.p, [inner.e EXCEPT ![4] = TRUE])
                  [] OTHER -> Stop(inner.p)
      [] at(p, "?") ->
           IF inner.p.err THEN inner
           ELSE IF inner.e[1] = "ref" THEN Node(inner.p, [inner.e EXCEPT ![4] = TRUE])
           ELSE Node(inner.p, <<"named", <<"option">>, <<inner.e>>, FALSE>>)
      [] at(p, "ref") -> Node(inner.p, <<"ref", inner.e, FALSE, FALSE>>)
      [] at(p, "[") ->
           IF pk(p, 1).k # "INT" THEN Stop(p)
           ELSE IF pk(p, 1).s = "0" THEN Stop(elem.p)
           ELSE Node(elem.p, <<"array", pk(p, 1).s, elem.e>>)
      [] at(p, "fn") /\ pk(p, 1).s = "(" -> ParseFnType(p)
      [] t.k \in {"TYPE", "IDENT"} -> ParseNamedType(p)
      [] OTHER -> Stop(p)

ParseType(p) == TypeDeeper(p, ParseTypeInner)

----------------------------------------------------------------------------
(* Expressions.                                                            *)

(* parseArgs: an argument is an ordinary expression again.                 *)
ParseArgs(p) ==
    LET l == List([skipNl(expect(p, "(")) EXCEPT !.inCond = FALSE], ")", AnExpr) IN
    [p |-> expect([skipNl(l.p) EXCEPT !.inCond = p.inCond], ")"), e |-> l.e]

(* `( expr )` of a conversion: unlike a parenthesised expression it keeps    *)
(* inCond.                                                                  *)
ParseOperand(p) ==
    LET r == AnExpr(skipNl(expect(p, "("))) IN
    Node(expect(skipNl(r.p), ")"), r.e)

(* parseStructLit: the comma between fields is optional.                    *)
RECURSIVE StructFields(_, _)
StructFields(p, acc) ==
    IF p.err \/ at(p, "}") THEN [p |-> p, e |-> acc]
    ELSE Then(expectIdent(p), LAMBDA q, n :
         Then(AnExpr(skipNl(expect(q, ":"))), LAMBDA r, v :
              StructFields(skipNl(accept(skipNl(r), ",")), Append(acc, <<n, v>>))))

ParseStructLit(p, name) ==
    LET fs == StructFields(skipNl(expect(p, "{")), <<>>) IN
    Node(expect(fs.p, "}"), <<"lit", name, fs.e>>)

(* The array literal of parsePrimary; `...` asks for the rest to be zero.   *)
RECURSIVE ArrayElems(_, _)
ArrayElems(p, acc) ==
    IF p.err \/ at(p, "]") THEN [p |-> p, e |-> acc, rest |-> FALSE]
    ELSE IF at(p, "...") THEN [p |-> skipNl(take(p)), e |-> acc, rest |-> TRUE]
    ELSE LET r == WithCond(p, FALSE, AnExpr)
             q == skipNl(r.p)
             all == Append(acc, r.e) IN
         IF r.p.err THEN [p |-> r.p, e |-> acc, rest |-> FALSE]
         ELSE IF at(q, ",") THEN ArrayElems(skipNl(take(q)), all)
         ELSE [p |-> q, e |-> all, rest |-> FALSE]

ParseArrayLit(p) ==
    LET es == ArrayElems(skipNl(take(p)), <<>>) IN
    Node(expect(skipNl(es.p), "]"), <<"array", es.e, es.rest>>)

(* new T, new T[n].                                                        *)
ParseNew(p) ==
    LET ty == AType(skipNl(take(p)))
        n == WithCond(skipNl(take(ty.p)), FALSE, AnExpr) IN
    IF ty.p.err \/ ~at(ty.p, "[") THEN Node(ty.p, <<"new", ty.e, Nil>>)
    ELSE Node(expect(skipNl(n.p), "]"), <<"new", ty.e, n.e>>)

(* `fn(` in an expression: a conversion when the first parameter is a bare  *)
(* type, else a lambda; `fn() -> R(x)` is told apart behind the result.     *)
fnParenIsTypeList(p) == pk(p, 2).s # ")" /\ pk(p, 3).s # ":"

ParseFnConv(p) ==
    LET ty == ParseFnType(p)
        x == ParseOperand(ty.p) IN
    Node(x.p, <<"fnconv", ty.e, x.e>>)

ParseParam(p) ==
    LET n == expectIdent(p)
        ty == AType(expect(n.p, ":")) IN
    Node(ty.p, <<n.e, ty.e>>)

ParseCapture(p) ==
    IF at(p, "mut") /\ pk(p, 1).s = "ref" THEN expectIdent(TakeN(p, 2)) ELSE Stop(p)

(* `( x: T, ... )`, `[ mut ref x, ... ]` and `-> T`, the last two optional.  *)
Parameters(p) ==
    LET ps == List(skipNl(expect(p, "(")), ")", ParseParam) IN
    [ps EXCEPT !.p = expect(@, ")")]

Captures(p) ==
    LET cs == List(skipNl(take(p)), "]", ParseCapture) IN
    IF at(p, "[") THEN [cs EXCEPT !.p = skipNl(expect(@, "]"))] ELSE [p |-> p, e |-> <<>>]

ResultType(p) == IF at(p, "->") THEN AType(take(p)) ELSE [p |-> p, e |-> Nil]

ParseLambda(p) ==
    Then(Parameters(take(p)), LAMBDA q, ps :
    Then(Captures(skipNl(q)), LAMBDA r, caps :
    Then(ResultType(r), LAMBDA t, ret :
        IF ~at(t, "(")
        THEN Then(ABlock(skipNl(t)), LAMBDA u, body : Node(u, <<"lambda", ps, caps, ret, body>>))
        ELSE Then(ParseOperand(t), LAMBDA u, x :
             IF ret = Nil THEN Stop(u)
             ELSE Node(u, <<"fnconv", <<"fn", [i \in DOMAIN ps |-> ps[i][2]], ret>>, x>>)))))

(* How many `:: name` follow the cursor (countFollowingSegs).               *)
countFollowingSegs(p) ==
    LET seg(k) == pk(p, 2 * k).s = "::" /\ pk(p, 2 * k + 1).k \in {"IDENT", "TYPE"} IN
    Max({n \in 0..Len(p.toks) : \A k \in 0..(n - 1) : seg(k)} \cap 0..(Len(p.toks) - p.pos + 1))

(* looksLikeAssoc: where type arguments that may start here end, counted    *)
(* from the cursor; -1 when these tokens cannot be type arguments.          *)
RECURSIVE AngleEnd(_, _, _)
AngleEnd(p, i, depth) ==
    LET t == pk(p, i) IN
    CASE t.k = "EOF" -> -1
      [] t.s = "<" -> AngleEnd(p, i + 1, depth + 1)
      [] t.s = ">" -> IF depth = 1 THEN i + 1 ELSE AngleEnd(p, i + 1, depth - 1)
      [] \/ t.k \in {"IDENT", "TYPE", "INT", "KEYWORD"}
         \/ t.s \in {",", "[", "]"} -> AngleEnd(p, i + 1, depth)
      [] OTHER -> -1

looksLikeAssoc(p) ==
    LET i == IF pk(p, 0).s = "<" THEN AngleEnd(p, 0, 0) ELSE 0 IN
    /\ i >= 0
    /\ \/ countFollowingSegs(TakeN(p, i)) > 0
       \/ i > 0 /\ pk(p, i).s = "("

TypeArguments(p) ==
    LET l == ListOne(skipNl(take(p)), AType) IN
    IF at(p, "<") THEN [l EXCEPT !.p = expect(skipNl(@), ">")] ELSE [p |-> p, e |-> <<>>]

(* parseAssoc: `name<T>(..)`, `name<T>::f(..)`, `a::b::c`; every segment but *)
(* the last goes to the module prefix.                                      *)
ParseAssoc(p, name) ==
    LET Args(q) == IF at(q, "(") THEN Arguments(q) ELSE [p |-> q, e |-> <<>>]
        Member(q, ts, n) ==
            Then(expectIdent(TakeN(q, 2 * n - 1)), LAMBDA r, sym :
            Then(Args(r), LAMBDA t, args :
                 Node(t, <<"assoc", name, ts,
                           IF n = 1 THEN <<>> ELSE <<name>> \o [k \in 1..(n - 1) |-> pk(q, 2 * k - 1).s],
                           sym, args, ts = <<>> /\ at(r, "(")>>))) IN
    Then(TypeArguments(p), LAMBDA q, ts :
         IF at(q, "::") THEN Member(q, ts, IF countFollowingSegs(q) > 1 THEN countFollowingSegs(q) ELSE 1)
         ELSE Then(Arguments(q), LAMBDA r, args : Node(r, <<"gencall", name, ts, args>>)))

(* The identifier case of parsePrimary; the cursor is on the name.          *)
ParseName(p) ==
    LET name == cur(p).s
        q == take(p)
        n == IF at(q, "::") THEN countFollowingSegs(q) ELSE 0
        path == <<name>> \o [k \in 1..n |-> pk(q, 2 * k - 1).s] IN
    IF at(q, "{") /\ ~q.inCond THEN ParseStructLit(q, <<name>>)
    ELSE IF n > 0 /\ pk(q, 2 * n).s = "{" /\ ~q.inCond
         THEN ParseStructLit(TakeN(q, 2 * n), path)
    ELSE IF looksLikeAssoc(q) THEN ParseAssoc(q, name)
    ELSE IF at(q, "{") /\ q.inCond /\ pk(q, 1).k = "IDENT" /\ pk(q, 2).s = ":"
         THEN Stop(q)
    ELSE Node(q, <<"id", name>>)

ParseParens(p) ==
    LET r == WithCond(skipNl(take(p)), FALSE, AnExpr) IN
    Node(expect(skipNl(r.p), ")"), r.e)

ParseDyn(p) ==
    LET r == AnExpr(expect(TakeN(p, 2), "(")) IN
    Node(expect(r.p, ")"), <<"dynv", pk(p, 1).s, r.e>>)

ParsePrimary(p) ==
    LET t == cur(p)
        x == ParseOperand(take(p)) IN
    CASE at(p, "fn") /\ pk(p, 1).s = "(" ->
           IF fnParenIsTypeList(p) THEN ParseFnConv(p) ELSE ParseLambda(p)
      [] at(p, "dyn") /\ pk(p, 1).k = "IDENT" /\ pk(p, 2).s = "(" -> ParseDyn(p)
      [] t.k = "INT" -> Node(take(p), <<"int", t.s>>)
      [] t.k = "FLOAT" -> Node(take(p), <<"float", t.s>>)
      [] t.k = "STRING" -> Node(take(p), <<"str", t.s>>)
      [] t.k = "FSTRING" -> Stop(p)
      [] at(p, "null") -> Node(take(p), <<"null">>)
      [] atAny(p, {"true", "false"}) -> Node(take(p), <<"bool", t.s>>)
      [] at(p, "new") -> ParseNew(p)
      [] at(p, "(") -> ParseParens(p)
      [] at(p, "{") -> ParseStructLit(p, <<>>)
      [] at(p, "[") -> ParseArrayLit(p)
      [] t.k = "TYPE" -> IF pk(p, 1).s = "(" /\ t.s \notin {"bool", "void"}
                         THEN Node(x.p, <<"conv", t.s, x.e>>) ELSE Stop(p)
      [] t.k = "IDENT" -> ParseName(p)
      [] OTHER -> Stop(p)

(* parsePostfix.  A method call on `dyn T(x)` takes x for its receiver and   *)
(* keeps the trait; a field of one is refused.                              *)
ParseBracket(p, e) ==
    LET q == [skipNl(take(p)) EXCEPT !.inCond = FALSE]
        lo == IF at(q, "..") THEN [p |-> q, e |-> Nil]
              ELSE LET r == AnExpr(q) IN [r EXCEPT !.p = skipNl(@)]
        isRange == ~lo.p.err /\ at(lo.p, "..")
        afterDots == skipNl(take(lo.p))
        hi == IF ~isRange THEN [p |-> lo.p, e |-> Nil]
              ELSE LET r == IF at(afterDots, "]") THEN [p |-> afterDots, e |-> Nil]
                            ELSE AnExpr(afterDots) IN
                   [r EXCEPT !.p = skipNl(@)]
        close == expect([hi.p EXCEPT !.inCond = p.inCond], "]") IN
    Node(close, IF isRange THEN <<"slice", e, lo.e, hi.e>> ELSE <<"index", e, lo.e>>)

ParseMember(p, e) ==
    LET name == expectIdent(take(p))
        args == Arguments(name.p) IN
    IF name.p.err THEN name
    ELSE IF at(name.p, "(")
         THEN Node(args.p, IF e[1] = "dynv"
                           THEN <<"method", e[3], name.e, args.e, e[2]>>
                           ELSE <<"method", e, name.e, args.e,
                                  IF e[1] = "method" THEN e[5] ELSE "">>)
    ELSE IF e[1] = "dynv" \/ (e[1] = "method" /\ e[5] # "") THEN Stop(name.p)
    ELSE Node(name.p, <<"field", e, name.e>>)

RECURSIVE PostfixTail(_, _)
PostfixTail(p, e) ==
    LET member == ParseMember(p, e)
        bracket == ParseBracket(p, e)
        args == Arguments(p) IN
    IF p.err THEN Stop(p)
    ELSE CASE at(p, "!") -> PostfixTail(take(p), <<"sign", e>>)
           [] at(p, "?") -> PostfixTail(take(p), <<"try", e>>)
           [] at(p, ".") -> PostfixTail(member.p, member.e)
           [] at(p, "[") -> PostfixTail(bracket.p, bracket.e)
           [] at(p, "(") -> PostfixTail(args.p, <<"call", e, args.e>>)
           [] OTHER -> Node(p, e)

ParsePostfix(p) == Then(ParsePrimary(p), PostfixTail)

(* parseUnary: the prefix operators, one level of the nesting budget each.  *)
tokenStartsExpr(t) ==
    \/ t.k \in {"IDENT", "INT", "FLOAT", "STRING", "TYPE"}
    \/ t.k = "KEYWORD" /\ t.s \in {"true", "false", "ref", "fn", "if", "match", "new"}
    \/ t.k # "KEYWORD" /\ t.s \in {"(", "-", "!", "~", "[", "null"}

ParseUnaryInner(p) ==
    LET r == AUnary(take(p)) IN
    CASE at(p, "ext") /\ tokenStartsExpr(pk(p, 1)) -> Node(r.p, <<"ext", r.e>>)
      [] atAny(p, {"!", "-", "~"}) -> Node(r.p, <<"un", cur(p).s, r.e>>)
      [] at(p, "*") -> Node(r.p, <<"deref", r.e>>)
      [] at(p, "ref") -> Node(r.p, <<"refof", r.e>>)
      [] OTHER -> ParsePostfix(p)

ParseUnary(p) == Deeper(p, ParseUnaryInner)

(* Faulty variant: the C order of `&` and `==`.                              *)
LevelsBad == << {"||"}, {"&&"}, {"|"}, {"^"}, {"==", "!="}, {"&"},
                {"<", "<=", ">", ">="}, {"<<", ">>"}, {"+", "-"}, {"*", "/", "%"} >>

(* The binary levels from `||` (1) to `*` (9), every one left associative:   *)
(* parseOr ... parseFactor.  Level 8 of the code, the shifts, is below.      *)
Levels == << {"||"}, {"&&"}, {"|"}, {"^"}, {"&"}, {"==", "!="},
             {"<", "<=", ">", ">="}, {"<<", ">>"}, {"+", "-"}, {"*", "/", "%"} >>

(* A shift is two adjacent `<` or `>` tokens, so that a nested generic can   *)
(* close with `>>` (atShift).                                                *)
atShift(p, c) == pk(p, 0).s = c /\ pk(p, 1).s = c /\ pk(p, 1).k = "PUNCT"

(* fmtSplice: a format string at the right of `<<` becomes a chain of `<<`   *)
(* over its text pieces and the expressions in its slots.  `f` is the list   *)
(* of its characters; a slot is scanned and parsed by a parser of its own.   *)
CharToken(c) == IF c \in Puncts THEN Tok("PUNCT", c) ELSE Tok("IDENT", c)

SlotTokens(chars) == [i \in DOMAIN chars |-> CharToken(chars[i])] \o <<NL, EOF>>

SlotEnd(f, i) ==
    LET depth(j) == Cardinality({k \in i..j : f[k] = "{"})
                      - Cardinality({k \in i..j : f[k] = "}"})
        ends == {j \in i..Len(f) : depth(j) = 0} IN
    IF ends = {} THEN 0 ELSE Min(ends)

HasSpec(chars) ==
    \E i \in DOMAIN chars :
        /\ chars[i] = ":"
        /\ LET before == SubSeq(chars, 1, i - 1) IN
           Len(SelectSeq(before, LAMBDA c : c \in {"(", "[", "{"}))
             = Len(SelectSeq(before, LAMBDA c : c \in {")", "]", "}"}))

(* fmtStr: the text collected so far is one more operand.                    *)
WithText(lhs, txt) ==
    IF txt = <<>> THEN lhs ELSE <<"bin", "<<", lhs, <<"text", txt>>>>

(* The scan, from character i on; txt is the text collected so far.         *)
RECURSIVE Splice(_, _, _, _, _)
Splice(p, f, i, txt, lhs) ==
    LET flushed == WithText(lhs, txt)
        twin == i < Len(f) /\ f[i + 1] = f[i]
        j == SlotEnd(f, i)
        slot == SubSeq(f, i + 1, j - 1)
        sub == AnExpr([p EXCEPT !.toks = SlotTokens(slot), !.pos = 1,
                                   !.inCond = FALSE])
        bad == \/ j = 0 \/ slot = <<>> \/ HasSpec(slot) \/ sub.p.err
               \/ ~atKind(skipNl(sub.p), "EOF") IN
    IF i > Len(f) THEN Node(p, flushed)
    ELSE IF f[i] \in {"{", "}"} /\ twin THEN Splice(p, f, i + 2, Append(txt, f[i]), lhs)
    ELSE IF f[i] = "}" THEN Stop(p)
    ELSE IF f[i] # "{" THEN Splice(p, f, i + 1, Append(txt, f[i]), lhs)
    ELSE IF bad THEN Stop(p)
    ELSE Splice(p, f, j + 1, <<>>, <<"bin", "<<", flushed, sub.e>>)

fmtSplice(p, lhs) ==
    LET r == Splice(take(p), cur(p).f, 1, <<>>, lhs) IN
    IF cur(p).f = <<>> THEN Stop(p) ELSE r

RECURSIVE ParseLevel(_, _), LevelTail(_, _, _)
ParseLevel(i, p) ==
    IF i > Len(Levels) THEN AUnary(p)
    ELSE LET l == ParseLevel(i + 1, p) IN LevelTail(i, l.p, l.e)

LevelTail(i, p, e) ==
    LET shift == IF atShift(p, "<") THEN "<<" ELSE ">>"
        isShift == i = 8 /\ (atShift(p, "<") \/ atShift(p, ">"))
        isOp == i # 8 /\ atAny(p, Levels[i])
        q == skipNl(IF isShift THEN TakeN(p, 2) ELSE take(p))
        r == ParseLevel(i + 1, q)
        f == fmtSplice(q, e) IN
    IF p.err THEN Stop(p)
    ELSE IF isShift /\ cur(q).k = "FSTRING"
         THEN IF shift = ">>" THEN Stop(q) ELSE LevelTail(i, f.p, f.e)
    ELSE IF isShift THEN LevelTail(i, r.p, <<"bin", shift, e, r.e>>)
    ELSE IF isOp THEN LevelTail(i, r.p, <<"bin", cur(p).s, e, r.e>>)
    ELSE Node(p, e)

(* parseExpr is parseCoalesce: `??` is the loosest and right associative.    *)
ParseExpr(p) ==
    LET l == ParseLevel(1, p)
        r == AnExpr(skipNl(take(l.p))) IN
    IF p.err THEN Stop(p)
    ELSE IF l.p.err \/ ~at(l.p, "??") THEN l
    ELSE Node(r.p, <<"coalesce", l.e, r.e>>)

----------------------------------------------------------------------------
(* Statements.                                                             *)

ParseBlockInner(p) == Then(Braced(p, AStmt), LAMBDA q, ss : Node(q, <<"block", ss>>))

ParseBlock(p) == Deeper(p, ParseBlockInner)

(* Faulty variant: inCond stays set behind the condition.                   *)
ParseCondBad(p) == LET r == AnExpr([p EXCEPT !.inCond = TRUE]) IN r

ParseCond(p) == WithCond(p, TRUE, AnExpr)

(* parseMatch: an arm that is one statement gets a block of its own.         *)
ParseBind(p) == LET b == expectIdent(p) IN [b EXCEPT !.p = skipNl(@)]

ParseArm(p) ==
    LET q == skipNl(take(p))
        bs == List(skipNl(take(q)), ")", ParseBind)
        binds == IF at(q, "(") THEN [bs EXCEPT !.p = skipNl(expect(@, ")"))]
                 ELSE [p |-> q, e |-> <<>>]
        b == skipNl(expect(binds.p, "=>"))
        s == AStmt(b)
        blk == ABlock(b) IN
    IF cur(p).k \notin {"IDENT", "KEYWORD"} THEN Stop(p)
    ELSE IF b.err THEN Stop(b)
    ELSE IF at(b, "{") THEN Node(blk.p, <<cur(p).s, binds.e, blk.e>>)
    ELSE Node(s.p, <<cur(p).s, binds.e, <<"block", <<s.e>>>>>>)

ParseMatch(p) ==
    Then(Condition(take(p)), LAMBDA q, scrut :
    Then(Braced(q, ParseArm), LAMBDA r, arms : Node(r, <<"match", scrut, arms>>)))

(* parseVarDecl.  `sawGlobal` is consumed here and nowhere else.             *)
EndsHere(p) == cur(p).k \in {"NEWLINE", "EOF"} \/ at(p, "}")

ParseYield(p, bind) ==
    LET v == AnExpr(take(p)) IN
    IF EndsHere(take(p)) THEN Stop(p) ELSE Node(v.p, <<"yield", bind, v.e>>)

ParseVarDecl(p) ==
    LET name == expectIdent(take(p))
        ann == IF ~name.p.err /\ at(name.p, ":") THEN AType(take(name.p))
               ELSE [p |-> name.p, e |-> Nil]
        q == skipNl(take(ann.p))
        init == IF ~ann.p.err /\ at(ann.p, "=") THEN AnExpr(q)
                ELSE [p |-> ann.p, e |-> Nil] IN
    IF ann.p.err THEN Stop(ann.p)
    ELSE IF at(ann.p, "=") /\ at(q, "yield") THEN ParseYield(q, name.e)
    ELSE IF ~at(ann.p, "=") /\ ann.e = Nil THEN Stop(ann.p)
    ELSE Node([init.p EXCEPT !.sawGlobal = FALSE],
              <<"var", name.e, ann.e, init.e, cur(p).s = "var", p.sawGlobal>>)

RECURSIVE ParseIf(_)
ParseIf(p) ==
    LET c == Condition(take(p))
        t == ABlock(c.p)
        q == skipJunk(t.p)
        r == skipJunk(take(q))
        els == IF at(r, "if") THEN ParseIf(r) ELSE ABlock(r) IN
    IF t.p.err \/ ~at(q, "else") THEN Node(q, <<"if", c.e, t.e, Nil>>)
    ELSE Node(els.p, <<"if", c.e, t.e, els.e>>)

ParseWhile(p) ==
    LET c == Condition(take(p))
        b == ABlock(c.p) IN
    Node(b.p, <<"while", c.e, b.e>>)

(* parseFor: all four forms become a block with a `while`.  "loop" is the    *)
(* block whose last statement is its forStep, the target of `continue`.      *)
Var(name, init, mut) == <<"var", name, Nil, init, mut, FALSE>>
Incr(name) == <<"assign", <<"id", name>>, "+=", <<"int", "1">>>>

ForBlock(decls, cond, body) == <<"block", decls \o << <<"while", cond, <<"loop", body>>>> >> >>

(* Faulty variant: the upper bound is written into the condition.            *)
RangeLoopBad(name, lo, hi, body) ==
    ForBlock(<<Var(name, lo, TRUE)>>, <<"bin", "<", <<"id", name>>, hi>>,
             <<body, Incr(name)>>)

RangeLoop(name, lo, hi, body) ==
    ForBlock(<<Var(name, lo, TRUE), Var("__extc_hi", hi, FALSE)>>,
             <<"bin", "<", <<"id", name>>, <<"id", "__extc_hi">>>>,
             <<body, Incr(name)>>)

EachLoop(name, c, body) ==
    ForBlock(<<Var("__extc_s", <<"slice", c, Nil, Nil>>, FALSE),
               Var("__extc_i", <<"conv", "i64", <<"int", "0">>>>, TRUE)>>,
             <<"bin", "<", <<"id", "__extc_i">>, <<"field", <<"id", "__extc_s">>, "len">>>>,
             <<Var(name, <<"index", <<"id", "__extc_s">>, <<"id", "__extc_i">>>>, FALSE),
               body, Incr("__extc_i")>>)

RECURSIVE forRepeatable(_)
forRepeatable(e) == \/ e[1] = "id"
                    \/ e[1] \in {"field", "deref"} /\ forRepeatable(e[2])

ParseForC(p) ==
    LET init == AStmt(take(p))
        c == AnExpr(skipNl(expect(init.p, ";")))
        step == AStmt(skipNl(expect(c.p, ";")))
        b == ABlock(expect(step.p, ")")) IN
    Node(b.p, ForBlock(<<init.e>>, c.e, <<b.e, step.e>>))

ParseForIn(p) ==
    LET head == Condition(expect(take(p), "in"))
        hi == IF ~head.p.err /\ at(head.p, "..") THEN Condition(take(head.p))
              ELSE [p |-> head.p, e |-> Nil]
        b == ABlock(hi.p) IN
    IF b.p.err THEN Stop(b.p)
    ELSE IF hi.e # Nil THEN Node(b.p, RangeLoop(cur(p).s, head.e, hi.e, b.e))
    ELSE IF forRepeatable(head.e) THEN Node(b.p, EachLoop(cur(p).s, head.e, b.e))
    ELSE Stop(b.p)

ParseFor(p) ==
    LET q == take(p) IN
    IF at(q, "(") THEN ParseForC(q)
    ELSE IF cur(q).k \in {"IDENT", "TYPE"} THEN ParseForIn(q) ELSE Stop(q)

(* The tail of parseStmt: an expression, a domain block behind a field, an   *)
(* assignment or a rebinding yield.  A domain's block opens on the line the  *)
(* statement starts on.                                                      *)
Assigns == {"=", "+=", "-=", "*=", "/=", "%="}

ParseExprStmt(p) ==
    LET e == AnExpr(p)
        body == ABlock(e.p)
        q == skipNl(take(e.p))
        v == AnExpr(q) IN
    IF e.p.err THEN Stop(e.p)
    ELSE IF /\ at(e.p, "{") /\ e.e[1] = "field"
            /\ \A i \in p.pos..e.p.pos : p.toks[i].k # "NEWLINE"
         THEN Node(body.p, <<"domain", e.e, body.e>>)
    ELSE IF atAny(e.p, Assigns)
         THEN IF at(e.p, "=") /\ at(q, "yield") /\ e.e[1] = "id"
              THEN LET y == AnExpr(take(q)) IN Node(y.p, <<"yield", e.e[2], y.e>>)
              ELSE Node(v.p, <<"assign", e.e, cur(e.p).s, v.e>>)
    ELSE Node(e.p, <<"expr", e.e>>)

ParseTrap(p) ==
    LET m == AnExpr(TakeN(p, 2)) IN Node(expect(m.p, ")"), <<"trap", m.e>>)

ParseReturn(p) ==
    LET q == take(p)
        v == AnExpr(q) IN
    IF EndsHere(q) \/ at(q, ";") THEN Node(q, <<"return", Nil>>)
    ELSE Node(v.p, <<"return", v.e>>)

ParseAnnotated(p) ==
    LET nm == expectIdent(take(p))
        v == ParseVarDecl(nm.p) IN
    IF nm.p.err \/ nm.e # "overwrite" \/ ~atAny(nm.p, {"let", "var"}) THEN Stop(nm.p)
    ELSE Node(v.p, <<"overwrite", v.e>>)

(* parseStmt.  `global` is taken before anything else is known of the        *)
(* statement.                                                               *)
ParseStmt(p0) ==
    LET p == IF at(p0, "global") THEN [take(p0) EXCEPT !.sawGlobal = TRUE] ELSE p0 IN
    IF p0.err THEN Stop(p0)
    ELSE CASE at(p0, "@") -> ParseAnnotated(p0)
           [] at(p0, "yield") -> ParseYield(p0, "")
           [] atAny(p, {"let", "var"}) -> ParseVarDecl(p)
           [] at(p, "if") -> ParseIf(p)
           [] at(p, "while") -> ParseWhile(p)
           [] at(p, "for") -> ParseFor(p)
           [] at(p, "trap") /\ pk(p, 1).s = "(" -> ParseTrap(p)
           [] at(p, "match") -> ParseMatch(p)
           [] at(p, "return") -> ParseReturn(p)
           [] at(p, "break") -> Node(take(p), <<"break">>)
           [] at(p, "continue") -> Node(take(p), <<"continue">>)
           [] atAny(p, {"struct", "fn"}) -> Stop(p)
           [] at(p, "{") -> ABlock(p)
           [] OTHER -> ParseExprStmt(p)

(* expectTypeName keeps capitals for type parameters.                       *)
expectTypeName(p) ==
    LET t == expectIdent(p) IN
    IF ~t.p.err /\ t.e \in Uppers THEN Stop(t.p) ELSE t

(* `< T, U >`, if there is one.  In a struct or a type declaration the names *)
(* must be capitals.                                                        *)
ParseParamName(p) == expectIdent(p)

TypeParams(p, capitals) ==
    LET l == ListOne(skipNl(take(p)), ParseParamName) IN
    IF p.err \/ ~at(p, "<") THEN [p |-> p, e |-> <<>>]
    ELSE IF capitals /\ Range(l.e) \ Uppers # {} THEN [p |-> Fail(l.p), e |-> <<>>]
    ELSE [p |-> expect(skipNl(l.p), ">"), e |-> l.e]

(* The same list in an impl or a trait: newlines and `;` are skipped around   *)
(* every element.                                                           *)
JunkList(p, Item(_)) ==
    LET Loose(q) == LET r == Item(skipJunk(q)) IN [r EXCEPT !.p = skipJunk(@)]
        l == ListOne(take(p), Loose) IN
    IF p.err \/ ~at(p, "<") THEN [p |-> p, e |-> <<>>]
    ELSE [p |-> expect(l.p, ">"), e |-> l.e]

----------------------------------------------------------------------------
(* parseUse.                                                               *)

(* The names between braces; no newline is skipped here.                     *)
RECURSIVE UseNames(_, _)
UseNames(p, acc) ==
    LET n == expectIdent(p)
        all == Append(acc, n.e) IN
    IF p.err \/ at(p, "}") THEN [p |-> p, e |-> acc]
    ELSE IF n.p.err \/ ~atAny(n.p, {",", "}"}) THEN [p |-> Fail(n.p), e |-> acc]
    ELSE UseNames(accept(n.p, ","), all)

RECURSIVE UsePath(_, _)
UsePath(p, path) ==
    LET q == take(p)
        ns == UseNames(take(q), <<>>)
        seg == expectTypeName(q) IN
    IF p.err \/ ~at(p, "::") THEN [p |-> p, path |-> path, all |-> FALSE, names |-> <<>>]
    ELSE IF at(q, "*") THEN [p |-> take(q), path |-> path, all |-> TRUE, names |-> <<>>]
    ELSE IF at(q, "{")
         THEN [p |-> IF ~ns.p.err /\ at(take(ns.p), "as") THEN Fail(ns.p) ELSE expect(ns.p, "}"),
               path |-> path, all |-> FALSE, names |-> ns.e]
    ELSE UsePath(seg.p, Append(path, seg.e))

ParseUse(p) ==
    LET first == expectTypeName(take(p))
        u == UsePath(first.p, <<first.e>>)
        alias == IF ~u.p.err /\ at(u.p, "as") THEN expectIdent(take(u.p))
                 ELSE [p |-> u.p, e |-> IF u.p.err THEN "" ELSE Last(u.path)] IN
    Node(alias.p, <<"use", u.path, alias.e, u.all, u.names>>)

----------------------------------------------------------------------------
(* parseEffectsClause: `effects Key=bits ...`.  The loop goes on at Addr,    *)
(* Cont and Thread only.                                                    *)

NoEffects == [k \in {} |-> ""]

RECURSIVE EffectsTail(_, _)
EffectsTail(p, eff) ==
    LET key == expectIdent(p)
        q == expect(key.p, "=")
        bits == cur(q).s
        known == \/ key.e \in {"Addr", "Cont"}
                 \/ key.e \in {"Ret", "Thread"} /\ bits \in {"0", "1"}
        all == [k \in DOMAIN eff \cup {key.e} |-> IF k = key.e THEN bits ELSE eff[k]] IN
    IF q.err \/ cur(q).k # "INT" \/ ~known THEN [p |-> Fail(q), e |-> eff]
    ELSE IF atAny(take(q), {"Addr", "Cont", "Thread"}) THEN EffectsTail(take(q), all)
    ELSE [p |-> take(q), e |-> all]

ParseEffectsClause(p) ==
    IF ~p.err /\ at(p, "effects") THEN EffectsTail(take(p), NoEffects)
    ELSE [p |-> p, e |-> NoEffects]

----------------------------------------------------------------------------
(* expectFuncName: an operator is spelled out of one or several tokens.      *)

Operators == {"==", "!=", "<", "<=", ">", ">=", "+", "-", "*", "/", "%"}

expectFuncName(p) ==
    LET q == TakeN(p, 2) IN
    CASE p.err -> Stop(p)
      [] atKind(p, "IDENT") -> Node(take(p), cur(p).s)
      [] atShift(p, "<") -> Node(q, "<<")
      [] atShift(p, ">") -> Node(q, ">>")
      [] atAny(p, Operators) -> Node(take(p), cur(p).s)
      [] at(p, "[") -> IF ~at(take(p), "]") THEN Stop(p)
                       ELSE IF at(q, "=") THEN Node(take(q), "[]=") ELSE Node(q, "[]")
      [] OTHER -> Stop(p)

(* parseFunc.  With a body, only Ret and Thread may be stated.               *)
ParseFunc(p, noBody) ==
    LET Body(q, eff) ==
            IF noBody THEN [p |-> q, e |-> Nil]
            ELSE ABlock(IF \E k \in DOMAIN eff \cap {"Addr", "Cont"} : eff[k] # "0"
                        THEN Fail(q) ELSE q) IN
    Then(expectFuncName(take(p)), LAMBDA q, name :
    Then(TypeParams(q, FALSE), LAMBDA r, tps :
    Then(Parameters(r), LAMBDA t, ps :
    Then(ResultType(t), LAMBDA u, ret :
    Then(ParseEffectsClause(skipJunk(u)), LAMBDA v, eff :
    Then(Body(v, eff), LAMBDA w, body :
         Node(w, <<"fn", name, tps, ps, ret, eff, body, {}>>)))))))

(* parseFuncAnnotations, on a member: the set of annotations read.  Only     *)
(* sawBuiltin survives the declaration.                                     *)
RECURSIVE MemberNotes(_, _)
MemberNotes(p, notes) ==
    LET n == expectIdent(take(p)) IN
    IF p.err \/ ~at(p, "@") THEN [p |-> p, e |-> notes]
    ELSE IF n.p.err \/ n.e \notin {"inline", "builtin", "private", "unchecked"} \/ n.e \in notes
         THEN [p |-> Fail(n.p), e |-> notes]
    ELSE MemberNotes(skipNl(n.p), notes \cup {n.e})

WithNotes(r, notes) == IF r.p.err THEN r ELSE [r EXCEPT !.e[8] = notes \ {"builtin"}]

(* parseStruct: fields and methods; `effects` belongs on a function pointer. *)
ParseField(p, notes) ==
    LET n == expectIdent(p)
        ty == AType(expect(n.p, ":"))
        eff == ParseEffectsClause(ty.p)
        wrong == \/ {"inline", "unchecked"} \cap notes # {}
                 \/ "Thread" \in DOMAIN eff.e
                 \/ eff.e # NoEffects /\ ty.e[1] # "fn" IN
    IF eff.p.err \/ wrong THEN Stop(eff.p)
    ELSE Node(eff.p, <<"field", n.e, ty.e, eff.e, "private" \in notes>>)

ParseStructMember(p, fields) ==
    Then(MemberNotes(p, {}), LAMBDA q, notes :
         IF at(q, "fn") THEN WithNotes(AFunc(q, FALSE), notes)
         ELSE IF fields THEN ParseField(q, notes) ELSE Stop(q))

FieldOrMethod(p) == ParseStructMember(p, TRUE)
MethodOnly(p) == ParseStructMember(p, FALSE)

ParseStruct(p) ==
    Then(expectTypeName(take(p)), LAMBDA q, name :
    Then(TypeParams(q, TRUE), LAMBDA r, tps :
    Then(Braced(r, FieldOrMethod), LAMBDA t, ms : Node(t, <<"struct", name, tps, ms, {}>>))))

(* parseTrait: signatures only.                                             *)
ParseSignature(p) == IF at(p, "fn") THEN AFunc(p, TRUE) ELSE Stop(p)

ParseTrait(p) ==
    Then(expectIdent(take(p)), LAMBDA q, name :
         IF name \notin Uppers THEN Stop(q)
         ELSE Then(JunkList(q, expectIdent), LAMBDA r, tps :
              Then(Braced(r, ParseSignature), LAMBDA t, ms :
                   Node(t, <<"trait", name, tps,
                             [i \in DOMAIN ms |-> [ms[i] EXCEPT ![3] = <<"Self">> \o tps]], {}>>))))

(* parseImpl: `<...>` behind the first name belongs to the trait when a `for` *)
(* follows and to the type when none does.                                  *)
DottedName(p) ==
    IF p.err \/ cur(p).k \notin {"IDENT", "TYPE"} THEN [p |-> Fail(p), e |-> <<>>]
    ELSE PathTail(take(p), <<cur(p).s>>)

ParseImpl(p) ==
    LET OfType(q, tps, trait, targs, name, lead) ==
            Then(JunkList(q, AType), LAMBDA r, own :
            Then(Braced(r, MethodOnly), LAMBDA t, ms :
                 Node(t, <<"impl", tps, trait, targs, name, lead \o own, ms, {}>>))) IN
    Then(JunkList(take(p), expectIdent), LAMBDA q, tps :
    Then(DottedName(q), LAMBDA r, first :
    Then(JunkList(r, AType), LAMBDA t, args :
         IF ~at(t, "for") THEN OfType(t, tps, <<>>, <<>>, first, args)
         ELSE Then(DottedName(take(t)), LAMBDA u, name :
                   OfType(u, tps, first, args, name, <<>>)))))

(* parseTypeDecl: one or more variants with their payloads.                  *)
Payload(p) == LET r == AType(p) IN [r EXCEPT !.p = skipNl(@)]

RECURSIVE Variants(_, _)
Variants(p, acc) ==
    LET n == expectIdent(p)
        q == skipNl(n.p)
        ps == List(skipNl(take(q)), ")", Payload)
        v == IF ~q.err /\ at(q, "(") THEN [ps EXCEPT !.p = expect(@, ")")]
             ELSE [p |-> q, e |-> <<>>]
        next == skipNl(v.p)
        all == Append(acc, <<n.e, v.e>>) IN
    IF next.err THEN [p |-> next, e |-> acc]
    ELSE IF at(next, "|") THEN Variants(skipNl(take(next)), all)
    ELSE [p |-> next, e |-> all]

ParseTypeDecl(p) ==
    Then(expectTypeName(take(p)), LAMBDA q, name :
    Then(TypeParams(q, TRUE), LAMBDA r, tps :
    Then(Variants(skipNl(accept(skipNl(expect(r, "=")), "|")), <<>>), LAMBDA t, vs :
         Node(t, <<"type", name, tps, vs, {}>>))))

(* parseGlobalDecl.                                                        *)
ParseGlobalDecl(p) ==
    LET name == expectIdent(take(p))
        ann == IF ~name.p.err /\ at(name.p, ":") THEN AType(take(name.p))
               ELSE [p |-> name.p, e |-> Nil]
        init == IF ~ann.p.err /\ at(ann.p, "=") THEN AnExpr(skipNl(take(ann.p)))
                ELSE [p |-> ann.p, e |-> Nil] IN
    IF ann.p.err \/ (~at(ann.p, "=") /\ ann.e = Nil) THEN Stop(ann.p)
    ELSE Node(init.p, <<"global", name.e, ann.e, init.e, cur(p).s = "var", {}>>)

(* parseExtern: a signature and any number of effect clauses; `owned` is     *)
(* refused.                                                                 *)
RECURSIVE ExternClauses(_, _)
ExternClauses(p, eff) ==
    LET q == skipJunk(p)
        c == ParseEffectsClause(q) IN
    IF q.err \/ at(q, "owned") THEN [p |-> Fail(q), e |-> eff]
    ELSE IF at(q, "effects") THEN ExternClauses(c.p, c.e) ELSE [p |-> q, e |-> eff]

ParseExtern(p) ==
    LET open == expect(expect(take(p), "!"), "(")
        q == expect(take(open), ")")
        f == AFunc(q, TRUE)
        cs == ExternClauses(f.p, f.e[6]) IN
    IF open.err \/ cur(open).k # "STRING" \/ q.err \/ ~at(q, "fn") \/ f.p.err THEN Stop(open)
    ELSE Node(cs.p, <<"extern", cur(open).s, [f.e EXCEPT ![6] = cs.e], {}>>)

----------------------------------------------------------------------------
(* parseModule: annotations are read before the kind of the declaration is   *)
(* known.  Some may not be repeated, some are refused by the declaration     *)
(* that follows, and the rest is recorded or dropped.                        *)

Notes == {"private", "inline", "export", "unchecked", "noCopy", "poolObject",
          "sharesStorage", "frozen", "builtin", "module"}

Once == {"private", "export", "unchecked", "frozen", "module"}

(* `@module`, with a name and a second string or without.                    *)
ParseString(p) ==
    IF p.err \/ cur(skipJunk(p)).k # "STRING" THEN Fail(p) ELSE skipJunk(take(skipJunk(p)))

ModuleNote(p) ==
    LET q == skipJunk(p)
        name == ParseString(take(q)) IN
    IF ~at(q, "(") THEN q
    ELSE IF name.err THEN name
    ELSE expect(IF at(name, ",") THEN ParseString(take(name)) ELSE name, ")")

RECURSIVE TopNotes(_, _)
TopNotes(p, notes) ==
    LET n == expectIdent(take(p))
        q == IF n.e = "module" THEN ModuleNote(n.p) ELSE n.p IN
    IF p.err \/ ~at(p, "@") THEN [p |-> p, e |-> notes]
    ELSE IF n.p.err \/ n.e \notin Notes \/ n.e \in notes \cap Once
         THEN [p |-> Fail(n.p), e |-> notes]
    ELSE TopNotes(skipJunk(q), notes \cup {n.e})

Kind(p) ==
    CASE at(p, "struct") -> "struct" [] at(p, "impl") -> "impl"
      [] at(p, "trait") -> "trait" [] at(p, "type") -> "type"
      [] atAny(p, {"global", "let", "var"}) -> "global"
      [] at(p, "extern") -> "extern" [] at(p, "fn") -> "fn" [] OTHER -> "none"

Refused ==
    [k \in {"struct", "impl", "trait", "type", "global", "extern", "fn", "none"} |->
       CASE k = "struct" -> {"module", "export", "unchecked"}
         [] k \in {"impl", "trait"} -> Notes \ {"builtin"}
         [] k = "type" -> {"unchecked", "noCopy", "sharesStorage", "poolObject", "frozen",
                           "export", "module"}
         [] k = "global" -> {"export", "module", "frozen", "unchecked"}
         [] k = "extern" -> {"export", "module", "frozen", "inline", "unchecked"}
         [] k = "fn" -> {"frozen"}
         [] OTHER -> Notes]

Recorded ==
    [k \in DOMAIN Refused |->
       CASE k = "struct" -> {"private", "noCopy", "frozen", "sharesStorage", "poolObject"}
         [] k \in {"type", "global", "extern"} -> {"private"}
         [] k = "fn" -> {"inline", "unchecked", "private", "builtin", "module", "export"}
         [] OTHER -> {}]

(* A generic function or a coroutine has no one C symbol, so it is neither   *)
(* a module entry nor exported, and nothing is both.                        *)
NoSymbol(f) == f[3] # <<>> \/ (f[5] # Nil /\ f[5][1] = "named" /\ f[5][2] = <<"coroutine">>)

FunctionRefused(f, notes) ==
    \/ {"module", "export"} \subseteq notes
    \/ {"module", "export"} \cap notes # {} /\ NoSymbol(f)

ParseDecl(p) ==
    LET Declaration(k, q, notes) ==
            CASE k = "struct" -> ParseStruct(q) [] k = "impl" -> ParseImpl(q)
              [] k = "trait" -> ParseTrait(q) [] k = "type" -> ParseTypeDecl(q)
              [] k = "global" -> ParseGlobalDecl(accept(q, "global"))
              [] k = "extern" -> ParseExtern(q)
              [] k = "fn" -> AFunc(q, "builtin" \in notes)
              [] OTHER -> Stop(q)
        Checked(k, q, notes) ==
            IF notes \cap Refused[k] # {} THEN Stop(q)
            ELSE Then(Declaration(k, q, notes), LAMBDA r, d :
                 IF k = "fn" /\ FunctionRefused(d, notes) THEN Stop(r)
                 ELSE Node(r, [d EXCEPT ![Len(d)] = notes \cap Recorded[k]])) IN
    IF ~p.err /\ at(p, "use") THEN ParseUse(p)
    ELSE Then(TopNotes(p, {}), LAMBDA q, notes : Checked(Kind(q), q, notes))

RECURSIVE Decls(_, _)
Decls(p, acc) ==
    IF atKind(p, "EOF") THEN [p |-> p, e |-> acc]
    ELSE Then(ParseDecl(p), LAMBDA q, d : Decls(skipJunk(q), Append(acc, d)))

ParseModule(p) == Decls(skipJunk(p), <<>>)

----------------------------------------------------------------------------
(* Which parse function reads what.                                         *)
Descend(what, p) ==
    CASE what = "type" -> ParseType(p)
      [] what = "expr" -> ParseExpr(p)
      [] what = "unary" -> ParseUnary(p)
      [] what = "block" -> ParseBlock(p)
      [] what = "stmt" -> ParseStmt(p)
      [] what = "args" -> ParseArgs(p)
      [] what = "cond" -> ParseCond(p)
      [] what = "function" -> ParseFunc(p, FALSE)
      [] what = "signature" -> ParseFunc(p, TRUE)
      [] what = "module" -> ParseModule(p)
=============================================================================
