------------------------------ MODULE Grammar ------------------------------
(***************************************************************************)
(* What the parser is checked against: a printer that knows nothing of the  *)
(* recursive descent, only the precedence table of the language, and the    *)
(* meaning of a range loop.                                                 *)
(***************************************************************************)
EXTENDS Parser

Id(x) == <<"id", x>>
a == Id("a")

PT(s) == IF s \in Puncts THEN Tok("PUNCT", s) ELSE Tok("KEYWORD", s)
Word(s) == Tok("IDENT", s)

Paren(ts) == <<PT("(")>> \o ts \o <<PT(")")>>

(* ss[1], sep, ss[2], sep ...                                              *)
Joined(ss, sep) ==
    FoldLeft(LAMBDA acc, s : IF acc = <<>> THEN s ELSE acc \o sep \o s, <<>>, ss)

Comma(ss) == Joined(ss, <<PT(",")>>)

(* The tokens of a type, an expression, a statement or a declaration.        *)
RECURSIVE Written(_, _, _, _)
ShowType(t) == Written("type", t, 0, FALSE)
Show(e, min, cond) == Written("expr", e, min, cond)
ShowStmt(s) == Written("stmt", s, 0, FALSE)

TypeTokens(t) ==
    CASE t[1] = "named" ->
           (IF t[4] THEN <<PT("mut")>> ELSE <<>>)
             \o Joined([i \in DOMAIN t[2] |-> <<Word(t[2][i])>>], <<PT("::")>>)
             \o (IF t[3] = <<>> THEN <<>>
                 ELSE <<PT("<")>> \o Comma([i \in DOMAIN t[3] |-> ShowType(t[3][i])])
                        \o <<PT(">")>>)
      [] t[1] = "ref" ->
           (IF t[3] THEN <<PT("mut")>> ELSE <<>>)
             \o (IF t[4] THEN <<PT("?")>> ELSE <<>>) \o <<PT("ref")>> \o ShowType(t[2])
      [] t[1] = "array" ->
           <<PT("["), Tok("INT", t[2]), PT("]")>> \o ShowType(t[3])
      [] t[1] = "fn" ->
           <<PT("fn")>> \o Paren(Comma([i \in DOMAIN t[2] |-> ShowType(t[2][i])]))
             \o <<PT("->")>> \o ShowType(t[3])
      [] t[1] = "dyn" -> <<Word("dyn"), Word(t[2])>>

(* The precedence table of the language, loosest first.                      *)
Precedence ==
    << {"||"}, {"&&"}, {"|"}, {"^"}, {"&"}, {"==", "!="}, {"<", "<=", ">", ">="},
       {"<<", ">>"}, {"+", "-"}, {"*", "/", "%"} >>

(* How tightly a node binds: the number of its level.  `new` takes what      *)
(* follows its type, so an operand is written in parentheses.               *)
Binds(e) ==
    CASE e[1] \in {"coalesce", "new"} -> 0
      [] e[1] = "bin" -> CHOOSE i \in DOMAIN Precedence : e[2] \in Precedence[i]
      [] e[1] \in {"un", "deref", "refof", "ext"} -> Len(Precedence) + 1
      [] OTHER -> Len(Precedence) + 2

OpTokens(op) == IF op = "<<" THEN <<PT("<"), PT("<")>>
                ELSE IF op = ">>" THEN <<PT(">"), PT(">")>> ELSE <<PT(op)>>

(* The tokens of e where a node of level `min` is expected; `cond` holds     *)
(* where a `{` starts a body.                                               *)
ExprTokens(e, min, cond) ==
    LET unary == Len(Precedence) + 1
        tight == unary + 1
        All(es) == Comma([i \in DOMAIN es |-> Show(es[i], 0, FALSE)])
        Opt(x) == IF x = Nil THEN <<>> ELSE Show(x, 0, FALSE)
        lvl == Binds(e) IN
    IF lvl < min \/ (cond /\ e[1] = "lit" /\ e[2] # <<>>)
    THEN Paren(Show(e, 0, FALSE))
    ELSE CASE e[1] = "id" -> <<Word(e[2])>>
           [] e[1] = "int" -> <<Tok("INT", e[2])>>
           [] e[1] = "str" -> <<Tok("STRING", e[2])>>
           [] e[1] = "null" -> <<Word("null")>>
           [] e[1] = "bool" -> <<PT(e[2])>>
           [] e[1] = "coalesce" -> Show(e[2], 1, cond) \o <<PT("??")>> \o Show(e[3], 0, cond)
           [] e[1] = "bin" -> Show(e[3], lvl, cond) \o OpTokens(e[2]) \o Show(e[4], lvl + 1, cond)
           [] e[1] = "un" -> <<PT(e[2])>> \o Show(e[3], unary, cond)
           [] e[1] = "deref" -> <<PT("*")>> \o Show(e[2], unary, cond)
           [] e[1] = "refof" -> <<PT("ref")>> \o Show(e[2], unary, cond)
           [] e[1] = "ext" -> <<Word("ext")>> \o
                IF e[2][1] \in {"deref", "lit"} THEN Paren(Show(e[2], 0, FALSE))
                ELSE Show(e[2], unary, cond)
           [] e[1] = "sign" -> Show(e[2], tight, cond) \o <<PT("!")>>
           [] e[1] = "try" -> Show(e[2], tight, cond) \o <<PT("?")>>
           [] e[1] = "field" -> Show(e[2], tight, cond) \o <<PT("."), Word(e[3])>>
           [] e[1] = "method" ->
                (IF e[5] # "" THEN Show(<<"dynv", e[5], e[2]>>, tight, cond)
                 ELSE Show(e[2], tight, cond)) \o <<PT("."), Word(e[3])>> \o Paren(All(e[4]))
           [] e[1] = "call" ->
                (IF e[2][1] \in {"field", "assoc"} THEN Paren(Show(e[2], 0, FALSE))
                 ELSE Show(e[2], tight, cond)) \o Paren(All(e[3]))
           [] e[1] = "index" -> Show(e[2], tight, cond) \o <<PT("[")>> \o
                                  Show(e[3], 0, FALSE) \o <<PT("]")>>
           [] e[1] = "slice" -> Show(e[2], tight, cond) \o <<PT("[")>> \o Opt(e[3])
                                  \o <<PT("..")>> \o Opt(e[4]) \o <<PT("]")>>
           [] e[1] = "lit" ->
                Joined([i \in DOMAIN e[2] |-> <<Word(e[2][i])>>], <<PT("::")>>) \o <<PT("{")>>
                  \o Comma([i \in DOMAIN e[3] |-> <<Word(e[3][i][1]), PT(":")>>
                                                    \o Show(e[3][i][2], 0, cond)]) \o <<PT("}")>>
           [] e[1] = "array" -> <<PT("[")>> \o All(e[2])
                \o (IF e[3] THEN (IF e[2] = <<>> THEN <<>> ELSE <<PT(",")>>) \o <<PT("...")>> ELSE <<>>)
                \o <<PT("]")>>
           [] e[1] = "conv" -> <<Tok("TYPE", e[2])>> \o Paren(Show(e[3], 0, cond))
           [] e[1] = "fnconv" -> ShowType(e[2]) \o Paren(Show(e[3], 0, cond))
           [] e[1] = "dynv" -> <<Word("dyn"), Word(e[2])>> \o Paren(Show(e[3], 0, cond))
           [] e[1] = "new" -> <<Word("new")>> \o ShowType(e[2])
                \o (IF e[3] = Nil THEN <<>> ELSE <<PT("[")>> \o Show(e[3], 0, FALSE) \o <<PT("]")>>)
           [] e[1] = "gencall" -> <<Word(e[2]), PT("<")>>
                \o Comma([i \in DOMAIN e[3] |-> ShowType(e[3][i])]) \o <<PT(">")>> \o Paren(All(e[4]))
           [] e[1] = "assoc" ->
                LET path == (IF e[4] = <<>> THEN <<e[2]>> ELSE e[4]) IN
                (IF e[3] = <<>> THEN Joined([i \in DOMAIN path |-> <<Word(path[i])>>], <<PT("::")>>)
                 ELSE <<Word(e[2]), PT("<")>> \o Comma([i \in DOMAIN e[3] |-> ShowType(e[3][i])])
                        \o <<PT(">")>>)
                  \o <<PT("::"), Word(e[5])>>
                  \o (IF e[6] # <<>> \/ e[7] THEN Paren(All(e[6])) ELSE <<>>)
           [] e[1] = "lambda" -> <<PT("fn")>>
                \o Paren(Comma([i \in DOMAIN e[2] |-> <<Word(e[2][i][1]), PT(":")>> \o ShowType(e[2][i][2])]))
                \o (IF e[3] = <<>> THEN <<>>
                    ELSE <<PT("[")>> \o Comma([i \in DOMAIN e[3] |-> <<PT("mut"), PT("ref"), Word(e[3][i])>>])
                           \o <<PT("]")>>)
                \o (IF e[4] = Nil THEN <<>> ELSE <<PT("->")>> \o ShowType(e[4]))
                \o <<PT("{"), PT("return")>> \o Show(e[5][2][1][2], 0, cond) \o <<PT("}")>>

----------------------------------------------------------------------------
(* Expressions to print: every constructor over the nodes in S, with atoms   *)
(* from A for the other operands.                                           *)

T == <<"named", <<"T">>, <<>>, FALSE>>
U == <<"named", <<"m", "U">>, <<T>>, TRUE>>
TypesOver(S) ==
    S \cup {<<"ref", t, m, n>> : t \in S, m \in BOOLEAN, n \in BOOLEAN}
      \cup {<<"array", "1", t>> : t \in S} \cup {<<"dyn", "T">>}
      \cup {<<"fn", <<>>, t>> : t \in S} \cup {<<"fn", <<t, T>>, T>> : t \in S}
      \cup {<<"named", <<"B">>, <<t, T>>, m>> : t \in S, m \in BOOLEAN}

OneOp == {"||", "&&", "|", "^", "&", "==", "<", ">", "<<", ">>", "-", "/"}
Body(e) == <<"block", << <<"return", e>> >> >>

Prefixed(S) ==
    {<<"un", o, x>> : o \in {"!", "-"}, x \in S} \cup {<<"deref", x>> : x \in S}
      \cup {<<"refof", x>> : x \in S} \cup {<<"ext", x>> : x \in S}

Suffixed(S, A) ==
    {<<k, x>> : k \in {"sign", "try"}, x \in S}
      \cup {<<"field", x, "f">> : x \in S \ {y \in S : y[1] = "dynv" \/ (y[1] = "method" /\ y[5] # "")}}
      \cup {<<"method", x, "f", <<y>>, IF x[1] = "method" THEN x[5] ELSE "">> :
              x \in {z \in S : z[1] # "dynv"}, y \in A}
      \cup {<<"method", x, "f", <<>>, "T">> : x \in {y \in S : y[1] # "method"}}
      \cup {<<"call", x, <<>>>> : x \in S} \cup {<<"call", x, <<y, x>>>> : x \in A, y \in S}
      \cup {<<"index", x, y>> : x \in S, y \in A} \cup {<<"index", x, y>> : x \in A, y \in S}
      \cup {<<"slice", x, y, Nil>> : x \in S, y \in A} \cup {<<"slice", x, Nil, y>> : x \in A, y \in S}

Primaries(S) ==
    {<<"array", <<x, a>>, r>> : x \in S, r \in BOOLEAN}
      \cup {<<"lit", n, << <<"f", x>>, <<"g", a>> >> >> : x \in S, n \in {<<>>, <<"P">>, <<"m", "P">>}}
      \cup {<<"conv", "i32", x>> : x \in S} \cup {<<"fnconv", <<"fn", <<T>>, T>>, x>> : x \in S}
      \cup {<<"dynv", "T", x>> : x \in S} \cup {<<"new", T, x>> : x \in S \cup {Nil}}
      \cup {<<"gencall", "g", <<T>>, <<x>>>> : x \in S}
      \cup {<<"assoc", "m", <<>>, p, "f", <<x>>, TRUE>> : x \in S, p \in {<<>>, <<"m", "n">>}}
      \cup {<<"assoc", "m", <<T>>, <<>>, "f", <<x>>, FALSE>> : x \in S}
      \cup {<<"assoc", "m", <<>>, <<"m", "n">>, "c", <<>>, FALSE>>}
      \cup {<<"lambda", << <<"x", T>> >>, cs, T, Body(x)>> : x \in S, cs \in {<<>>, <<"a">>}}

Over(S, A) ==
    {<<"bin", o, x, y>> : o \in OneOp, x \in S, y \in A}
      \cup {<<"bin", o, x, y>> : o \in OneOp, x \in A, y \in S}
      \cup {<<"coalesce", x, y>> : x \in S, y \in A} \cup {<<"coalesce", x, y>> : x \in A, y \in S}
      \cup Prefixed(S) \cup Suffixed(S, A) \cup Primaries(S)

Atoms == {a, <<"lit", <<"P">>, <<>>>>}
Shallow == Atoms \cup Over(Atoms, {a})
Deep == Over(Shallow, {a})

----------------------------------------------------------------------------
(* Statements to print, one per line; the loops are printed as they are      *)
(* written and expected as parseFor rewrites them.                          *)

Lines(ss) == <<PT("{"), NL>> \o FoldLeft(LAMBDA acc, s : acc \o s \o <<NL>>, <<>>, ss)
               \o <<PT("}")>>

StmtTokens(s) ==
    LET Sub(b) == Lines([i \in DOMAIN b[2] |-> ShowStmt(b[2][i])]) IN
    CASE s[1] = "expr" -> Show(s[2], 0, FALSE)
      [] s[1] = "var" ->
           (IF s[6] THEN <<Word("global")>> ELSE <<>>)
             \o <<PT(IF s[5] THEN "var" ELSE "let"), Word(s[2])>>
             \o (IF s[3] = Nil THEN <<>> ELSE <<PT(":")>> \o ShowType(s[3]))
             \o (IF s[4] = Nil THEN <<>> ELSE <<PT("=")>> \o Show(s[4], 0, FALSE))
      [] s[1] = "overwrite" -> <<PT("@"), Word("overwrite")>> \o ShowStmt(s[2])
      [] s[1] = "assign" -> Show(s[2], 0, FALSE) \o <<PT(s[3])>> \o Show(s[4], 0, FALSE)
      [] s[1] = "return" -> <<PT("return")>> \o (IF s[2] = Nil THEN <<>> ELSE Show(s[2], 0, FALSE))
      [] s[1] = "trap" -> <<Word("trap")>> \o Paren(Show(s[2], 0, FALSE))
      [] s[1] = "yield" -> (IF s[2] = "" THEN <<>> ELSE <<Word(s[2]), PT("=")>>)
                             \o <<Word("yield")>> \o Show(s[3], 0, FALSE)
      [] s[1] \in {"break", "continue"} -> <<PT(s[1])>>
      [] s[1] = "block" -> Sub(s)
      [] s[1] = "while" -> <<PT("while")>> \o Show(s[2], 0, TRUE) \o Sub(s[3])
      [] s[1] = "if" -> <<PT("if")>> \o Show(s[2], 0, TRUE) \o Sub(s[3])
           \o (IF s[4] = Nil THEN <<>> ELSE <<NL, PT("else")>> \o ShowStmt(s[4]))
      [] s[1] = "domain" -> Show(s[2], 0, FALSE) \o Sub(s[3])
      [] s[1] = "match" -> <<PT("match")>> \o Show(s[2], 0, TRUE) \o
           Lines([i \in DOMAIN s[3] |->
                    <<Word(s[3][i][1])>>
                      \o (IF s[3][i][2] = <<>> THEN <<>>
                          ELSE Paren(Comma([j \in DOMAIN s[3][i][2] |-> <<Word(s[3][i][2][j])>>])))
                      \o <<PT("=>")>>
                      \o (IF Len(s[3][i][3][2]) = 1 /\ s[3][i][3][2][1][1] # "block"
                          THEN ShowStmt(s[3][i][3][2][1]) ELSE Sub(s[3][i][3]))])
      [] s[1] = "range" -> <<PT("for"), Word(s[2]), Word("in")>> \o Show(s[3], 0, TRUE)
                             \o <<PT("..")>> \o Show(s[4], 0, TRUE) \o Sub(s[5])
      [] s[1] = "each" -> <<PT("for"), Word(s[2]), Word("in")>> \o Show(s[3], 0, TRUE) \o Sub(s[4])
      [] s[1] = "cfor" -> <<PT("for"), PT("(")>> \o ShowStmt(s[2]) \o <<PT(";")>>
                            \o Show(s[3], 0, FALSE) \o <<PT(";")>> \o ShowStmt(s[4])
                            \o <<PT(")")>> \o Sub(s[5])

RECURSIVE Rewritten(_)
Rewritten(s) ==
    LET Each(b) == [b EXCEPT ![2] = [i \in DOMAIN b[2] |-> Rewritten(b[2][i])]] IN
    CASE s[1] = "range" -> RangeLoop(s[2], s[3], s[4], Each(s[5]))
      [] s[1] = "each" -> EachLoop(s[2], s[3], Each(s[4]))
      [] s[1] = "cfor" -> ForBlock(<<s[2]>>, s[3], <<Each(s[5]), s[4]>>)
      [] s[1] = "block" -> Each(s)
      [] s[1] \in {"while", "domain"} -> [s EXCEPT ![3] = Each(@)]
      [] s[1] = "if" -> [s EXCEPT ![3] = Each(@), ![4] = IF @ = Nil THEN @ ELSE Rewritten(@)]
      [] s[1] = "match" -> [s EXCEPT ![3] = [i \in DOMAIN @ |-> [@[i] EXCEPT ![3] = Each(@)]]]
      [] OTHER -> s

Lit == <<"lit", <<"P">>, << <<"f", a>> >> >>
Set(x, v) == <<"assign", Id(x), "=", v>>

Simple ==
    {<<"var", "v", ann, init, m, g>> : ann \in {Nil, U}, init \in {Lit}, m \in BOOLEAN, g \in BOOLEAN}
      \cup {<<"overwrite", <<"var", "v", T, Nil, TRUE, FALSE>>>>, <<"break">>, <<"continue">>,
            <<"trap", a>>, <<"yield", "", Lit>>, <<"yield", "v", a>>, <<"return", Nil>>,
            <<"return", Lit>>, <<"expr", <<"call", a, <<Lit>>>>>>}
      \cup {<<"assign", a, o, Lit>> : o \in {"=", "+="}}

Blocks(S) == {<<"block", <<>>>>} \cup {<<"block", <<s>>>> : s \in S}

Nesting(S) ==
    LET B == Blocks(S) IN
    B \cup {<<"while", Lit, b>> : b \in B} \cup {<<"if", Lit, b, Nil>> : b \in B}
      \cup {<<"if", a, b, <<"block", <<>>>>>> : b \in B}
      \cup {<<"if", a, <<"block", <<>>>>, <<"if", Lit, b, c>>>> : b \in B, c \in {Nil, <<"block", <<>>>>}}
      \cup {<<"domain", <<"field", a, "run">>, b>> : b \in B}
      \cup {<<"match", Lit, << <<"x", bs, b>>, <<"y", <<>>, <<"block", <<>>>>>> >> >> :
              b \in B, bs \in {<<>>, <<"u", "w">>}}
      \cup {<<"range", "i", Lit, a, b>> : b \in B} \cup {<<"each", "i", a, b>> : b \in B}
      \cup {<<"cfor", Set("i", Lit), Lit, Set("i", a), b>> : b \in B}

Statements == Simple \cup Nesting(Simple) \cup Nesting(Nesting({<<"break">>}))

----------------------------------------------------------------------------
(* Declarations to print.                                                   *)

ShowEffects(eff) ==
    IF eff = NoEffects THEN <<>>
    ELSE LET keys == SelectSeq(<<"Ret", "Addr", "Cont", "Thread">>, LAMBDA k : k \in DOMAIN eff) IN
         <<Word("effects")>> \o
           FoldLeft(LAMBDA acc, k : acc \o <<Word(k), PT("="), Tok("INT", eff[k])>>, <<>>, keys)

Angle(ss) == IF ss = <<>> THEN <<>> ELSE <<PT("<")>> \o Comma(ss) \o <<PT(">")>>
Names(ns) == [i \in DOMAIN ns |-> <<Word(ns[i])>>]
TypesOf(ts) == [i \in DOMAIN ts |-> ShowType(ts[i])]
Path(ns) == Joined(Names(ns), <<PT("::")>>)
Noted(notes) ==
    FoldLeft(LAMBDA acc, n : acc \o <<PT("@"), Word(n), NL>>, <<>>, SetToSeq(notes))

FnName(n) ==
    CASE n \in {"<<", ">>"} -> OpTokens(n)
      [] n = "[]" -> <<PT("["), PT("]")>> [] n = "[]=" -> <<PT("["), PT("]"), PT("=")>>
      [] n \in Puncts -> <<PT(n)>> [] OTHER -> <<Word(n)>>

ShowFn(f, tps) ==
    Noted(f[8]) \o <<PT("fn")>> \o FnName(f[2]) \o Angle(Names(tps))
      \o Paren(Comma([i \in DOMAIN f[4] |-> <<Word(f[4][i][1]), PT(":")>> \o ShowType(f[4][i][2])]))
      \o (IF f[5] = Nil THEN <<>> ELSE <<PT("->")>> \o ShowType(f[5]))
      \o ShowEffects(f[6]) \o (IF f[7] = Nil THEN <<>> ELSE ShowStmt(f[7]))

ShowMember(m) ==
    IF m[1] = "fn" THEN ShowFn(m, m[3])
    ELSE (IF m[5] THEN Noted({"private"}) ELSE <<>>)
           \o <<Word(m[2]), PT(":")>> \o ShowType(m[3]) \o ShowEffects(m[4])

ShowVariant(v) ==
    <<Word(v[1])>> \o (IF v[2] = <<>> THEN <<>> ELSE Paren(Comma(TypesOf(v[2]))))

DeclTokens(d) ==
    LET Ms(ms) == Lines([i \in DOMAIN ms |-> ShowMember(ms[i])]) IN
    (IF d[1] \in {"use", "fn"} THEN <<>> ELSE Noted(d[Len(d)])) \o
    CASE d[1] = "use" -> <<PT("use")>> \o Path(d[2])
           \o (IF d[4] THEN <<PT("::"), PT("*")>>
               ELSE IF d[5] # <<>> THEN <<PT("::"), PT("{")>> \o Comma(Names(d[5])) \o <<PT("}")>>
               ELSE <<>>)
           \o (IF d[3] = Last(d[2]) THEN <<>> ELSE <<PT("as"), Word(d[3])>>)
      [] d[1] = "fn" -> ShowFn(d, d[3])
      [] d[1] = "struct" -> <<PT("struct"), Word(d[2])>> \o Angle(Names(d[3])) \o Ms(d[4])
      [] d[1] = "trait" -> <<PT("trait"), Word(d[2])>> \o Angle(Names(d[3])) \o
           Lines([i \in DOMAIN d[4] |-> ShowFn(d[4][i], <<>>)])
      [] d[1] = "impl" -> <<PT("impl")>> \o Angle(Names(d[2]))
           \o (IF d[3] = <<>> THEN <<>> ELSE Path(d[3]) \o Angle(TypesOf(d[4])) \o <<PT("for")>>)
           \o Path(d[5]) \o Angle(TypesOf(d[6])) \o Ms(d[7])
      [] d[1] = "type" -> <<PT("type"), Word(d[2])>> \o Angle(Names(d[3])) \o <<PT("="), NL>>
           \o Joined([i \in DOMAIN d[4] |-> ShowVariant(d[4][i])], <<NL, PT("|")>>)
      [] d[1] = "global" -> <<PT(IF d[5] THEN "var" ELSE "let"), Word(d[2])>>
           \o (IF d[3] = Nil THEN <<>> ELSE <<PT(":")>> \o ShowType(d[3]))
           \o (IF d[4] = Nil THEN <<>> ELSE <<PT("=")>> \o Show(d[4], 0, FALSE))
      [] d[1] = "extern" -> <<PT("extern"), PT("!"), PT("("), Tok("STRING", d[2]), PT(")")>>
                              \o ShowFn(d[3], d[3][3])

Written(what, x, min, cond) ==
    CASE what = "type" -> TypeTokens(x)
      [] what = "expr" -> ExprTokens(x, min, cond)
      [] what = "stmt" -> StmtTokens(x)
      [] what = "decl" -> DeclTokens(x)

(* One step from `base` in every direction the declaration has.              *)
Effect(S) == {[k \in ks |-> "1"] : ks \in SUBSET S}
FnPtr == <<"fn", <<T>>, T>>
Prm(x) == <<x, T>>
BodyOne == <<"block", << <<"return", Lit>> >> >>
Fn(n, tps, ps, r, eff, b, notes) == <<"fn", n, tps, ps, r, eff, b, notes>>

Functions1 ==
    {Fn("f", tps, ps, r, eff, BodyOne, {}) :
        tps \in {<<>>, <<"T", "U">>}, ps \in {<<>>, <<Prm("x"), Prm("y")>>}, r \in {Nil, U},
        eff \in Effect({"Ret", "Thread"})}
    \cup {Fn(n, <<>>, <<>>, T, NoEffects, BodyOne, {}) : n \in Operators \cup {"<<", ">>", "[]", "[]="}}
    \cup {Fn("f", <<>>, <<>>, T, NoEffects, BodyOne, ns) :
             ns \in SUBSET {"inline", "unchecked", "private"}}

Fields == {<<"field", "x", t, NoEffects, b>> : t \in {T, U, FnPtr}, b \in BOOLEAN}
            \cup {<<"field", "x", FnPtr, e, FALSE>> : e \in Effect({"Ret", "Addr", "Cont"})}
Method == Fn("m", <<>>, <<Prm("self")>>, Nil, NoEffects, BodyOne, {"inline"})

Declared ==
    {<<"use", p, n, FALSE, <<>>>> : p \in {<<"a">>, <<"a", "b">>}, n \in {"a", "b", "c"}}
    \cup {<<"use", <<"a", "b">>, "b", all, IF all THEN <<>> ELSE <<"x", "y">>>> : all \in BOOLEAN}
    \cup Functions1
    \cup {<<"struct", "s", tps, ms, ns>> :
             tps \in {<<>>, <<"T">>}, ms \in {<<>>} \cup {<<f, Method, g>> : f, g \in Fields},
             ns \in {{}, {"private"}, {"noCopy", "frozen"}}}
    \cup {<<"trait", "T", tps, [i \in 1..n |-> Fn("m", <<"Self">> \o tps, <<Prm("self")>>, r, e, Nil, {})], {}>> :
             tps \in {<<>>, <<"U">>}, n \in 0..2, r \in {Nil, T}, e \in Effect({"Ret", "Addr"})}
    \cup {<<"impl", tps, tr, IF tr = <<>> THEN <<>> ELSE ta, <<"m", "s">>, as, [i \in 1..n |-> Method], {}>> :
             tps \in {<<>>, <<"T">>}, tr \in {<<>>, <<"T">>, <<"m", "T">>}, ta \in {<<>>, <<U>>},
             as \in {<<>>, <<T>>, <<U, T>>}, n \in 0..2}
    \cup {<<"type", "s", tps, vs, ns>> : tps \in {<<>>, <<"T">>}, ns \in {{}, {"private"}},
             vs \in SeqOf({<<"x", <<>>>>, <<"y", <<T, U>>>>}, 2) \ {<<>>}}
    \cup {<<"global", "g", ty, e, m, {}>> : ty \in {T, U}, e \in {Nil}, m \in BOOLEAN}
    \cup {<<"global", "g", ty, Lit, m, {"private"}>> : ty \in {Nil, U}, m \in BOOLEAN}
    \cup {<<"extern", "h", Fn("f", <<>>, <<Prm("x")>>, r, e, Nil, {}), {}>> :
             r \in {Nil, T}, e \in Effect({"Ret", "Addr", "Cont", "Thread"})}

----------------------------------------------------------------------------
(* The meaning of a loop, by running it.  A store is a stack of scopes; the  *)
(* signal says how a statement was left.  `continue` goes to the forStep.    *)

IntOf(s) == CASE s = "0" -> 0 [] s = "1" -> 1 [] s = "2" -> 2 [] s = "3" -> 3

Place(env, x) == Max({i \in DOMAIN env : x \in DOMAIN env[i]})

Eval(env, e) ==
    LET Val(x) == IF x[1] = "id" THEN env[Place(env, x[2])][x[2]] ELSE IntOf(x[2]) IN
    IF e[1] = "bin" THEN IF Val(e[3]) < Val(e[4]) THEN 1 ELSE 0 ELSE Val(e)

Store(env, x, v) == [env EXCEPT ![Place(env, x)][x] = v]
Declare(env, x, v) ==
    [env EXCEPT ![Len(env)] = [y \in DOMAIN @ \cup {x} |-> IF y = x THEN v ELSE @[y]]]

Scope == [x \in {} |-> 0]
Left(env, sig) == [env |-> env, sig |-> sig]
Pop(r) == [r EXCEPT !.env = Front(@)]

RECURSIVE Exec(_, _, _), ExecSeq(_, _, _)
Exec(env, s, fuel) ==
    LET v == Eval(env, s[4])
        body == Exec(env, s[3], fuel)
        main == ExecSeq(Append(env, Scope), Front(s[2]), fuel) IN
    CASE s[1] = "var" -> Left(Declare(env, s[2], v), "next")
      [] s[1] = "assign" ->
           Left(Store(env, s[2][2], IF s[3] = "+=" THEN Eval(env, s[2]) + v ELSE v), "next")
      [] s[1] \in {"break", "continue"} -> Left(env, s[1])
      [] s[1] = "block" -> Pop(ExecSeq(Append(env, Scope), s[2], fuel))
      [] s[1] = "loop" ->
           IF main.sig = "break" THEN Pop(main)
           ELSE Pop(Exec(main.env, Last(s[2]), fuel))
      [] s[1] = "if" -> IF Eval(env, s[2]) = 1 THEN body ELSE Left(env, "next")
      [] s[1] = "while" ->
           IF Eval(env, s[2]) = 0 \/ fuel = 0 THEN Left(env, "next")
           ELSE IF body.sig = "break" THEN Left(body.env, "next")
           ELSE Exec(body.env, s, fuel - 1)

ExecSeq(env, ss, fuel) ==
    IF ss = <<>> THEN Left(env, "next")
    ELSE LET r == Exec(env, Head(ss), fuel) IN
         IF r.sig = "next" THEN ExecSeq(r.env, Tail(ss), fuel) ELSE r

(* `for x in lo..hi`: the bounds are values of the moment the loop is       *)
(* entered; x is x + 1 after a round, however the round ended.              *)
RECURSIVE Rounds(_, _, _, _, _)
Rounds(env, x, hi, b, fuel) ==
    LET r == Exec(env, b, fuel) IN
    IF env[Len(env)][x] >= hi \/ fuel = 0 \/ r.sig = "break"
    THEN Pop(IF env[Len(env)][x] >= hi \/ fuel = 0 THEN Left(env, "next") ELSE r).env
    ELSE Rounds(Store(r.env, x, r.env[Len(env)][x] + 1), x, hi, b, fuel - 1)

ForRuns(env, x, lo, hi, b, fuel) ==
    Rounds(Append(env, [y \in {x} |-> Eval(env, lo)]), x, Eval(env, hi), b, fuel)

LoopBodies ==
    LET part == { <<"assign", Id("s"), "+=", Id("i")>>, Set("n", <<"int", "0">>),
                  Var("i", <<"int", "3">>, TRUE), <<"assign", Id("i"), "+=", <<"int", "1">>>>,
                  <<"if", <<"bin", "<", Id("i"), Id("n")>>, <<"block", << <<"continue">> >> >>, Nil>>,
                  <<"if", <<"bin", "<", <<"int", "1">>, Id("i")>>, <<"block", << <<"break">> >> >>, Nil>> }
    IN {<<"block", b>> : b \in SeqOf(part, 3)}
=============================================================================
