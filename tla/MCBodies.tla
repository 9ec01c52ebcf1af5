------------------------------ MODULE MCBodies ------------------------------
(* Function bodies for the passes of Compiler. *)
EXTENDS Naturals, Sequences

SeqsUpTo(S, n) == UNION {[1..m -> S] : m \in 0..n}

X(x) == <<"ident", x>>
Fld(x, k) == <<"field", X(x), k>>

RefValues == {<<"new", 1>>, <<"new", 2>>, <<"null">>, X("r"), X("s"), <<"any", <<X("r"), X("s")>>>>, <<"thru", X("r")>>, X("q")}
BoxValues == {X("b"), X("c"), <<"lit", [f |-> X("r"), g |-> <<"null">>]>>, <<"lit", [f |-> <<"null">>, g |-> <<"new", 1>>]>>}
Wholes ==
    {<<"assign", X(x), e>> : x \in {"r", "s"}, e \in RefValues}
      \cup {<<"assign", X(x), e>> : x \in {"b", "c"}, e \in BoxValues}
      \cup {<<"assign", <<"index", X("b")>>, X("r")>>, <<"assign", X("r"), <<"index", X("c")>>>>}
      \cup {<<"assign", X("r"), Fld("b", "f")>>, <<"assign", X("s"), Fld("d", "g")>>}

Nested(S) ==
    {<<"if", A, B>> : A \in SeqsUpTo(S, 1), B \in SeqsUpTo(S, 1)}
      \cup {<<"while", A>> : A \in SeqsUpTo(S, 2)}
      \cup {<<"block", A>> : A \in SeqsUpTo(S, 1)}
      \cup {<<"match", X("r"), <<[binds |-> {"k"}, body |-> <<a>>], [binds |-> {}, body |-> B]>>>> :
              a \in S, B \in SeqsUpTo(S, 1)}

Exits == {<<"break">>, <<"return">>}
Some == {<<"assign", X("r"), <<"new", 2>>>>, <<"assign", X("b"), <<"lit", [f |-> X("r"), g |-> <<"null">>]>>>>,
         <<"assign", X("s"), X("r")>>, <<"assign", X("c"), X("b")>>, <<"assign", X("s"), X("k")>>}

Whole ==
    {<<a, n, b>> : a \in Some, n \in Nested(Wholes), b \in Some}
      \cup {<<a, <<"assign", X("s"), <<"thru", <<"thru", <<"any", << <<"thru", e>>, X("s") >> >>>>>>>>, b>> :
               a \in Some, e \in {<<"new", 2>>, <<"thru", <<"new", 2>>>>}, b \in Some}
      \cup {<<a, <<"while", <<<<"if", <<b, x>>, <<>>>>, c>>>>>> : a \in Some, b \in Wholes, c \in Wholes, x \in Exits}

(* Stores into fields; a struct gets its fields by a declaration.             *)
Stores ==
    {<<"assign", Fld(x, k), e>> : x \in {"b", "c"}, k \in {"f", "g"},
                                   e \in {<<"new", 1>>, <<"new", 2>>, <<"null">>, X("r"), Fld("b", "g")}}
      \cup {<<"assign", X("b"), e>> : e \in {X("c"), X("d"), <<"lit", [f |-> X("r"), g |-> <<"new", 2>>]>>}}
      \cup {<<"assign", X("r"), Fld("b", "f")>>, <<"assign", X("r"), Fld("d", "f")>>}
Decls == {<<"var", "b", e>> : e \in BoxValues} \cup {<<"var", "r", <<"new", 1>>>>}
Field ==
    {<<a, b, c, d>> : a \in Decls, b \in Stores, c \in Stores, d \in {<<"assign", X("c"), X("b")>>, <<"assign", X("r"), Fld("b", "f")>>}}
      \cup {<<a, n, b>> : a \in Decls, n \in Nested(Stores), b \in {<<"assign", X("c"), X("b")>>}}

(* Bodies around the parameter p and the local h.                            *)
p == <<"p">>
h == <<"h">>
P == <<"id", p>>
HF == <<"path", h>>
Conds == {<<"some">>} \cup {<<op, x>> : op \in {"ne", "eq"}, x \in {P, HF}}
           \cup {<<"and", <<"ne", P>>, <<"deref", P>>>>, <<"or", <<"eq", P>>, <<"deref", P>>>>}
Acts == {<<"use", P>>, <<"use", HF>>, <<"set", P, <<"null">>>>, <<"set", P, <<"new">>>>, <<"set", HF, <<"null">>>>,
         <<"lend", h>>, <<"let", p, <<"new">>>>, <<"var", h, <<"new">>>>, <<"break">>, <<"return">>}
Compound(S) ==
    {<<"if", c, A, E>> : c \in Conds, A \in SeqsUpTo(S, 2), E \in {<<>>} \cup {<< <<a>> >> : a \in S}}
      \cup {<<"while", c, A>> : c \in Conds, A \in SeqsUpTo(S, 2)}
Guard == <<"if", <<"eq", P>>, << <<"return">> >>, <<>>>>
Named == {p, Append(p, 2), Append(p, 4), Append(h, 2)}
Nulls ==
    {<<<<"var", h, <<"new">>>>, g, n, u>> : g \in {Guard, <<"set", HF, <<"new">>>>}, n \in Compound(Acts),
                                             u \in {<<"use", P>>, <<"set", P, <<"null">>>>}}
      \cup {<<<<"var", h, <<"new">>>>, <<"if", c, <<n, a>>, <<>>>>>> : c \in {<<"ne", P>>, <<"ne", HF>>},
              n \in Compound({<<"use", P>>, <<"set", P, <<"null">>>>, <<"use", HF>>, <<"lend", h>>}), a \in {<<"use", P>>, <<"use", HF>>}}
      \cup UNION {{<<<<"let", x, v>>, <<"if", <<"eq", <<"id", x>>>>, << <<"return">> >>, <<>>>>,
                     <<"block", << <<"let", y, w>>, a >>>>, b>> :
                      v \in {<<"new">>, P}, y \in Named, w \in {<<"null">>, P}, a, b \in {<<"use", P>>, <<"use", <<"id", x>>>>, <<"set", P, <<"new">>>>}} :
                   x \in Named}
=============================================================================
