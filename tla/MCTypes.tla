------------------------------ MODULE MCTypes ------------------------------
(* Definitions and types for the questions of Types.                         *)
EXTENDS Sequences, SequencesExt, Integers, TLC

Widths == [i8 |-> 2, u8 |-> 2, i16 |-> 3, u16 |-> 3, f32 |-> 4, i32 |-> 5, u32 |-> 5,
         f64 |-> 6, i64 |-> 7, u64 |-> 7]

Bi(b) == <<"builtin", b>>
St(n) == <<"struct", <<n>> >>
Gn(n, t) == <<"generic", <<n>>, FALSE, <<t>> >>
En(n, t) == <<"enum", <<n>>, <<t>> >>
View(m, t) == <<"generic", <<"slice">>, m, <<t>> >>
Ref(m, u, t) == <<"ref", m, u, t>>
T == <<"param", <<"T">>, 1>>
U == <<"param", <<"U">>, 2>>
Plain(f) == [params |-> <<>>, fields |-> f, frozen |-> FALSE]
Over(f) == [params |-> << <<"T">> >>, fields |-> f, frozen |-> FALSE]
slice == Over(<<Ref(FALSE, FALSE, T), Bi("i64")>>)
opt == [params |-> << <<"T">> >>, variants |-> << <<>>, <<T>> >>]

Sample ==
    [aliases |-> {<< <<"pt">>, <<"p">> >>, << <<"two">>, <<"p">> >>, << <<"two">>, <<"r">> >>},
     structs |-> (<<"p">> :> [Plain(<<Bi("i32")>>) EXCEPT !.frozen = TRUE])
              @@ (<<"r">> :> Plain(<<Ref(TRUE, FALSE, St("p"))>>))
              @@ (<<"n">> :> Plain(<<Ref(FALSE, TRUE, St("n"))>>))
              @@ (<<"p", "p">> :> Plain(<<Bi("i8")>>))
              @@ (<<"box">> :> Over(<<T>>))
              @@ (<<"own">> :> Over(<<Ref(TRUE, TRUE, T)>>))
              @@ (<<"pr">> :> [params |-> << <<"T">>, <<"U">> >>, fields |-> <<T, U>>, frozen |-> FALSE])
              @@ (<<"win">> :> Over(<<View(TRUE, T), <<"array", 2, View(FALSE, T)>> >>))
              @@ (<<"slice">> :> slice),
     enums |-> (<<"e">> :> [params |-> <<>>, variants |-> << <<>>, <<>> >>])
            @@ (<<"opt">> :> opt)
            @@ (<<"all">> :> [params |-> << <<"T">> >>, variants |-> << <<T>>, <<>> >>])]

Base == {Bi(b) : b \in DOMAIN Widths \cup {"bool"}}
          \cup {St("p"), St("r"), St("n"), <<"struct", <<"p", "p">> >>, <<"enum", <<"e">>, <<>> >>}
Made(S) ==
    {Ref(m, u, t) : m \in BOOLEAN, u \in BOOLEAN, t \in S} \cup {<<"array", n, t>> : n \in {2, 3}, t \in S}
      \cup {Gn(g, t) : g \in {"box", "own", "win"}, t \in S} \cup {View(m, t) : m \in BOOLEAN, t \in S}
      \cup {En(g, t) : g \in {"opt", "all"}, t \in S} \cup {<<"fn", t, <<>> >> : t \in S}
Pairs == {<<"generic", <<"pr">>, FALSE, <<t, u>> >> : t \in {St("p"), <<"struct", <<"p", "p">> >>}, u \in {St("p"), <<"struct", <<"p", "p">> >>}}
Some == Base \cup Pairs \cup Made({Bi("i8"), St("r"), St("p")}) \cup Made(Made({Bi("i8")}))

Targets == Some \cup Made({<<"void">>}) \cup {Ref(FALSE, FALSE, Ref(FALSE, FALSE, <<"void">>))}

Name(n) == <<"name", <<n>>, FALSE, <<>> >>
Words == {Name(n) : n \in {"T", "i8", "p", "pt", "two", "e", "nope", "box", "void"}}
Written(S) ==
    {Ref(m, u, t) : m \in BOOLEAN, u \in BOOLEAN, t \in S} \cup {<<"array", 2, t>> : t \in S}
      \cup {<<"name", <<g>>, m, <<t>> >> : g \in {"box", "slice", "opt", "p"}, m \in BOOLEAN, t \in S}
      \cup {<<"fn", t, <<u>> >> : t \in S, u \in S}
Args == {Name("i8"), Name("p"), Ref(TRUE, FALSE, Name("p"))}
          \cup {<<"name", <<"slice">>, m, <<Name("i8")>> >> : m \in BOOLEAN}

(* Programs of two structs x and y, y in x; the checker met the instances in   *)
(* any order.                                                                *)
InX == {Bi("i32"), St("y"), Gn("box", St("y")), <<"array", 2, St("y")>>, En("opt", St("y")), En("opt", Bi("i32")),
        Ref(FALSE, FALSE, St("x")), View(TRUE, St("x")), Gn("box", Gn("box", St("y"))), En("opt", Gn("box", St("y")))}
InY == {Bi("i32"), <<"array", 2, Bi("i32")>>, Gn("box", Bi("i32")), En("opt", Bi("i32")), View(TRUE, St("y"))}
Met(t) == IF t[1] = "generic" THEN {<<"generic", t[2], FALSE, t[4]>>} ELSE IF t[1] \in {"array", "enum"} THEN {t} ELSE {}
Program(a, b, c) ==
    LET D == [aliases |-> {},
              structs |-> (<<"x">> :> Plain(<<a, b>>)) @@ (<<"y">> :> Plain(<<c>>)) @@ (<<"box">> :> Over(<<T>>)) @@ (<<"slice">> :> slice),
              enums |-> (<<"opt">> :> opt)] IN
    {[D |-> D, structs |-> s, known |-> k, rounds |-> 4] :
        s \in {<< <<"x">>, <<"y">> >>, << <<"y">>, <<"x">> >>}, k \in SetToSeqs(Met(a) \cup Met(b) \cup Met(c))}

Questions ==
    [resolve |-> (Words \cup Written(Words) \cup Written(Written({Name("T"), Name("p")}))) \X Args,
     assign |-> Targets \X Some \X {<<"other">>},
     literal |-> Base \X {Bi("i32")} \X {<<"int", v>> : v \in -64..63},
     layout |-> Some \cup Made(Base),
     emit |-> UNION {Program(a, b, c) : a \in InX, b \in InX, c \in InY}]
=============================================================================
