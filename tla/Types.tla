------------------------------- MODULE Types -------------------------------
(***************************************************************************)
(* The type table and the questions the checker asks of a type               *)
(* (src/src/types/types.c, typelayer.c, check.c, check_lookup.c), and the     *)
(* order in which the generator defines the C structs (codegen.c).            *)
(*                                                                         *)
(* A name is a sequence of words: a_b is <<"a", "b">>.                       *)
(* Written types   <<"name", n, mut, args>>, <<"ref", mut, nullable, t>>,     *)
(*                 <<"array", size, t>>, <<"fn", ret, params>>.               *)
(* Types           the last three, and <<"builtin", n>>, <<"void">>,          *)
(*                 <<"error">>, <<"param", n, index>>, <<"struct", n>>,       *)
(*                 <<"generic", n, mut, args>>, <<"enum", n, args>>.          *)
(* Definitions     D.structs[n] = [params, fields, frozen] and D.enums[n] =   *)
(*                 [params, variants]: fields and the payloads of a variant   *)
(*                 are sequences of types over the parameters.                *)
(* Types are interned by the code and compared by their parts here.           *)
(***************************************************************************)
EXTENDS Naturals, Integers, Sequences, FiniteSets, SequencesExt, TLC

CONSTANTS
    Bits,           \* the widths of the integers, and of the floats' mantissas
    ZeroDepth       \* ZERO_VALUE_DEPTH_LIMIT

Signed == {"i8", "i16", "i32", "i64"}
Unsigned == {"u8", "u16", "u32", "u64"}
Floats == {"f32", "f64"}
Builtins == Signed \cup Unsigned \cup Floats \cup {"bool"}

Error == <<"error">>
Void == <<"void">>

ttIsError(t) == t[1] = "error"
RECURSIVE ttBase(_)
ttBase(t) == IF t[1] = "ref" THEN ttBase(t[4]) ELSE t
ttIsInteger(t) == ttBase(t)[1] = "builtin" /\ ttBase(t)[2] \in Signed \cup Unsigned
ttIsFloat(t) == ttBase(t)[1] = "builtin" /\ ttBase(t)[2] \in Floats
ttIs(t, name) == ttBase(t) = <<"builtin", name>>

RECURSIVE ttHasParam(_)
ttHasParam(t) ==
    CASE t[1] = "param" -> TRUE
      [] t[1] = "ref" -> ttHasParam(t[4])
      [] t[1] = "array" -> ttHasParam(t[3])
      [] t[1] = "fn" -> ttHasParam(t[2]) \/ \E i \in DOMAIN t[3] : ttHasParam(t[3][i])
      [] t[1] = "generic" -> \E i \in DOMAIN t[4] : ttHasParam(t[4][i])
      [] t[1] = "enum" -> \E i \in DOMAIN t[3] : ttHasParam(t[3][i])
      [] OTHER -> FALSE

----------------------------------------------------------------------------
(* Names to types.                                                           *)

ttFromName(D, n) ==
    CASE n = <<"void">> -> Void
      [] n # <<"void">> /\ Len(n) = 1 /\ n[1] \in Builtins -> <<"builtin", n[1]>>
      [] n \in DOMAIN D.structs -> <<"struct", n>>
      [] n \in DOMAIN D.enums -> <<"enum", n, <<>> >>
      [] OTHER -> Error

(* A name that is not a type itself may be an alias brought in by `use`; two   *)
(* aliases of one name are an error.                                         *)
FromAlias(D, n) ==
    LET hits == {a \in D.aliases : a[1] = n} IN
    CASE ~ttIsError(ttFromName(D, n)) -> ttFromName(D, n)
      [] Cardinality(hits) = 1 -> ttFromName(D, (CHOOSE a \in hits : TRUE)[2])
      [] OTHER -> Error

ttIsViewType(t) == t[1] = "generic" /\ t[2] = <<"slice">> /\ Len(t[4]) = 1

ttGeneric(n, args) == <<"generic", n, FALSE, args>>
ttViewMut(t, mut) == IF mut /\ t[1] = "generic" THEN <<"generic", t[2], TRUE, t[4]>> ELSE t

(* A definition with its arguments.  coroutine<A> is coroutine<A, A>.          *)
Instance(D, base, mut, args) ==
    LET arity == CASE base[1] = "struct" -> Len(D.structs[base[2]].params)
                   [] base[1] = "enum" -> Len(D.enums[base[2]].params)
                   [] OTHER -> 0 IN
    CASE args = <<>> -> IF arity = 0 THEN base ELSE Error
      [] args # <<>> /\ base[1] = "enum" -> IF arity = Len(args) THEN <<"enum", base[2], args>> ELSE Error
      [] args # <<>> /\ base[1] = "struct" ->
           LET g == ttGeneric(base[2], args)
               short == base[2] = <<"coroutine">> /\ arity = 2 /\ Len(args) = 1 IN
           IF (arity # Len(args) /\ ~short) \/ (mut /\ ~ttIsViewType(g)) THEN Error
           ELSE ttViewMut(g, mut)
      [] OTHER -> Error

(* What a C function may take and return.                                    *)
ttCrossesC(D, t, isReturn) ==
    \/ t[1] \in {"ref", "builtin", "fn"}
    \/ t[1] \in {"struct", "generic"} /\ D.structs[t[2]].frozen
    \/ isReturn /\ t[1] = "void"

ttFn(D, ret, params) ==
    LET f == <<"fn", ret, params>> IN
    IF \/ ttHasParam(f)
       \/ ttCrossesC(D, ret, TRUE) /\ \A i \in DOMAIN params : ttCrossesC(D, params[i], FALSE)
    THEN f ELSE Error

(* An error ends the compilation: what is returned with it is Error.           *)
RECURSIVE ttResolve(_, _, _)
ttResolve(D, t, params) ==
    LET All(s) == [i \in DOMAIN s |-> ttResolve(D, s[i], params)] IN
    CASE t[1] = "name" /\ Contains(params, t[2]) ->
           <<"param", t[2], SelectInSeq(params, LAMBDA p : p = t[2])>>
      [] t[1] = "name" /\ ~Contains(params, t[2]) ->
           Instance(D, FromAlias(D, t[2]), t[3], All(t[4]))
      [] t[1] = "ref" -> <<"ref", t[2], t[3], ttResolve(D, t[4], params)>>
      [] t[1] = "array" ->
           LET e == ttResolve(D, t[3], params) IN
           IF e[1] = "param" THEN Error ELSE <<"array", t[2], e>>
      [] t[1] = "fn" -> ttFn(D, ttResolve(D, t[2], params), All(t[3]))

(* The parameter takes the argument at its place in `params`.                  *)
SubstParam(t, params, args) ==
    LET i == SelectInSeq(params, LAMBDA p : p = t[2]) IN
    CASE i # 0 /\ i <= Len(args) -> args[i]
      [] Len(params) = 2 /\ Len(args) = 1 -> args[1]
      [] OTHER -> t

(* Faulty variant: a writable view becomes a read-only one.                    *)
ttSubstituteFlat(t, params, args) ==
    IF t[1] = "generic" THEN ttGeneric(t[2], [i \in DOMAIN t[4] |-> SubstParam(t[4][i], params, args)])
    ELSE IF t[1] = "param" THEN SubstParam(t, params, args) ELSE t

RECURSIVE ttSubstitute(_, _, _)
ttSubstitute(t, params, args) ==
    LET All(s) == [i \in DOMAIN s |-> ttSubstitute(s[i], params, args)] IN
    CASE t[1] = "param" -> SubstParam(t, params, args)
      [] t[1] = "ref" -> <<"ref", t[2], t[3], ttSubstitute(t[4], params, args)>>
      [] t[1] = "array" -> <<"array", t[2], ttSubstitute(t[3], params, args)>>
      [] t[1] = "fn" -> <<"fn", ttSubstitute(t[2], params, args), All(t[3])>>
      [] t[1] = "generic" -> ttViewMut(ttGeneric(t[2], All(t[4])), t[3])
      [] t[1] = "enum" -> <<"enum", t[2], All(t[3])>>
      [] OTHER -> t

(* The permission to write is dropped from a view and from the views in it.    *)
RECURSIVE ttViewReadonly(_)
ttViewReadonly(t) ==
    IF t[1] = "generic" THEN ttGeneric(t[2], [i \in DOMAIN t[4] |-> ttViewReadonly(t[4][i])]) ELSE t

(* The C name, as a sequence of words.                                        *)
RECURSIVE ttMangle(_)
ttMangle(t) ==
    LET All(s) == FlattenSeq([i \in DOMAIN s |-> ttMangle(s[i])]) IN
    CASE t[1] = "ref" -> <<"Ref">> \o ttMangle(t[4])
      [] t[1] = "array" -> <<"array", ToString(t[2])>> \o ttMangle(t[3])
      [] t[1] = "generic" -> t[2] \o All(t[4])
      [] t[1] = "enum" -> t[2] \o All(t[3])
      [] t[1] = "fn" -> <<"extc", "fn">> \o ttMangle(t[2])
                          \o FlattenSeq([i \in DOMAIN t[3] |-> <<"">> \o ttMangle(t[3][i])])
      [] t[1] \in {"void", "error"} -> <<t[1]>>
      [] t[1] = "builtin" -> <<t[2]>>
      [] OTHER -> t[2]

----------------------------------------------------------------------------
(* What is in a type.                                                        *)

PartsOf(D, t) ==        \* the types of the fields, of a struct or an instance
    LET d == D.structs[t[2]] IN
    IF t[1] = "generic" /\ Len(t[4]) = Len(d.params)
    THEN [i \in DOMAIN d.fields |-> ttSubstitute(d.fields[i], d.params, t[4])]
    ELSE d.fields

(* The payloads of variant v.                                                *)
payloadTypes(D, t, v) ==
    LET d == D.enums[t[2]] IN
    IF d.params # <<>> /\ Len(t[3]) = Len(d.params)
    THEN [i \in DOMAIN d.variants[v] |-> ttSubstitute(d.variants[v][i], d.params, t[3])]
    ELSE d.variants[v]

RECURSIVE typeContainsRefAt(_, _, _)
typeContainsRefAt(D, t, depth) ==
    CASE depth > ZeroDepth -> TRUE
      [] depth <= ZeroDepth /\ t[1] = "ref" -> TRUE
      [] depth <= ZeroDepth /\ t[1] = "array" -> typeContainsRefAt(D, t[3], depth + 1)
      [] depth <= ZeroDepth /\ t[1] = "enum" ->
           \E v \in DOMAIN D.enums[t[2]].variants : \E i \in DOMAIN payloadTypes(D, t, v) :
               typeContainsRefAt(D, payloadTypes(D, t, v)[i], depth + 1)
      [] depth <= ZeroDepth /\ t[1] \in {"struct", "generic"} ->
           \E i \in DOMAIN PartsOf(D, t) : typeContainsRefAt(D, PartsOf(D, t)[i], depth + 1)
      [] OTHER -> FALSE

RECURSIVE typeHoldsCountedRef(_, _)
typeHoldsCountedRef(D, t) ==
    IF ttIsViewType(t) THEN typeHoldsCountedRef(D, t[4][1]) ELSE typeContainsRefAt(D, t, 0)

RECURSIVE typeContainsFnAt(_, _, _)
typeContainsFnAt(D, t, depth) ==
    CASE depth > ZeroDepth -> TRUE
      [] depth <= ZeroDepth /\ t[1] = "fn" -> TRUE
      [] depth <= ZeroDepth /\ t[1] = "array" -> typeContainsFnAt(D, t[3], depth + 1)
      [] depth <= ZeroDepth /\ t[1] = "enum" ->
           \E v \in DOMAIN D.enums[t[2]].variants : \E i \in DOMAIN payloadTypes(D, t, v) :
               typeContainsFnAt(D, payloadTypes(D, t, v)[i], depth + 1)
      [] depth <= ZeroDepth /\ t[1] \in {"struct", "generic"} ->
           \E i \in DOMAIN PartsOf(D, t) : typeContainsFnAt(D, PartsOf(D, t)[i], depth + 1)
      [] OTHER -> FALSE

(* A variable without an initial value must have a valid all-zero value: the   *)
(* first variant of an enum, null for a nullable reference.                    *)
RECURSIVE typeLacksZeroValueAt(_, _, _)
typeLacksZeroValueAt(D, t, depth) ==
    CASE depth > ZeroDepth -> TRUE
      [] depth <= ZeroDepth /\ t[1] = "ref" -> ~t[3]
      [] depth <= ZeroDepth /\ t[1] = "fn" -> TRUE
      [] depth <= ZeroDepth /\ t[1] = "array" -> typeLacksZeroValueAt(D, t[3], depth + 1)
      [] depth <= ZeroDepth /\ t[1] = "enum" ->
           D.enums[t[2]].variants # <<>> /\ \E i \in DOMAIN payloadTypes(D, t, 1) :
               typeLacksZeroValueAt(D, payloadTypes(D, t, 1)[i], depth + 1)
      [] depth <= ZeroDepth /\ t[1] \in {"struct", "generic"} ->
           \E i \in DOMAIN PartsOf(D, t) : typeLacksZeroValueAt(D, PartsOf(D, t)[i], depth + 1)
      [] OTHER -> FALSE

----------------------------------------------------------------------------
(* What may be assigned to what.                                             *)

(* Every value of one numeric type is a value of the other.                    *)
ttCanWiden(from, to) ==
    LET f == ttBase(from)[2]
        t == ttBase(to)[2] IN
    \/ from = to
    \/ /\ from[1] = "builtin" /\ to[1] = "builtin"
       /\ \/ {f, t} \subseteq Signed /\ Bits[f] <= Bits[t]
          \/ {f, t} \subseteq Unsigned /\ Bits[f] <= Bits[t]
          \/ f \in Unsigned /\ t \in Signed /\ Bits[f] < Bits[t]
          \/ f \in Signed \cup Unsigned /\ t \in Floats /\ Bits[f] <= Bits[t]
          \/ f = "f32" /\ t = "f64"

(* The literal nodes are <<"int", v>>, <<"float">> and <<"bool">>; <<"other">> *)
(* is any other expression.                                                  *)
literalFits(node, want) ==
    LET w == ttBase(want) IN
    CASE node[1] = "int" /\ w[1] = "builtin" /\ w[2] \in Signed ->
           w[2] = "i64" \/ node[2] \in -(2 ^ (Bits[w[2]] - 1)) .. (2 ^ (Bits[w[2]] - 1)) - 1
      [] node[1] = "int" /\ w[1] = "builtin" /\ w[2] \in Unsigned ->
           node[2] >= 0 /\ (w[2] = "u64" \/ node[2] <= 2 ^ Bits[w[2]] - 1)
      [] node[1] \in {"int", "float"} -> ttIsFloat(w)
      [] node[1] = "bool" -> ttIs(w, "bool")
      [] OTHER -> FALSE

(* `mut` may be dropped at any depth of a view, and never added.               *)
RECURSIVE ttViewDowngradable(_, _)
ttViewDowngradable(want, got) ==
    \/ want = got
    \/ /\ want[1] = "generic" /\ got[1] = "generic"
       /\ want[2] = got[2] /\ Len(want[4]) = Len(got[4])
       /\ want[3] => got[3]
       /\ \A i \in DOMAIN want[4] : ttViewDowngradable(want[4][i], got[4][i])

(* Between references: null and `mut` go one way, and any reference is a       *)
(* reference to void.                                                        *)
RefAssignable(want, got) ==
    \/ want = got
    \/ want[3] /\ ~got[3] /\ want[2] = got[2] /\ want[4] = got[4]
    \/ ttBase(want[4]) = Void /\ (got[3] => want[3]) /\ (want[2] => got[2])
    \/ got[2] /\ ~want[2] /\ (got[3] => want[3]) /\ want[4] = got[4]

(* Faulty variant: the order of the two types in the view rule is swapped.     *)
checkAssignableTurned(want, got, node) ==
    \/ ttHasParam(got)
    \/ want[1] = "generic" /\ ttViewDowngradable(got, want)
    \/ ttCanWiden(got, want)

(* <<"frame", t>> is the type of a call of a coroutine that yields t.          *)
checkAssignable(want, got, node) ==
    CASE ttIsError(want) \/ ttIsError(got) \/ ttHasParam(got) -> TRUE
      [] want[1] = "ref" /\ got[1] = "ref" -> RefAssignable(want, got)
      [] got[1] = "frame" -> want[1] = "generic" /\ want[2] = <<"coroutine">> /\ want[4] = <<got[2]>>
      [] OTHER ->
           /\ want[1] # "ref" /\ got[1] # "ref"
           /\ ttViewDowngradable(want, got) \/ ttCanWiden(got, want) \/ literalFits(node, want)
----------------------------------------------------------------------------
(* The C struct definitions.  A unit is a struct, an instance, an array or an  *)
(* enum with payload; `known` are the instances the checker met, in its order.  *)

enumHasPayload(D, n) == \E v \in DOMAIN D.enums[n].variants : D.enums[n].variants[v] # <<>>

IsUnit(D, t) ==
    \/ t[1] \in {"struct", "generic", "array"}
    \/ t[1] = "enum" /\ enumHasPayload(D, t[2])

(* What is in a unit by value or by reference.                                *)
UnitTypes(D, t) ==
    CASE t[1] \in {"struct", "generic"} -> PartsOf(D, t)
      [] t[1] = "array" -> <<t[3]>>
      [] t[1] = "enum" -> FlattenSeq([v \in DOMAIN D.enums[t[2]].variants |-> payloadTypes(D, t, v)])

(* An instance that no unit has the C name of is added.                       *)
addInstanceUnit(D, units, t) ==
    IF \/ ~(t[1] = "generic" \/ (t[1] = "enum" /\ t[3] # <<>>))
       \/ \E i \in DOMAIN units : ttMangle(units[i]) = ttMangle(t)
    THEN units ELSE Append(units, t)

RECURSIVE scanTypeForUnits(_, _, _)
scanTypeForUnits(D, units, t) ==
    LET All(us, s) == FoldLeft(LAMBDA acc, x : scanTypeForUnits(D, acc, x), us, s) IN
    CASE t[1] = "ref" -> scanTypeForUnits(D, units, t[4])
      [] t[1] = "array" -> scanTypeForUnits(D, units, t[3])
      [] t[1] = "generic" -> All(addInstanceUnit(D, units, t), t[4])
      [] t[1] = "enum" -> All(addInstanceUnit(D, units, t), t[3])
      [] t[1] = "fn" -> All(scanTypeForUnits(D, units, t[2]), t[3])
      [] OTHER -> units

(* Rounds of adding what the units mention, until nothing is added; a program  *)
(* that still grows after `rounds` is refused.                               *)
RECURSIVE GrowUnits(_, _, _)
GrowUnits(D, units, rounds) ==
    LET grown == FoldLeft(LAMBDA us, u : FoldLeft(LAMBDA acc, x : scanTypeForUnits(D, acc, x), us, UnitTypes(D, u)),
                          units, units) IN
    CASE grown = units -> units
      [] grown # units /\ rounds = 0 -> <<>>
      [] OTHER -> GrowUnits(D, grown, rounds - 1)

(* Faulty variant: instances are looked for by identity, `mut` included.       *)
unitFindExact(units, t) == SelectInSeq(units, LAMBDA u : u = t)

(* The unit of a type: an instance goes by its C name, an enum by its          *)
(* definition.                                                               *)
unitFind(units, t) ==
    SelectInSeq(units, LAMBDA u :
        \/ t[1] = "enum" /\ u[1] = "enum" /\ u[2] = t[2]
        \/ t[1] \in {"generic", "array"} /\ u[1] \in {"generic", "array", "enum"} /\ ttMangle(u) = ttMangle(t)
        \/ t[1] = "struct" /\ u = t)

DepsOf(D, units, i) ==
    {unitFind(units, UnitTypes(D, units[i])[k]) : k \in {k \in DOMAIN UnitTypes(D, units[i]) :
        UnitTypes(D, units[i])[k][1] # "ref"}} \ {0, i}

(* One pass over the units emits those whose units are all emitted; the        *)
(* emission is a sequence of indices.                                        *)
EmitPass(deps, done) ==
    FoldLeft(LAMBDA out, i : IF ~Contains(out, i) /\ deps[i] \subseteq ToSet(out) THEN Append(out, i) ELSE out,
             done, [i \in DOMAIN deps |-> i])

RECURSIVE EmitInOrder(_, _)
EmitInOrder(deps, done) ==
    LET next == EmitPass(deps, done) IN
    IF next = done THEN done \o SelectSeq([i \in DOMAIN deps |-> i], LAMBDA i : ~Contains(done, i))
    ELSE EmitInOrder(deps, next)

(* Each C name once: the first unit wins.                                     *)
AddNamed(units, t) == IF \E i \in DOMAIN units : ttMangle(units[i]) = ttMangle(t) THEN units ELSE Append(units, t)

emitTypes(D, structs, known, rounds) ==
    LET insts == SelectSeq(known, LAMBDA t : t[1] \in {"generic", "array"} /\ ~ttHasParam(t))
        plain == SelectSeq(SetToSeq(DOMAIN D.enums), LAMBDA n : D.enums[n].params = <<>> /\ enumHasPayload(D, n))
        enums == SelectSeq(known, LAMBDA t : t[1] = "enum" /\ t[3] # <<>>)
        first == [i \in DOMAIN structs |-> <<"struct", structs[i]>>] \o FoldLeft(AddNamed, <<>>, insts)
                   \o [i \in DOMAIN plain |-> <<"enum", plain[i], <<>> >>]
        units == GrowUnits(D, FoldLeft(AddNamed, first, enums), rounds)
        order == EmitInOrder([i \in DOMAIN units |-> DepsOf(D, units, i)], <<>>) IN
    [k \in DOMAIN order |-> units[order[k]]]

----------------------------------------------------------------------------
(* What the answers mean.                                                    *)

(* A written type with the parameters replaced by what they stand for.         *)
RECURSIVE Rewritten(_, _, _)
Rewritten(t, params, args) ==
    LET All(s) == [i \in DOMAIN s |-> Rewritten(s[i], params, args)] IN
    CASE t[1] = "name" ->
           IF Contains(params, t[2]) THEN args[SelectInSeq(params, LAMBDA p : p = t[2])]
           ELSE <<"name", t[2], t[3], All(t[4])>>
      [] t[1] = "ref" -> <<"ref", t[2], t[3], Rewritten(t[4], params, args)>>
      [] t[1] = "array" -> <<"array", t[2], Rewritten(t[3], params, args)>>
      [] t[1] = "fn" -> <<"fn", Rewritten(t[2], params, args), All(t[3])>>

RECURSIVE Broken(_)
Broken(t) ==
    CASE t[1] = "error" -> TRUE
      [] t[1] = "ref" -> Broken(t[4])
      [] t[1] = "array" -> Broken(t[3])
      [] t[1] = "generic" -> \E i \in DOMAIN t[4] : Broken(t[4][i])
      [] t[1] = "enum" -> \E i \in DOMAIN t[3] : Broken(t[3][i])
      [] t[1] = "fn" -> Broken(t[2]) \/ \E i \in DOMAIN t[3] : Broken(t[3][i])
      [] OTHER -> FALSE

(* The layout: a type without its permissions.                                *)
RECURSIVE Layout(_)
Layout(t) ==
    LET All(s) == [i \in DOMAIN s |-> Layout(s[i])] IN
    CASE t[1] = "ref" -> <<"ref", FALSE, FALSE, Layout(t[4])>>
      [] t[1] = "array" -> <<"array", t[2], Layout(t[3])>>
      [] t[1] = "generic" -> ttGeneric(t[2], All(t[4]))
      [] t[1] = "enum" -> <<"enum", t[2], All(t[3])>>
      [] t[1] = "fn" -> <<"fn", Layout(t[2]), All(t[3])>>
      [] OTHER -> t

(* What may be done with a value of the type, following references, fields,    *)
(* payloads and elements for n steps: where it may be written through and      *)
(* where it is known not to be null.                                         *)
RECURSIVE Rights(_, _, _, _)
Rights(D, t, path, n) ==
    LET Under(s) == UNION {Rights(D, s[i], Append(path, ToString(i)), n - 1) : i \in DOMAIN s} IN
    CASE n = 0 -> {}
      [] n > 0 /\ t[1] = "ref" ->
           {<<path, r>> : r \in (IF t[2] THEN {"write"} ELSE {}) \cup (IF t[3] THEN {} ELSE {"nonnull"})}
             \cup Rights(D, t[4], Append(path, "*"), n - 1)
      [] n > 0 /\ ttIsViewType(t) ->
           (IF t[3] THEN {<<path, "write">>} ELSE {}) \cup Rights(D, t[4][1], Append(path, "[]"), n - 1)
      [] n > 0 /\ IsUnit(D, t) /\ ~ttIsViewType(t) -> Under(UnitTypes(D, t))
      [] OTHER -> {}

(* The values of a numeric type; a float has the whole numbers that fit its     *)
(* mantissa.                                                                 *)
NumbersOf(name) ==
    CASE name \in Signed -> -(2 ^ (Bits[name] - 1)) .. (2 ^ (Bits[name] - 1)) - 1
      [] name \in Unsigned -> 0 .. 2 ^ Bits[name] - 1
      [] name \in Floats -> -(2 ^ Bits[name]) .. 2 ^ Bits[name]

(* An assignment that passes loses no number, gains no permission and reads     *)
(* the bytes as what they are.                                               *)
KeepsMeaning(D, want, got, node) ==
    CASE want[1] = "builtin" /\ got[1] = "builtin" ->
           \/ node[1] = "int" /\ (want[2] \in Floats \/ node[2] \in NumbersOf(want[2]))
           \/ node[1] \in {"float", "bool"}
           \/ want = got
           \/ NumbersOf(got[2]) \subseteq NumbersOf(want[2])
      [] want[1] = "ref" /\ want[4] = Void -> (want[2] => got[2]) /\ (got[3] => want[3])
      [] OTHER -> Layout(want) = Layout(got) /\ Rights(D, want, <<>>, 4) \subseteq Rights(D, got, <<>>, 4)

(* What is in a value of the type, itself included: `zero` keeps to what is    *)
(* there when all bytes are zero.                                            *)
Inside(D, t, zero) ==
    CASE t[1] = "enum" /\ zero -> ToSet(payloadTypes(D, t, 1))
      [] t[1] \in {"struct", "generic", "array", "enum"} /\ ~(t[1] = "enum" /\ zero) -> ToSet(UnitTypes(D, t))
      [] OTHER -> {}
RECURSIVE Contents(_, _, _)
Contents(D, S, zero) ==
    LET T == S \cup UNION {Inside(D, t, zero) : t \in S} IN
    IF T = S THEN S ELSE Contents(D, T, zero)

Holds(D, t, kind) == \E x \in Contents(D, {t}, FALSE) : x[1] = kind
ZeroIsValue(D, t) == \A x \in Contents(D, {t}, TRUE) : x[1] # "fn" /\ (x[1] = "ref" => x[3])

(* Every unit is defined before a unit that contains it by value.             *)
ByValue(D, t) == {x \in ToSet(UnitTypes(D, t)) : IsUnit(D, x)}
InOrder(D, emitted) ==
    \A k \in DOMAIN emitted : \A x \in ByValue(D, emitted[k]) :
        \E j \in 1..(k - 1) : ttMangle(emitted[j]) = ttMangle(x)

(* No generic enum has two instances.                                         *)
OneEach(units) ==
    \A i, j \in DOMAIN units :
        units[i][1] = "enum" /\ units[j][1] = "enum" /\ units[i][2] = units[j][2] => i = j

(* The names in a type are single words.                                      *)
RECURSIVE Simple(_)
Simple(t) ==
    CASE t[1] = "ref" -> Simple(t[4])
      [] t[1] = "array" -> Simple(t[3])
      [] t[1] = "struct" -> Len(t[2]) = 1
      [] t[1] = "generic" -> Len(t[2]) = 1 /\ \A i \in DOMAIN t[4] : Simple(t[4][i])
      [] t[1] = "enum" -> Len(t[2]) = 1 /\ \A i \in DOMAIN t[3] : Simple(t[3][i])
      [] t[1] = "fn" -> FALSE
      [] OTHER -> TRUE
----------------------------------------------------------------------------
(* The questions and what is wanted of the answers.                           *)

(* Resolving under the parameter T and putting the argument in, an assignment,  *)
(* what a type contains, the order of the C definitions.                        *)
Param == << <<"T">> >>
Answer(D, what, in) ==
    CASE what = "resolve" -> ttSubstitute(ttResolve(D, in[1], Param), Param, << ttResolve(D, in[2], <<>>) >>)
      [] what \in {"assign", "literal"} -> checkAssignable(in[1], in[2], in[3])
      [] what = "layout" -> [ref |-> typeContainsRefAt(D, in, 0), fn |-> typeContainsFnAt(D, in, 0),
                             lacks |-> typeLacksZeroValueAt(D, in, 0), counted |-> typeHoldsCountedRef(D, in)]
      [] what = "emit" -> emitTypes(in.D, in.structs, in.known, in.rounds)

(* Instantiating a resolved type is resolving the instance.                   *)
Instantiates(D, in, res) ==
    LET whole == ttResolve(D, Rewritten(in[1], Param, <<in[2]>>), <<>>) IN
    ~Broken(whole) /\ ~Broken(res) => res = whole

RefToRefVoid(t) == t[1] = "ref" /\ t[4][1] = "ref" /\ ttBase(t) = Void

(* Types with one C name are one layout, if the names in them are single       *)
(* words; and an assignment that passes keeps the meaning, unless the target   *)
(* is a reference to a reference to void.                                     *)
Assigns(D, in, res) ==
    /\ res /\ ~RefToRefVoid(in[1]) => KeepsMeaning(D, in[1], in[2], in[3])
    /\ Simple(in[1]) /\ Simple(in[2]) /\ ttMangle(in[1]) = ttMangle(in[2]) => Layout(in[1]) = Layout(in[2])

TellsContents(D, in, res) ==
    /\ res.ref <=> Holds(D, in, "ref")
    /\ res.fn <=> Holds(D, in, "fn")
    /\ res.lacks <=> ~ZeroIsValue(D, in)
    /\ res.counted => res.ref
=============================================================================
