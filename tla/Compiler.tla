------------------------------ MODULE Compiler ------------------------------
(***************************************************************************)
(* The front end and the passes behind it that are functions of a program: a *)
(* behaviour scans a text, parses a sequence of tokens, or picks another     *)
(* pass and an input and runs it.  Those passes are modelled in the modules  *)
(* instantiated here; the properties compare what a pass returned with what  *)
(* the input means.                                                         *)
(***************************************************************************)
EXTENDS FrontEnd

CONSTANTS
    MaxVars, MaxFields, MaxRounds, MaxHops, RefDepths,   \* of the depth analysis
    WholeBodies,        \* bodies that assign whole values only
    FieldBodies,        \* bodies that also store into fields
    ModuleNames,        \* names of functions, structs and globals, and the words of C
    NullBodies,         \* bodies that compare with null and dereference
    Bits, ZeroDepth,    \* of the numeric types, of the walks over types
    Defs,               \* the structs and enums of a program
    Tasks               \* for each of the other passes, its inputs

DF == INSTANCE Dataflow
SC == INSTANCE Scopes
TY == INSTANCE Types

Params == << <<"p">> >>

(* The bindings of the bodies: references r, s, k, q and structs b, c, d; q    *)
(* and d are bindings the analysis does not follow.                          *)
Boxes == {"b", "c", "d"}
FlowEnv ==
    [x \in {"r", "s", "k", "q", "b", "c", "d"} |->
        LET d == DF!anRefDepth(x) IN IF x \in Boxes THEN [f |-> d, g |-> d] ELSE d]

TypeTasks == {"resolve", "assign", "literal", "layout", "emit"}

Result(what, in) ==
    CASE what \in {"whole", "field"} -> <<DF!dfAnalyze(in), DF!dfAnalyze(DF!Swapped(in))>>
      [] what = "null" -> SC!checkBody(Params, in)
      [] what \in TypeTasks -> TY!Answer(Defs, what, in)

Init ==
    \/ FrontInit
    \/ LexOver /\ \E S \in WholeBodies : Given("whole", S)
    \/ LexOver /\ \E S \in FieldBodies : Given("field", S)
    \/ LexOver /\ \E S \in NullBodies : Given("null", S)
    \/ LexOver /\ \E what \in DOMAIN Tasks : \E in \in Tasks[what] : Given(what, in)

Analyse ==
    /\ ~task.over /\ task.what \notin ParseTasks
    /\ task' = [task EXCEPT !.over = TRUE, !.res = Result(task.what, task.in)]
    /\ UNCHANGED lexVars

Next == FrontNext \/ Analyse

Spec == Init /\ [][Next]_frontVars

----------------------------------------------------------------------------
(* Where bodies assign whole values, the depth of a binding bounds what it     *)
(* holds, whatever way the body is run: round the loops, out of them by break, *)
(* through either arm.  Where they store into fields, what is read of a field  *)
(* bounds what it holds at the end -- as long as no struct gets a whole value   *)
(* whose fields the analysis does not enter one by one, for such a value       *)
(* leaves the entries of its fields as they were.  Both for expressions no     *)
(* deeper than the analysis follows them, and bindings it has no case for are  *)
(* assigned from once (check_dataflow.c: dfStmt, joinInto, dfExprDepth).       *)
DepthsBound ==
    LET f == task.res[1]
        S == task.in IN
    (Done("whole") \/ Done("field")) /\ DF!Usable(f) /\ DF!Followed(S) /\ ~DF!Forgets(S) =>
        IF task.what = "whole" THEN DF!BoundsAlways(f, S, FlowEnv, Boxes)
        ELSE DF!Rebuilt(S, Boxes) \/ DF!BoundsAtEnd(f, S, FlowEnv, Boxes)

(* The order in which arms are visited does not show in the result           *)
(* (dataflow.h: the result is the same for any order of traversal).           *)
OrderFree ==
    \A w \in {"whole", "field"} : Done(w) => task.res[1] = task.res[2]

(* The reference depths are upper bounds, with the exceptions DepthsBound      *)
(* names, and no order of visiting changes them (check_dataflow.c: dfAnalyze). *)
DepthsSound == DepthsBound /\ OrderFree

(* A body that passes dereferences no null, on any path (check_lookup.c:      *)
(* narrowTarget, pushNarrow, unNarrow; the arms, loops and guards of          *)
(* check_stmt.c), unless a proof made in an enclosing block was taken back in *)
(* a nested one, a proved field was overwritten, or two bindings have one C   *)
(* name, as they may if one of their names looks like one made for another.   *)
NullSafe ==
    Done("null") /\ task.res.ok /\ ~task.res.crossed /\ ~SC!LooksMade(task.in, Params) =>
        SC!NeverNull(task.in, Params)

(* A body that passes dereferences no null (bodies with a name that looks       *)
(* made aside).                                                              *)
NullSafeAlways ==
    Done("null") /\ task.res.ok /\ ~SC!LooksMade(task.in, Params) => SC!NeverNull(task.in, Params)

(* Bindings of one function share no C name and take none of the module's,    *)
(* however often a name is declared again, in whatever scopes, and however    *)
(* many of the names it would get are taken (check.c: cNameFor) -- as long as *)
(* the program has no name that is another of its names followed by __ and a  *)
(* number, for nothing keeps a made name from meeting a written one.          *)
NamesApart ==
    Done("null") /\ task.res.ok /\ ~SC!LooksMade(task.in, Params) =>
        /\ Cardinality(task.res.cnames) = Len(SC!Declared(task.in)) + Len(Params)
        /\ task.res.cnames \cap ModuleNames = {}

(* The type table answers right (types.c: ttResolve, ttSubstitute, ttMangle;   *)
(* check.c: checkAssignable; check_lookup.c; codegen.c: emitTypes):            *)
(* instantiating a generic type gives what the written instance means, an      *)
(* assignment that passes loses no number and gains no permission, types with  *)
(* one C name have one layout, the walks over a type find what a value of it    *)
(* contains, and a C struct is defined before one that contains it, as long as  *)
(* no generic enum has two instances.                                         *)
TypesSound ==
    /\ Done("resolve") => TY!Instantiates(Defs, task.in, task.res)
    /\ Done("assign") \/ Done("literal") => TY!Assigns(Defs, task.in, task.res)
    /\ Done("layout") => TY!TellsContents(Defs, task.in, task.res)
    /\ Done("emit") /\ TY!OneEach(task.res) => TY!InOrder(task.in.D, task.res)

(* A C struct is always defined before one that contains it.                   *)
DefinedInOrder == Done("emit") => TY!InOrder(task.in.D, task.res)
=============================================================================
