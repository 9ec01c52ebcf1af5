----------------------------- MODULE MCCompiler -----------------------------
EXTENDS Compiler

MCSources ==
    SeqOf({"0", "x", ".", "e", "+", " "}, 5) \cup SeqOf({"a", "\"", "'", "\\", "f", "x", "\n"}, 5)
      \cup SeqOf({"/", "*", "\n", " ", "a"}, 5)
      \cup SeqOf({"_", "i", "8", "f", "n", "<", "=", ".", "#"}, 4)

MCTrees ==
    {[what |-> w, in |-> e] : w \in {"expr", "cond"}, e \in Deep}
      \cup {[what |-> "stmt", in |-> s] : s \in Statements}
      \cup {[what |-> "type", in |-> t] : t \in TypesOver(TypesOver({T, U}))}
      \cup {[what |-> "decl", in |-> d] : d \in Declared}

MCSoups ==
    SeqOf({Word("a"), PT("("), PT(")"), PT("{"), PT("}"), PT("["), PT("]"), PT("<"), PT(","),
           PT("if"), PT("ref"), PT("-"), PT(":"), PT("fn"), Word("new")}, 4)
MCFormats == SeqOf({"a", "-", "{", "}", ":"}, 5)
MCLoops == LoopBodies

MCRecorded == [q |-> 1, d |-> 1]

B == INSTANCE MCBodies
MCWhole == B!Whole
MCField == B!Field
MCNull == B!Nulls
MCTaken == {B!h, Append(B!h, 2), Append(B!p, 3)}

Y == INSTANCE MCTypes
MCBits == Y!Widths
MCDefs == Y!Sample
NoTasks == <<>>
MCTasks == Y!Questions
=============================================================================
