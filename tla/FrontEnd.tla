------------------------------ MODULE FrontEnd ------------------------------
(***************************************************************************)
(* The front end: the scanner turns a text into tokens, the parser turns    *)
(* tokens into a tree.  A behaviour either scans one text (the actions of   *)
(* Lexer) or parses one sequence of tokens: `task` says which parse          *)
(* function is called on what, and then what it returned.  The tokens of    *)
(* most tasks are a printed tree; Soups are arbitrary short sequences and    *)
(* Nests are nestings around the parser's depth budgets.                    *)
(***************************************************************************)
EXTENDS Lexer, Grammar

CONSTANTS
    Trees,          \* [what, in]: what is parsed and the tree that was printed
    Formats,        \* format strings
    Soups,          \* token sequences, for parseStmt
    Loops,          \* bodies of range loops
    MaxNest         \* how deep the nestings go

VARIABLE task       \* [what, in, over, res]

frontVars == <<lexVars, task>>

ParseTasks == {"expr", "cond", "stmt", "type", "decl", "soup", "fmt", "nest", "loop"}

Idle == [what |-> "none", in |-> <<>>, over |-> TRUE, res |-> <<>>]

(* The ways to nest that the budgets count, n deep, closed again.            *)
Nest(how, n) ==
    LET Rep(ts) == FlattenSeq([i \in 1..n |-> ts])
        x == <<Word("a")>> IN
    CASE how = "paren" -> Rep(<<PT("(")>>) \o x \o Rep(<<PT(")")>>)
      [] how = "array" -> Rep(<<PT("[")>>) \o x \o Rep(<<PT("]")>>)
      [] how = "minus" -> Rep(<<PT("-")>>) \o x
      [] how = "index" -> Rep(<<Word("a"), PT("[")>>) \o x \o Rep(<<PT("]")>>)
      [] how = "block" -> Rep(<<PT("{")>>) \o Rep(<<PT("}")>>)
      [] how = "while" -> Rep(<<PT("while"), Word("a"), PT("{")>>) \o Rep(<<PT("}")>>)
      [] how = "type" -> <<Word("new")>> \o Rep(<<PT("ref")>>) \o <<Word("T")>>

Nests == {"paren", "array", "minus", "index", "block", "while", "type"}

(* The innermost expression takes a unit of the budget itself.                *)
Fits(how, n) ==
    CASE how \in {"block", "while"} -> n <= DepthLimit
      [] how = "type" -> n + 1 <= TypeDepthLimit
      [] OTHER -> n + 1 <= DepthLimit

(* The tokens of a task and the parse function it calls.                    *)
TokensOf(t) ==
    LET kind == IF t.what = "cond" THEN "expr" ELSE t.what
        printed == Written(kind, t.in, 0, t.what = "cond") IN
    CASE t.what = "soup" -> t.in
      [] t.what = "fmt" -> <<Word("a"), PT("<"), PT("<"), Fmt("s", t.in)>>
      [] t.what = "nest" -> Nest(t.in[1], t.in[2])
      [] OTHER -> (CASE t.what = "expr" -> <<PT("var"), Word("v"), PT("=")>>
                     [] t.what = "cond" -> <<PT("while")>> [] OTHER -> <<>>)
                   \o printed \o (IF t.what = "cond" THEN <<PT("{"), PT("}")>> ELSE <<>>)

EntryOf(t) ==
    CASE t.what = "type" -> "type" [] t.what = "decl" -> "module" [] OTHER -> "stmt"

ParseResult(t) ==
    IF t.what = "loop" THEN RangeLoop("i", t.in[1], t.in[2], t.in[3])
    ELSE Descend(EntryOf(t), NewParser(TokensOf(t) \o <<NL, EOF>>))

Parse ==
    /\ ~task.over /\ task.what \in ParseTasks
    /\ task' = [task EXCEPT !.res = ParseResult(task), !.over = TRUE]
    /\ UNCHANGED lexVars

IntLit(s) == <<"int", s>>

(* A behaviour without a text: the scanner has nothing to do.                *)
LexOver ==
    /\ src = <<>> /\ lx = [pos |-> 1, line |-> 1, col |-> 1]
    /\ out = <<Token("NEWLINE", 1, 1, 1, 1, 0), Token("EOF", 1, 1, 1, 1, 0)>>
    /\ hasError = FALSE /\ done = TRUE

Given(what, in) == task = [what |-> what, in |-> in, over |-> FALSE, res |-> <<>>]

FrontInit ==
    \/ LexInit /\ task = Idle
    \/ LexOver /\ \E t \in Trees : Given(t.what, t.in)
    \/ LexOver /\ \E s \in Soups : Given("soup", s)
    \/ LexOver /\ \E f \in Formats : Given("fmt", f)
    \/ LexOver /\ \E h \in Nests, n \in 1..MaxNest : Given("nest", <<h, n>>)
    \/ LexOver /\ \E lo \in {IntLit("0"), IntLit("1")}, hi \in {Id("n"), IntLit("3")}, b \in Loops :
         Given("loop", <<lo, hi, b>>)

FrontNext == (LexTurn /\ UNCHANGED task) \/ Parse

----------------------------------------------------------------------------
(* Properties of the parser.                                                *)

Done(what) == task.what = what /\ task.over

(* The tree is the one that was written: printing a tree with the fewest     *)
(* parentheses the precedence table allows, in a place where `{` starts a    *)
(* literal and in one where it starts a body, and parsing it, gives the tree *)
(* back (parseExpr and its levels, parsePostfix, looksLikeAssoc, inCond).    *)
ExprRoundTrip ==
    /\ Done("expr") => task.res.e = <<"var", "v", Nil, task.in, TRUE, FALSE>>
    /\ Done("cond") => task.res.e = <<"while", task.in, <<"block", <<>>>>>>

(* The same of statements (loops as parseFor rewrites them), types and        *)
(* declarations, and nothing is left over (parseStmt, parseType,              *)
(* parseModule).                                                            *)
TreeRoundTrip ==
    /\ Done("stmt") => task.res.e = Rewritten(task.in) /\ cur(task.res.p).k \in {"NEWLINE", "EOF"}
    /\ Done("type") => task.res.e = task.in /\ cur(task.res.p).k \in {"NEWLINE", "EOF"}
    /\ Done("decl") => ~task.res.p.err /\ task.res.e = <<task.in>>

(* A range loop means what `for i in lo..hi` promises (RangeLoop, the        *)
(* rewriting of parseFor, run as a program): the bound is taken once, the    *)
(* step is taken however the round ended, and i is the loop's own.           *)
LoopMeaning ==
    Done("loop") =>
        LET env == << [x \in {"n", "s"} |-> IF x = "n" THEN 2 ELSE 0] >> IN
        Exec(env, task.res, 6).env = ForRuns(env, "i", task.in[1], task.in[2], task.in[3], 6)

(* Whatever the tokens, the parser ends in order: a node or a diagnostic,    *)
(* never both, the cursor on a token, and the budgets and inCond as they     *)
(* were at the start (parseUnary, parseBlock, parseType, parseIf ... restore *)
(* them on every way out that is not a diagnostic).                          *)
ParserTidy ==
    Done("soup") =>
        LET r == task.res IN
        /\ r.p.err <=> r.e = Nil
        /\ r.p.pos \in DOMAIN r.p.toks
        /\ ~r.p.err => r.p.depth = 0 /\ r.p.typeDepth = 0 /\ ~r.p.inCond

(* A format string is written out piece by piece, nothing of it lost and     *)
(* nothing doubled: the text and the slots of the chain of `<<`, braces      *)
(* doubled again, spell the string, and whoever doubles every brace outside  *)
(* a slot is understood (fmtSplice).                                         *)
RECURSIVE Spelled(_)
Spelled(e) ==
    LET Twice(c) == IF c \in {"{", "}"} THEN <<c, c>> ELSE <<c>>
        piece == e[4]
        Texts(ts) == [i \in DOMAIN ts |-> ts[i].s] IN
    IF e[1] # "bin" THEN <<>>
    ELSE Spelled(e[3]) \o
         IF piece[1] = "text" THEN FlattenSeq([i \in DOMAIN piece[2] |-> Twice(piece[2][i])])
         ELSE <<"{">> \o Texts(Show(piece, 0, FALSE)) \o <<"}">>

FormatExact ==
    Done("fmt") =>
        /\ ~task.res.p.err => Spelled(task.res.e[2]) = task.in
        /\ task.in # <<>> /\ Range(task.in) \cap {"{", "}"} = {} => ~task.res.p.err

(* Nesting within the budget is parsed, and deeper nesting is a diagnostic   *)
(* instead of a recursion without end (parseTooDeepIn and its callers).      *)
NestingBounded ==
    Done("nest") => (~task.res.p.err <=> Fits(task.in[1], task.in[2]))

(* What is printed and parsed again is what was written: expressions,          *)
(* statements, types, declarations and format strings (the parse functions).  *)
TreesExact == ExprRoundTrip /\ TreeRoundTrip /\ FormatExact

(* Any tokens at all leave the parser in order, and nesting ends in a tree or  *)
(* in a diagnostic (the budgets and flags of Parser).                         *)
ParserSafe == ParserTidy /\ NestingBounded
=============================================================================
