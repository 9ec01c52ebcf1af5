------------------------------- MODULE Lexer -------------------------------
(***************************************************************************)
(* The scanner (src/src/front/lexer.c).  One behaviour scans one source     *)
(* text: `src` is chosen from Sources, and each action is one turn of the   *)
(* loop of lexRange, with the whole of the lex* function the turn calls.    *)
(*                                                                          *)
(* A character is a one-character string; a text is a sequence of them.     *)
(* The keyword, type and punctuation tables are the real ones, cut to the   *)
(* entries that the letters of a model can spell.                           *)
(***************************************************************************)
EXTENDS Integers, Sequences, FiniteSets, SequencesExt

CONSTANTS
    Sources,        \* the texts to scan
    IntMax          \* the largest integer literal (LLONG_MAX)

(* A character is a string: the model needs no more of it.                 *)
ASSUME LexerAssumption == \A s \in Sources : s \in Seq(STRING)

VARIABLES
    src,            \* Lexer.src
    lx,             \* the cursor: [pos, line, col], all from 1
    out,            \* the tokens pushed so far
    hasError,       \* Ctx.hasError
    done            \* lexRange has returned

lexVars == <<src, lx, out, hasError, done>>

----------------------------------------------------------------------------
(* Tables and character classes.                                           *)

KEYWORDS == { <<"f", "n">>, <<"i", "f">> }

BUILTIN_TYPES == { <<"i", "8">> }

(* Faulty variant: a short entry before the longer one it starts.           *)
PUNCTSBad == << <<".", ".">>, <<"<">>, <<"<", "=">>, <<".", ".", ".">>,
                <<"=", ">">>, <<"/", "=">>, <<"+">>, <<"*">>, <<"/">>,
                <<"=">>, <<">">>, <<".">> >>

PUNCTS == << <<"<", "=">>, <<".", ".", ".">>, <<".", ".">>, <<"=", ">">>,
             <<"/", "=">>, <<"+">>, <<"*">>, <<"/">>, <<"=">>, <<"<">>,
             <<">">>, <<".">> >>

Quote == "\""

Ascii == [c \in {"0", "8", "a", "e", "f", "n", "i", "x", "_", "+", " ", "/",
                 "*", "<", "=", ">", ".", "#", Quote} |->
            CASE c = "0" -> 48 [] c = "8" -> 56 [] c = "a" -> 97
              [] c = "e" -> 101 [] c = "f" -> 102 [] c = "n" -> 110
              [] c = "i" -> 105 [] c = "x" -> 120 [] c = "_" -> 95
              [] c = "+" -> 43 [] c = " " -> 32 [] c = "/" -> 47
              [] c = "*" -> 42 [] c = "<" -> 60 [] c = "=" -> 61
              [] c = ">" -> 62 [] c = "." -> 46 [] c = "#" -> 35
              [] c = Quote -> 34]

Digits == {"0", "8"}
HexDigits == Digits \cup {"a", "e", "f"}
Alphas == {"a", "e", "f", "n", "i", "x", "_"}
Blanks == {" ", "\t", "\r"}

HexValue(c) == CASE c = "0" -> 0 [] c = "8" -> 8 [] c = "a" -> 10
                 [] c = "e" -> 14 [] c = "f" -> 15

(* lxPeek: the character at position j, and no character past the end.     *)
At(j) == IF j \in 1..Len(src) THEN src[j] ELSE "\\0"

Peek(k) == At(lx.pos + k)

(* Faulty variant: a newline does not begin a new column count.             *)
AdvancedBad(l, n) ==
    LET nl == {i \in l.pos..(l.pos + n - 1) : At(i) = "\n"} IN
    [pos |-> l.pos + n, line |-> l.line + Cardinality(nl), col |-> l.col + n]

(* lxAdvance, n times: position, line and column move together.            *)
Advanced(l, n) ==
    LET nl == {i \in l.pos..(l.pos + n - 1) : At(i) = "\n"} IN
    [pos  |-> l.pos + n,
     line |-> l.line + Cardinality(nl),
     col  |-> IF nl = {} THEN l.col + n ELSE l.pos + n - Max(nl)]

(* The first position from p on whose character is not in cls.             *)
RunEnd(p, cls) == Min({j \in p..(Len(src) + 1) : At(j) \notin cls})

(* lxPushAt: a token, with the extent [at, end) of the text it came from.  *)
Token(kind, from, to, line, col, val) ==
    [kind |-> kind, at |-> from, end |-> to, line |-> line, col |-> col,
     ival |-> val]

Pushed(kind, to, val) ==
    Append(out, Token(kind, lx.pos, to, lx.line, lx.col, val))

Refuse(at) ==
    /\ lx' = Advanced(lx, at - lx.pos)
    /\ hasError' = TRUE
    /\ done' = TRUE

----------------------------------------------------------------------------
(* lexNumber.  Hexadecimal values are accumulated and checked before every  *)
(* digit; the value of a decimal literal comes from strtoll, which          *)
(* saturates, and its token is pushed even when it is out of range.         *)

Overflows(v, d) == v > (IntMax - d) \div 16

HexNumber(digits) ==
    FoldLeft(LAMBDA v, c : IF v < 0 \/ Overflows(v, HexValue(c)) THEN -1
                           ELSE v * 16 + HexValue(c), 0, digits)

DecNumber(digits) ==
    FoldLeft(LAMBDA v, c : IF v * 10 + HexValue(c) > IntMax THEN IntMax + 1
                           ELSE v * 10 + HexValue(c), 0, digits)

FractionEnd(p) ==
    IF At(p) = "." /\ At(p + 1) \in Digits THEN RunEnd(p + 1, Digits) ELSE p

ExponentEnd(p) ==
    LET k == IF At(p + 1) \in {"+", "-"} THEN 2 ELSE 1 IN
    IF At(p) = "e" /\ At(p + k) \in Digits THEN RunEnd(p + k, Digits) ELSE p

LexHex ==
    LET end == RunEnd(lx.pos + 2, HexDigits)
        v == HexNumber(SubSeq(src, lx.pos + 2, end - 1)) IN
    /\ Peek(0) = "0" /\ Peek(1) = "x"
    /\ IF end = lx.pos + 2 \/ v < 0
       THEN Refuse(end) /\ UNCHANGED out
       ELSE /\ out' = Pushed("INT", end, v)
            /\ lx' = Advanced(lx, end - lx.pos)
            /\ done' = hasError
            /\ UNCHANGED hasError
    /\ UNCHANGED src

LexDecimal ==
    LET whole == RunEnd(lx.pos, Digits)
        end == ExponentEnd(FractionEnd(whole))
        isFloat == end # whole
        v == DecNumber(SubSeq(src, lx.pos, whole - 1)) IN
    /\ Peek(0) \in Digits
    /\ ~(Peek(0) = "0" /\ Peek(1) = "x")
    /\ out' = IF isFloat THEN Pushed("FLOAT", end, 0)
                         ELSE Pushed("INT", end, IF v > IntMax THEN IntMax ELSE v)
    /\ lx' = Advanced(lx, end - lx.pos)
    /\ hasError' = (hasError \/ (~isFloat /\ v > IntMax))
    /\ done' = hasError'
    /\ UNCHANGED src

----------------------------------------------------------------------------
(* lexIdent: a reserved name is an error, but its token is pushed and the   *)
(* scan goes on until a literal asks for hasError.                          *)

LexIdent ==
    LET end == RunEnd(lx.pos, Alphas \cup Digits)
        text == SubSeq(src, lx.pos, end - 1) IN
    /\ Peek(0) \in Alphas
    /\ ~(Peek(0) = "f" /\ Peek(1) = Quote)
    /\ out' = Pushed(CASE text \in KEYWORDS -> "KEYWORD"
                       [] text \in BUILTIN_TYPES -> "TYPE"
                       [] OTHER -> "IDENT", end, 0)
    /\ lx' = Advanced(lx, end - lx.pos)
    /\ hasError' = (hasError \/ (Peek(0) = "_" /\ Peek(1) = "_"))
    /\ UNCHANGED <<src, done>>

(* The byte of the digits of a hexadecimal escape.                         *)
HexByte(digits) == FoldLeft(LAMBDA v, c : v * 16 + HexValue(c), 0, digits)

(* lexEscape, from the character after the backslash: where it stops and    *)
(* the byte it stands for, -1 for an unknown escape.                        *)
Escaped == [c \in {"n", "0", "\\", "'", Quote, "a", "f"} |->
             CASE c = "n" -> 10 [] c = "0" -> 0 [] c = "\\" -> 92
               [] c = "'" -> 39 [] c = Quote -> 34 [] c = "a" -> 7
               [] c = "f" -> 12]

Escape(p) ==
    LET end == Min({RunEnd(p + 1, HexDigits), p + 3})
        digits == SubSeq(src, p + 1, end - 1) IN
    CASE At(p) \in DOMAIN Escaped -> [end |-> p + 1, v |-> Escaped[At(p)]]
      [] At(p) = "x" ->
           [end |-> end,
            v |-> IF digits = <<>> THEN -1 ELSE HexByte(digits)]
      [] OTHER -> [end |-> p + 1, v |-> -1]

(* Faulty variant: one more character is consumed after an escape.          *)
StringScanBad ==
    LET scan[p \in 1..(Len(src) + 4)] ==
            LET e == Escape(p + 1) IN
            CASE p > Len(src) \/ At(p) = "\n" -> [end |-> p, ok |-> FALSE]
              [] At(p) = Quote -> [end |-> p, ok |-> TRUE]
              [] At(p) = "\\" -> IF e.v < 0 THEN [end |-> e.end, ok |-> FALSE]
                                 ELSE scan[e.end + 1]
              [] OTHER -> scan[p + 1]
    IN scan

(* The loop of lexString from position p: the position of the closing       *)
(* quote, or where it gave up.                                              *)
StringScan ==
    LET scan[p \in 1..(Len(src) + 3)] ==
            LET e == Escape(p + 1) IN
            CASE p > Len(src) \/ At(p) = "\n" -> [end |-> p, ok |-> FALSE]
              [] At(p) = Quote -> [end |-> p, ok |-> TRUE]
              [] At(p) = "\\" -> IF e.v < 0 THEN [end |-> e.end, ok |-> FALSE]
                                 ELSE scan[e.end]
              [] OTHER -> scan[p + 1]
    IN scan

(* lexString, behind the prefix of a format string or without one.          *)
LexString(kind, prefix) ==
    LET s == StringScan[lx.pos + prefix + 1] IN
    IF s.ok
    THEN /\ out' = Pushed(kind, s.end + 1, 0)
         /\ lx' = Advanced(lx, s.end + 1 - lx.pos)
         /\ done' = hasError
         /\ UNCHANGED <<src, hasError>>
    ELSE Refuse(s.end) /\ UNCHANGED <<src, out>>

LexStr == Peek(0) = Quote /\ LexString("STRING", 0)

LexFormat == Peek(0) = "f" /\ Peek(1) = Quote /\ LexString("FSTRING", 1)

(* lexChar: the closing quote is looked for first, on this line, skipping   *)
(* escaped characters; then the contents are decoded.  The cursor is set    *)
(* directly, so only what lexEscape consumes counts for the column.         *)
CloseQuote ==
    LET close[p \in 1..(Len(src) + 3)] ==
            CASE p > Len(src) \/ At(p) = "\n" -> 0
              [] At(p) = "\\" -> close[p + 2]
              [] At(p) = "'" -> p
              [] OTHER -> close[p + 1]
    IN close

LexChar ==
    LET start == lx.pos
        close == CloseQuote[start + 1]
        esc == At(start + 1) = "\\"
        e == Escape(start + 2)
        v == IF esc THEN e.v ELSE Ascii[At(start + 1)]
        ok == /\ close > start + 1
              /\ IF esc THEN e.v >= 0 /\ e.end = close ELSE close = start + 2 IN
    /\ Peek(0) = "'"
    /\ IF ok
       THEN /\ out' = Pushed("INT", close + 1, v)
            /\ lx' = [lx EXCEPT !.pos = close + 1,
                                !.col = IF esc THEN @ + e.end - (start + 2) ELSE @]
            /\ done' = hasError
            /\ UNCHANGED hasError
       ELSE Refuse(start) /\ UNCHANGED out
    /\ UNCHANGED src

(* lexPunct: the first entry of the table that matches.                     *)
Matches == {i \in DOMAIN PUNCTS :
              SubSeq(src, lx.pos, Min({Len(src), lx.pos + Len(PUNCTS[i]) - 1}))
                  = PUNCTS[i]}

LexPunct ==
    /\ Peek(0) \notin Digits \cup Alphas \cup Blanks \cup {"\n", Quote, "'"}
    /\ ~(Peek(0) = "/" /\ Peek(1) \in {"/", "*"})
    /\ IF Matches = {}
       THEN Refuse(lx.pos) /\ UNCHANGED out
       ELSE LET n == Len(PUNCTS[Min(Matches)]) IN
            /\ out' = Pushed("PUNCT", lx.pos + n, 0)
            /\ lx' = Advanced(lx, n)
            /\ UNCHANGED <<hasError, done>>
    /\ UNCHANGED src

----------------------------------------------------------------------------
(* lexRange: blanks, newlines, comments, and the end of the text.           *)

SkipBlank ==
    /\ Peek(0) \in Blanks
    /\ lx' = Advanced(lx, 1)
    /\ UNCHANGED <<src, out, hasError, done>>

EndsLine == out # <<>> /\ Last(out).kind = "NEWLINE"

Newline ==
    /\ Peek(0) = "\n"
    /\ lx' = Advanced(lx, 1)
    /\ out' = IF EndsLine THEN out ELSE Pushed("NEWLINE", lx.pos + 1, 0)
    /\ UNCHANGED <<src, hasError, done>>

LineComment ==
    /\ Peek(0) = "/" /\ Peek(1) = "/"
    /\ LET end == Min({j \in lx.pos..(Len(src) + 1) :
                          j > Len(src) \/ At(j) = "\n"}) IN
       lx' = Advanced(lx, end - lx.pos)
    /\ UNCHANGED <<src, out, hasError, done>>

(* Faulty variant: the star of the opening can close the comment.           *)
BlockCommentBad ==
    LET ends == {j \in (lx.pos + 1)..Len(src) : At(j) = "*" /\ At(j + 1) = "/"} IN
    /\ Peek(0) = "/" /\ Peek(1) = "*"
    /\ IF ends = {} THEN Refuse(Len(src) + 1)
       ELSE /\ lx' = Advanced(lx, Min(ends) + 2 - lx.pos)
            /\ UNCHANGED <<hasError, done>>
    /\ UNCHANGED <<src, out>>

BlockComment ==
    LET ends == {j \in (lx.pos + 2)..Len(src) : At(j) = "*" /\ At(j + 1) = "/"} IN
    /\ Peek(0) = "/" /\ Peek(1) = "*"
    /\ IF ends = {} THEN Refuse(Len(src) + 1)
       ELSE /\ lx' = Advanced(lx, Min(ends) + 2 - lx.pos)
            /\ UNCHANGED <<hasError, done>>
    /\ UNCHANGED <<src, out>>

(* Faulty variant: no terminator is added at the end of the file.           *)
FinishBad ==
    /\ lx.pos > Len(src)
    /\ out' = Append(out, Token("EOF", lx.pos, lx.pos, lx.line, lx.col, 0))
    /\ done' = TRUE
    /\ UNCHANGED <<src, lx, hasError>>

Finish ==
    LET nl == Token("NEWLINE", lx.pos, lx.pos, lx.line, lx.col, 0)
        eof == Token("EOF", lx.pos, lx.pos, lx.line, lx.col, 0) IN
    /\ lx.pos > Len(src)
    /\ out' = Append(IF EndsLine THEN out ELSE Append(out, nl), eof)
    /\ done' = TRUE
    /\ UNCHANGED <<src, lx, hasError>>

LexInit ==
    /\ src \in Sources
    /\ lx = [pos |-> 1, line |-> 1, col |-> 1]
    /\ out = <<>>
    /\ hasError = FALSE
    /\ done = FALSE

LexTurn ==
    /\ ~done
    /\ \/ Finish
       \/ /\ lx.pos <= Len(src)
          /\ \/ SkipBlank \/ Newline \/ LineComment \/ BlockComment
             \/ LexHex \/ LexDecimal \/ LexIdent \/ LexStr \/ LexFormat
             \/ LexChar \/ LexPunct

(* One text, scanned to its end or to the error that stops the scan.        *)
LexSpec == LexInit /\ [][LexTurn]_lexVars

----------------------------------------------------------------------------
(* Properties.                                                             *)

Text(t) == SubSeq(src, t.at, t.end - 1)

NewlinesBefore(p) == {i \in 1..(p - 1) : At(i) = "\n"}

(* lexChar moves the cursor without lxAdvance, so a column is only exact up *)
(* to the first character literal of its line.                              *)
AfterChar(i) ==
    \E j \in 1..(i - 1) : /\ At(out[j].at) = "'"
                           /\ out[j].line = out[i].line

(* Diagnostics point at the right place: every token carries the line of    *)
(* its first character, and its column when no character literal precedes   *)
(* it on the line (lxAdvance, over newlines in comments too).               *)
PlacesExact ==
    \A i \in DOMAIN out :
        LET nl == NewlinesBefore(out[i].at) IN
        /\ out[i].line = 1 + Cardinality(nl)
        /\ ~AfterChar(i) => out[i].col = out[i].at - Max(nl \cup {0})

(* What the comment on lxAdvance claims of every token: the column is the   *)
(* place of its first character.                                            *)
ColumnsExact ==
    \A i \in DOMAIN out :
        out[i].col = out[i].at - Max(NewlinesBefore(out[i].at) \cup {0})

(* A literal ends at its first bare quote: inside a string or character     *)
(* literal every quote has an odd run of backslashes before it, and the     *)
(* closing one an even run (lexString, lexEscape, lexChar agree on what an  *)
(* escape consumes).                                                        *)
Backslashes(p) == p - 1 - Max({j \in 0..(p - 1) : At(j) # "\\"})

QuotesBare ==
    \A t \in Range(out) :
        LET q == At(t.end - 1) IN
        t.kind \in {"STRING", "FSTRING"} \/ (t.kind = "INT" /\ At(t.at) = "'") =>
            \A p \in (t.at + 1)..(t.end - 1) :
                /\ p < t.end - 1 /\ At(p) = q /\ (t.kind = "FSTRING" => p > t.at + 1)
                       => Backslashes(p) % 2 = 1
                /\ p = t.end - 1 => Backslashes(p) % 2 = 0

(* Nothing of the text is lost: between two tokens there are only blanks,    *)
(* newlines, line comments up to the newline and block comments up to the   *)
(* first `*/` that does not overlap the opening `/*`.                        *)
Skippable(p, q) ==
    LET skip[i \in p..(Len(src) + 1)] ==
            \/ i = q
            \/ i < q /\ At(i) \in Blanks \cup {"\n"} /\ skip[i + 1]
            \/ /\ i < q /\ At(i) = "/" /\ At(i + 1) = "/"
               /\ skip[Min({j \in i..(Len(src) + 1) :
                              j > Len(src) \/ At(j) = "\n"})]
            \/ /\ i < q /\ At(i) = "/" /\ At(i + 1) = "*"
               /\ LET ends == {j \in (i + 2)..(q - 2) : At(j) = "*" /\ At(j + 1) = "/"}
                  IN ends # {} /\ skip[Min(ends) + 2]
    IN skip[p]

NothingDropped ==
    \A i \in 1..(Len(out) - 1) : Skippable(out[i].end, out[i + 1].at)

(* Maximal munch: a punctuation token is the longest table entry at its      *)
(* place, and an identifier or keyword stops only before a character that   *)
(* could not continue it (the order of PUNCTS, the loop of lexIdent).       *)
LongestMatch ==
    \A t \in Range(out) :
        /\ t.kind = "PUNCT" =>
              ~\E i \in DOMAIN PUNCTS :
                  /\ Len(PUNCTS[i]) > t.end - t.at
                  /\ IsPrefix(PUNCTS[i], SubSeq(src, t.at, Len(src)))
        /\ t.kind \in {"IDENT", "KEYWORD", "TYPE"} =>
              At(t.end) \notin Alphas \cup Digits

(* The parser's loops end at a NEWLINE or at EOF: a text scanned without an *)
(* error ends with both, and two NEWLINEs are never adjacent.               *)
StreamClosed ==
    /\ \A i \in 1..(Len(out) - 1) :
          ~(out[i].kind = "NEWLINE" /\ out[i + 1].kind = "NEWLINE")
    /\ done /\ ~hasError =>
          /\ Len(out) >= 2
          /\ out[Len(out)].kind = "EOF" /\ out[Len(out) - 1].kind = "NEWLINE"

(* The tokens are the text: each at its place, ended where the language ends  *)
(* it, with nothing between them but what may be skipped, in a stream the     *)
(* parser's loops can rely on (lexRange and everything it calls).             *)
ScanExact == PlacesExact /\ QuotesBare /\ NothingDropped /\ LongestMatch /\ StreamClosed
=============================================================================
