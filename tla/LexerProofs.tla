---------------------------- MODULE LexerProofs ----------------------------
(***************************************************************************)
(* The scanner, proved: whatever the text, every token is in its place,     *)
(* ends where the language ends it, and nothing is lost between two tokens  *)
(* (ScanExact).  The properties are first stated of a text x, a stream of   *)
(* tokens o and a cursor l, so that a step is a fact about those alone.     *)
(***************************************************************************)
EXTENDS Lexer, SharedLemmas

-----------------------------------------------------------------------------
(***************************************************************************)
(* Characters, runs and places.                                            *)
(***************************************************************************)
CharAt(x, j) == IF j \in 1..Len(x) THEN x[j] ELSE "\\0"

\* The newlines of x in lo..hi, and the line and column of place p.
Breaks(x, lo, hi) == {i \in lo..hi : CharAt(x, i) = "\n"}
LineAt(x, p) == 1 + Cardinality(Breaks(x, 1, p - 1))
ColAt(x, p) == p - Max(Breaks(x, 1, p - 1) \cup {0})

\* One of the first n tokens is a character literal of this line.
Charred(x, o, n, line) ==
  \E j \in 1..n : CharAt(x, o[j].at) = "'" /\ o[j].line = line

\* A token or a cursor at p, after n tokens, is where it says it is.
Placed(x, o, n, p, line, col) ==
  /\ line = LineAt(x, p)
  /\ ~Charred(x, o, n, line) => col = ColAt(x, p)

LEMMA BreaksFacts ==
  ASSUME NEW x, NEW p \in Nat \ {0}
  PROVE  /\ Breaks(x, 1, p - 1) \subseteq Nat
         /\ IsFiniteSet(Breaks(x, 1, p - 1))
         /\ Cardinality(Breaks(x, 1, p - 1)) \in Nat
         /\ Max(Breaks(x, 1, p - 1) \cup {0}) \in 0..(p - 1)
         /\ \A k \in Breaks(x, 1, p - 1) : k <= Max(Breaks(x, 1, p - 1) \cup {0})
<1>1. PICK D : D = Breaks(x, 1, p - 1)
  OBVIOUS
<1>2. D \subseteq 1..(p - 1)
  BY <1>1 DEF Breaks
<1>3. 1 \in Int /\ p - 1 \in Int /\ p - 1 \in Nat
  OBVIOUS
<1>4. IsFiniteSet(1..(p - 1))
  BY ONLY <1>3, FS_Interval
<1>5. IsFiniteSet(D)
  BY ONLY <1>2, <1>4, FS_Subset
<1>6. Cardinality(D) \in Nat
  BY ONLY <1>5, FS_CardinalityType
<1>7. PICK E : E = D \cup {0}
  OBVIOUS
<1>8. E \subseteq 0..(p - 1) /\ E # {}
  BY <1>2, <1>3, <1>7
<1>9. Max(E) \in E /\ \A k \in E : k <= Max(E)
  BY ONLY <1>3, <1>8, MaxOf
<1>10. D \subseteq Nat
  BY <1>2
<1> QED BY ONLY <1>1, <1>5, <1>6, <1>7, <1>8, <1>9, <1>10

\* The newlines up to a later place are those up to here and those between.
LEMMA BreaksSplit ==
  ASSUME NEW x, NEW p \in Nat \ {0}, NEW n \in Nat
  PROVE  /\ Breaks(x, 1, p + n - 1) = Breaks(x, 1, p - 1) \cup Breaks(x, p, p + n - 1)
         /\ Breaks(x, 1, p - 1) \cap Breaks(x, p, p + n - 1) = {}
         /\ IsFiniteSet(Breaks(x, p, p + n - 1))
<1>1. \A i : i \in 1..(p + n - 1) <=> i \in 1..(p - 1) \/ i \in p..(p + n - 1)
  OBVIOUS
<1>2. Breaks(x, 1, p + n - 1) = Breaks(x, 1, p - 1) \cup Breaks(x, p, p + n - 1)
  BY ONLY <1>1 DEF Breaks
<1>3. \A i : ~(i \in 1..(p - 1) /\ i \in p..(p + n - 1))
  OBVIOUS
<1>4. Breaks(x, 1, p - 1) \cap Breaks(x, p, p + n - 1) = {}
  BY ONLY <1>3 DEF Breaks
<1>5. p \in Int /\ p + n - 1 \in Int
  OBVIOUS
<1>6. IsFiniteSet(p..(p + n - 1))
  BY ONLY <1>5, FS_Interval
<1>7. Breaks(x, p, p + n - 1) \subseteq p..(p + n - 1)
  BY DEF Breaks
<1>8. IsFiniteSet(Breaks(x, p, p + n - 1))
  BY ONLY <1>6, <1>7, FS_Subset
<1> QED BY ONLY <1>2, <1>4, <1>8

LEMMA LineSplit ==
  ASSUME NEW x, NEW p \in Nat \ {0}, NEW n \in Nat
  PROVE  /\ LineAt(x, p) \in Nat
         /\ Cardinality(Breaks(x, p, p + n - 1)) \in Nat
         /\ LineAt(x, p + n) = LineAt(x, p) + Cardinality(Breaks(x, p, p + n - 1))
<1>1. PICK A : A = Breaks(x, 1, p - 1)
  OBVIOUS
<1>2. PICK B : B = Breaks(x, p, p + n - 1)
  OBVIOUS
<1>3. IsFiniteSet(A) /\ IsFiniteSet(B) /\ A \cap B = {}
  BY <1>1, <1>2, BreaksFacts, BreaksSplit
<1>4. Cardinality(A) \in Nat /\ Cardinality(B) \in Nat
  BY ONLY <1>3, FS_CardinalityType
<1>5. Cardinality(A \cup B) = Cardinality(A) + Cardinality(B) - Cardinality(A \cap B)
  BY ONLY <1>3, FS_Union
<1>6. Cardinality({}) = 0
  BY FS_EmptySet
<1>7. Cardinality(A \cup B) = Cardinality(A) + Cardinality(B)
  <2>1. Cardinality(A \cap B) = 0
    BY ONLY <1>3, <1>6
  <2> QED BY ONLY <1>4, <1>5, <2>1
<1>8. LineAt(x, p + n) = 1 + Cardinality(A \cup B)
  <2>1. Breaks(x, 1, (p + n) - 1) = A \cup B
    BY ONLY <1>1, <1>2, p \in Nat \ {0}, n \in Nat, BreaksSplit
  <2> QED BY ONLY <2>1 DEF LineAt
<1>9. LineAt(x, p) = 1 + Cardinality(A)
  BY ONLY <1>1 DEF LineAt
<1> QED BY ONLY <1>2, <1>4, <1>7, <1>8, <1>9

\* Advancing over n characters keeps the cursor in its place: the line counts
\* the newlines passed, and behind one of them the column is exact again.
LEMMA PlacedOn ==
  ASSUME NEW x, NEW o, NEW m \in Nat, NEW p \in Nat \ {0}, NEW n \in Nat,
         NEW line, NEW col, Placed(x, o, m, p, line, col), col \in Int
  PROVE  LET nl == Breaks(x, p, p + n - 1)
             c == IF nl = {} THEN col + n ELSE p + n - Max(nl)
         IN Placed(x, o, m, p + n, line + Cardinality(nl), c) /\ c \in Int
<1>1. PICK B : B = Breaks(x, p, p + n - 1)
  OBVIOUS
<1>2. PICK A : A = Breaks(x, 1, p - 1)
  OBVIOUS
<1>3. LineAt(x, p + n) = line + Cardinality(B) /\ line \in Nat /\ Cardinality(B) \in Nat
  BY <1>1, LineSplit DEF Placed
<1>4. ColAt(x, p) = p - Max(A \cup {0}) /\ Max(A \cup {0}) \in 0..(p - 1)
  BY <1>2, BreaksFacts DEF ColAt
<1>5. ColAt(x, p + n) = (p + n) - Max(A \cup B \cup {0})
  <2>1. Breaks(x, 1, (p + n) - 1) = A \cup B
    BY ONLY <1>1, <1>2, p \in Nat \ {0}, n \in Nat, BreaksSplit
  <2>2. ColAt(x, p + n) = (p + n) - Max(Breaks(x, 1, (p + n) - 1) \cup {0})
    BY ONLY Zenon DEF ColAt
  <2>3. Breaks(x, 1, (p + n) - 1) \cup {0} = A \cup B \cup {0}
    BY ONLY <2>1
  <2> QED BY ONLY <2>2, <2>3, Zenon
<1>6. CASE B = {}
  <2>1. Cardinality(B) = 0
    BY ONLY <1>6, FS_EmptySet
  <2>2. line + Cardinality(B) = line
    BY ONLY <1>3, <2>1
  <2>3. A \cup B \cup {0} = A \cup {0}
    BY ONLY <1>6
  <2>4. PICK M \in Nat : M = Max(A \cup {0})
    BY ONLY <1>4
  <2>5. col = p - M => col + n = (p + n) - M
    BY ONLY <2>4, p \in Nat \ {0}, n \in Nat, col \in Int
  <2>6. ~Charred(x, o, m, line) => col = p - M
    BY <1>4, <2>4 DEF Placed
  <2>7. Placed(x, o, m, p + n, line, col + n)
    <3>1. line = LineAt(x, p + n)
      BY ONLY <1>3, <2>2
    <3>2. ColAt(x, p + n) = (p + n) - M
      BY ONLY <1>5, <2>3, <2>4
    <3> QED BY ONLY <2>5, <2>6, <3>1, <3>2 DEF Placed
  <2>8. col + n \in Int
    OBVIOUS
  <2> QED BY ONLY <1>1, <1>6, <2>2, <2>7, <2>8
<1>7. CASE B # {}
  <2>1. B \subseteq 0..(p + n) /\ p + n \in Nat
    BY <1>1 DEF Breaks
  <2>2. Max(B) \in B /\ \A k \in B : k <= Max(B)
    BY ONLY <1>7, <2>1, MaxOf
  <2>3. PICK M \in Nat : M = Max(B) /\ M >= p /\ M \in B /\ \A k \in B : k <= M
    <3>1. Max(B) \in p..(p + n - 1) /\ Max(B) \in Nat
      BY <1>1, <2>2 DEF Breaks
    <3> QED BY ONLY <2>2, <3>1
  <2>4. A \subseteq 1..(p - 1)
    BY <1>2 DEF Breaks
  <2>5. \A k \in A \cup B \cup {0} : k <= M /\ k \in Nat
    <3>1. \A k \in A : k <= M /\ k \in Nat
      BY ONLY <2>3, <2>4, p \in Nat \ {0}
    <3>2. \A k \in B : k \in Nat
      BY ONLY <2>1
    <3>3. 0 <= M /\ 0 \in Nat
      BY ONLY <2>3
    <3> QED BY ONLY <2>3, <3>1, <3>2, <3>3
  <2>6. Max(A \cup B \cup {0}) = M
    BY ONLY <2>3, <2>5, MaxIs
  <2>7. Placed(x, o, m, p + n, line + Cardinality(B), p + n - M)
    BY ONLY <1>3, <1>5, <2>6 DEF Placed
  <2>8. p + n - M \in Int
    BY <2>3
  <2> QED BY ONLY <1>1, <1>7, <2>3, <2>7, <2>8
<1> QED BY ONLY <1>6, <1>7

\* More tokens can only excuse a column.
LEMMA PlacedMore ==
  ASSUME NEW x, NEW o, NEW m \in Nat, NEW w, NEW p, NEW line, NEW col,
         Placed(x, o, m, p, line, col), \A j \in 1..m : w[j] = o[j]
  PROVE  Placed(x, w, m, p, line, col) /\ Placed(x, w, m + 1, p, line, col)
<1>1. Charred(x, o, m, line) => Charred(x, w, m, line)
  BY DEF Charred
<1>2. Charred(x, o, m, line) => Charred(x, w, m + 1, line)
  BY DEF Charred
<1> QED BY <1>1, <1>2 DEF Placed

\* The end of a run of characters.
LEMMA RunFacts ==
  ASSUME NEW x, Len(x) \in Nat, NEW p \in Nat \ {0}, p <= Len(x) + 1, NEW cls, "\\0" \notin cls
  PROVE  LET e == Min({j \in p..(Len(x) + 1) : CharAt(x, j) \notin cls})
         IN /\ e \in p..(Len(x) + 1)
            /\ CharAt(x, e) \notin cls
            /\ \A j \in p..(e - 1) : CharAt(x, j) \in cls
<1>1. PICK D : D = {j \in p..(Len(x) + 1) : CharAt(x, j) \notin cls}
  OBVIOUS
<1>2. CharAt(x, Len(x) + 1) = "\\0" /\ Len(x) + 1 \in p..(Len(x) + 1)
  BY DEF CharAt
<1>3. D \subseteq Nat /\ D # {}
  BY <1>1, <1>2
<1>4. Min(D) \in D /\ \A k \in D : Min(D) <= k
  BY ONLY <1>3, MinOf
<1>5. PICK e \in D : e = Min(D) /\ \A k \in D : e <= k
  BY ONLY <1>4
<1>6. e \in p..(Len(x) + 1) /\ CharAt(x, e) \notin cls
  BY ONLY <1>1, <1>5
<1>7. \A j \in p..(e - 1) : CharAt(x, j) \in cls
  <2>1. ASSUME NEW j \in p..(e - 1), CharAt(x, j) \notin cls PROVE FALSE
    <3>1. j \in p..(Len(x) + 1) /\ ~(e <= j)
      BY <1>6
    <3>2. j \in D
      BY ONLY <1>1, <2>1, <3>1
    <3> QED BY ONLY <1>5, <3>1, <3>2
  <2> QED BY <2>1
<1> QED BY ONLY <1>1, <1>5, <1>6, <1>7

-----------------------------------------------------------------------------
(***************************************************************************)
(* Scans that only look ahead: such a recursion has a solution.            *)
(***************************************************************************)
Ahead(f, a, n, stop, val, next) ==
  f = [p \in a..n |-> IF stop[p] THEN val[p] ELSE f[next[p]]]

LEMMA AheadStep ==
  ASSUME NEW n \in Nat, NEW a \in 1..n, NEW stop, NEW val, NEW next,
         \A p \in 1..n : ~stop[p] => next[p] \in (p + 1)..n,
         NEW f, Ahead(f, a + 1, n, stop, val, next)
  PROVE  \E g : Ahead(g, a, n, stop, val, next)
<1>1. PICK v : v = IF stop[a] THEN val[a] ELSE f[next[a]]
  OBVIOUS
<1>2. PICK g : g = [p \in a..n |-> IF p = a THEN v ELSE f[p]]
  OBVIOUS
<1>3. g[a] = v /\ \A p \in (a + 1)..n : g[p] = f[p]
  <2>1. a \in a..n /\ \A p \in (a + 1)..n : p \in a..n /\ p # a
    OBVIOUS
  <2> QED BY ONLY <1>2, <2>1
<1>4. \A p \in (a + 1)..n : f[p] = IF stop[p] THEN val[p] ELSE f[next[p]]
  BY ONLY Ahead(f, a + 1, n, stop, val, next) DEF Ahead
<1>5. ASSUME NEW p \in a..n
      PROVE  g[p] = IF stop[p] THEN val[p] ELSE g[next[p]]
  <2>1. ~stop[p] => next[p] \in (a + 1)..n
    <3>1. p \in 1..n
      OBVIOUS
    <3>2. ~stop[p] => next[p] \in (p + 1)..n
      BY <3>1
    <3>3. \A q \in (p + 1)..n : q \in (a + 1)..n
      OBVIOUS
    <3> QED BY ONLY <3>2, <3>3
  <2>2. ~stop[p] => g[next[p]] = f[next[p]]
    BY ONLY <1>3, <2>1
  <2>3. CASE p = a
    BY ONLY <1>1, <1>3, <2>2, <2>3
  <2>4. CASE p # a
    <3>1. p \in (a + 1)..n
      BY ONLY <2>4, a \in 1..n, n \in Nat, p \in a..n
    <3> QED BY ONLY <1>3, <1>4, <2>2, <3>1
  <2> QED BY ONLY <2>3, <2>4
<1>6. g = [p \in a..n |-> g[p]]
  BY ONLY <1>2
<1>7. g = [p \in a..n |-> IF stop[p] THEN val[p] ELSE g[next[p]]]
  BY ONLY <1>5, <1>6
<1> QED BY ONLY <1>7 DEF Ahead

LEMMA AheadExists ==
  ASSUME NEW n \in Nat, NEW stop, NEW val, NEW next,
         \A p \in 1..n : ~stop[p] => next[p] \in (p + 1)..n
  PROVE  \E f : Ahead(f, 1, n, stop, val, next)
<1> DEFINE D == {k \in 0..n : ~ \E f : Ahead(f, (n - k) + 1, n, stop, val, next)}
<1>1. ASSUME D # {}
      PROVE  FALSE
  <2>1. D \subseteq Nat
    OBVIOUS
  <2>2. PICK m \in D : \A k \in D : m <= k
    <3> HIDE DEF D
    <3> QED BY ONLY <1>1, <2>1, NatMin
  <2>3. m \in 0..n /\ ~ \E f : Ahead(f, (n - m) + 1, n, stop, val, next)
    OBVIOUS
  <2>4. CASE m = 0
    <3>1. (n - m) + 1 = n + 1 /\ \A p : p \notin (n + 1)..n
      BY <2>4
    <3>2. PICK f : f = [p \in {} |-> 0]
      OBVIOUS
    <3>3. (n + 1)..n = {}
      BY ONLY <3>1
    <3>4. f = [p \in (n + 1)..n |-> IF stop[p] THEN val[p] ELSE f[next[p]]]
      BY ONLY <3>2, <3>3
    <3> QED BY ONLY <2>3, <3>1, <3>4 DEF Ahead
  <2>5. CASE m # 0
    <3>1. m - 1 \in 0..n /\ ~(m <= m - 1) /\ (n - (m - 1)) + 1 = ((n - m) + 1) + 1
          /\ (n - m) + 1 \in 1..n
      BY <2>3, <2>5
    <3>2. m - 1 \notin D
      BY ONLY <2>2, <3>1
    <3>3. PICK f : Ahead(f, (n - (m - 1)) + 1, n, stop, val, next)
      BY <3>1, <3>2
    <3>4. PICK a \in 1..n : a = (n - m) + 1
      BY ONLY <3>1
    <3>5. Ahead(f, a + 1, n, stop, val, next)
      BY ONLY <3>1, <3>3, <3>4
    <3>6. \E g : Ahead(g, a, n, stop, val, next)
      <4> HIDE DEF D
      <4> QED BY <3>5, AheadStep
    <3> QED BY ONLY <2>3, <3>4, <3>6
  <2> QED BY <2>4, <2>5
<1>2. n \in 0..n /\ (n - n) + 1 = 1
  OBVIOUS
<1>3. n \notin D
  <2> HIDE DEF D
  <2> QED BY ONLY <1>1
<1>4. PICK f : Ahead(f, 1, n, stop, val, next)
  BY <1>2, <1>3
<1> QED BY ONLY <1>4

-----------------------------------------------------------------------------
(***************************************************************************)
(* Runs of backslashes, and escapes.                                       *)
(***************************************************************************)
Back(x, p) == p - 1 - Max({j \in 0..(p - 1) : CharAt(x, j) # "\\"})

LEMMA BackFacts ==
  ASSUME NEW x, NEW p \in Nat \ {0}
  PROVE  /\ Back(x, p) \in Nat
         /\ CharAt(x, p - 1) # "\\" => Back(x, p) = 0
         /\ CharAt(x, p) = "\\" => Back(x, p + 1) = Back(x, p) + 1
<1>1. PICK Q : Q = {j \in 0..(p - 1) : CharAt(x, j) # "\\"}
  OBVIOUS
<1>2. CharAt(x, 0) = "\\0"
  BY DEF CharAt
<1>3. 0 \in Q /\ Q \subseteq 0..(p - 1) /\ p - 1 \in Nat
  BY <1>1, <1>2
<1>4. Max(Q) \in Q /\ \A k \in Q : k <= Max(Q)
  BY ONLY <1>3, MaxOf
<1>5. PICK M \in 0..(p - 1) : M = Max(Q) /\ M \in Q /\ \A k \in Q : k <= M
  BY ONLY <1>3, <1>4
<1>6. Back(x, p) = p - 1 - M
  BY ONLY <1>1, <1>5 DEF Back
<1>7. CharAt(x, p - 1) # "\\" => M = p - 1
  <2>1. SUFFICES ASSUME CharAt(x, p - 1) # "\\" PROVE M = p - 1
    OBVIOUS
  <2>2. p - 1 \in Q
    BY <1>1, <2>1
  <2>3. p - 1 <= M
    BY ONLY <1>5, <2>2
  <2> QED BY <1>5, <2>3
<1>8. CharAt(x, p) = "\\" => Back(x, p + 1) = p - M
  <2>1. SUFFICES ASSUME CharAt(x, p) = "\\" PROVE Back(x, p + 1) = p - M
    OBVIOUS
  <2>2. {j \in 0..((p + 1) - 1) : CharAt(x, j) # "\\"} = Q
    BY <1>1, <2>1
  <2>3. (p + 1) - 1 = p
    OBVIOUS
  <2> QED BY ONLY <1>5, <2>2, <2>3 DEF Back
<1> QED BY <1>5, <1>6, <1>7, <1>8

\* A quote is none of the other characters.
LEMMA QuoteApart == Quote \notin {"\n", "\\0", "\\", "'", "n", "0", "8", "a", "e", "f", "i",
                                 "x", "_", " ", "\t", "\r", "/", "*", "."}
  BY DEF Quote

EscapedChars == {"n", "0", "\\", "'", Quote, "a", "f"}

\* What an escape that stands for a byte consumes: one character, or x and
\* hexadecimal digits.
EscapeSpan(x, p, e) ==
  /\ p <= Len(x)
  /\ \/ CharAt(x, p) \in EscapedChars /\ e = p + 1
     \/ /\ CharAt(x, p) = "x" /\ e \in (p + 2)..(Len(x) + 1)
        /\ \A j \in (p + 1)..(e - 1) : CharAt(x, j) \in HexDigits

LEMMA EscapeFacts ==
  ASSUME src \in Seq(STRING), NEW p \in 1..(Len(src) + 1), Escape(p).v # -1
  PROVE  EscapeSpan(src, p, Escape(p).end)
<1>0. Len(src) \in Nat
  OBVIOUS
<1>1. DOMAIN Escaped = EscapedChars
  BY DEF Escaped, EscapedChars
<1>2. At(p) = CharAt(src, p)
  BY DEF At, CharAt
<1>3. CASE At(p) \in DOMAIN Escaped
  <2>1. Escape(p).end = p + 1
    <3>1. PICK c : c = At(p)
      OBVIOUS
    <3>2. c # "x" /\ c \in DOMAIN Escaped
      BY ONLY <1>1, <1>3, <3>1, QuoteApart DEF EscapedChars
    <3>3. Escape(p) = [end |-> p + 1, v |-> Escaped[c]]
      BY ONLY <3>1, <3>2 DEF Escape
    <3> QED BY ONLY <3>3
  <2>2. p <= Len(src)
    <3>1. "\\0" \notin EscapedChars
      BY QuoteApart DEF EscapedChars
    <3> QED BY <1>0, <1>1, <1>2, <1>3, <3>1 DEF CharAt
  <2> QED BY ONLY <1>1, <1>2, <1>3, <2>1, <2>2 DEF EscapeSpan
<1>4. CASE At(p) \notin DOMAIN Escaped /\ At(p) = "x"
  <2>1. p <= Len(src)
    BY <1>0, <1>2, <1>4 DEF CharAt
  <2>2. PICK r : r = RunEnd(p + 1, HexDigits)
    OBVIOUS
  <2>3. r = Min({j \in (p + 1)..(Len(src) + 1) : CharAt(src, j) \notin HexDigits})
    BY ONLY <2>2 DEF RunEnd, At, CharAt
  <2>4. "\\0" \notin HexDigits
    BY DEF HexDigits, Digits
  <2>5. /\ r \in (p + 1)..(Len(src) + 1)
        /\ \A j \in (p + 1)..(r - 1) : CharAt(src, j) \in HexDigits
    <3>1. p + 1 \in Nat \ {0} /\ p + 1 <= Len(src) + 1
      BY <1>0, <2>1
    <3> QED BY ONLY <1>0, <2>3, <2>4, <3>1, RunFacts
  <2>6. PICK e : e = Min({r, p + 3})
    OBVIOUS
  <2>7. e \in (p + 1)..r
    <3>1. {r, p + 3} \subseteq Nat /\ {r, p + 3} # {}
      BY <1>0, <2>5
    <3>2. e \in {r, p + 3} /\ \A k \in {r, p + 3} : e <= k
      BY ONLY <2>6, <3>1, MinOf
    <3> QED BY <1>0, <2>5, <3>2
  <2>8. Escape(p) = [end |-> e, v |-> IF SubSeq(src, p + 1, e - 1) = <<>> THEN -1
                                      ELSE HexByte(SubSeq(src, p + 1, e - 1))]
    BY ONLY <1>4, <2>2, <2>6 DEF Escape
  <2>9. Escape(p).end = e
    BY ONLY <2>8
  <2>10. SubSeq(src, p + 1, e - 1) # <<>>
    BY ONLY <2>8, Escape(p).v # -1
  <2>11. e # p + 1
    <3>1. SUFFICES ASSUME e = p + 1 PROVE FALSE
      OBVIOUS
    <3>2. e - 1 = p /\ p + 1 \in Int /\ p \in Int
      BY <3>1
    <3>3. SubSeq(src, p + 1, p) = <<>>
      OBVIOUS
    <3> QED BY ONLY <2>10, <3>2, <3>3
  <2>12. e \in (p + 2)..(Len(src) + 1) /\ \A j \in (p + 1)..(e - 1) : j \in (p + 1)..(r - 1)
    BY <1>0, <2>5, <2>7, <2>11
  <2> QED BY ONLY <1>2, <1>4, <2>1, <2>5, <2>9, <2>12 DEF EscapeSpan
<1>5. CASE At(p) \notin DOMAIN Escaped /\ At(p) # "x"
  <2>1. Escape(p) = [end |-> p + 1, v |-> -1]
    BY ONLY <1>5 DEF Escape
  <2> QED BY ONLY <2>1, Escape(p).v # -1
<1> QED BY ONLY <1>3, <1>4, <1>5

-----------------------------------------------------------------------------
(***************************************************************************)
(* The loop of lexString.                                                  *)
(***************************************************************************)
ScanStep(f, p) ==
  CASE p > Len(src) \/ At(p) = "\n" -> [end |-> p, ok |-> FALSE]
    [] At(p) = Quote -> [end |-> p, ok |-> TRUE]
    [] At(p) = "\\" -> IF Escape(p + 1).v < 0 THEN [end |-> Escape(p + 1).end, ok |-> FALSE]
                       ELSE f[Escape(p + 1).end]
    [] OTHER -> f[p + 1]

LEMMA ScanIs ==
  ASSUME src \in Seq(STRING)
  PROVE  StringScan = [p \in 1..(Len(src) + 3) |-> ScanStep(StringScan, p)]
<1>0. Len(src) \in Nat
  OBVIOUS
<1>1. PICK n \in Nat : n = Len(src) + 3
  BY <1>0
<1> DEFINE Over(p) == p > Len(src) \/ At(p) = "\n"
           Bad(p) == At(p) = "\\" /\ Escape(p + 1).v < 0
<1>2. PICK stop : stop = [p \in 1..n |-> Over(p) \/ At(p) = Quote \/ Bad(p)]
  OBVIOUS
<1>3. PICK val : val = [p \in 1..n |-> IF Over(p) THEN [end |-> p, ok |-> FALSE]
                                       ELSE IF At(p) = Quote THEN [end |-> p, ok |-> TRUE]
                                       ELSE [end |-> Escape(p + 1).end, ok |-> FALSE]]
  OBVIOUS
<1>4. PICK next : next = [p \in 1..n |-> IF At(p) = "\\" THEN Escape(p + 1).end ELSE p + 1]
  OBVIOUS
<1>5. ASSUME NEW p \in 1..n, ~stop[p]
      PROVE  next[p] \in (p + 1)..n
  <2>1. ~Over(p) /\ ~Bad(p)
    BY <1>2, <1>5
  <2>2. p <= Len(src)
    BY <1>0, <2>1
  <2>3. CASE At(p) = "\\"
    <3>1. p + 1 \in 1..(Len(src) + 1) /\ Escape(p + 1).v # -1
      BY <1>0, <2>1, <2>2, <2>3
    <3>2. EscapeSpan(src, p + 1, Escape(p + 1).end)
      BY <3>1, EscapeFacts
    <3>3. PICK e : e = Escape(p + 1).end
      OBVIOUS
    <3>4. e \in (p + 1)..n
      BY ONLY <1>0, <1>1, <2>2, <3>2, <3>3, p \in 1..n DEF EscapeSpan
    <3> QED BY ONLY <1>4, <2>3, <3>3, <3>4, p \in 1..n
  <2>4. CASE At(p) # "\\"
    <3>1. next[p] = p + 1
      BY ONLY <1>4, <2>4, p \in 1..n
    <3> QED BY ONLY <1>0, <1>1, <2>2, <3>1, p \in 1..n
  <2> QED BY ONLY <2>3, <2>4
<1>6. PICK f : f = [p \in 1..n |-> IF stop[p] THEN val[p] ELSE f[next[p]]]
  <2>1. \A p \in 1..n : ~stop[p] => next[p] \in (p + 1)..n
    BY ONLY <1>5
  <2>2. n \in Nat
    OBVIOUS
  <2>3. PICK f : Ahead(f, 1, n, stop, val, next)
    BY ONLY <2>1, <2>2, AheadExists
  <2> QED BY ONLY <2>3 DEF Ahead
<1>7. ASSUME NEW p \in 1..n
      PROVE  (IF stop[p] THEN val[p] ELSE f[next[p]]) = ScanStep(f, p)
  <2>0. stop[p] = (Over(p) \/ At(p) = Quote \/ Bad(p))
    BY ONLY <1>2, p \in 1..n
  <2>1. CASE Over(p)
    <3>1. val[p] = [end |-> p, ok |-> FALSE]
      BY ONLY <1>3, <2>1, p \in 1..n
    <3>2. At(p) # Quote /\ At(p) # "\\"
      <4>1. At(p) \in {"\n", "\\0"}
        BY <1>0, <2>1 DEF At
      <4> QED BY <4>1, QuoteApart
    <3>3. ScanStep(f, p) = [end |-> p, ok |-> FALSE]
      BY ONLY <2>1, <3>2 DEF ScanStep
    <3> QED BY ONLY <2>0, <2>1, <3>1, <3>3
  <2>2. CASE ~Over(p) /\ At(p) = Quote
    <3>1. val[p] = [end |-> p, ok |-> TRUE]
      BY ONLY <1>3, <2>2, p \in 1..n
    <3>2. At(p) # "\\"
      BY <2>2, QuoteApart
    <3>3. ScanStep(f, p) = [end |-> p, ok |-> TRUE]
      BY ONLY <2>2, <3>2 DEF ScanStep
    <3> QED BY ONLY <2>0, <2>2, <3>1, <3>3
  <2>3. CASE ~Over(p) /\ At(p) = "\\"
    <3>0. At(p) # Quote
      BY <2>3, QuoteApart
    <3>1. PICK e : e = Escape(p + 1).end
      OBVIOUS
    <3>2. ScanStep(f, p) = IF Escape(p + 1).v < 0 THEN [end |-> e, ok |-> FALSE] ELSE f[e]
      BY ONLY <2>3, <3>0, <3>1 DEF ScanStep
    <3>3. CASE Escape(p + 1).v < 0
      <4>1. val[p] = [end |-> e, ok |-> FALSE]
        BY ONLY <1>3, <2>3, <3>0, <3>1, p \in 1..n
      <4> QED BY ONLY <2>0, <2>3, <3>2, <3>3, <4>1
    <3>4. CASE ~(Escape(p + 1).v < 0)
      <4>1. next[p] = e
        BY ONLY <1>4, <2>3, <3>1, p \in 1..n
      <4>2. ~stop[p]
        BY ONLY <2>0, <2>3, <3>0, <3>4
      <4> QED BY ONLY <3>2, <3>4, <4>1, <4>2
    <3> QED BY ONLY <3>3, <3>4
  <2>4. CASE ~Over(p) /\ At(p) # Quote /\ At(p) # "\\"
    <3>1. ScanStep(f, p) = f[p + 1]
      BY ONLY <2>4 DEF ScanStep
    <3>2. next[p] = p + 1
      BY ONLY <1>4, <2>4, p \in 1..n
    <3>3. ~stop[p]
      BY ONLY <2>0, <2>4
    <3> QED BY ONLY <3>1, <3>2, <3>3
  <2> QED BY ONLY <2>1, <2>2, <2>3, <2>4
<1>8. f = [p \in 1..(Len(src) + 3) |-> ScanStep(f, p)]
  BY ONLY <1>1, <1>6, <1>7
<1>9. StringScan = CHOOSE g : g = [p \in 1..(Len(src) + 3) |-> ScanStep(g, p)]
  BY DEF StringScan, ScanStep
<1> QED BY ONLY <1>8, <1>9

\* What a string scanned from p to its closing quote at e looks like.
ScanGood(x, p, e) ==
  /\ e \in p..Len(x) /\ CharAt(x, e) = Quote
  /\ Back(x, p) % 2 = 0 =>
       /\ Back(x, e) % 2 = 0
       /\ \A k \in p..(e - 1) : CharAt(x, k) = Quote => Back(x, k) % 2 = 1

LEMMA ScanHop ==
  ASSUME NEW x, Len(x) \in Nat, NEW p \in Nat \ {0}, NEW q \in Nat, p < q,
         NEW e, ScanGood(x, q, e),
         Back(x, p) % 2 = 0 => Back(x, q) % 2 = 0,
         \A k \in p..(q - 1) : CharAt(x, k) = Quote => (Back(x, p) % 2 = 0 => Back(x, k) % 2 = 1)
  PROVE  ScanGood(x, p, e)
<1>1. e \in p..Len(x) /\ CharAt(x, e) = Quote
  <2>1. e \in q..Len(x) /\ CharAt(x, e) = Quote
    BY ONLY ScanGood(x, q, e) DEF ScanGood
  <2> QED BY <2>1
<1>2. ASSUME Back(x, p) % 2 = 0
      PROVE  /\ Back(x, e) % 2 = 0
             /\ \A k \in p..(e - 1) : CharAt(x, k) = Quote => Back(x, k) % 2 = 1
  <2>1. /\ Back(x, e) % 2 = 0
        /\ \A k \in q..(e - 1) : CharAt(x, k) = Quote => Back(x, k) % 2 = 1
    BY <1>2 DEF ScanGood
  <2>2. \A k \in p..(e - 1) : k \in p..(q - 1) \/ k \in q..(e - 1)
    BY <1>1
  <2>3. \A k \in p..(q - 1) : CharAt(x, k) = Quote => Back(x, k) % 2 = 1
    BY <1>2
  <2> QED BY ONLY <2>1, <2>2, <2>3
<1> QED BY ONLY <1>1, <1>2 DEF ScanGood

LEMMA Parity ==
  ASSUME NEW n \in Nat
  PROVE  /\ n % 2 = 0 => (n + 1) % 2 = 1
         /\ n % 2 = 1 => (n + 1) % 2 = 0
  OBVIOUS

\* Behind a character that is no backslash no run of backslashes ends.
LEMMA ScanPlain ==
  ASSUME NEW x, Len(x) \in Nat, NEW p \in Nat \ {0}, CharAt(x, p) \notin {"\\", Quote},
         NEW e, ScanGood(x, p + 1, e)
  PROVE  ScanGood(x, p, e)
<1>1. Back(x, p + 1) = 0
  <2>1. p + 1 \in Nat \ {0} /\ (p + 1) - 1 = p
    OBVIOUS
  <2> QED BY ONLY <2>1, CharAt(x, p) \notin {"\\", Quote}, BackFacts
<1>2. 0 % 2 = 0
  OBVIOUS
<1>3. \A k \in p..((p + 1) - 1) : CharAt(x, k) # Quote
  <2>1. \A k \in p..((p + 1) - 1) : k = p
    OBVIOUS
  <2> QED BY <2>1
<1>4. p + 1 \in Nat /\ p < p + 1
  OBVIOUS
<1> QED BY <1>1, <1>2, <1>3, <1>4, ScanHop

LEMMA ScanEscape ==
  ASSUME NEW x, Len(x) \in Nat, NEW p \in Nat \ {0}, CharAt(x, p) = "\\",
         NEW q, EscapeSpan(x, p + 1, q), NEW e, ScanGood(x, q, e)
  PROVE  ScanGood(x, p, e)
<1>1. Back(x, p) \in Nat /\ Back(x, p + 1) = Back(x, p) + 1
  BY BackFacts
<1>2. Back(x, p) % 2 = 0 => Back(x, p + 1) % 2 = 1
  BY ONLY <1>1, Parity
<1>3. p + 1 \in Nat \ {0} /\ (p + 1) + 1 = p + 2 /\ p + 1 <= Len(x)
  BY DEF EscapeSpan
<1>4. CASE CharAt(x, p + 1) \in EscapedChars /\ q = p + 2
  <2>1. Back(x, p) % 2 = 0 => Back(x, q) % 2 = 0
    <3>1. CASE CharAt(x, p + 1) = "\\"
      <4>1. Back(x, q) = Back(x, p + 1) + 1 /\ Back(x, p + 1) \in Nat
        BY ONLY <1>3, <1>4, <3>1, BackFacts
      <4> QED BY ONLY <1>2, <4>1, Parity
    <3>2. CASE CharAt(x, p + 1) # "\\"
      <4>1. q \in Nat \ {0} /\ q - 1 = p + 1
        BY <1>4
      <4>2. Back(x, q) = 0
        BY ONLY <3>2, <4>1, BackFacts
      <4> QED BY ONLY <4>2
    <3> QED BY ONLY <3>1, <3>2
  <2>2. \A k \in p..(q - 1) : k = p \/ k = p + 1
    BY <1>4
  <2>3. q \in Nat /\ p < q
    BY <1>4
  <2>4. \A k \in p..(q - 1) : CharAt(x, k) = Quote => (Back(x, p) % 2 = 0 => Back(x, k) % 2 = 1)
    BY ONLY <1>2, <2>2, CharAt(x, p) = "\\", QuoteApart
  <2> QED BY <2>1, <2>3, <2>4, ScanHop
<1>5. CASE /\ CharAt(x, p + 1) = "x" /\ q \in (p + 3)..(Len(x) + 1)
           /\ \A j \in (p + 2)..(q - 1) : CharAt(x, j) \in HexDigits
  <2>1. "\\" \notin HexDigits /\ Quote \notin HexDigits
    BY QuoteApart DEF HexDigits, Digits
  <2>2. q \in Nat \ {0} /\ q - 1 \in (p + 2)..(q - 1) /\ p < q
    BY <1>5
  <2>3. CharAt(x, q - 1) # "\\"
    BY ONLY <1>5, <2>1, <2>2
  <2>4. Back(x, q) = 0
    BY ONLY <2>2, <2>3, BackFacts
  <2>5. Back(x, q) % 2 = 0
    BY ONLY <2>4
  <2>6. \A k \in p..(q - 1) : k = p \/ k = p + 1 \/ k \in (p + 2)..(q - 1)
    BY <2>2
  <2>7. \A k \in p..(q - 1) : CharAt(x, k) # Quote
    BY ONLY <1>5, <2>1, <2>6, CharAt(x, p) = "\\", QuoteApart
  <2> QED BY <2>2, <2>5, <2>7, ScanHop
<1> QED BY <1>3, <1>4, <1>5 DEF EscapeSpan

\* The loop of lexString accepts at a bare quote only.
LEMMA ScanEnds ==
  ASSUME src \in Seq(STRING), NEW p \in 1..(Len(src) + 3), StringScan[p].ok
  PROVE  ScanGood(src, p, StringScan[p].end)
<1>0. Len(src) \in Nat
  OBVIOUS
<1>1. PICK f : f = StringScan
  OBVIOUS
<1>2. PICK n \in Nat : n = Len(src) + 3
  BY <1>0
<1>3. f = [q \in 1..n |-> ScanStep(f, q)]
  BY ONLY src \in Seq(STRING), <1>1, <1>2, ScanIs
<1> DEFINE D == {k \in 0..(n - 1) : f[n - k].ok /\ ~ScanGood(src, n - k, f[n - k].end)}
<1>4. SUFFICES ASSUME D # {} PROVE FALSE
  <2>1. n - p \in 0..(n - 1) /\ n - (n - p) = p
    BY <1>2
  <2>2. ~ScanGood(src, p, f[p].end) => n - p \in D
    BY <1>1, <2>1
  <2> QED BY <1>1, <2>2
<1>5. D \subseteq Nat
  OBVIOUS
<1>6. PICK m \in D : \A k \in D : m <= k
  <2> HIDE DEF D
  <2> QED BY ONLY <1>4, <1>5, NatMin
<1>7. PICK a \in 1..n : a = n - m /\ f[a].ok /\ ~ScanGood(src, a, f[a].end) /\ m \in 0..(n - 1)
  BY <1>6
<1>8. ASSUME NEW b \in (a + 1)..n, f[b].ok
      PROVE  ScanGood(src, b, f[b].end)
  <2>1. n - b \in 0..(n - 1) /\ n - (n - b) = b /\ ~(m <= n - b)
    BY <1>7
  <2>2. n - b \notin D
    BY ONLY <1>6, <2>1
  <2> QED BY <1>8, <2>1, <2>2
<1>9. f[a] = ScanStep(f, a)
  BY ONLY <1>3, <1>7
<1>10. At(a) = CharAt(src, a) /\ a \in Nat \ {0}
  BY <1>7 DEF At, CharAt
<1>11. CASE a > Len(src) \/ At(a) = "\n"
  <2>1. At(a) # Quote /\ At(a) # "\\"
    <3>1. At(a) \in {"\n", "\\0"}
      BY <1>0, <1>11 DEF At
    <3> QED BY <3>1, QuoteApart
  <2>2. ScanStep(f, a) = [end |-> a, ok |-> FALSE]
    BY ONLY <1>11, <2>1 DEF ScanStep
  <2> QED BY ONLY <1>7, <1>9, <2>2
<1>12. a <= Len(src) /\ At(a) # "\n"
  BY <1>0, <1>7, <1>11
<1>13. CASE At(a) = Quote
  <2>1. At(a) # "\\"
    BY <1>13, QuoteApart
  <2>2. ScanStep(f, a) = [end |-> a, ok |-> TRUE]
    BY ONLY <1>0, <1>7, <1>12, <1>13, <2>1 DEF ScanStep
  <2>3. f[a].end = a
    BY ONLY <1>9, <2>2
  <2>4. a \in a..Len(src) /\ \A k : k \notin a..(a - 1)
    BY <1>0, <1>7, <1>12
  <2>5. ScanGood(src, a, a)
    BY ONLY <1>10, <1>13, <2>4 DEF ScanGood
  <2> QED BY ONLY <1>7, <2>3, <2>5
<1>14. CASE At(a) = "\\"
  <2>0. At(a) # Quote
    BY <1>14, QuoteApart
  <2>1. ScanStep(f, a) = IF Escape(a + 1).v < 0 THEN [end |-> Escape(a + 1).end, ok |-> FALSE]
                         ELSE f[Escape(a + 1).end]
    BY ONLY <1>0, <1>7, <1>12, <1>14, <2>0 DEF ScanStep
  <2>2. CASE Escape(a + 1).v < 0
    <3>1. ScanStep(f, a) = [end |-> Escape(a + 1).end, ok |-> FALSE]
      BY ONLY <2>1, <2>2
    <3> QED BY ONLY <1>7, <1>9, <3>1
  <2>3. CASE ~(Escape(a + 1).v < 0)
    <3>1. a + 1 \in 1..(Len(src) + 1) /\ Escape(a + 1).v # -1
      BY <1>0, <1>7, <1>12, <2>3
    <3>2. PICK e : e = Escape(a + 1).end
      OBVIOUS
    <3>3. EscapeSpan(src, a + 1, e)
      BY ONLY src \in Seq(STRING), <3>1, <3>2, EscapeFacts
    <3>4. e \in (a + 1)..n
      BY ONLY <1>0, <1>2, <1>7, <1>12, <3>3 DEF EscapeSpan
    <3>5. f[a] = f[e]
      BY ONLY <1>9, <2>1, <2>3, <3>2
    <3>6. ScanGood(src, e, f[e].end)
      BY ONLY <1>7, <1>8, <3>4, <3>5
    <3>7. ScanGood(src, a, f[e].end)
      BY ONLY <1>0, <1>10, <1>14, <3>3, <3>6, ScanEscape
    <3> QED BY ONLY <1>7, <3>5, <3>7
  <2> QED BY ONLY <2>2, <2>3
<1>15. CASE At(a) # Quote /\ At(a) # "\\"
  <2>1. ScanStep(f, a) = f[a + 1]
    BY ONLY <1>0, <1>7, <1>12, <1>15 DEF ScanStep
  <2>2. a + 1 \in (a + 1)..n
    BY <1>0, <1>2, <1>7, <1>12
  <2>3. ScanGood(src, a + 1, f[a + 1].end)
    BY ONLY <1>7, <1>8, <1>9, <2>1, <2>2
  <2>4. CharAt(src, a) \notin {"\\", Quote}
    BY ONLY <1>10, <1>15
  <2>5. ScanGood(src, a, f[a + 1].end)
    BY ONLY <1>0, <1>10, <2>3, <2>4, ScanPlain
  <2> QED BY ONLY <1>7, <1>9, <2>1, <2>5
<1> QED BY ONLY <1>13, <1>14, <1>15

-----------------------------------------------------------------------------
(***************************************************************************)
(* The search of lexChar for its closing quote.                            *)
(***************************************************************************)
CloseStep(f, p) ==
  CASE p > Len(src) \/ At(p) = "\n" -> 0
    [] At(p) = "\\" -> f[p + 2]
    [] At(p) = "'" -> p
    [] OTHER -> f[p + 1]

LEMMA CloseIs ==
  ASSUME src \in Seq(STRING)
  PROVE  CloseQuote = [p \in 1..(Len(src) + 3) |-> CloseStep(CloseQuote, p)]
<1>0. Len(src) \in Nat
  OBVIOUS
<1>1. PICK n \in Nat : n = Len(src) + 3
  BY <1>0
<1> DEFINE Over(p) == p > Len(src) \/ At(p) = "\n"
<1>2. PICK stop : stop = [p \in 1..n |-> Over(p) \/ At(p) = "'"]
  OBVIOUS
<1>3. PICK val : val = [p \in 1..n |-> IF Over(p) THEN 0 ELSE p]
  OBVIOUS
<1>4. PICK next : next = [p \in 1..n |-> IF At(p) = "\\" THEN p + 2 ELSE p + 1]
  OBVIOUS
<1>5. \A p \in 1..n : ~stop[p] => next[p] \in (p + 1)..n
  <2>1. ASSUME NEW p \in 1..n, ~stop[p]
        PROVE  next[p] \in (p + 1)..n
    <3>1. p <= Len(src)
      <4>1. ~Over(p)
        BY ONLY <1>2, <2>1, p \in 1..n
      <4> QED BY ONLY <1>0, <4>1, p \in 1..n
    <3>2. next[p] = p + 2 \/ next[p] = p + 1
      BY ONLY <1>4, p \in 1..n
    <3> QED BY ONLY <1>0, <1>1, <3>1, <3>2, p \in 1..n
  <2> QED BY ONLY <2>1
<1>6. PICK f : f = [p \in 1..n |-> IF stop[p] THEN val[p] ELSE f[next[p]]]
  <2>1. n \in Nat
    OBVIOUS
  <2>2. PICK f : Ahead(f, 1, n, stop, val, next)
    BY ONLY <1>5, <2>1, AheadExists
  <2> QED BY ONLY <2>2 DEF Ahead
<1>7. ASSUME NEW p \in 1..n
      PROVE  (IF stop[p] THEN val[p] ELSE f[next[p]]) = CloseStep(f, p)
  <2>0. stop[p] = (Over(p) \/ At(p) = "'")
    BY ONLY <1>2, p \in 1..n
  <2>1. CASE Over(p)
    <3>1. val[p] = 0
      BY ONLY <1>3, <2>1, p \in 1..n
    <3>2. At(p) # "'" /\ At(p) # "\\"
      <4>1. At(p) \in {"\n", "\\0"}
        BY <1>0, <2>1 DEF At
      <4> QED BY <4>1
    <3>3. CloseStep(f, p) = 0
      BY ONLY <2>1, <3>2 DEF CloseStep
    <3> QED BY ONLY <2>0, <2>1, <3>1, <3>3
  <2>2. CASE ~Over(p) /\ At(p) = "'"
    <3>1. val[p] = p
      BY ONLY <1>3, <2>2, p \in 1..n
    <3>2. At(p) # "\\"
      BY <2>2
    <3>3. CloseStep(f, p) = p
      BY ONLY <2>2, <3>2 DEF CloseStep
    <3> QED BY ONLY <2>0, <2>2, <3>1, <3>3
  <2>3. CASE ~Over(p) /\ At(p) = "\\"
    <3>0. At(p) # "'"
      BY <2>3
    <3>1. CloseStep(f, p) = f[p + 2]
      BY ONLY <2>3, <3>0 DEF CloseStep
    <3>2. next[p] = p + 2
      BY ONLY <1>4, <2>3, p \in 1..n
    <3> QED BY ONLY <2>0, <2>3, <3>0, <3>1, <3>2
  <2>4. CASE ~Over(p) /\ At(p) # "'" /\ At(p) # "\\"
    <3>1. CloseStep(f, p) = f[p + 1]
      BY ONLY <2>4 DEF CloseStep
    <3>2. next[p] = p + 1
      BY ONLY <1>4, <2>4, p \in 1..n
    <3> QED BY ONLY <2>0, <2>4, <3>1, <3>2
  <2> QED BY ONLY <2>1, <2>2, <2>3, <2>4
<1>8. f = [p \in 1..(Len(src) + 3) |-> CloseStep(f, p)]
  BY ONLY <1>1, <1>6, <1>7
<1>9. CloseQuote = CHOOSE g : g = [p \in 1..(Len(src) + 3) |-> CloseStep(g, p)]
  BY DEF CloseQuote, CloseStep
<1> QED BY ONLY <1>8, <1>9

\* A closing quote that was found is a quote of the text.
LEMMA CloseEnds ==
  ASSUME src \in Seq(STRING), NEW p \in 1..(Len(src) + 3), CloseQuote[p] # 0
  PROVE  CloseQuote[p] \in p..Len(src) /\ At(CloseQuote[p]) = "'"
<1>0. Len(src) \in Nat
  OBVIOUS
<1>1. PICK f : f = CloseQuote
  OBVIOUS
<1>2. PICK n \in Nat : n = Len(src) + 3
  BY <1>0
<1>3. f = [q \in 1..n |-> CloseStep(f, q)]
  BY ONLY src \in Seq(STRING), <1>1, <1>2, CloseIs
<1> DEFINE Good(q) == f[q] \in q..Len(src) /\ At(f[q]) = "'"
           D == {k \in 0..(n - 1) : f[n - k] # 0 /\ ~Good(n - k)}
<1>4. SUFFICES ASSUME D # {} PROVE FALSE
  <2>1. n - p \in 0..(n - 1) /\ n - (n - p) = p
    BY <1>2
  <2>2. f[p] # 0 /\ ~Good(p) => n - p \in D
    BY <2>1
  <2> QED BY <1>1, <2>2
<1>5. D \subseteq Nat
  OBVIOUS
<1>6. PICK m \in D : \A k \in D : m <= k
  <2> HIDE DEF D
  <2> QED BY ONLY <1>4, <1>5, NatMin
<1>7. PICK a \in 1..n : a = n - m /\ f[a] # 0 /\ ~Good(a) /\ m \in 0..(n - 1)
  BY <1>6
<1>8. ASSUME NEW b \in (a + 1)..n, f[b] # 0, f[a] = f[b]
      PROVE  FALSE
  <2>1. n - b \in 0..(n - 1) /\ n - (n - b) = b /\ ~(m <= n - b)
    BY <1>7
  <2>2. n - b \notin D
    BY ONLY <1>6, <2>1
  <2>3. Good(b)
    BY <1>8, <2>1, <2>2
  <2>4. Good(a)
    BY <1>8, <2>3
  <2> QED BY <1>7, <2>4
<1>9. f[a] = CloseStep(f, a)
  BY ONLY <1>3, <1>7
<1>11. CASE a > Len(src) \/ At(a) = "\n"
  <2>1. At(a) # "'" /\ At(a) # "\\"
    <3>1. At(a) \in {"\n", "\\0"}
      BY <1>0, <1>11 DEF At
    <3> QED BY <3>1
  <2>2. CloseStep(f, a) = 0
    BY ONLY <1>11, <2>1 DEF CloseStep
  <2> QED BY ONLY <1>7, <1>9, <2>2
<1>12. a <= Len(src) /\ At(a) # "\n"
  BY <1>0, <1>7, <1>11
<1>13. CASE At(a) = "'"
  <2>1. At(a) # "\\"
    BY <1>13
  <2>2. CloseStep(f, a) = a
    BY ONLY <1>0, <1>7, <1>12, <1>13, <2>1 DEF CloseStep
  <2> QED BY <1>0, <1>7, <1>9, <1>12, <1>13, <2>2
<1>14. CASE At(a) = "\\"
  <2>0. At(a) # "'"
    BY <1>14
  <2>1. CloseStep(f, a) = f[a + 2]
    BY ONLY <1>0, <1>7, <1>12, <1>14, <2>0 DEF CloseStep
  <2>2. a + 2 \in (a + 1)..n
    BY <1>0, <1>2, <1>7, <1>12
  <2> QED BY ONLY <1>7, <1>8, <1>9, <2>1, <2>2
<1>15. CASE At(a) # "'" /\ At(a) # "\\"
  <2>1. CloseStep(f, a) = f[a + 1]
    BY ONLY <1>0, <1>7, <1>12, <1>15 DEF CloseStep
  <2>2. a + 1 \in (a + 1)..n
    BY <1>0, <1>2, <1>7, <1>12
  <2> QED BY ONLY <1>7, <1>8, <1>9, <2>1, <2>2
<1> QED BY ONLY <1>13, <1>14, <1>15

-----------------------------------------------------------------------------
(***************************************************************************)
(* What may be skipped between two tokens.                                 *)
(***************************************************************************)
\* One blank or comment from i to j.
LineHop(x, i, j) ==
  /\ CharAt(x, i) = "/" /\ CharAt(x, i + 1) = "/"
  /\ j \in i..(Len(x) + 1) /\ (j > Len(x) \/ CharAt(x, j) = "\n")
  /\ \A k \in i..(j - 1) : ~(k > Len(x) \/ CharAt(x, k) = "\n")

Ends(x, i) == CharAt(x, i) = "*" /\ CharAt(x, i + 1) = "/"

BlockHop(x, i, j) ==
  /\ CharAt(x, i) = "/" /\ CharAt(x, i + 1) = "*"
  /\ \E e \in (i + 2)..Len(x) :
        j = e + 2 /\ Ends(x, e) /\ \A k \in (i + 2)..(e - 1) : ~Ends(x, k)

Hop(x, i, j) == \/ CharAt(x, i) \in Blanks \cup {"\n"} /\ j = i + 1
                \/ LineHop(x, i, j) \/ BlockHop(x, i, j)

\* Nothing but blanks and comments from p to q: the places of S are where one
\* ends and the next begins.
Hops(x, p, q, S) ==
  /\ S \subseteq p..q /\ p \in S /\ q \in S
  /\ \A i \in S : i = q \/ \E j \in S : i < j /\ Hop(x, i, j)
Clear(x, p, q) == \E S \in SUBSET (p..q) : Hops(x, p, q, S)

LEMMA ClearSame ==
  ASSUME NEW x, NEW p \in Nat
  PROVE  Clear(x, p, p)
<1>1. Hops(x, p, p, {p})
  BY DEF Hops
<1>2. {p} \in SUBSET (p..p)
  OBVIOUS
<1> QED BY ONLY <1>1, <1>2 DEF Clear

LEMMA ClearOn ==
  ASSUME NEW x, NEW p \in Nat, NEW q \in Nat, NEW r \in Nat, q < r, Clear(x, p, q), Hop(x, q, r)
  PROVE  Clear(x, p, r)
<1>1. PICK S : Hops(x, p, q, S)
  BY DEF Clear
<1>2. PICK T : T = S \cup {r}
  OBVIOUS
<1>3. p \in S /\ q \in S /\ S \subseteq p..q /\ \A i \in S : i = q \/ \E j \in S : i < j /\ Hop(x, i, j)
  BY ONLY <1>1 DEF Hops
<1>4. T \subseteq p..r /\ p \in T /\ r \in T /\ q \in T
  BY <1>2, <1>3
<1>5. \A i \in T : i = r \/ \E j \in T : i < j /\ Hop(x, i, j)
  <2>1. ASSUME NEW i \in T, i # r PROVE \E j \in T : i < j /\ Hop(x, i, j)
    <3>1. i \in S
      BY ONLY <1>2, <2>1
    <3>2. CASE i = q
      BY ONLY <1>4, <3>2, q < r, Hop(x, q, r)
    <3>3. CASE i # q
      BY ONLY <1>2, <1>3, <3>1, <3>3
    <3> QED BY ONLY <3>2, <3>3
  <2> QED BY ONLY <2>1
<1>6. Hops(x, p, r, T)
  BY ONLY <1>4, <1>5 DEF Hops
<1> QED BY ONLY <1>4, <1>6 DEF Clear

LEMMA ClearFirst ==
  ASSUME NEW x, NEW p \in Nat, NEW q \in Nat, p < q
  PROVE  Clear(x, p, q) <=> \E j \in (p + 1)..q : Hop(x, p, j) /\ Clear(x, j, q)
<1>1. ASSUME Clear(x, p, q)
      PROVE  \E j \in (p + 1)..q : Hop(x, p, j) /\ Clear(x, j, q)
  <2>1. PICK S : Hops(x, p, q, S)
    BY <1>1 DEF Clear
  <2>2. /\ p \in S /\ q \in S /\ S \subseteq p..q
        /\ \A i \in S : i = q \/ \E j \in S : i < j /\ Hop(x, i, j)
    BY ONLY <2>1 DEF Hops
  <2>3. p # q
    OBVIOUS
  <2>4. PICK j \in S : p < j /\ Hop(x, p, j)
    BY ONLY <2>2, <2>3
  <2>5. j \in (p + 1)..q
    BY <2>2, <2>4
  <2>6. PICK T : T = {i \in S : j <= i}
    OBVIOUS
  <2>7. T \subseteq j..q /\ j \in T /\ q \in T
    <3>1. j <= j /\ j <= q
      BY <2>5
    <3>2. \A i \in S : j <= i => i \in j..q
      BY <2>2, <2>5
    <3> QED BY ONLY <2>2, <2>4, <2>6, <3>1, <3>2
  <2>8. \A i \in T : i = q \/ \E k \in T : i < k /\ Hop(x, i, k)
    <3>1. ASSUME NEW i \in T, i # q PROVE \E k \in T : i < k /\ Hop(x, i, k)
      <4>1. i \in S /\ j <= i
        BY ONLY <2>6, <3>1
      <4>2. PICK k \in S : i < k /\ Hop(x, i, k)
        BY ONLY <2>2, <3>1, <4>1
      <4>3. j <= k
        BY ONLY <2>2, <2>5, <4>1, <4>2, p \in Nat, q \in Nat
      <4>4. k \in T
        BY ONLY <2>6, <4>3, k \in S
      <4> QED BY ONLY <4>2, <4>4
    <3> QED BY ONLY <3>1
  <2>9. Hops(x, j, q, T)
    BY ONLY <2>7, <2>8 DEF Hops
  <2> QED BY ONLY <2>4, <2>5, <2>7, <2>9 DEF Clear
<1>2. ASSUME NEW j \in (p + 1)..q, Hop(x, p, j), Clear(x, j, q)
      PROVE  Clear(x, p, q)
  <2>1. PICK S : Hops(x, j, q, S)
    BY <1>2 DEF Clear
  <2>2. /\ j \in S /\ q \in S /\ S \subseteq j..q
        /\ \A i \in S : i = q \/ \E k \in S : i < k /\ Hop(x, i, k)
    BY ONLY <2>1 DEF Hops
  <2>3. PICK T : T = S \cup {p}
    OBVIOUS
  <2>4. T \subseteq p..q /\ p \in T /\ q \in T /\ j \in T /\ p < j
    BY <2>2, <2>3
  <2>5. \A i \in T : i = q \/ \E k \in T : i < k /\ Hop(x, i, k)
    <3>1. ASSUME NEW i \in T, i # q PROVE \E k \in T : i < k /\ Hop(x, i, k)
      <4>1. CASE i = p
        BY ONLY <1>2, <2>4, <4>1
      <4>2. CASE i # p
        BY ONLY <2>2, <2>3, <3>1, <4>2
      <4> QED BY ONLY <4>1, <4>2
    <3> QED BY ONLY <3>1
  <2>6. Hops(x, p, q, T)
    BY ONLY <2>4, <2>5 DEF Hops
  <2> QED BY ONLY <2>4, <2>6 DEF Clear
<1> QED BY <1>1, <1>2

LEMMA LineHopIs ==
  ASSUME NEW x, Len(x) \in Nat, NEW i \in 1..Len(x),
         CharAt(x, i) = "/", CharAt(x, i + 1) = "/"
  PROVE  LET e == Min({j \in i..(Len(x) + 1) : j > Len(x) \/ CharAt(x, j) = "\n"})
         IN /\ e \in (i + 1)..(Len(x) + 1) /\ LineHop(x, i, e)
            /\ \A j : LineHop(x, i, j) => j = e
<1>1. PICK D : D = {j \in i..(Len(x) + 1) : j > Len(x) \/ CharAt(x, j) = "\n"}
  OBVIOUS
<1>2. Len(x) + 1 \in D /\ D \subseteq Nat
  BY <1>1
<1>3. Min(D) \in D /\ \A k \in D : Min(D) <= k
  BY ONLY <1>2, MinOf
<1>4. PICK e \in D : e = Min(D) /\ \A k \in D : e <= k
  BY ONLY <1>3
<1>5. e \in i..(Len(x) + 1) /\ (e > Len(x) \/ CharAt(x, e) = "\n")
  BY ONLY <1>1, <1>4
<1>6. e # i
  <2>1. SUFFICES ASSUME e = i PROVE FALSE
    OBVIOUS
  <2>2. CharAt(x, e) # "\n" /\ ~(e > Len(x))
    BY <2>1
  <2> QED BY ONLY <1>5, <2>2
<1>7. e \in (i + 1)..(Len(x) + 1)
  BY <1>5, <1>6
<1>8. \A k \in i..(e - 1) : ~(k > Len(x) \/ CharAt(x, k) = "\n")
  <2>1. ASSUME NEW k \in i..(e - 1), k > Len(x) \/ CharAt(x, k) = "\n" PROVE FALSE
    <3>1. k \in i..(Len(x) + 1) /\ ~(e <= k)
      BY <1>5
    <3>2. k \in D
      BY ONLY <1>1, <2>1, <3>1
    <3> QED BY ONLY <1>4, <3>1, <3>2
  <2> QED BY ONLY <2>1
<1>9. LineHop(x, i, e)
  BY <1>5, <1>8 DEF LineHop
<1>10. ASSUME NEW j, LineHop(x, i, j)
       PROVE  j = e
  <2>1. /\ j \in i..(Len(x) + 1) /\ (j > Len(x) \/ CharAt(x, j) = "\n")
        /\ \A k \in i..(j - 1) : ~(k > Len(x) \/ CharAt(x, k) = "\n")
    BY ONLY <1>10 DEF LineHop
  <2>2. j \in D
    BY ONLY <1>1, <2>1
  <2>3. e <= j
    BY ONLY <1>4, <2>2
  <2>4. ~(e < j)
    <3>1. SUFFICES ASSUME e < j PROVE FALSE
      OBVIOUS
    <3>2. e \in i..(j - 1)
      BY <1>5, <2>1, <3>1
    <3> QED BY ONLY <1>5, <2>1, <3>2
  <2> QED BY <1>5, <2>1, <2>3, <2>4
<1> QED BY ONLY <1>1, <1>4, <1>7, <1>9, <1>10

Closers(x, lo, hi) == {j \in lo..hi : CharAt(x, j) = "*" /\ CharAt(x, j + 1) = "/"}

\* The end of a block comment is the first, looked for up to any place behind it.
LEMMA BlockHopIs ==
  ASSUME NEW x, Len(x) \in Nat, NEW i \in 1..Len(x), NEW h \in Int, h <= Len(x),
         CharAt(x, i) = "/", CharAt(x, i + 1) = "*",
         NEW D, D = Closers(x, i + 2, h)
  PROVE  /\ D # {} => /\ Min(D) \in (i + 2)..h
                      /\ Min(D) + 2 \in (i + 1)..(Len(x) + 1)
                      /\ BlockHop(x, i, Min(D) + 2)
                      /\ \A j : BlockHop(x, i, j) => j = Min(D) + 2
         /\ D = {} => \A j : BlockHop(x, i, j) => j \in Int /\ j > h + 2
<1>0. D = {j \in (i + 2)..h : CharAt(x, j) = "*" /\ CharAt(x, j + 1) = "/"}
  BY DEF Closers
<1>1. D \subseteq Nat
  BY <1>0
<1>2. \A j \in (i + 2)..h : j \in D <=> Ends(x, j)
  BY <1>0 DEF Ends
<1>3. ASSUME D # {}
      PROVE  /\ Min(D) \in (i + 2)..h
             /\ Min(D) + 2 \in (i + 1)..(Len(x) + 1)
             /\ BlockHop(x, i, Min(D) + 2)
             /\ \A j : BlockHop(x, i, j) => j = Min(D) + 2
  <2>1. Min(D) \in D /\ \A k \in D : Min(D) <= k
    BY ONLY <1>1, <1>3, MinOf
  <2>2. PICK e \in D : e = Min(D) /\ \A k \in D : e <= k
    BY ONLY <2>1
  <2>3. e \in (i + 2)..h /\ e \in (i + 2)..Len(x) /\ Ends(x, e)
    BY ONLY <1>0, <1>2, <2>2, Len(x) \in Nat, i \in 1..Len(x), h \in Int, h <= Len(x)
  <2>4. \A k \in (i + 2)..(e - 1) : ~Ends(x, k)
    <3>1. ASSUME NEW k \in (i + 2)..(e - 1), Ends(x, k) PROVE FALSE
      <4>1. k \in (i + 2)..h /\ ~(e <= k)
        BY <2>3
      <4> QED BY ONLY <1>2, <2>2, <3>1, <4>1
    <3> QED BY ONLY <3>1
  <2>5. BlockHop(x, i, e + 2)
    BY ONLY <2>3, <2>4, CharAt(x, i) = "/", CharAt(x, i + 1) = "*" DEF BlockHop
  <2>6. e + 2 \in (i + 1)..(Len(x) + 1)
    <3>1. CharAt(x, e + 1) = "/"
      BY ONLY <2>3 DEF Ends
    <3>2. e + 1 <= Len(x)
      BY <2>3, <3>1 DEF CharAt
    <3> QED BY <2>3, <3>2
  <2>7. ASSUME NEW j, BlockHop(x, i, j)
        PROVE  j = e + 2
    <3>1. PICK d \in (i + 2)..Len(x) :
            j = d + 2 /\ Ends(x, d) /\ \A k \in (i + 2)..(d - 1) : ~Ends(x, k)
      BY ONLY <2>7 DEF BlockHop
    <3>2. ~(d < e)
      <4>1. SUFFICES ASSUME d < e PROVE FALSE
        OBVIOUS
      <4>2. d \in (i + 2)..(e - 1)
        BY <2>3, <4>1
      <4> QED BY ONLY <2>4, <3>1, <4>2
    <3>3. ~(e < d)
      <4>1. SUFFICES ASSUME e < d PROVE FALSE
        OBVIOUS
      <4>2. e \in (i + 2)..(d - 1)
        BY <2>3, <4>1
      <4> QED BY ONLY <2>3, <3>1, <4>2
    <3> QED BY <2>3, <3>1, <3>2, <3>3
  <2> QED BY ONLY <2>2, <2>3, <2>5, <2>6, <2>7
<1>4. ASSUME D = {}, NEW j, BlockHop(x, i, j)
      PROVE  j \in Int /\ j > h + 2
  <2>1. PICK d \in (i + 2)..Len(x) : j = d + 2 /\ Ends(x, d)
    BY ONLY <1>4 DEF BlockHop
  <2>2. d \notin (i + 2)..h
    BY ONLY <1>2, <1>4, <2>1
  <2> QED BY <2>1, <2>2
<1> QED BY ONLY <1>3, <1>4

\* One turn of the recursion of Skippable, for an end q.
SkipStep(f, i, q) ==
  \/ i = q
  \/ i < q /\ At(i) \in Blanks \cup {"\n"} /\ f[i + 1]
  \/ /\ i < q /\ At(i) = "/" /\ At(i + 1) = "/"
     /\ f[Min({j \in i..(Len(src) + 1) : j > Len(src) \/ At(j) = "\n"})]
  \/ /\ i < q /\ At(i) = "/" /\ At(i + 1) = "*"
     /\ LET ends == {j \in (i + 2)..(q - 2) : At(j) = "*" /\ At(j + 1) = "/"}
        IN ends # {} /\ f[Min(ends) + 2]

LEMMA SkipStepIs ==
  ASSUME src \in Seq(STRING), NEW f, NEW q \in 1..(Len(src) + 1), NEW i \in 1..(q - 1),
         \A j \in (q + 1)..(Len(src) + 1) : ~f[j]
  PROVE  SkipStep(f, i, q) <=> \E j \in (i + 1)..q : Hop(src, i, j) /\ f[j]
<1>0. Len(src) \in Nat
  OBVIOUS
<1>1. i \in 1..Len(src) /\ i < q /\ i # q
  BY <1>0
<1>2. PICK x : x = src
  OBVIOUS
<1>3. \A j : At(j) = CharAt(x, j)
  BY <1>2 DEF At, CharAt
<1>4. PICK c : c = CharAt(x, i)
  OBVIOUS
<1>5. CASE c \in Blanks \cup {"\n"}
  <2>1. c # "/"
    BY <1>5 DEF Blanks
  <2>2. SkipStep(f, i, q) <=> f[i + 1]
    BY ONLY <1>1, <1>3, <1>4, <1>5, <2>1 DEF SkipStep
  <2>3. \A j : Hop(x, i, j) <=> j = i + 1
    BY ONLY <1>4, <1>5, <2>1 DEF Hop, LineHop, BlockHop
  <2>4. i + 1 \in (i + 1)..q
    BY <1>1
  <2> QED BY ONLY <1>2, <2>2, <2>3, <2>4
<1>6. CASE c = "/" /\ CharAt(x, i + 1) = "/"
  <2>1. c \notin Blanks \cup {"\n"} /\ CharAt(x, i + 1) # "*"
    BY <1>6 DEF Blanks
  <2>2. PICK e : e = Min({j \in i..(Len(x) + 1) : j > Len(x) \/ CharAt(x, j) = "\n"})
    OBVIOUS
  <2>3. SkipStep(f, i, q) <=> f[e]
    BY ONLY <1>1, <1>2, <1>3, <1>4, <1>6, <2>1, <2>2 DEF SkipStep
  <2>4. e \in (i + 1)..(Len(x) + 1) /\ LineHop(x, i, e) /\ \A j : LineHop(x, i, j) => j = e
    BY ONLY <1>0, <1>1, <1>2, <1>4, <1>6, <2>2, LineHopIs
  <2>5. \A j : Hop(x, i, j) <=> LineHop(x, i, j)
    BY ONLY <1>4, <2>1 DEF Hop, BlockHop
  <2>6. f[e] => e \in (i + 1)..q
    <3>1. e \notin (i + 1)..q => e \in (q + 1)..(Len(src) + 1)
      BY <1>0, <1>2, <2>4
    <3> QED BY <3>1
  <2> QED BY ONLY <1>2, <2>3, <2>4, <2>5, <2>6
<1>7. CASE c = "/" /\ CharAt(x, i + 1) = "*"
  <2>1. c \notin Blanks \cup {"\n"} /\ CharAt(x, i + 1) # "/"
    BY <1>7 DEF Blanks
  <2>2. PICK h \in Int : h = q - 2 /\ h <= Len(x)
    BY <1>0, <1>2
  <2>3. PICK D : D = {j \in (i + 2)..h : CharAt(x, j) = "*" /\ CharAt(x, j + 1) = "/"}
    OBVIOUS
  <2>4. SkipStep(f, i, q) <=> D # {} /\ f[Min(D) + 2]
    BY ONLY <1>1, <1>3, <1>4, <1>7, <2>1, <2>2, <2>3 DEF SkipStep
  <2>5. \A j : Hop(x, i, j) <=> BlockHop(x, i, j)
    BY ONLY <1>4, <2>1 DEF Hop, LineHop
  <2>6. /\ D # {} => /\ Min(D) \in (i + 2)..h
                     /\ Min(D) + 2 \in (i + 1)..(Len(x) + 1)
                     /\ BlockHop(x, i, Min(D) + 2)
                     /\ \A j : BlockHop(x, i, j) => j = Min(D) + 2
        /\ D = {} => \A j : BlockHop(x, i, j) => j \in Int /\ j > h + 2
    <3>1. CharAt(x, i) = "/" /\ CharAt(x, i + 1) = "*"
      BY ONLY <1>4, <1>7
    <3>2. Len(x) \in Nat /\ i \in 1..Len(x) /\ h \in Int /\ h <= Len(x)
      BY ONLY <1>0, <1>1, <1>2, <2>2
    <3>3. D = Closers(x, i + 2, h)
      BY ONLY <2>3 DEF Closers
    <3> QED BY ONLY <3>1, <3>2, <3>3, BlockHopIs
  <2>7. CASE D = {}
    <3>1. \A j \in (i + 1)..q : ~BlockHop(x, i, j)
      <4>1. h + 2 = q
        BY <2>2
      <4>2. \A j : BlockHop(x, i, j) => j > q
        BY ONLY <2>6, <2>7, <4>1
      <4>3. \A j \in (i + 1)..q : ~(j > q)
        OBVIOUS
      <4> QED BY ONLY <4>2, <4>3
    <3> QED BY ONLY <1>2, <2>4, <2>5, <2>7, <3>1
  <2>8. CASE D # {}
    <3>1. PICK e : e = Min(D)
      OBVIOUS
    <3>2. e + 2 \in (i + 1)..q
      BY <2>2, <2>6, <2>8, <3>1
    <3>3. BlockHop(x, i, e + 2) /\ \A j : BlockHop(x, i, j) => j = e + 2
      BY ONLY <2>6, <2>8, <3>1
    <3> QED BY ONLY <1>2, <2>4, <2>5, <2>8, <3>1, <3>2, <3>3
  <2> QED BY ONLY <2>7, <2>8
<1>8. CASE c \notin Blanks \cup {"\n"} /\ ~(c = "/" /\ CharAt(x, i + 1) \in {"/", "*"})
  <2>1. ~SkipStep(f, i, q)
    BY ONLY <1>1, <1>3, <1>4, <1>8 DEF SkipStep
  <2>2. \A j : ~Hop(x, i, j)
    BY ONLY <1>4, <1>8 DEF Hop, LineHop, BlockHop
  <2> QED BY ONLY <1>2, <2>1, <2>2
<1> QED BY ONLY <1>5, <1>6, <1>7, <1>8

\* What is clear may be skipped.
LEMMA ClearSkips ==
  ASSUME src \in Seq(STRING), NEW p \in Nat \ {0}, NEW q \in p..(Len(src) + 1),
         Clear(src, p, q)
  PROVE  Skippable(p, q)
<1>0. Len(src) \in Nat
  OBVIOUS
<1>1. PICK n \in Nat : n = Len(src) + 1
  BY <1>0
<1>2. PICK x : x = src
  OBVIOUS
<1>3. \A f : (\A j \in (q + 1)..n : ~f[j]) =>
        \A i \in p..(q - 1) : SkipStep(f, i, q) <=> \E j \in (i + 1)..q : Hop(x, i, j) /\ f[j]
  <2>1. ASSUME NEW f, \A j \in (q + 1)..n : ~f[j], NEW i \in p..(q - 1)
        PROVE  SkipStep(f, i, q) <=> \E j \in (i + 1)..q : Hop(x, i, j) /\ f[j]
    <3>1. i \in 1..(q - 1) /\ q \in 1..(Len(src) + 1)
      BY <1>0
    <3>2. \A j \in (q + 1)..(Len(src) + 1) : ~f[j]
      BY ONLY <1>1, <2>1
    <3>3. SkipStep(f, i, q) <=> \E j \in (i + 1)..q : Hop(src, i, j) /\ f[j]
      BY ONLY src \in Seq(STRING), <3>1, <3>2, SkipStepIs
    <3> QED BY ONLY <1>2, <3>3
  <2> QED BY ONLY <2>1
<1>4. \A f : SkipStep(f, q, q) /\ \A i \in (q + 1)..n : ~SkipStep(f, i, q)
  <2>1. \A i \in (q + 1)..n : i # q /\ ~(i < q)
    BY <1>0
  <2> QED BY ONLY <2>1 DEF SkipStep
<1>5. \A i \in p..n : i = q \/ i \in p..(q - 1) \/ i \in (q + 1)..n
  BY <1>0, <1>1
<1>6. \E g : g = [i \in p..n |-> SkipStep(g, i, q)]
  <2>1. PICK g : g = [i \in p..n |-> i <= q /\ Clear(x, i, q)]
    OBVIOUS
  <2>2. \A i \in p..n : g[i] = (i <= q /\ Clear(x, i, q))
    BY ONLY <2>1
  <2>3. \A j \in (q + 1)..n : ~g[j]
    <3>1. \A j \in (q + 1)..n : j \in p..n /\ ~(j <= q)
      BY <1>0, <1>1
    <3> QED BY ONLY <2>2, <3>1
  <2>4. ASSUME NEW i \in p..n
        PROVE  g[i] = SkipStep(g, i, q)
    <3>0. g[i] \in BOOLEAN /\ SkipStep(g, i, q) \in BOOLEAN
      BY ONLY <2>2, i \in p..n DEF SkipStep
    <3>1. CASE i = q
      <4>1. q <= q /\ Clear(x, q, q)
        BY <1>0, ClearSame
      <4>2. g[i]
        BY ONLY <2>2, <3>1, <4>1, i \in p..n
      <4>3. SkipStep(g, i, q)
        BY ONLY <1>4, <3>1
      <4> QED BY ONLY <3>0, <4>2, <4>3
    <3>2. CASE i \in p..(q - 1)
      <4>1. SkipStep(g, i, q) <=> \E j \in (i + 1)..q : Hop(x, i, j) /\ g[j]
        BY ONLY <1>3, <2>3, <3>2
      <4>2. \A j \in (i + 1)..q : g[j] <=> Clear(x, j, q)
        <5>1. \A j \in (i + 1)..q : j \in p..n /\ j <= q
          BY <1>0, <1>1, <3>2
        <5> QED BY ONLY <2>2, <5>1
      <4>3. i \in Nat /\ q \in Nat /\ i < q /\ i <= q
        BY <3>2
      <4>4. Clear(x, i, q) <=> \E j \in (i + 1)..q : Hop(x, i, j) /\ Clear(x, j, q)
        BY ONLY <4>3, ClearFirst
      <4>5. g[i] <=> Clear(x, i, q)
        BY ONLY <2>2, <4>3, i \in p..n
      <4>6. g[i] <=> SkipStep(g, i, q)
        BY ONLY <4>1, <4>2, <4>4, <4>5
      <4> QED BY ONLY <3>0, <4>6
    <3>3. CASE i \in (q + 1)..n
      <4>1. ~g[i] /\ ~SkipStep(g, i, q)
        BY ONLY <1>4, <2>3, <3>3
      <4> QED BY ONLY <3>0, <4>1
    <3> QED BY ONLY <1>5, <3>1, <3>2, <3>3, i \in p..n
  <2>5. g = [i \in p..n |-> SkipStep(g, i, q)]
    BY ONLY <2>1, <2>4
  <2> QED BY ONLY <2>5
<1>7. PICK f : f = CHOOSE g : g = [i \in p..n |-> SkipStep(g, i, q)]
  OBVIOUS
<1>8. f = [i \in p..n |-> SkipStep(f, i, q)]
  BY ONLY <1>6, <1>7
<1>9. Skippable(p, q) = f[p]
  BY ONLY <1>1, <1>7 DEF Skippable, SkipStep
<1>10. \A i \in p..n : f[i] = SkipStep(f, i, q)
  BY ONLY <1>8
<1>11. \A j \in (q + 1)..n : ~f[j]
  <2>1. \A j \in (q + 1)..n : j \in p..n
    BY <1>0, <1>1
  <2> QED BY ONLY <1>4, <1>10, <2>1
<1>12. PICK S : Hops(x, p, q, S)
  BY ONLY <1>2, Clear(src, p, q) DEF Clear
<1>13. /\ S \subseteq p..q /\ p \in S /\ q \in S
       /\ \A i \in S : i = q \/ \E j \in S : i < j /\ Hop(x, i, j)
  BY ONLY <1>12 DEF Hops
<1> DEFINE D == {k \in 0..(q - p) : q - k \in S /\ ~f[q - k]}
<1>14. ASSUME D # {}
       PROVE  FALSE
  <2>1. D \subseteq Nat
    OBVIOUS
  <2>2. PICK m \in D : \A k \in D : m <= k
    <3> HIDE DEF D
    <3> QED BY ONLY <1>14, <2>1, NatMin
  <2>3. PICK i \in S : i = q - m /\ ~f[i] /\ m \in 0..(q - p)
    BY <2>2
  <2>4. \A j \in S : i < j => f[j]
    <3>1. ASSUME NEW j \in S, i < j, ~f[j] PROVE FALSE
      <4>1. q - j \in 0..(q - p) /\ q - (q - j) = j /\ ~(m <= q - j)
        BY <1>13, <2>3, <3>1
      <4>2. q - j \in D
        BY <3>1, <4>1
      <4> QED BY ONLY <2>2, <4>1, <4>2
    <3> QED BY ONLY <3>1
  <2>5. i \in p..n
    BY <1>0, <1>1, <1>13
  <2>6. CASE i = q
    BY ONLY <1>4, <1>10, <2>3, <2>5, <2>6
  <2>7. CASE i # q
    <3>1. i \in p..(q - 1)
      BY <1>13, <2>7
    <3>2. PICK j \in S : i < j /\ Hop(x, i, j)
      BY ONLY <1>13, <2>7, i \in S
    <3>3. f[j]
      BY ONLY <2>4, <3>2
    <3>4. j \in (i + 1)..q
      BY <1>13, <3>1, <3>2
    <3>5. SkipStep(f, i, q)
      BY ONLY <1>3, <1>11, <3>1, <3>2, <3>3, <3>4
    <3> QED BY ONLY <1>10, <2>3, <2>5, <3>5
  <2> QED BY ONLY <2>6, <2>7
<1>15. f[p]
  <2>1. q - p \in 0..(q - p) /\ q - (q - p) = p
    BY <1>0
  <2>2. q - p \notin D
    <3> HIDE DEF D
    <3> QED BY ONLY <1>14
  <2> QED BY <1>13, <2>1, <2>2
<1> QED BY ONLY <1>9, <1>15

-----------------------------------------------------------------------------
(***************************************************************************)
(* The table of punctuation.                                               *)
(***************************************************************************)
LEMMA SubSeqIs ==
  ASSUME NEW x \in Seq(STRING), NEW a \in 1..(Len(x) + 1), NEW b \in (a - 1)..Len(x)
  PROVE  /\ SubSeq(x, a, b) \in Seq(STRING)
         /\ Len(SubSeq(x, a, b)) = b - a + 1
         /\ \A k \in 1..(b - a + 1) : SubSeq(x, a, b)[k] = x[a + k - 1]
  OBVIOUS

\* The text at p begins with w.
Reads(x, p, w) == p + Len(w) - 1 <= Len(x) /\ \A k \in 1..Len(w) : x[p + k - 1] = w[k]

LEMMA MatchReads ==
  ASSUME NEW x \in Seq(STRING), NEW p \in 1..Len(x), NEW W, NEW w \in Seq(W), Len(w) >= 1,
         NEW m, m = Min({Len(x), p + Len(w) - 1})
  PROVE  SubSeq(x, p, m) = w <=> Reads(x, p, w)
<1>1. PICK n \in Nat : n = Len(w) /\ n >= 1
  OBVIOUS
<1>2. PICK len \in Nat : len = Len(x) /\ p \in 1..len
  OBVIOUS
<1>3. CASE p + n - 1 <= len
  <2>1. m = p + n - 1
    <3>1. {len, p + n - 1} \subseteq Nat /\ {len, p + n - 1} # {}
      BY <1>1, <1>2
    <3>2. m \in {len, p + n - 1} /\ \A k \in {len, p + n - 1} : m <= k
      BY ONLY <1>1, <1>2, <3>1, MinOf, m = Min({Len(x), p + Len(w) - 1})
    <3> QED BY <1>1, <1>2, <1>3, <3>2
  <2>2. p \in 1..(Len(x) + 1) /\ m \in (p - 1)..Len(x) /\ m - p + 1 = n
    BY <1>1, <1>2, <1>3, <2>1
  <2>3. PICK s : s = SubSeq(x, p, m)
    OBVIOUS
  <2>4. s \in Seq(STRING) /\ Len(s) = n /\ \A k \in 1..n : s[k] = x[p + k - 1]
    BY ONLY x \in Seq(STRING), <2>2, <2>3, SubSeqIs
  <2>5. s = w <=> \A k \in 1..n : s[k] = w[k]
    BY ONLY <1>1, <2>4, w \in Seq(W)
  <2>6. Reads(x, p, w) <=> \A k \in 1..n : x[p + k - 1] = w[k]
    BY ONLY <1>1, <1>2, <1>3 DEF Reads
  <2> QED BY ONLY <2>3, <2>4, <2>5, <2>6
<1>4. CASE ~(p + n - 1 <= len)
  <2>1. m = len
    <3>1. {len, p + n - 1} \subseteq Nat /\ {len, p + n - 1} # {}
      BY <1>1, <1>2
    <3>2. m \in {len, p + n - 1} /\ \A k \in {len, p + n - 1} : m <= k
      BY ONLY <1>1, <1>2, <3>1, MinOf, m = Min({Len(x), p + Len(w) - 1})
    <3> QED BY <1>1, <1>2, <1>4, <3>2
  <2>2. p \in 1..(Len(x) + 1) /\ m \in (p - 1)..Len(x) /\ m - p + 1 # n
    BY <1>1, <1>2, <1>4, <2>1
  <2>3. Len(SubSeq(x, p, m)) = m - p + 1
    BY ONLY x \in Seq(STRING), <2>2, SubSeqIs
  <2>4. SubSeq(x, p, m) # w
    BY ONLY <1>1, <2>2, <2>3
  <2>5. ~Reads(x, p, w)
    BY ONLY <1>1, <1>2, <1>4 DEF Reads
  <2> QED BY ONLY <2>4, <2>5
<1> QED BY ONLY <1>3, <1>4

LEMMA PrefixReads ==
  ASSUME NEW x \in Seq(STRING), NEW p \in 1..Len(x), NEW W, NEW w \in Seq(W),
         IsPrefix(w, SubSeq(x, p, Len(x)))
  PROVE  Reads(x, p, w)
<1>1. PICK n \in Nat : n = Len(w)
  OBVIOUS
<1>2. PICK len \in Nat : len = Len(x) /\ p \in 1..len
  OBVIOUS
<1>3. PICK s : s = SubSeq(x, p, Len(x))
  OBVIOUS
<1>4. p \in 1..(Len(x) + 1) /\ Len(x) \in (p - 1)..Len(x)
  BY <1>2
<1>5. s \in Seq(STRING) /\ Len(s) = Len(x) - p + 1 /\ \A k \in 1..(Len(x) - p + 1) : s[k] = x[p + k - 1]
  BY ONLY x \in Seq(STRING), <1>3, <1>4, SubSeqIs
<1>6. n <= Len(s) /\ SubSeq(w, 1, n) = SubSeq(s, 1, n)
  BY ONLY <1>1, <1>3, IsPrefix(w, SubSeq(x, p, Len(x))) DEF IsPrefix
<1>7. \A k \in 1..n : SubSeq(w, 1, n)[k] = w[k]
  BY <1>1
<1>8. \A k \in 1..n : SubSeq(s, 1, n)[k] = s[k]
  BY <1>5, <1>6
<1>9. \A k \in 1..n : w[k] = x[p + k - 1]
  <2>1. \A k \in 1..n : k \in 1..(Len(x) - p + 1)
    BY <1>2, <1>5, <1>6
  <2> QED BY ONLY <1>5, <1>6, <1>7, <1>8, <2>1
<1>10. p + n - 1 <= Len(x)
  BY <1>2, <1>5, <1>6
<1> QED BY ONLY <1>1, <1>9, <1>10 DEF Reads

Marks == {"<", "=", ">", ".", "/", "+", "*"}

LEMMA ShortSeqs ==
  ASSUME NEW S, NEW c \in S, NEW d \in S, NEW e \in S
  PROVE  <<c>> \in Seq(S) /\ <<c, d>> \in Seq(S) /\ <<c, d, e>> \in Seq(S)
  OBVIOUS

LEMMA PunctTable ==
  /\ DOMAIN PUNCTS = 1..12
  /\ \A i \in 1..12 : PUNCTS[i] \in Seq(Marks) /\ Len(PUNCTS[i]) \in 1..3
  /\ Len(PUNCTS[1]) = 2 /\ PUNCTS[1][1] = "<" /\ Len(PUNCTS[2]) = 3 /\ PUNCTS[2][1] = "."
  /\ \A i, j \in 1..12 : i < j /\ Len(PUNCTS[j]) > Len(PUNCTS[i]) => i = 1 /\ j = 2
<1>1. DOMAIN PUNCTS = 1..12
  BY DEF PUNCTS
<1>2. \A i \in 1..12 : PUNCTS[i] \in Seq(Marks)
  <2>4. /\ PUNCTS[1] = <<"<", "=">> /\ PUNCTS[2] = <<".", ".", ".">> /\ PUNCTS[3] = <<".", ".">>
        /\ PUNCTS[4] = <<"=", ">">> /\ PUNCTS[5] = <<"/", "=">> /\ PUNCTS[6] = <<"+">>
        /\ PUNCTS[7] = <<"*">> /\ PUNCTS[8] = <<"/">> /\ PUNCTS[9] = <<"=">>
        /\ PUNCTS[10] = <<"<">> /\ PUNCTS[11] = <<">">> /\ PUNCTS[12] = <<".">>
    BY DEF PUNCTS
  <2>5. /\ PUNCTS[1] \in Seq(Marks) /\ PUNCTS[2] \in Seq(Marks) /\ PUNCTS[3] \in Seq(Marks)
        /\ PUNCTS[4] \in Seq(Marks) /\ PUNCTS[5] \in Seq(Marks) /\ PUNCTS[6] \in Seq(Marks)
        /\ PUNCTS[7] \in Seq(Marks) /\ PUNCTS[8] \in Seq(Marks) /\ PUNCTS[9] \in Seq(Marks)
        /\ PUNCTS[10] \in Seq(Marks) /\ PUNCTS[11] \in Seq(Marks) /\ PUNCTS[12] \in Seq(Marks)
    <3>1. \A S, c, d, e : c \in S /\ d \in S /\ e \in S =>
            <<c>> \in Seq(S) /\ <<c, d>> \in Seq(S) /\ <<c, d, e>> \in Seq(S)
      BY ShortSeqs
    <3>2. PICK S : S = Marks
      OBVIOUS
    <3>3. /\ "<" \in S /\ "=" \in S /\ ">" \in S /\ "." \in S
          /\ "/" \in S /\ "+" \in S /\ "*" \in S
      BY <3>2 DEF Marks
    <3> QED BY ONLY <2>4, <3>1, <3>2, <3>3
  <2>6. \A i \in 1..12 : \/ i = 1 \/ i = 2 \/ i = 3 \/ i = 4 \/ i = 5 \/ i = 6
                         \/ i = 7 \/ i = 8 \/ i = 9 \/ i = 10 \/ i = 11 \/ i = 12
    OBVIOUS
  <2> QED BY ONLY <2>5, <2>6
<1>3. Len(PUNCTS[1]) = 2 /\ PUNCTS[1][1] = "<"
  BY DEF PUNCTS
<1>4. Len(PUNCTS[2]) = 3 /\ PUNCTS[2][1] = "."
  BY DEF PUNCTS
<1>5. Len(PUNCTS[3]) = 2 /\ Len(PUNCTS[4]) = 2 /\ Len(PUNCTS[5]) = 2
  BY DEF PUNCTS
<1>6. \A i \in 6..12 : Len(PUNCTS[i]) = 1
  BY DEF PUNCTS
<1>7. \A i \in 1..12 : i = 1 \/ i = 2 \/ i = 3 \/ i = 4 \/ i = 5 \/ i \in 6..12
  OBVIOUS
<1>8. \A i \in 1..12 : Len(PUNCTS[i]) \in 1..3
  BY ONLY <1>3, <1>4, <1>5, <1>6, <1>7
<1>9. \A i, j \in 1..12 : i < j /\ Len(PUNCTS[j]) > Len(PUNCTS[i]) => i = 1 /\ j = 2
  <2>1. \A i \in 1..12 : i = 1 \/ i = 2 \/ i \in 3..5 \/ i \in 6..12
    OBVIOUS
  <2>2. \A i \in 3..5 : Len(PUNCTS[i]) = 2
    <3>1. \A i \in 3..5 : i = 3 \/ i = 4 \/ i = 5
      OBVIOUS
    <3> QED BY ONLY <1>5, <3>1
  <2>3. \A j \in 1..12 : Len(PUNCTS[j]) <= 3 /\ (j \in 3..12 => Len(PUNCTS[j]) <= 2)
    <3>1. \A j \in 3..12 : j \in 3..5 \/ j \in 6..12
      OBVIOUS
    <3>2. \A k \in 1..3 : k <= 3
      OBVIOUS
    <3>3. 1 <= 2 /\ 2 <= 2
      OBVIOUS
    <3> QED BY ONLY <1>6, <1>8, <2>2, <3>1, <3>2, <3>3
  <2>4. ASSUME NEW i \in 1..12, NEW j \in 1..12, i < j, Len(PUNCTS[j]) > Len(PUNCTS[i])
        PROVE  i = 1 /\ j = 2
    <3>1. PICK a \in 1..3 : a = Len(PUNCTS[i])
      BY ONLY <1>8, i \in 1..12
    <3>2. PICK b \in 1..3 : b = Len(PUNCTS[j])
      BY ONLY <1>8, j \in 1..12
    <3>0. b > a /\ a \in 1..3 /\ b \in 1..3 /\ i < j /\ i \in 1..12 /\ j \in 1..12
      BY ONLY <2>4, <3>1, <3>2
    <3>3. CASE i = 1
      <4>1. a = 2
        BY ONLY <1>3, <3>1, <3>3
      <4>2. j \in 3..12 => b <= 2
        BY ONLY <2>3, <3>2, j \in 1..12
      <4> QED BY ONLY <3>0, <3>3, <4>1, <4>2
    <3>4. CASE i = 2
      <4>1. a = 3
        BY ONLY <1>4, <3>1, <3>4
      <4> QED BY ONLY <3>0, <4>1
    <3>5. CASE i \in 3..5
      <4>1. a = 2 /\ j \in 3..12
        BY ONLY <2>2, <3>0, <3>1, <3>5
      <4>2. b <= 2
        BY ONLY <2>3, <3>2, <4>1, j \in 1..12
      <4> QED BY ONLY <3>0, <4>1, <4>2
    <3>6. CASE i \in 6..12
      <4>1. a = 1 /\ j \in 6..12
        BY ONLY <1>6, <3>0, <3>1, <3>6
      <4>2. b = 1
        BY ONLY <1>6, <3>2, <4>1
      <4> QED BY ONLY <3>0, <4>1, <4>2
    <3> QED BY ONLY <2>1, <3>3, <3>4, <3>5, <3>6, i \in 1..12
  <2> QED BY ONLY <2>4
<1> QED BY ONLY <1>1, <1>2, <1>3, <1>4, <1>8, <1>9

PunctsAt(x, p) ==
  {i \in DOMAIN PUNCTS :
     SubSeq(x, p, Min({Len(x), p + Len(PUNCTS[i]) - 1})) = PUNCTS[i]}

\* The first entry that matches is the longest.
LEMMA FirstIsLongest ==
  ASSUME NEW x \in Seq(STRING), NEW p \in 1..Len(x), PunctsAt(x, p) # {},
         NEW n, n = Len(PUNCTS[Min(PunctsAt(x, p))])
  PROVE  /\ n \in 1..3 /\ p + n <= Len(x) + 1
         /\ ~\E i \in DOMAIN PUNCTS :
               Len(PUNCTS[i]) > n /\ IsPrefix(PUNCTS[i], SubSeq(x, p, Len(x)))
<1>1. PICK M : M = PunctsAt(x, p)
  OBVIOUS
<1>2. \A i \in 1..12 : i \in M <=> Reads(x, p, PUNCTS[i])
  <2>1. ASSUME NEW i \in 1..12 PROVE i \in M <=> Reads(x, p, PUNCTS[i])
    <3>1. PICK w : w = PUNCTS[i]
      OBVIOUS
    <3>2. w \in Seq(Marks) /\ Len(w) >= 1 /\ i \in DOMAIN PUNCTS
      <4>1. PUNCTS[i] \in Seq(Marks) /\ Len(PUNCTS[i]) \in 1..3 /\ DOMAIN PUNCTS = 1..12
        BY ONLY PunctTable, i \in 1..12
      <4>2. \A k \in 1..3 : k >= 1
        OBVIOUS
      <4> QED BY ONLY <3>1, <4>1, <4>2, i \in 1..12
    <3>3. i \in M <=> SubSeq(x, p, Min({Len(x), p + Len(w) - 1})) = w
      BY ONLY <1>1, <3>1, <3>2 DEF PunctsAt
    <3>4. SubSeq(x, p, Min({Len(x), p + Len(w) - 1})) = w <=> Reads(x, p, w)
      BY <3>2, MatchReads
    <3> QED BY ONLY <3>1, <3>3, <3>4
  <2> QED BY ONLY <2>1
<1>3. M \subseteq 1..12 /\ M # {}
  BY <1>1, PunctTable DEF PunctsAt
<1>4. Min(M) \in M /\ \A k \in M : Min(M) <= k
  <2>1. M \subseteq Nat
    BY <1>3
  <2> QED BY ONLY <1>3, <2>1, MinOf
<1>5. PICK i \in M : i = Min(M) /\ \A k \in M : i <= k
  BY ONLY <1>4
<1>6. i \in 1..12 /\ n = Len(PUNCTS[i]) /\ n \in 1..3 /\ Reads(x, p, PUNCTS[i])
  BY <1>1, <1>2, <1>3, <1>5, PunctTable
<1>7. p + n <= Len(x) + 1
  BY <1>6 DEF Reads
<1>8. ASSUME NEW j \in DOMAIN PUNCTS, Len(PUNCTS[j]) > n,
             IsPrefix(PUNCTS[j], SubSeq(x, p, Len(x)))
      PROVE  FALSE
  <2>1. j \in 1..12 /\ PUNCTS[j] \in Seq(Marks)
    BY ONLY PunctTable, j \in DOMAIN PUNCTS
  <2>2. Reads(x, p, PUNCTS[j])
    BY <1>8, <2>1, PrefixReads
  <2>3. i <= j
    BY ONLY <1>2, <1>5, <2>1, <2>2
  <2>4. i # j
    BY <1>6, <1>8
  <2>5. i < j
    BY ONLY <1>6, <2>1, <2>3, <2>4
  <2>6. i = 1 /\ j = 2
    BY ONLY <1>6, <1>8, <2>1, <2>5, PunctTable
  <2>7. x[p + 1 - 1] = "<"
    <3>1. 1 \in 1..Len(PUNCTS[1])
      BY ONLY PunctTable
    <3> QED BY ONLY <1>6, <2>6, <3>1, PunctTable DEF Reads
  <2>8. x[p + 1 - 1] = "."
    <3>1. 1 \in 1..Len(PUNCTS[2])
      BY ONLY PunctTable
    <3> QED BY ONLY <2>2, <2>6, <3>1, PunctTable DEF Reads
  <2> QED BY ONLY <2>7, <2>8
<1> QED BY ONLY <1>1, <1>6, <1>7, <1>8

-----------------------------------------------------------------------------
(***************************************************************************)
(* The invariant, of a text x, a cursor l and the tokens o pushed so far.   *)
(***************************************************************************)
\* A literal ends at its first bare quote.
QuoteHolds(x, t) ==
  t.kind \in {"STRING", "FSTRING"} \/ (t.kind = "INT" /\ CharAt(x, t.at) = "'") =>
    \A p \in (t.at + 1)..(t.end - 1) :
      /\ (/\ p < t.end - 1 /\ CharAt(x, p) = CharAt(x, t.end - 1)
          /\ (t.kind = "FSTRING" => p > t.at + 1)) => Back(x, p) % 2 = 1
      /\ p = t.end - 1 => Back(x, p) % 2 = 0

\* A token takes all it can.
MunchHolds(x, t) ==
  /\ t.kind = "PUNCT" =>
        ~\E i \in DOMAIN PUNCTS :
            Len(PUNCTS[i]) > t.end - t.at /\ IsPrefix(PUNCTS[i], SubSeq(x, t.at, Len(x)))
  /\ t.kind \in {"IDENT", "KEYWORD", "TYPE"} => CharAt(x, t.end) \notin Alphas \cup Digits

TokenHolds(x, o, i) ==
  /\ o[i].at \in 1..(Len(x) + 1) /\ o[i].end \in 1..(Len(x) + 1)
  /\ Placed(x, o, i - 1, o[i].at, o[i].line, o[i].col)
  /\ QuoteHolds(x, o[i])
  /\ MunchHolds(x, o[i])

\* Two neighbours: only blanks between them, and not two ends of line.
PairHolds(x, t, u) ==
  /\ Clear(x, t.end, u.at)
  /\ ~(t.kind = "NEWLINE" /\ u.kind = "NEWLINE")

TokensHold(x, o) ==
  /\ Len(o) \in Nat /\ o = [i \in 1..Len(o) |-> o[i]]
  /\ \A i \in 1..Len(o) : TokenHolds(x, o, i)
  /\ \A i \in 1..(Len(o) - 1) : PairHolds(x, o[i], o[i + 1])

Moved(x, l, o) ==
  /\ l = [pos |-> l.pos, line |-> l.line, col |-> l.col]
  /\ l.pos \in 1..(Len(x) + 1) /\ l.col \in Int
  /\ Placed(x, o, Len(o), l.pos, l.line, l.col)

CursorHolds(x, l, o) ==
  /\ Moved(x, l, o)
  /\ Len(o) # 0 => Clear(x, o[Len(o)].end, l.pos)

Closed(o) ==
  /\ Len(o) >= 2
  /\ o[Len(o)].kind = "EOF" /\ o[Len(o) - 1].kind = "NEWLINE"

LexInv ==
  /\ src \in Seq(STRING)
  /\ TokensHold(src, out)
  /\ ~done => CursorHolds(src, lx, out)
  /\ done /\ ~hasError => Closed(out)

-----------------------------------------------------------------------------
(***************************************************************************)
(* Moving the cursor and pushing tokens.                                   *)
(***************************************************************************)
Adv(x, l, n) ==
  LET nl == Breaks(x, l.pos, l.pos + n - 1)
  IN [pos |-> l.pos + n, line |-> l.line + Cardinality(nl),
      col |-> IF nl = {} THEN l.col + n ELSE l.pos + n - Max(nl)]

LEMMA AdvancedIs ==
  ASSUME NEW l, NEW n
  PROVE  Advanced(l, n) = Adv(src, l, n)
<1>1. \A j : At(j) = CharAt(src, j)
  BY DEF At, CharAt
<1>2. {i \in l.pos..(l.pos + n - 1) : At(i) = "\n"} = Breaks(src, l.pos, l.pos + n - 1)
  BY ONLY <1>1 DEF Breaks
<1>3. PICK B : B = Breaks(src, l.pos, l.pos + n - 1)
  OBVIOUS
<1> QED BY ONLY <1>2, <1>3 DEF Advanced, Adv

LEMMA MovedOn ==
  ASSUME NEW x, Len(x) \in Nat, NEW l, NEW o, Len(o) \in Nat, Moved(x, l, o),
         NEW n \in Nat, l.pos + n <= Len(x) + 1
  PROVE  Moved(x, Adv(x, l, n), o) /\ Adv(x, l, n).pos = l.pos + n
<1>1. PICK p \in Nat \ {0} : p = l.pos /\ p + n \in 1..(Len(x) + 1)
  BY DEF Moved
<1>2. PICK c \in Int : c = l.col
  BY DEF Moved
<1>3. PICK B : B = Breaks(x, p, p + n - 1)
  OBVIOUS
<1>4. PICK d : d = IF B = {} THEN c + n ELSE p + n - Max(B)
  OBVIOUS
<1>5. PICK s : s = l.line
  OBVIOUS
<1>6. Placed(x, o, Len(o), p, s, c)
  BY ONLY Moved(x, l, o), <1>1, <1>2, <1>5 DEF Moved
<1>7. Placed(x, o, Len(o), p + n, s + Cardinality(B), d) /\ d \in Int
  <2>1. Len(o) \in Nat
    OBVIOUS
  <2> QED BY ONLY <1>3, <1>4, <1>6, <2>1, n \in Nat, c \in Int, p \in Nat \ {0}, PlacedOn
<1>8. PICK m : m = Adv(x, l, n)
  OBVIOUS
<1>9. m = [pos |-> p + n, line |-> s + Cardinality(B), col |-> d]
  BY ONLY <1>1, <1>2, <1>3, <1>4, <1>5, <1>8 DEF Adv
<1>10. m.pos = p + n /\ m.line = s + Cardinality(B) /\ m.col = d
  BY ONLY <1>9
<1>11. m = [pos |-> m.pos, line |-> m.line, col |-> m.col]
  BY ONLY <1>9, <1>10
<1>12. Moved(x, m, o)
  BY ONLY <1>1, <1>7, <1>10, <1>11 DEF Moved
<1> QED BY ONLY <1>1, <1>8, <1>10, <1>12

\* Over a blank or a comment.
LEMMA SkipOn ==
  ASSUME NEW x, Len(x) \in Nat, NEW l, NEW o, TokensHold(x, o), CursorHolds(x, l, o),
         NEW q \in (l.pos + 1)..(Len(x) + 1), Hop(x, l.pos, q)
  PROVE  CursorHolds(x, Adv(x, l, q - l.pos), o)
<1>1. PICK p \in Nat \ {0} : p = l.pos /\ p <= Len(x) + 1
  BY DEF CursorHolds, Moved
<1>2. q - p \in Nat /\ p + (q - p) = q /\ q <= Len(x) + 1 /\ p < q /\ q \in Nat
  BY <1>1
<1>3. PICK m : m = Adv(x, l, q - p)
  OBVIOUS
<1>4. Moved(x, m, o) /\ m.pos = q
  <2>1. Moved(x, l, o) /\ Len(o) \in Nat
    BY DEF CursorHolds, TokensHold
  <2> QED BY ONLY <1>1, <1>2, <1>3, <2>1, Len(x) \in Nat, MovedOn
<1>5. ASSUME Len(o) # 0
      PROVE  Clear(x, o[Len(o)].end, q)
  <2>1. Len(o) \in 1..Len(o)
    BY <1>5 DEF TokensHold
  <2>2. PICK e \in Nat : e = o[Len(o)].end
    BY <2>1 DEF TokensHold, TokenHolds
  <2>3. Clear(x, e, p)
    BY ONLY <1>1, <1>5, <2>2, CursorHolds(x, l, o) DEF CursorHolds
  <2>4. Clear(x, e, q)
    BY ONLY <1>1, <1>2, <2>2, <2>3, Hop(x, l.pos, q), p \in Nat \ {0}, ClearOn
  <2> QED BY ONLY <2>2, <2>4
<1> QED BY ONLY <1>1, <1>3, <1>4, <1>5 DEF CursorHolds

\* t is a token that lexPushAt may push at the cursor.
Fits(x, l, o, t) ==
  /\ t.at = l.pos /\ t.line = l.line /\ t.col = l.col
  /\ t.end \in l.pos..(Len(x) + 1)
  /\ QuoteHolds(x, t) /\ MunchHolds(x, t)
  /\ ~(t.kind = "NEWLINE" /\ o # <<>> /\ Last(o).kind = "NEWLINE")

Longer(o, t, w) == /\ Len(w) = Len(o) + 1 /\ w[Len(w)] = t
                   /\ \A j \in 1..Len(o) : w[j] = o[j]

LEMMA PushOn ==
  ASSUME NEW x, Len(x) \in Nat, NEW l, NEW o, TokensHold(x, o), CursorHolds(x, l, o),
         NEW t, Fits(x, l, o, t), NEW w, w = Append(o, t)
  PROVE  TokensHold(x, w) /\ Longer(o, t, w)
<1>0. /\ t.at = l.pos /\ t.line = l.line /\ t.col = l.col
      /\ t.end \in 1..(Len(x) + 1) /\ QuoteHolds(x, t) /\ MunchHolds(x, t)
      /\ ~(t.kind = "NEWLINE" /\ o # <<>> /\ Last(o).kind = "NEWLINE")
  <2>1. PICK p \in Nat \ {0} : p = l.pos
    BY DEF CursorHolds, Moved
  <2>2. t.end \in p..(Len(x) + 1)
    BY ONLY <2>1, Fits(x, l, o, t) DEF Fits
  <2>3. t.end \in 1..(Len(x) + 1)
    BY ONLY <2>1, <2>2, Len(x) \in Nat
  <2> QED BY ONLY <2>3, Fits(x, l, o, t) DEF Fits
<1>1. PICK n \in Nat : n = Len(o) /\ o = [i \in 1..n |-> o[i]]
  BY DEF TokensHold
<1>2. w = [i \in 1..(n + 1) |-> IF i = n + 1 THEN t ELSE o[i]] /\ Len(w) = n + 1
  BY ONLY <1>1, FunctionGrown, w = Append(o, t)
<1>3. w[n + 1] = t /\ \A j \in 1..n : w[j] = o[j]
  <2>1. n + 1 \in 1..(n + 1) /\ \A j \in 1..n : j \in 1..(n + 1) /\ j # n + 1
    OBVIOUS
  <2> QED BY ONLY <1>2, <2>1
<1>4. w = [i \in 1..Len(w) |-> w[i]] /\ Len(w) \in Nat
  BY ONLY <1>2, n \in Nat
<1>5. ASSUME NEW i \in 1..n
      PROVE  TokenHolds(x, w, i)
  <2>1. TokenHolds(x, o, i)
    BY ONLY <1>1, TokensHold(x, o), i \in 1..n DEF TokensHold
  <2>2. w[i] = o[i] /\ i - 1 \in Nat /\ \A j \in 1..(i - 1) : w[j] = o[j]
    <3>1. i - 1 \in Nat /\ \A j \in 1..(i - 1) : j \in 1..n
      OBVIOUS
    <3> QED BY ONLY <1>3, <3>1, i \in 1..n
  <2>3. Placed(x, o, i - 1, o[i].at, o[i].line, o[i].col)
    BY ONLY <2>1 DEF TokenHolds
  <2>4. Placed(x, w, i - 1, o[i].at, o[i].line, o[i].col)
    BY ONLY <2>2, <2>3, PlacedMore
  <2> QED BY ONLY <2>1, <2>2, <2>4 DEF TokenHolds
<1>6. TokenHolds(x, w, n + 1)
  <2>1. Placed(x, o, n, l.pos, l.line, l.col) /\ l.pos \in 1..(Len(x) + 1)
    BY ONLY <1>1, CursorHolds(x, l, o) DEF CursorHolds, Moved
  <2>2. Placed(x, w, n, l.pos, l.line, l.col)
    BY ONLY <1>3, <2>1, PlacedMore, n \in Nat
  <2>3. (n + 1) - 1 = n
    OBVIOUS
  <2> QED BY ONLY <1>0, <1>3, <2>1, <2>2, <2>3 DEF TokenHolds
<1>7. ASSUME NEW i \in 1..(n + 1)
      PROVE  TokenHolds(x, w, i)
  <2>1. i \in 1..n \/ i = n + 1
    OBVIOUS
  <2> QED BY ONLY <1>5, <1>6, <2>1
<1>8. ASSUME NEW i \in 1..((n + 1) - 1)
      PROVE  PairHolds(x, w[i], w[i + 1])
  <2>1. CASE i = n
    <3>1. o # <<>> /\ n # 0 /\ n \in 1..n
      <4>1. n # 0 /\ n \in 1..n
        BY <2>1
      <4>2. o = <<>> => Len(o) = 0
        OBVIOUS
      <4> QED BY ONLY <1>1, <4>1, <4>2
    <3>2. Last(o) = o[n]
      BY ONLY <1>1 DEF Last
    <3>3. Clear(x, o[n].end, l.pos)
      BY ONLY <1>1, <3>1, CursorHolds(x, l, o) DEF CursorHolds
    <3>4. w[n] = o[n]
      BY ONLY <1>3, <3>1
    <3> QED BY ONLY <1>0, <1>3, <2>1, <3>1, <3>2, <3>3, <3>4 DEF PairHolds
  <2>2. CASE i # n
    <3>1. i \in 1..(n - 1) /\ i \in 1..n /\ i + 1 \in 1..n
      BY <2>2
    <3>2. PairHolds(x, o[i], o[i + 1])
      BY ONLY <1>1, <3>1, TokensHold(x, o) DEF TokensHold
    <3> QED BY ONLY <1>3, <3>1, <3>2
  <2> QED BY ONLY <2>1, <2>2
<1>9. TokensHold(x, w)
  BY ONLY <1>2, <1>4, <1>7, <1>8 DEF TokensHold
<1> QED BY ONLY <1>1, <1>2, <1>3, <1>9 DEF Longer

\* A token pushed, and a cursor moved behind it.
LEMMA EmitOn ==
  ASSUME NEW x, Len(x) \in Nat, NEW l, NEW o, TokensHold(x, o), CursorHolds(x, l, o),
         NEW t, Fits(x, l, o, t), NEW w, w = Append(o, t)
  PROVE  TokensHold(x, w) /\ CursorHolds(x, Adv(x, l, t.end - l.pos), w)
<1>1. PICK p \in Nat \ {0} : p = l.pos
  BY DEF CursorHolds, Moved
<1>2. PICK e \in 1..(Len(x) + 1) : e = t.end /\ e - p \in Nat /\ p + (e - p) = e
  <2>1. PICK e \in p..(Len(x) + 1) : e = t.end
    BY ONLY <1>1, Fits(x, l, o, t) DEF Fits
  <2>2. e \in 1..(Len(x) + 1) /\ e - p \in Nat /\ p + (e - p) = e
    BY ONLY <1>1, Len(x) \in Nat, e \in p..(Len(x) + 1)
  <2> QED BY ONLY <2>1, <2>2
<1>3. /\ TokensHold(x, w)
      /\ Len(w) = Len(o) + 1 /\ w[Len(w)] = t
      /\ \A j \in 1..Len(o) : w[j] = o[j]
  <2>1. TokensHold(x, w) /\ Longer(o, t, w)
    BY PushOn
  <2> QED BY ONLY <2>1 DEF Longer
<1>4. PICK m : m = Adv(x, l, e - p)
  OBVIOUS
<1>5. Len(o) \in Nat /\ Moved(x, l, o)
  BY DEF TokensHold, CursorHolds
<1>6. Moved(x, m, o) /\ m.pos = e
  <2>1. p + (e - p) <= Len(x) + 1
    BY <1>2
  <2> QED BY ONLY <1>1, <1>2, <1>4, <1>5, <2>1, Len(x) \in Nat, MovedOn
<1>7. Placed(x, w, Len(w), m.pos, m.line, m.col)
  BY ONLY <1>3, <1>5, <1>6, PlacedMore DEF Moved
<1>8. Moved(x, m, w)
  BY ONLY <1>6, <1>7 DEF Moved
<1>9. Clear(x, e, e)
  BY <1>2, ClearSame
<1> QED BY ONLY <1>1, <1>2, <1>3, <1>4, <1>6, <1>8, <1>9 DEF CursorHolds

-----------------------------------------------------------------------------
(***************************************************************************)
(* The turns of the scanner.                                               *)
(***************************************************************************)
\* A turn that goes on, and a turn that reports an error and stops.
LEMMA TurnOn ==
  ASSUME LexInv, src' = src, TokensHold(src, out'), CursorHolds(src, lx', out'),
         done' => hasError'
  PROVE  LexInv'
<1>1. PICK x : x = src
  OBVIOUS
<1>2. x \in Seq(STRING)
  BY ONLY <1>1, LexInv DEF LexInv
<1>3. src' = x /\ TokensHold(x, out') /\ CursorHolds(x, lx', out')
  BY ONLY <1>1, src' = src, TokensHold(src, out'), CursorHolds(src, lx', out')
<1>4. PICK o : o = out'
  OBVIOUS
<1>5. PICK l : l = lx'
  OBVIOUS
<1>6. TokensHold(x, o) /\ CursorHolds(x, l, o)
  BY ONLY <1>3, <1>4, <1>5
<1> QED BY ONLY <1>2, <1>3, <1>4, <1>5, <1>6, done' => hasError' DEF LexInv

LEMMA TurnRefused ==
  ASSUME LexInv, src' = src, out' = out, done', hasError'
  PROVE  LexInv'
<1>1. PICK x : x = src
  OBVIOUS
<1>2. PICK o : o = out
  OBVIOUS
<1>3. x \in Seq(STRING) /\ TokensHold(x, o)
  BY ONLY <1>1, <1>2, LexInv DEF LexInv
<1>4. src' = x /\ out' = o
  BY ONLY <1>1, <1>2, src' = src, out' = out
<1> QED BY ONLY <1>3, <1>4, done', hasError' DEF LexInv

LEMMA InvFacts ==
  ASSUME LexInv, ~done
  PROVE  /\ src \in Seq(STRING) /\ Len(src) \in Nat
         /\ TokensHold(src, out) /\ CursorHolds(src, lx, out)
         /\ lx.pos \in 1..(Len(src) + 1) /\ lx.col \in Int
<1>1. src \in Seq(STRING) /\ TokensHold(src, out) /\ CursorHolds(src, lx, out)
  BY DEF LexInv
<1>2. Len(src) \in Nat
  BY <1>1
<1>3. lx.pos \in 1..(Len(src) + 1) /\ lx.col \in Int
  BY ONLY <1>1 DEF CursorHolds, Moved
<1> QED BY ONLY <1>1, <1>2, <1>3

LEMMA Emits ==
  ASSUME LexInv, ~done, NEW kind, NEW end \in lx.pos..(Len(src) + 1), NEW val,
         NEW t, t = Token(kind, lx.pos, end, lx.line, lx.col, val),
         QuoteHolds(src, t), MunchHolds(src, t), ~(kind = "NEWLINE" /\ EndsLine)
  PROVE  /\ TokensHold(src, Pushed(kind, end, val))
         /\ CursorHolds(src, Advanced(lx, end - lx.pos), Pushed(kind, end, val))
<1>1. Len(src) \in Nat /\ TokensHold(src, out) /\ CursorHolds(src, lx, out)
  BY InvFacts
<1>2. t.kind = kind /\ t.at = lx.pos /\ t.end = end /\ t.line = lx.line /\ t.col = lx.col
  BY DEF Token
<1>3. PICK w : w = Append(out, t)
  OBVIOUS
<1>4. Pushed(kind, end, val) = w
  BY ONLY <1>3, t = Token(kind, lx.pos, end, lx.line, lx.col, val) DEF Pushed
<1>5. Fits(src, lx, out, t)
  BY ONLY <1>2, QuoteHolds(src, t), MunchHolds(src, t), ~(kind = "NEWLINE" /\ EndsLine),
          end \in lx.pos..(Len(src) + 1) DEF Fits, EndsLine
<1>6. TokensHold(src, w) /\ CursorHolds(src, Adv(src, lx, t.end - lx.pos), w)
  BY ONLY <1>1, <1>3, <1>5, EmitOn
<1>7. Advanced(lx, end - lx.pos) = Adv(src, lx, t.end - lx.pos)
  BY ONLY <1>2, AdvancedIs
<1> QED BY ONLY <1>4, <1>6, <1>7

\* A token of which neither literals nor munches say anything.
LEMMA PlainToken ==
  ASSUME NEW x, NEW kind, NEW from, NEW to, NEW line, NEW col, NEW val,
         kind \notin {"STRING", "FSTRING", "PUNCT", "IDENT", "KEYWORD", "TYPE"},
         kind = "INT" => CharAt(x, from) # "'",
         NEW t, t = Token(kind, from, to, line, col, val)
  PROVE  QuoteHolds(x, t) /\ MunchHolds(x, t)
<1>1. t.kind = kind /\ t.at = from
  BY DEF Token
<1>2. QuoteHolds(x, t)
  BY ONLY <1>1, kind \notin {"STRING", "FSTRING", "PUNCT", "IDENT", "KEYWORD", "TYPE"},
          kind = "INT" => CharAt(x, from) # "'" DEF QuoteHolds
<1>3. MunchHolds(x, t)
  BY ONLY <1>1, kind \notin {"STRING", "FSTRING", "PUNCT", "IDENT", "KEYWORD", "TYPE"}
     DEF MunchHolds
<1> QED BY ONLY <1>2, <1>3

\* The run of a class that begins at a place of the text.
LEMMA RunEndIs ==
  ASSUME LexInv, NEW p \in 1..(Len(src) + 1), NEW cls, "\\0" \notin cls
  PROVE  /\ RunEnd(p, cls) \in p..(Len(src) + 1) /\ At(RunEnd(p, cls)) \notin cls
         /\ At(p) \in cls => RunEnd(p, cls) > p
<1>1. Len(src) \in Nat
  <2>1. src \in Seq(STRING)
    BY DEF LexInv
  <2> QED BY <2>1
<1>2. \A j : At(j) = CharAt(src, j)
  BY DEF At, CharAt
<1>3. PICK e : e = RunEnd(p, cls)
  OBVIOUS
<1>4. e = Min({j \in p..(Len(src) + 1) : CharAt(src, j) \notin cls})
  BY ONLY <1>2, <1>3 DEF RunEnd
<1>5. e \in p..(Len(src) + 1) /\ CharAt(src, e) \notin cls
  <2>1. p \in Nat \ {0} /\ p <= Len(src) + 1
    BY <1>1
  <2> QED BY ONLY <1>1, <1>4, <2>1, "\\0" \notin cls, RunFacts
<1>6. At(p) \in cls => e # p
  BY ONLY <1>2, <1>5
<1> QED BY <1>1, <1>2, <1>3, <1>5, <1>6

LEMMA Classes ==
  /\ "\\0" \notin Digits /\ "\\0" \notin HexDigits /\ "\\0" \notin Alphas \cup Digits
  /\ "'" \notin Digits /\ "'" \notin Alphas
  BY DEF Digits, HexDigits, Alphas

LEMMA AtInside ==
  ASSUME NEW j, At(j) # "\\0"
  PROVE  j \in 1..Len(src)
  BY DEF At

LEMMA HexTurn ==
  ASSUME LexInv, ~done, lx.pos <= Len(src), LexHex
  PROVE  LexInv'
<1>0. /\ src \in Seq(STRING) /\ Len(src) \in Nat /\ lx.pos \in 1..(Len(src) + 1)
      /\ lx.col \in Int
  BY InvFacts
<1>1. PICK p \in 1..Len(src) : p = lx.pos
  BY <1>0
<1>2. PICK end : end = RunEnd(p + 2, HexDigits)
  OBVIOUS
<1>3. PICK v : v = HexNumber(SubSeq(src, p + 2, end - 1))
  OBVIOUS
<1>4. At(p) = "0" /\ At(p + 1) = "x"
  <2>1. p + 0 = p
    OBVIOUS
  <2> QED BY ONLY <1>1, <2>1, LexHex DEF LexHex, Peek
<1>5. /\ src' = src
      /\ IF end = p + 2 \/ v < 0
         THEN Refuse(end) /\ out' = out
         ELSE /\ out' = Pushed("INT", end, v)
              /\ lx' = Advanced(lx, end - p)
              /\ done' = hasError
              /\ hasError' = hasError
  BY ONLY <1>1, <1>2, <1>3, LexHex DEF LexHex
<1>6. CASE end = p + 2 \/ v < 0
  <2>1. out' = out /\ hasError' /\ done'
    BY ONLY <1>5, <1>6 DEF Refuse
  <2> QED BY ONLY <1>5, <2>1, LexInv, TurnRefused
<1>7. CASE ~(end = p + 2 \/ v < 0)
  <2>1. p + 1 \in 1..Len(src)
    BY ONLY <1>4, AtInside
  <2>2. p + 2 \in 1..(Len(src) + 1)
    BY <1>0, <2>1
  <2>3. end \in (p + 2)..(Len(src) + 1)
    BY ONLY <1>2, <2>2, LexInv, Classes, RunEndIs
  <2>4. end \in lx.pos..(Len(src) + 1)
    BY ONLY <1>0, <1>1, <2>3
  <2>5. PICK t : t = Token("INT", lx.pos, end, lx.line, lx.col, v)
    OBVIOUS
  <2>6. CharAt(src, lx.pos) # "'"
    BY ONLY <1>1, <1>4 DEF At, CharAt
  <2>7. QuoteHolds(src, t) /\ MunchHolds(src, t)
    BY ONLY <2>5, <2>6, PlainToken
  <2>8. /\ TokensHold(src, Pushed("INT", end, v))
        /\ CursorHolds(src, Advanced(lx, end - lx.pos), Pushed("INT", end, v))
    BY ONLY <2>4, <2>5, <2>7, LexInv, ~done, Emits
  <2>9. out' = Pushed("INT", end, v) /\ lx' = Advanced(lx, end - lx.pos) /\ (done' => hasError')
    BY ONLY <1>1, <1>5, <1>7
  <2>10. TokensHold(src, out') /\ CursorHolds(src, lx', out')
    BY ONLY <2>8, <2>9
  <2> QED BY ONLY <1>5, <2>9, <2>10, LexInv, TurnOn
<1> QED BY ONLY <1>6, <1>7

LEMMA FractionIs ==
  ASSUME LexInv, NEW p \in 1..(Len(src) + 1)
  PROVE  FractionEnd(p) \in p..(Len(src) + 1)
<1>0. Len(src) \in Nat
  <2>1. src \in Seq(STRING)
    BY DEF LexInv
  <2> QED BY <2>1
<1>1. CASE At(p) = "." /\ At(p + 1) \in Digits
  <2>1. FractionEnd(p) = RunEnd(p + 1, Digits)
    BY <1>1 DEF FractionEnd
  <2>2. p + 1 \in 1..Len(src)
    BY ONLY <1>1, Classes, AtInside
  <2>3. p + 1 \in 1..(Len(src) + 1)
    BY <1>0, <2>2
  <2>4. RunEnd(p + 1, Digits) \in (p + 1)..(Len(src) + 1)
    BY ONLY <2>3, LexInv, Classes, RunEndIs
  <2> QED BY <1>0, <2>1, <2>4
<1>2. CASE ~(At(p) = "." /\ At(p + 1) \in Digits)
  <2>1. FractionEnd(p) = p
    BY ONLY <1>2 DEF FractionEnd
  <2> QED BY <1>0, <2>1
<1> QED BY ONLY <1>1, <1>2

LEMMA ExponentIs ==
  ASSUME LexInv, NEW p \in 1..(Len(src) + 1)
  PROVE  ExponentEnd(p) \in p..(Len(src) + 1)
<1>0. Len(src) \in Nat
  <2>1. src \in Seq(STRING)
    BY DEF LexInv
  <2> QED BY <2>1
<1>1. PICK k \in {1, 2} : k = IF At(p + 1) \in {"+", "-"} THEN 2 ELSE 1
  OBVIOUS
<1>2. ExponentEnd(p) = IF At(p) = "e" /\ At(p + k) \in Digits THEN RunEnd(p + k, Digits) ELSE p
  BY ONLY <1>1 DEF ExponentEnd
<1>3. CASE At(p) = "e" /\ At(p + k) \in Digits
  <2>1. ExponentEnd(p) = RunEnd(p + k, Digits)
    BY ONLY <1>2, <1>3
  <2>2. p + k \in 1..Len(src)
    BY ONLY <1>3, Classes, AtInside
  <2>3. p + k \in 1..(Len(src) + 1)
    BY <1>0, <2>2
  <2>4. RunEnd(p + k, Digits) \in (p + k)..(Len(src) + 1)
    BY ONLY <2>3, LexInv, Classes, RunEndIs
  <2> QED BY <1>0, <2>1, <2>4
<1>4. CASE ~(At(p) = "e" /\ At(p + k) \in Digits)
  <2>1. ExponentEnd(p) = p
    BY ONLY <1>2, <1>4
  <2> QED BY <1>0, <2>1
<1> QED BY ONLY <1>3, <1>4

LEMMA DecimalTurn ==
  ASSUME LexInv, ~done, lx.pos <= Len(src), LexDecimal
  PROVE  LexInv'
<1>0. /\ src \in Seq(STRING) /\ Len(src) \in Nat /\ lx.pos \in 1..(Len(src) + 1)
      /\ lx.col \in Int
  BY InvFacts
<1>1. PICK p \in 1..(Len(src) + 1) : p = lx.pos
  BY <1>0
<1>2. PICK whole : whole = RunEnd(p, Digits)
  OBVIOUS
<1>3. PICK end : end = ExponentEnd(FractionEnd(whole))
  OBVIOUS
<1>4. PICK v : v = DecNumber(SubSeq(src, p, whole - 1))
  OBVIOUS
<1>5. At(p) \in Digits
  <2>1. p + 0 = p
    OBVIOUS
  <2> QED BY ONLY <1>1, <2>1, LexDecimal DEF LexDecimal, Peek
<1>6. /\ src' = src
      /\ out' = IF end # whole THEN Pushed("FLOAT", end, 0)
                ELSE Pushed("INT", end, IF v > IntMax THEN IntMax ELSE v)
      /\ lx' = Advanced(lx, end - lx.pos)
      /\ done' = hasError'
  BY ONLY <1>1, <1>2, <1>3, <1>4, LexDecimal DEF LexDecimal
<1>7. PICK kind, val : out' = Pushed(kind, end, val) /\ kind \in {"FLOAT", "INT"}
  BY ONLY <1>6
<1>8. end \in lx.pos..(Len(src) + 1)
  <2>1. whole \in p..(Len(src) + 1)
    BY ONLY <1>1, <1>2, LexInv, Classes, RunEndIs
  <2>2. whole \in 1..(Len(src) + 1)
    BY <1>0, <2>1
  <2>3. FractionEnd(whole) \in whole..(Len(src) + 1)
    BY ONLY <2>2, LexInv, FractionIs
  <2>4. PICK f \in 1..(Len(src) + 1) : f = FractionEnd(whole) /\ f >= p
    BY <1>0, <2>1, <2>3
  <2>5. end \in f..(Len(src) + 1)
    BY ONLY <1>3, <2>4, LexInv, ExponentIs
  <2> QED BY <1>0, <1>1, <2>4, <2>5
<1>9. PICK t : t = Token(kind, lx.pos, end, lx.line, lx.col, val)
  OBVIOUS
<1>10. CharAt(src, lx.pos) # "'"
  BY ONLY <1>1, <1>5, Classes DEF At, CharAt
<1>11. QuoteHolds(src, t) /\ MunchHolds(src, t)
  <2>1. kind \notin {"STRING", "FSTRING", "PUNCT", "IDENT", "KEYWORD", "TYPE"}
    BY <1>7
  <2> QED BY ONLY <1>9, <1>10, <2>1, PlainToken
<1>12. kind # "NEWLINE"
  BY <1>7
<1>13. /\ TokensHold(src, Pushed(kind, end, val))
       /\ CursorHolds(src, Advanced(lx, end - lx.pos), Pushed(kind, end, val))
  BY ONLY <1>8, <1>9, <1>11, <1>12, LexInv, ~done, Emits
<1>14. TokensHold(src, out') /\ CursorHolds(src, lx', out') /\ (done' => hasError')
  BY ONLY <1>6, <1>7, <1>13
<1> QED BY ONLY <1>6, <1>14, LexInv, TurnOn

LEMMA IdentTurn ==
  ASSUME LexInv, ~done, lx.pos <= Len(src), LexIdent
  PROVE  LexInv'
<1>0. /\ src \in Seq(STRING) /\ Len(src) \in Nat /\ lx.pos \in 1..(Len(src) + 1)
      /\ lx.col \in Int
  BY InvFacts
<1>1. PICK p \in 1..(Len(src) + 1) : p = lx.pos
  BY <1>0
<1>2. PICK end : end = RunEnd(p, Alphas \cup Digits)
  OBVIOUS
<1>3. PICK kind : kind = CASE SubSeq(src, p, end - 1) \in KEYWORDS -> "KEYWORD"
                           [] SubSeq(src, p, end - 1) \in BUILTIN_TYPES -> "TYPE"
                           [] OTHER -> "IDENT"
  OBVIOUS
<1>4. kind \in {"KEYWORD", "TYPE", "IDENT"}
  <2>1. PICK s : s = SubSeq(src, p, end - 1)
    OBVIOUS
  <2>2. s \in KEYWORDS => s \notin BUILTIN_TYPES
    BY DEF KEYWORDS, BUILTIN_TYPES
  <2> QED BY ONLY <1>3, <2>1, <2>2
<1>5. src' = src /\ out' = Pushed(kind, end, 0) /\ lx' = Advanced(lx, end - lx.pos) /\ ~done'
  BY ONLY <1>1, <1>2, <1>3, ~done, LexIdent DEF LexIdent
<1>6. end \in p..(Len(src) + 1) /\ At(end) \notin Alphas \cup Digits
  BY ONLY <1>2, LexInv, p \in 1..(Len(src) + 1), Classes, RunEndIs
<1>7. end \in lx.pos..(Len(src) + 1)
  BY ONLY <1>1, <1>6
<1>8. PICK t : t = Token(kind, lx.pos, end, lx.line, lx.col, 0)
  OBVIOUS
<1>9. t.kind = kind /\ t.end = end
  BY ONLY <1>8 DEF Token
<1>10. CharAt(src, end) \notin Alphas \cup Digits
  BY ONLY <1>6 DEF At, CharAt
<1>11. QuoteHolds(src, t) /\ MunchHolds(src, t)
  <2>1. QuoteHolds(src, t)
    BY ONLY <1>4, <1>9 DEF QuoteHolds
  <2>2. MunchHolds(src, t)
    BY ONLY <1>4, <1>9, <1>10 DEF MunchHolds
  <2> QED BY ONLY <2>1, <2>2
<1>12. kind # "NEWLINE"
  BY <1>4
<1>13. /\ TokensHold(src, Pushed(kind, end, 0))
       /\ CursorHolds(src, Advanced(lx, end - lx.pos), Pushed(kind, end, 0))
  BY ONLY <1>7, <1>8, <1>11, <1>12, LexInv, ~done, Emits
<1>14. TokensHold(src, out') /\ CursorHolds(src, lx', out') /\ (done' => hasError')
  BY ONLY <1>5, <1>13
<1> QED BY ONLY <1>5, <1>14, LexInv, TurnOn

LEMMA PunctTurn ==
  ASSUME LexInv, ~done, lx.pos <= Len(src), LexPunct
  PROVE  LexInv'
<1>0. /\ src \in Seq(STRING) /\ Len(src) \in Nat /\ lx.pos \in 1..(Len(src) + 1)
      /\ lx.col \in Int
  BY InvFacts
<1>1. PICK p \in 1..Len(src) : p = lx.pos
  BY <1>0
<1>2. PICK M : M = PunctsAt(src, p)
  OBVIOUS
<1>3. Matches = M
  BY ONLY <1>1, <1>2 DEF Matches, PunctsAt
<1>4. PICK n : n = Len(PUNCTS[Min(M)])
  OBVIOUS
<1>5. /\ src' = src
      /\ IF M = {} THEN Refuse(p) /\ out' = out
         ELSE /\ out' = Pushed("PUNCT", p + n, 0)
              /\ lx' = Advanced(lx, n)
              /\ hasError' = hasError /\ done' = done
  BY ONLY <1>1, <1>3, <1>4, LexPunct DEF LexPunct
<1>6. CASE M = {}
  <2>1. out' = out /\ hasError' /\ done'
    BY ONLY <1>5, <1>6 DEF Refuse
  <2> QED BY ONLY <1>5, <2>1, LexInv, TurnRefused
<1>7. CASE M # {}
  <2>1. /\ n \in 1..3 /\ p + n <= Len(src) + 1
        /\ ~\E i \in DOMAIN PUNCTS :
              Len(PUNCTS[i]) > n /\ IsPrefix(PUNCTS[i], SubSeq(src, p, Len(src)))
    BY ONLY <1>0, <1>2, <1>4, <1>7, p \in 1..Len(src), FirstIsLongest
  <2>2. PICK end : end = p + n
    OBVIOUS
  <2>3. end \in lx.pos..(Len(src) + 1) /\ end - p = n
    BY <1>0, <1>1, <2>1, <2>2
  <2>4. PICK t : t = Token("PUNCT", lx.pos, end, lx.line, lx.col, 0)
    OBVIOUS
  <2>5. t.kind = "PUNCT" /\ t.end = end /\ t.at = p
    BY ONLY <1>1, <2>4 DEF Token
  <2>6. QuoteHolds(src, t)
    BY ONLY <2>5 DEF QuoteHolds
  <2>7. MunchHolds(src, t)
    BY ONLY <2>1, <2>3, <2>5 DEF MunchHolds
  <2>8. /\ TokensHold(src, Pushed("PUNCT", end, 0))
        /\ CursorHolds(src, Advanced(lx, end - lx.pos), Pushed("PUNCT", end, 0))
    BY ONLY <2>3, <2>4, <2>6, <2>7, LexInv, ~done, Emits
  <2>9. out' = Pushed("PUNCT", end, 0) /\ lx' = Advanced(lx, end - lx.pos) /\ ~done'
    BY ONLY <1>1, <1>5, <1>7, <2>2, <2>3, ~done
  <2>10. TokensHold(src, out') /\ CursorHolds(src, lx', out') /\ (done' => hasError')
    BY ONLY <2>8, <2>9
  <2> QED BY ONLY <1>5, <2>10, LexInv, TurnOn
<1> QED BY ONLY <1>6, <1>7

LEMMA StringTurn ==
  ASSUME LexInv, ~done, lx.pos <= Len(src), NEW kind, NEW prefix,
         \/ kind = "STRING" /\ prefix = 0
         \/ kind = "FSTRING" /\ prefix = 1,
         At(lx.pos + prefix) = Quote, LexString(kind, prefix)
  PROVE  LexInv'
<1>0. /\ src \in Seq(STRING) /\ Len(src) \in Nat /\ lx.pos \in 1..(Len(src) + 1)
      /\ lx.col \in Int
  BY InvFacts
<1>1. PICK p \in 1..Len(src) : p = lx.pos
  BY <1>0
<1>2. prefix \in {0, 1} /\ kind \in {"STRING", "FSTRING"} /\ (kind = "FSTRING" => prefix = 1)
      /\ (kind = "STRING" => prefix = 0)
  OBVIOUS
<1>3. p + prefix \in 1..Len(src)
  <2>1. At(p + prefix) # "\\0"
    BY ONLY <1>1, At(lx.pos + prefix) = Quote, QuoteApart
  <2> QED BY ONLY <2>1, AtInside
<1>4. PICK a \in 1..(Len(src) + 3) : a = p + prefix + 1
  BY <1>0, <1>1, <1>2, <1>3
<1>5. PICK s : s = StringScan[a]
  OBVIOUS
<1>6. s = StringScan[lx.pos + prefix + 1]
  BY ONLY <1>1, <1>4, <1>5
<1>7. /\ src' = src
      /\ IF s.ok THEN /\ out' = Pushed(kind, s.end + 1, 0)
                      /\ lx' = Advanced(lx, s.end + 1 - lx.pos)
                      /\ done' = hasError /\ hasError' = hasError
         ELSE Refuse(s.end) /\ out' = out
  BY ONLY <1>6, LexString(kind, prefix) DEF LexString
<1>8. CASE ~s.ok
  <2>1. out' = out /\ hasError' /\ done'
    BY ONLY <1>7, <1>8 DEF Refuse
  <2> QED BY ONLY <1>7, <2>1, LexInv, TurnRefused
<1>9. CASE s.ok
  <2>1. PICK x : x = src
    OBVIOUS
  <2>2. PICK e : e = s.end
    OBVIOUS
  <2>3. ScanGood(x, a, e)
    BY ONLY <1>0, <1>4, <1>5, <1>9, <2>1, <2>2, ScanEnds
  <2>4. Back(x, a) % 2 = 0
    <3>1. a \in Nat \ {0} /\ a - 1 = p + prefix
      BY <1>1, <1>2, <1>4
    <3>2. CharAt(x, a - 1) = Quote
      BY ONLY <1>1, <2>1, <3>1, At(lx.pos + prefix) = Quote DEF At, CharAt
    <3>3. Back(x, a) = 0
      BY ONLY <3>1, <3>2, QuoteApart, BackFacts
    <3> QED BY ONLY <3>3
  <2>5. /\ e \in a..Len(src) /\ CharAt(x, e) = Quote /\ Back(x, e) % 2 = 0
        /\ \A k \in a..(e - 1) : CharAt(x, k) = Quote => Back(x, k) % 2 = 1
    BY ONLY <2>1, <2>3, <2>4 DEF ScanGood
  <2>6. PICK end : end = e + 1
    OBVIOUS
  <2>7. end \in lx.pos..(Len(src) + 1) /\ end - 1 = e
    BY <1>0, <1>1, <1>2, <1>4, <2>5, <2>6
  <2>8. PICK t : t = Token(kind, lx.pos, end, lx.line, lx.col, 0)
    OBVIOUS
  <2>9. t.kind = kind /\ t.end = end /\ t.at = p
    BY ONLY <1>1, <2>8 DEF Token
  <2>10. QuoteHolds(src, t)
    <3>1. ASSUME NEW k \in (p + 1)..e
          PROVE  /\ k < e /\ CharAt(x, k) = CharAt(x, e) /\ (kind = "FSTRING" => k > p + 1)
                        => Back(x, k) % 2 = 1
                 /\ k = e => Back(x, k) % 2 = 0
      <4>0. k = e => Back(x, k) % 2 = 0
        BY ONLY <2>5
      <4>1. ASSUME k < e, CharAt(x, k) = CharAt(x, e), kind = "FSTRING" => k > p + 1
            PROVE  Back(x, k) % 2 = 1
        <5>1. k \in a..(e - 1)
          <6>1. k \in Int /\ k >= p + 1 /\ e \in Int
            BY ONLY <1>0, <2>5, a \in 1..(Len(src) + 3), p \in 1..Len(src), k \in (p + 1)..e
          <6>2. CASE prefix = 0
            BY ONLY <1>4, <4>1, <6>1, <6>2, p \in 1..Len(src)
          <6>3. CASE prefix = 1
            <7>1. k > p + 1
              BY ONLY <1>2, <4>1, <6>3
            <7> QED BY ONLY <1>4, <4>1, <6>1, <6>3, <7>1, p \in 1..Len(src)
          <6> QED BY ONLY <1>2, <6>2, <6>3
        <5> QED BY ONLY <2>5, <4>1, <5>1
      <4> QED BY ONLY <4>0, <4>1
    <3> QED BY ONLY <2>1, <2>7, <2>9, <3>1 DEF QuoteHolds
  <2>11. MunchHolds(src, t)
    BY ONLY <1>2, <2>9 DEF MunchHolds
  <2>12. kind # "NEWLINE"
    BY <1>2
  <2>13. /\ TokensHold(src, Pushed(kind, end, 0))
         /\ CursorHolds(src, Advanced(lx, end - lx.pos), Pushed(kind, end, 0))
    BY ONLY <2>7, <2>8, <2>10, <2>11, <2>12, LexInv, ~done, Emits
  <2>14. s.end + 1 = end /\ s.end + 1 - lx.pos = end - lx.pos
    <3>1. e \in Int /\ p \in Int
      BY <2>5
    <3>2. e + 1 - p = (e + 1) - p
      BY ONLY <3>1
    <3> QED BY ONLY <1>1, <2>2, <2>6, <3>2
  <2>15. out' = Pushed(kind, end, 0) /\ lx' = Advanced(lx, end - lx.pos) /\ (done' => hasError')
    BY ONLY <1>7, <1>9, <2>14
  <2>16. TokensHold(src, out') /\ CursorHolds(src, lx', out')
    BY ONLY <2>13, <2>15
  <2> QED BY ONLY <1>7, <2>15, <2>16, LexInv, TurnOn
<1> QED BY ONLY <1>8, <1>9

\* What lexChar accepts from the quote at s to the quote at c.
LEMMA CharSpan ==
  ASSUME src \in Seq(STRING), NEW s \in 1..Len(src), At(s) = "'",
         NEW c, c = CloseQuote[s + 1], c > s + 1,
         IF At(s + 1) = "\\" THEN Escape(s + 2).v >= 0 /\ Escape(s + 2).end = c ELSE c = s + 2
  PROVE  /\ c \in (s + 2)..Len(src)
         /\ \A p \in s..c : CharAt(src, p) # "\n"
         /\ \A p \in (s + 1)..(c - 1) : CharAt(src, p) = "'" => Back(src, p) % 2 = 1
         /\ CharAt(src, c) = "'" /\ Back(src, c) % 2 = 0
<1>0. Len(src) \in Nat
  OBVIOUS
<1>1. \A j : At(j) = CharAt(src, j)
  BY DEF At, CharAt
<1>2. PICK x : x = src
  OBVIOUS
<1>3. CloseQuote = [p \in 1..(Len(src) + 3) |-> CloseStep(CloseQuote, p)]
  BY CloseIs
<1>4. s + 1 \in 1..(Len(src) + 3)
  BY <1>0
<1>5. c = CloseStep(CloseQuote, s + 1)
  BY ONLY <1>3, <1>4, c = CloseQuote[s + 1]
<1>6. c # 0
  <2>1. c = 0 => ~(c > s + 1)
    BY <1>0
  <2> QED BY ONLY <2>1, c > s + 1
<1>7. c \in (s + 1)..Len(src) /\ At(c) = "'"
  BY ONLY <1>4, <1>6, src \in Seq(STRING), c = CloseQuote[s + 1], CloseEnds
<1>8. c \in (s + 2)..Len(src)
  BY ONLY <1>0, <1>7, c > s + 1, s \in 1..Len(src)
<1>9. At(s + 1) # "\n"
  <2>1. SUFFICES ASSUME At(s + 1) = "\n" PROVE FALSE
    OBVIOUS
  <2>2. At(s + 1) # "\\" /\ At(s + 1) # "'"
    BY <2>1
  <2>3. CloseStep(CloseQuote, s + 1) = 0
    BY ONLY <2>1, <2>2 DEF CloseStep
  <2> QED BY ONLY <1>5, <1>6, <2>3
<1>10. At(s + 1) # "'"
  <2>1. SUFFICES ASSUME At(s + 1) = "'" PROVE FALSE
    OBVIOUS
  <2>2. At(s + 1) # "\\" /\ At(s + 1) # "\n"
    BY <2>1
  <2>3. ~(s + 1 > Len(src))
    BY ONLY <1>0, <1>8, s \in 1..Len(src)
  <2>4. CloseStep(CloseQuote, s + 1) = s + 1
    BY ONLY <2>1, <2>2, <2>3 DEF CloseStep
  <2>5. c = s + 1 /\ c \in Int /\ s \in Int
    BY ONLY <1>5, <1>7, <2>4, s \in 1..Len(src)
  <2> QED BY ONLY <2>5, c > s + 1
<1>11. Back(x, s + 1) = 0
  <2>1. s + 1 \in Nat \ {0} /\ (s + 1) - 1 = s
    OBVIOUS
  <2>2. CharAt(x, s) # "\\"
    <3>1. CharAt(x, s) = "'"
      BY ONLY <1>1, <1>2, At(s) = "'"
    <3> QED BY ONLY <3>1
  <2> QED BY ONLY <2>1, <2>2, BackFacts
<1>12. CharAt(x, s) = "'" /\ CharAt(x, c) = "'" /\ CharAt(x, s + 1) \notin {"\n", "'"}
  BY ONLY <1>1, <1>2, <1>7, <1>9, <1>10, At(s) = "'"
<1>13. CASE CharAt(x, s + 1) # "\\"
  <2>1. c = s + 2
    BY ONLY <1>1, <1>2, <1>13,
            IF At(s + 1) = "\\" THEN Escape(s + 2).v >= 0 /\ Escape(s + 2).end = c ELSE c = s + 2
  <2>2. \A p \in s..c : p = s \/ p = s + 1 \/ p = c
    BY <2>1
  <2>3. \A p \in (s + 1)..(c - 1) : p = s + 1
    BY <2>1
  <2>4. \A p \in s..c : CharAt(x, p) # "\n"
    <3>1. "'" # "\n"
      OBVIOUS
    <3> QED BY ONLY <1>12, <2>2, <3>1
  <2>5. \A p \in (s + 1)..(c - 1) : CharAt(x, p) = "'" => Back(x, p) % 2 = 1
    BY ONLY <1>12, <2>3
  <2>6. Back(x, c) = 0
    <3>1. c \in Nat \ {0} /\ c - 1 = s + 1
      BY <2>1
    <3> QED BY ONLY <1>13, <3>1, BackFacts
  <2>7. Back(x, c) % 2 = 0
    BY ONLY <2>6
  <2> QED BY ONLY <1>2, <1>8, <1>12, <2>4, <2>5, <2>7
<1>14. CASE CharAt(x, s + 1) = "\\"
  <2>1. Escape(s + 2).v >= 0 /\ Escape(s + 2).end = c
    BY ONLY <1>1, <1>2, <1>14,
            IF At(s + 1) = "\\" THEN Escape(s + 2).v >= 0 /\ Escape(s + 2).end = c ELSE c = s + 2
  <2>2. Escape(s + 2).v # -1
    <3>1. ~(-1 >= 0)
      OBVIOUS
    <3> QED BY ONLY <2>1, <3>1
  <2>3. s + 2 \in 1..(Len(src) + 1)
    BY ONLY <1>0, <1>8, s \in 1..Len(src)
  <2>4. EscapeSpan(x, s + 2, c)
    BY ONLY <1>2, <2>1, <2>2, <2>3, src \in Seq(STRING), EscapeFacts
  <2>5. Back(x, s + 2) = 1
    <3>1. s + 1 \in Nat \ {0} /\ (s + 1) + 1 = s + 2
      OBVIOUS
    <3>2. Back(x, (s + 1) + 1) = Back(x, s + 1) + 1
      BY ONLY <1>14, <3>1, BackFacts
    <3> QED BY ONLY <1>11, <3>1, <3>2
  <2>6. CASE CharAt(x, s + 2) \in EscapedChars /\ c = s + 3
    <3>1. \A p \in s..c : p = s \/ p = s + 1 \/ p = s + 2 \/ p = c
      BY <2>6
    <3>2. \A p \in (s + 1)..(c - 1) : p = s + 1 \/ p = s + 2
      BY <2>6
    <3>3. "\n" \notin EscapedChars /\ "'" # "\n"
      BY QuoteApart DEF EscapedChars
    <3>4. \A p \in s..c : CharAt(x, p) # "\n"
      BY ONLY <1>12, <2>6, <3>1, <3>3
    <3>5. \A p \in (s + 1)..(c - 1) : CharAt(x, p) = "'" => Back(x, p) % 2 = 1
      <4>1. 1 % 2 = 1
        OBVIOUS
      <4> QED BY ONLY <1>12, <2>5, <3>2, <4>1
    <3>6. Back(x, c) % 2 = 0
      <4>1. s + 2 \in Nat \ {0} /\ (s + 2) + 1 = c /\ c \in Nat \ {0} /\ c - 1 = s + 2
        BY <2>6
      <4>2. CASE CharAt(x, s + 2) = "\\"
        <5>1. Back(x, (s + 2) + 1) = Back(x, s + 2) + 1
          BY ONLY <4>1, <4>2, BackFacts
        <5>2. Back(x, c) = 2
          BY ONLY <2>5, <4>1, <5>1
        <5> QED BY ONLY <5>2
      <4>3. CASE CharAt(x, s + 2) # "\\"
        <5>1. Back(x, c) = 0
          BY ONLY <4>1, <4>3, BackFacts
        <5> QED BY ONLY <5>1
      <4> QED BY ONLY <4>2, <4>3
    <3> QED BY ONLY <1>2, <1>8, <1>12, <3>4, <3>5, <3>6
  <2>7. CASE /\ CharAt(x, s + 2) = "x" /\ c \in (s + 4)..(Len(x) + 1)
             /\ \A j \in (s + 3)..(c - 1) : CharAt(x, j) \in HexDigits
    <3>1. \A p \in s..c : p = s \/ p = s + 1 \/ p = s + 2 \/ p \in (s + 3)..(c - 1) \/ p = c
      BY <2>7
    <3>2. \A p \in (s + 1)..(c - 1) : p = s + 1 \/ p = s + 2 \/ p \in (s + 3)..(c - 1)
      BY <2>7
    <3>3. "\n" \notin HexDigits /\ "'" \notin HexDigits /\ "\\" \notin HexDigits
          /\ "x" \notin {"\n", "'"} /\ "'" # "\n"
      BY DEF HexDigits, Digits
    <3>4. \A p \in s..c : CharAt(x, p) # "\n"
      BY ONLY <1>12, <2>7, <3>1, <3>3
    <3>5. \A p \in (s + 1)..(c - 1) : CharAt(x, p) # "'"
      BY ONLY <1>12, <2>7, <3>2, <3>3
    <3>6. Back(x, c) = 0
      <4>1. c \in Nat \ {0} /\ c - 1 \in (s + 3)..(c - 1)
        BY <2>7
      <4>2. CharAt(x, c - 1) # "\\"
        BY ONLY <2>7, <3>3, <4>1
      <4> QED BY ONLY <4>1, <4>2, BackFacts
    <3>7. Back(x, c) % 2 = 0
      BY ONLY <3>6
    <3> QED BY ONLY <1>2, <1>8, <1>12, <3>4, <3>5, <3>7
  <2>8. (s + 2) + 1 = s + 3 /\ (s + 2) + 2 = s + 4
    OBVIOUS
  <2> QED BY ONLY <2>4, <2>6, <2>7, <2>8 DEF EscapeSpan
<1> QED BY ONLY <1>13, <1>14

\* lexChar sets the cursor itself: its line stays right because no newline was
\* passed, and its column is excused by the token it has just pushed.
LEMMA CharTurn ==
  ASSUME LexInv, ~done, lx.pos <= Len(src), LexChar
  PROVE  LexInv'
<1>0. /\ src \in Seq(STRING) /\ Len(src) \in Nat /\ lx.pos \in 1..(Len(src) + 1)
      /\ lx.col \in Int
  BY InvFacts
<1>1. PICK s \in 1..Len(src) : s = lx.pos
  BY <1>0
<1>2. PICK c : c = CloseQuote[s + 1]
  OBVIOUS
<1>3. PICK esc \in BOOLEAN : esc = (At(s + 1) = "\\")
  OBVIOUS
<1>4. PICK e : e = Escape(s + 2)
  OBVIOUS
<1>5. PICK v : v = IF esc THEN e.v ELSE Ascii[At(s + 1)]
  OBVIOUS
<1>6. PICK ok \in BOOLEAN : ok = (/\ c > s + 1
                                  /\ IF esc THEN e.v >= 0 /\ e.end = c ELSE c = s + 2)
  OBVIOUS
<1>7. At(s) = "'"
  <2>1. s + 0 = s
    OBVIOUS
  <2> QED BY ONLY <1>1, <2>1, LexChar DEF LexChar, Peek
<1>8. /\ src' = src
      /\ IF ok THEN /\ out' = Pushed("INT", c + 1, v)
                    /\ lx' = [lx EXCEPT !.pos = c + 1,
                                        !.col = IF esc THEN @ + e.end - (s + 2) ELSE @]
                    /\ done' = hasError /\ hasError' = hasError
         ELSE Refuse(s) /\ out' = out
  BY ONLY <1>1, <1>2, <1>3, <1>4, <1>5, <1>6, LexChar DEF LexChar
<1>9. CASE ~ok
  <2>1. out' = out /\ hasError' /\ done'
    BY ONLY <1>8, <1>9 DEF Refuse
  <2> QED BY ONLY <1>8, <2>1, LexInv, TurnRefused
<1>10. CASE ok
  <2>1. c > s + 1 /\ IF esc THEN e.v >= 0 /\ e.end = c ELSE c = s + 2
    BY ONLY <1>6, <1>10
  <2>2. IF At(s + 1) = "\\" THEN Escape(s + 2).v >= 0 /\ Escape(s + 2).end = c ELSE c = s + 2
    BY ONLY <1>3, <1>4, <2>1
  <2>3. PICK x : x = src
    OBVIOUS
  <2>4. /\ c \in (s + 2)..Len(src)
        /\ \A p \in s..c : CharAt(x, p) # "\n"
        /\ \A p \in (s + 1)..(c - 1) : CharAt(x, p) = "'" => Back(x, p) % 2 = 1
        /\ CharAt(x, c) = "'" /\ Back(x, c) % 2 = 0
    BY ONLY <1>0, <1>2, <1>7, <2>1, <2>2, <2>3, s \in 1..Len(src), CharSpan
  <2>5. PICK end : end = c + 1
    OBVIOUS
  <2>6. end \in lx.pos..(Len(src) + 1) /\ end - 1 = c /\ end \in 1..(Len(src) + 1)
    BY <1>0, <1>1, <2>4, <2>5
  <2>7. PICK t : t = Token("INT", lx.pos, end, lx.line, lx.col, v)
    OBVIOUS
  <2>8. /\ t.kind = "INT" /\ t.at = s /\ t.end = end
        /\ t.at = lx.pos /\ t.line = lx.line /\ t.col = lx.col
    BY ONLY <1>1, <2>7 DEF Token
  <2>9. QuoteHolds(x, t)
    <3>1. ASSUME NEW k \in (s + 1)..c
          PROVE  /\ (k < c /\ CharAt(x, k) = CharAt(x, c)) => Back(x, k) % 2 = 1
                 /\ k = c => Back(x, k) % 2 = 0
      <4>1. k < c => k \in (s + 1)..(c - 1)
        BY <2>4
      <4>2. (k < c /\ CharAt(x, k) = CharAt(x, c)) => Back(x, k) % 2 = 1
        BY ONLY <2>4, <4>1
      <4>3. k = c => Back(x, k) % 2 = 0
        BY ONLY <2>4
      <4> QED BY ONLY <4>2, <4>3
    <3> QED BY ONLY <2>6, <2>8, <3>1 DEF QuoteHolds
  <2>10. MunchHolds(x, t)
    BY ONLY <2>8 DEF MunchHolds
  <2>11. PICK o : o = out
    OBVIOUS
  <2>12. PICK l : l = lx
    OBVIOUS
  <2>13. TokensHold(x, o) /\ CursorHolds(x, l, o) /\ Len(x) \in Nat
    BY ONLY <1>0, <2>3, <2>11, <2>12, LexInv, ~done DEF LexInv
  <2>14. Fits(x, l, o, t)
    BY ONLY <2>3, <2>6, <2>8, <2>9, <2>10, <2>12 DEF Fits
  <2>15. PICK w : w = Append(o, t)
    OBVIOUS
  <2>16. TokensHold(x, w) /\ Longer(o, t, w)
    BY ONLY <2>13, <2>14, <2>15, PushOn
  <2>17. out' = w
    BY ONLY <1>8, <1>10, <2>5, <2>7, <2>11, <2>15 DEF Pushed
  <2>18. PICK d \in Int : d = IF esc THEN l.col + e.end - (s + 2) ELSE l.col
    <3>1. l.col \in Int
      BY ONLY <1>0, <2>12
    <3>2. esc => e.end \in Int
      <4>1. c \in Int
        BY <2>4
      <4> QED BY ONLY <2>1, <4>1
    <3> QED BY <3>1, <3>2
  <2>19. l = [pos |-> l.pos, line |-> l.line, col |-> l.col]
    BY ONLY <2>13 DEF CursorHolds, Moved
  <2>20. PICK m : m = [pos |-> end, line |-> l.line, col |-> d]
    OBVIOUS
  <2>21. lx' = m
    <3>1. lx' = [l EXCEPT !.pos = end, !.col = d]
      BY ONLY <1>8, <1>10, <2>5, <2>12, <2>18
    <3>2. PICK r : r = [l EXCEPT !.pos = end]
      OBVIOUS
    <3>3. r = [pos |-> end, line |-> l.line, col |-> l.col]
      BY ONLY <2>19, <3>2
    <3>4. [r EXCEPT !.col = d] = [pos |-> end, line |-> l.line, col |-> d]
      BY ONLY <3>3
    <3>5. lx' = [r EXCEPT !.col = d]
      BY ONLY <3>1, <3>2
    <3> QED BY ONLY <2>20, <3>4, <3>5
  <2>22. m.pos = end /\ m.line = l.line /\ m.col = d
         /\ m = [pos |-> m.pos, line |-> m.line, col |-> m.col]
    BY ONLY <2>20
  <2>23. PICK n \in Nat : n = Len(o) /\ Len(w) = n + 1 /\ w[n + 1] = t
    BY ONLY <2>13, <2>16 DEF TokensHold, Longer
  <2>24. l.line = LineAt(x, end)
    <3>1. l.line = LineAt(x, s)
      BY ONLY <1>1, <2>12, <2>13 DEF CursorHolds, Moved, Placed
    <3>2. PICK k \in Nat : k = end - s /\ s + k = end /\ s + k - 1 = c
      BY <2>4, <2>5
    <3>3. Breaks(x, s, s + k - 1) = {}
      BY ONLY <2>4, <3>2 DEF Breaks
    <3>4. Cardinality(Breaks(x, s, s + k - 1)) = 0
      BY ONLY <3>3, FS_EmptySet
    <3>5. /\ LineAt(x, s) \in Nat
          /\ LineAt(x, s + k) = LineAt(x, s) + Cardinality(Breaks(x, s, s + k - 1))
      <4>1. s \in Nat \ {0}
        OBVIOUS
      <4> QED BY ONLY <4>1, k \in Nat, LineSplit
    <3>6. LineAt(x, s + k) = LineAt(x, s)
      BY ONLY <3>4, <3>5
    <3> QED BY ONLY <3>1, <3>2, <3>6
  <2>25. Charred(x, w, n + 1, l.line)
    <3>1. CharAt(x, w[n + 1].at) = "'" /\ w[n + 1].line = l.line
      <4>1. CharAt(x, s) = "'"
        BY ONLY <1>7, <2>3 DEF At, CharAt
      <4> QED BY ONLY <2>8, <2>12, <2>23, <4>1
    <3>2. n + 1 \in 1..(n + 1)
      OBVIOUS
    <3> QED BY ONLY <3>1, <3>2 DEF Charred
  <2>26. Placed(x, w, Len(w), m.pos, m.line, m.col)
    BY ONLY <2>22, <2>23, <2>24, <2>25 DEF Placed
  <2>27. Moved(x, m, w)
    BY ONLY <2>3, <2>6, <2>22, <2>26, d \in Int DEF Moved
  <2>28. Clear(x, w[Len(w)].end, m.pos)
    <3>1. end \in Nat
      BY <2>6
    <3>2. Clear(x, end, end)
      BY ONLY <3>1, ClearSame
    <3> QED BY ONLY <2>8, <2>22, <2>23, <3>2
  <2>29. CursorHolds(x, m, w)
    BY ONLY <2>27, <2>28 DEF CursorHolds
  <2>30. TokensHold(src, out') /\ CursorHolds(src, lx', out')
    BY ONLY <2>3, <2>16, <2>17, <2>21, <2>29
  <2>31. done' => hasError'
    <3>1. done' = hasError /\ hasError' = hasError
      BY ONLY <1>8, <1>10, Zenon
    <3> QED BY ONLY <3>1
  <2> QED BY ONLY <1>8, <2>30, <2>31, LexInv, TurnOn
<1> QED BY ONLY <1>9, <1>10

\* Over what is skipped.
LEMMA SkipTurn ==
  ASSUME LexInv, ~done, NEW q \in (lx.pos + 1)..(Len(src) + 1), Hop(src, lx.pos, q),
         lx' = Advanced(lx, q - lx.pos), src' = src, out' = out, ~done'
  PROVE  LexInv'
<1>1. Len(src) \in Nat /\ TokensHold(src, out) /\ CursorHolds(src, lx, out)
  BY InvFacts
<1>2. CursorHolds(src, Adv(src, lx, q - lx.pos), out)
  BY ONLY <1>1, q \in (lx.pos + 1)..(Len(src) + 1), Hop(src, lx.pos, q), SkipOn
<1>3. TokensHold(src, out') /\ CursorHolds(src, lx', out') /\ (done' => hasError')
  BY ONLY <1>1, <1>2, AdvancedIs, lx' = Advanced(lx, q - lx.pos), out' = out, ~done'
<1> QED BY ONLY <1>3, LexInv, src' = src, TurnOn

LEMMA BlankHop ==
  ASSUME LexInv, ~done, lx.pos <= Len(src), At(lx.pos) \in Blanks \cup {"\n"}
  PROVE  /\ lx.pos + 1 \in (lx.pos + 1)..(Len(src) + 1) /\ lx.pos + 1 - lx.pos = 1
         /\ Hop(src, lx.pos, lx.pos + 1)
<1>0. Len(src) \in Nat /\ lx.pos \in 1..(Len(src) + 1)
  BY InvFacts
<1>1. PICK p \in Nat : p = lx.pos /\ p <= Len(src)
  BY <1>0
<1>2. p + 1 \in (p + 1)..(Len(src) + 1) /\ p + 1 - p = 1
  BY <1>0, <1>1
<1>3. CharAt(src, p) \in Blanks \cup {"\n"}
  BY ONLY <1>1, At(lx.pos) \in Blanks \cup {"\n"} DEF At, CharAt
<1> QED BY ONLY <1>1, <1>2, <1>3 DEF Hop

LEMMA BlankTurn ==
  ASSUME LexInv, ~done, lx.pos <= Len(src), SkipBlank
  PROVE  LexInv'
<1>0. lx.pos \in 1..(Len(src) + 1)
  BY InvFacts
<1>1. At(lx.pos) \in Blanks /\ lx' = Advanced(lx, 1) /\ src' = src /\ out' = out /\ ~done'
  <2>1. lx.pos + 0 = lx.pos
    BY <1>0
  <2> QED BY ONLY <2>1, ~done, SkipBlank DEF SkipBlank, Peek
<1>2. PICK q : q = lx.pos + 1
  OBVIOUS
<1>3. q \in (lx.pos + 1)..(Len(src) + 1) /\ q - lx.pos = 1 /\ Hop(src, lx.pos, q)
  <2>1. At(lx.pos) \in Blanks \cup {"\n"}
    BY ONLY <1>1
  <2>2. lx.pos + 1 - lx.pos = q - lx.pos
    BY <1>0, <1>2
  <2> QED BY ONLY <1>2, <2>1, <2>2, LexInv, ~done, lx.pos <= Len(src), BlankHop
<1> QED BY ONLY <1>1, <1>3, LexInv, ~done, SkipTurn

LEMMA NewlineTurn ==
  ASSUME LexInv, ~done, lx.pos <= Len(src), Newline
  PROVE  LexInv'
<1>0. lx.pos \in 1..(Len(src) + 1)
  BY InvFacts
<1>1. /\ At(lx.pos) = "\n" /\ lx' = Advanced(lx, 1) /\ src' = src /\ ~done'
      /\ out' = IF EndsLine THEN out ELSE Pushed("NEWLINE", lx.pos + 1, 0)
  <2>1. lx.pos + 0 = lx.pos
    BY <1>0
  <2> QED BY ONLY <2>1, ~done, Newline DEF Newline, Peek
<1>2. PICK q : q = lx.pos + 1
  OBVIOUS
<1>3. q \in (lx.pos + 1)..(Len(src) + 1) /\ q - lx.pos = 1 /\ Hop(src, lx.pos, q)
  <2>1. At(lx.pos) \in Blanks \cup {"\n"}
    BY ONLY <1>1
  <2>2. lx.pos + 1 - lx.pos = q - lx.pos
    BY <1>0, <1>2
  <2> QED BY ONLY <1>2, <2>1, <2>2, LexInv, ~done, lx.pos <= Len(src), BlankHop
<1>4. CASE EndsLine
  BY ONLY <1>1, <1>3, <1>4, LexInv, ~done, SkipTurn
<1>5. CASE ~EndsLine
  <2>1. PICK t : t = Token("NEWLINE", lx.pos, q, lx.line, lx.col, 0)
    OBVIOUS
  <2>2. QuoteHolds(src, t) /\ MunchHolds(src, t)
    <3>1. "NEWLINE" \notin {"STRING", "FSTRING", "PUNCT", "IDENT", "KEYWORD", "TYPE"}
          /\ "NEWLINE" # "INT"
      OBVIOUS
    <3> QED BY ONLY <2>1, <3>1, PlainToken
  <2>3. q \in lx.pos..(Len(src) + 1)
    BY <1>0, <1>3
  <2>4. /\ TokensHold(src, Pushed("NEWLINE", q, 0))
        /\ CursorHolds(src, Advanced(lx, q - lx.pos), Pushed("NEWLINE", q, 0))
    BY ONLY <1>5, <2>1, <2>2, <2>3, LexInv, ~done, Emits
  <2>5. TokensHold(src, out') /\ CursorHolds(src, lx', out') /\ (done' => hasError')
    BY ONLY <1>1, <1>2, <1>3, <1>5, <2>4
  <2> QED BY ONLY <1>1, <2>5, LexInv, TurnOn
<1> QED BY ONLY <1>4, <1>5

LEMMA LineCommentTurn ==
  ASSUME LexInv, ~done, lx.pos <= Len(src), LineComment
  PROVE  LexInv'
<1>0. Len(src) \in Nat /\ lx.pos \in 1..(Len(src) + 1)
  BY InvFacts
<1>1. PICK p \in 1..Len(src) : p = lx.pos
  BY <1>0
<1>2. \A j : At(j) = CharAt(src, j)
  BY DEF At, CharAt
<1>3. PICK q : q = Min({j \in p..(Len(src) + 1) : j > Len(src) \/ CharAt(src, j) = "\n"})
  OBVIOUS
<1>4. /\ At(p) = "/" /\ At(p + 1) = "/"
      /\ lx' = Advanced(lx, q - lx.pos) /\ src' = src /\ out' = out /\ ~done'
  <2>1. p + 0 = p
    OBVIOUS
  <2> QED BY ONLY <1>1, <1>2, <1>3, <2>1, ~done, LineComment DEF LineComment, Peek
<1>5. q \in (p + 1)..(Len(src) + 1) /\ LineHop(src, p, q)
  BY ONLY <1>0, <1>2, <1>3, <1>4, p \in 1..Len(src), LineHopIs
<1>6. q \in (lx.pos + 1)..(Len(src) + 1) /\ Hop(src, lx.pos, q)
  BY ONLY <1>1, <1>5 DEF Hop
<1> QED BY ONLY <1>4, <1>6, LexInv, ~done, SkipTurn

LEMMA BlockCommentTurn ==
  ASSUME LexInv, ~done, lx.pos <= Len(src), BlockComment
  PROVE  LexInv'
<1>0. Len(src) \in Nat /\ lx.pos \in 1..(Len(src) + 1)
  BY InvFacts
<1>1. PICK p \in 1..Len(src) : p = lx.pos
  BY <1>0
<1>2. \A j : At(j) = CharAt(src, j)
  BY DEF At, CharAt
<1>3. PICK D : D = Closers(src, p + 2, Len(src))
  OBVIOUS
<1>4. /\ At(p) = "/" /\ At(p + 1) = "*" /\ src' = src /\ out' = out
      /\ IF D = {} THEN Refuse(Len(src) + 1)
         ELSE lx' = Advanced(lx, Min(D) + 2 - lx.pos) /\ hasError' = hasError /\ done' = done
  <2>1. p + 0 = p
    OBVIOUS
  <2>2. D = {j \in (p + 2)..Len(src) : At(j) = "*" /\ At(j + 1) = "/"}
    BY ONLY <1>2, <1>3 DEF Closers
  <2> QED BY ONLY <1>1, <2>1, <2>2, BlockComment DEF BlockComment, Peek
<1>5. CASE D = {}
  <2>1. hasError' /\ done'
    BY ONLY <1>4, <1>5 DEF Refuse
  <2> QED BY ONLY <1>4, <2>1, LexInv, TurnRefused
<1>6. CASE D # {}
  <2>1. CharAt(src, p) = "/" /\ CharAt(src, p + 1) = "*"
    BY ONLY <1>2, <1>4
  <2>2. Len(src) \in Int /\ Len(src) <= Len(src)
    BY <1>0
  <2>3. Min(D) \in (p + 2)..Len(src)
        /\ Min(D) + 2 \in (p + 1)..(Len(src) + 1) /\ BlockHop(src, p, Min(D) + 2)
    BY ONLY <1>0, <1>3, <1>6, <2>1, <2>2, p \in 1..Len(src), BlockHopIs
  <2>4. PICK q \in (p + 1)..(Len(src) + 1) : q = Min(D) + 2 /\ BlockHop(src, p, q)
    BY ONLY <2>3
  <2>5. q \in (lx.pos + 1)..(Len(src) + 1) /\ Hop(src, lx.pos, q)
    BY ONLY <1>1, <2>4 DEF Hop
  <2>6. Min(D) + 2 - lx.pos = q - lx.pos
    <3>1. PICK d \in Int : d = Min(D)
      BY <2>3
    <3>2. d + 2 - p = (d + 2) - p
      OBVIOUS
    <3> QED BY ONLY <1>1, <2>4, <3>1, <3>2
  <2>7. lx' = Advanced(lx, q - lx.pos) /\ ~done'
    BY ONLY <1>4, <1>6, <2>6, ~done
  <2> QED BY ONLY <1>4, <2>5, <2>7, LexInv, ~done, SkipTurn
<1> QED BY ONLY <1>5, <1>6

LEMMA FinishTurn ==
  ASSUME LexInv, ~done, Finish
  PROVE  LexInv'
<1>0. Len(src) \in Nat /\ TokensHold(src, out) /\ CursorHolds(src, lx, out)
      /\ lx.pos \in 1..(Len(src) + 1) /\ src \in Seq(STRING)
  BY InvFacts
<1>1. PICK x : x = src
  OBVIOUS
<1>2. PICK o : o = out
  OBVIOUS
<1>3. PICK l : l = lx
  OBVIOUS
<1>4. Len(x) \in Nat /\ TokensHold(x, o) /\ CursorHolds(x, l, o) /\ l.pos \in 1..(Len(x) + 1)
      /\ x \in Seq(STRING)
  BY ONLY <1>0, <1>1, <1>2, <1>3
<1>5. PICK nl : nl = Token("NEWLINE", l.pos, l.pos, l.line, l.col, 0)
  OBVIOUS
<1>6. PICK eof : eof = Token("EOF", l.pos, l.pos, l.line, l.col, 0)
  OBVIOUS
<1>7. PICK w : w = IF EndsLine THEN o ELSE Append(o, nl)
  OBVIOUS
<1>8. src' = x /\ out' = Append(w, eof) /\ done'
  BY ONLY <1>1, <1>2, <1>3, <1>5, <1>6, <1>7, Finish DEF Finish
<1>9. nl.kind = "NEWLINE" /\ nl.at = l.pos /\ nl.end = l.pos /\ nl.line = l.line /\ nl.col = l.col
  BY ONLY <1>5 DEF Token
<1>10. eof.kind = "EOF" /\ eof.at = l.pos /\ eof.end = l.pos /\ eof.line = l.line /\ eof.col = l.col
  BY ONLY <1>6 DEF Token
<1>11. /\ QuoteHolds(x, nl) /\ MunchHolds(x, nl)
       /\ QuoteHolds(x, eof) /\ MunchHolds(x, eof)
  BY ONLY <1>9, <1>10 DEF QuoteHolds, MunchHolds
<1>12. l.pos \in l.pos..(Len(x) + 1) /\ l.pos \in Nat
  BY <1>4
<1>13. EndsLine <=> o # <<>> /\ Last(o).kind = "NEWLINE"
  BY ONLY <1>2 DEF EndsLine
<1>14. /\ TokensHold(x, w) /\ CursorHolds(x, l, w)
       /\ Len(w) \in Nat /\ Len(w) >= 1 /\ w[Len(w)].kind = "NEWLINE"
  <2>1. CASE EndsLine
    <3>1. w = o
      BY ONLY <1>7, <2>1
    <3>2. PICK n \in Nat : n = Len(o) /\ o = [i \in 1..n |-> o[i]]
      BY ONLY <1>4 DEF TokensHold
    <3>3. n # 0
      <4>1. SUFFICES ASSUME n = 0 PROVE FALSE
        OBVIOUS
      <4>2. 1..n = {}
        BY <4>1
      <4>3. o = <<>>
        BY ONLY <3>2, <4>2
      <4> QED BY ONLY <1>13, <2>1, <4>3
    <3>4. n >= 1
      BY ONLY <3>3, n \in Nat
    <3>5. o[n].kind = "NEWLINE"
      BY ONLY <1>13, <2>1, <3>2 DEF Last
    <3> QED BY ONLY <1>4, <3>1, <3>2, <3>4, <3>5
  <2>2. CASE ~EndsLine
    <3>1. w = Append(o, nl)
      BY ONLY <1>7, <2>2
    <3>2. Fits(x, l, o, nl)
      BY ONLY <1>9, <1>11, <1>12, <1>13, <2>2 DEF Fits
    <3>3. TokensHold(x, w) /\ Longer(o, nl, w)
      BY ONLY <1>4, <3>1, <3>2, PushOn
    <3>4. PICK n \in Nat : n = Len(o) /\ Len(w) = n + 1 /\ w[n + 1] = nl
                           /\ \A j \in 1..n : w[j] = o[j]
      BY ONLY <1>4, <3>3 DEF TokensHold, Longer
    <3>5. n + 1 \in Nat /\ n + 1 >= 1
      OBVIOUS
    <3>6. Moved(x, l, w)
      <4>1. Moved(x, l, o) /\ Placed(x, o, n, l.pos, l.line, l.col)
        BY ONLY <1>4, <3>4 DEF CursorHolds, Moved
      <4>2. Placed(x, w, n + 1, l.pos, l.line, l.col)
        BY ONLY <3>4, <4>1, PlacedMore, n \in Nat
      <4> QED BY ONLY <3>4, <4>1, <4>2 DEF Moved
    <3>7. Clear(x, w[Len(w)].end, l.pos)
      <4>1. Clear(x, l.pos, l.pos)
        BY ONLY <1>12, ClearSame
      <4> QED BY ONLY <1>9, <3>4, <4>1
    <3>8. CursorHolds(x, l, w)
      BY ONLY <3>6, <3>7 DEF CursorHolds
    <3> QED BY ONLY <1>9, <3>3, <3>4, <3>5, <3>8
  <2> QED BY ONLY <2>1, <2>2
<1>15. PICK u : u = Append(w, eof)
  OBVIOUS
<1>16. Fits(x, l, w, eof)
  BY ONLY <1>10, <1>11, <1>12 DEF Fits
<1>17. TokensHold(x, u) /\ Longer(w, eof, u)
  BY ONLY <1>4, <1>14, <1>15, <1>16, PushOn
<1>18. PICK n \in Nat : n = Len(w) /\ n >= 1 /\ Len(u) = n + 1 /\ u[n + 1] = eof /\ u[n] = w[n]
  <2>1. PICK n \in Nat : n = Len(w) /\ n >= 1
    BY ONLY <1>14
  <2>2. n \in 1..n
    BY ONLY <2>1
  <2> QED BY ONLY <1>17, <2>1, <2>2 DEF Longer
<1>19. Closed(u)
  <2>1. Len(u) >= 2 /\ Len(u) - 1 = n
    BY ONLY <1>18
  <2> QED BY ONLY <1>10, <1>14, <1>18, <2>1 DEF Closed
<1>20. src' = x /\ out' = u /\ done'
  BY ONLY <1>8, <1>15
<1> QED BY ONLY <1>4, <1>17, <1>19, <1>20 DEF LexInv


-----------------------------------------------------------------------------
(***************************************************************************)
(* The invariant holds from the start, at every step, and says enough.     *)
(***************************************************************************)
LEMMA InvInit == LexInit => LexInv
<1>1. SUFFICES ASSUME LexInit PROVE LexInv
  OBVIOUS
<1>2. PICK x : x = src
  OBVIOUS
<1>3. PICK o : o = out
  OBVIOUS
<1>4. PICK l : l = lx
  OBVIOUS
<1>5. x \in Seq(STRING)
  BY ONLY <1>1, <1>2, LexerAssumption DEF LexInit
<1>6. Len(x) \in Nat
  BY ONLY <1>5
<1>7. o = <<>>
  BY ONLY <1>1, <1>3 DEF LexInit
<1>8. Len(o) = 0 /\ o = [i \in 1..0 |-> o[i]]
  BY ONLY <1>7
<1>9. TokensHold(x, o)
  BY ONLY <1>8 DEF TokensHold
<1>10. l = [pos |-> 1, line |-> 1, col |-> 1]
  BY ONLY <1>1, <1>4 DEF LexInit
<1>11. l.pos = 1 /\ l.line = 1 /\ l.col = 1 /\ l = [pos |-> l.pos, line |-> l.line, col |-> l.col]
  BY ONLY <1>10
<1>12. Breaks(x, 1, 1 - 1) = {}
  BY DEF Breaks
<1>13. LineAt(x, 1) = 1
  BY ONLY <1>12, FS_EmptySet DEF LineAt
<1>14. ColAt(x, 1) = 1
  <2>1. Breaks(x, 1, 1 - 1) \cup {0} = {0}
    BY ONLY <1>12
  <2>2. Max({0}) = 0
    BY MaxIs
  <2> QED BY ONLY <2>1, <2>2 DEF ColAt
<1>15. Placed(x, o, Len(o), l.pos, l.line, l.col)
  BY ONLY <1>11, <1>13, <1>14 DEF Placed
<1>16. CursorHolds(x, l, o)
  BY ONLY <1>6, <1>8, <1>11, <1>15 DEF CursorHolds, Moved
<1>17. done = FALSE
  BY ONLY <1>1 DEF LexInit
<1> QED BY ONLY <1>2, <1>3, <1>4, <1>5, <1>9, <1>16, <1>17 DEF LexInv

LEMMA InvNext == LexInv /\ [LexTurn]_lexVars => LexInv'
<1>1. SUFFICES ASSUME LexInv, [LexTurn]_lexVars PROVE LexInv'
  OBVIOUS
<1>2. CASE UNCHANGED lexVars
  BY ONLY <1>1, <1>2 DEF lexVars, LexInv
<1>3. CASE LexTurn
  <2>1. ~done
    BY ONLY <1>3 DEF LexTurn
  <2>2. CASE Finish
    BY ONLY <1>1, <2>1, <2>2, FinishTurn
  <2>3. ASSUME lx.pos <= Len(src)
        PROVE  /\ SkipBlank => LexInv'
               /\ Newline => LexInv'
               /\ LineComment => LexInv'
               /\ BlockComment => LexInv'
               /\ LexHex => LexInv'
               /\ LexDecimal => LexInv'
               /\ LexIdent => LexInv'
               /\ LexStr => LexInv'
               /\ LexFormat => LexInv'
               /\ LexChar => LexInv'
               /\ LexPunct => LexInv'
    <3>1. SkipBlank => LexInv'
      BY ONLY <1>1, <2>1, <2>3, BlankTurn
    <3>2. Newline => LexInv'
      BY ONLY <1>1, <2>1, <2>3, NewlineTurn
    <3>3. LineComment => LexInv'
      BY ONLY <1>1, <2>1, <2>3, LineCommentTurn
    <3>4. BlockComment => LexInv'
      BY ONLY <1>1, <2>1, <2>3, BlockCommentTurn
    <3>5. LexHex => LexInv'
      BY ONLY <1>1, <2>1, <2>3, HexTurn
    <3>6. LexDecimal => LexInv'
      BY ONLY <1>1, <2>1, <2>3, DecimalTurn
    <3>7. LexIdent => LexInv'
      BY ONLY <1>1, <2>1, <2>3, IdentTurn
    <3>8. ASSUME LexStr PROVE LexInv'
      <4>1. At(lx.pos + 0) = Quote /\ LexString("STRING", 0)
        BY ONLY <3>8 DEF LexStr, Peek
      <4> QED BY ONLY <1>1, <2>1, <2>3, <4>1, StringTurn
    <3>9. ASSUME LexFormat PROVE LexInv'
      <4>1. At(lx.pos + 1) = Quote /\ LexString("FSTRING", 1)
        BY ONLY <3>9 DEF LexFormat, Peek
      <4> QED BY ONLY <1>1, <2>1, <2>3, <4>1, StringTurn
    <3>10. LexChar => LexInv'
      BY ONLY <1>1, <2>1, <2>3, CharTurn
    <3>11. LexPunct => LexInv'
      BY ONLY <1>1, <2>1, <2>3, PunctTurn
    <3> QED BY ONLY <3>1, <3>2, <3>3, <3>4, <3>5, <3>6, <3>7, <3>8, <3>9, <3>10, <3>11
  <2> QED BY ONLY <1>3, <2>2, <2>3 DEF LexTurn
<1> QED BY ONLY <1>1, <1>2, <1>3

\* The operators of the module are those of a text, taken at src.
LEMMA OfSource ==
  /\ \A j : At(j) = CharAt(src, j)
  /\ \A p : NewlinesBefore(p) = Breaks(src, 1, p - 1)
  /\ \A p : Backslashes(p) = Back(src, p)
<1>1. \A j : At(j) = CharAt(src, j)
  BY ONLY Zenon DEF At, CharAt
<1>2. ASSUME NEW p PROVE NewlinesBefore(p) = Breaks(src, 1, p - 1)
  BY ONLY <1>1 DEF NewlinesBefore, Breaks
<1>3. ASSUME NEW p PROVE Backslashes(p) = Back(src, p)
  <2>1. {j \in 0..(p - 1) : At(j) # "\\"} = {j \in 0..(p - 1) : CharAt(src, j) # "\\"}
    BY ONLY <1>1
  <2> QED BY ONLY <2>1, Zenon DEF Backslashes, Back
<1> QED BY ONLY <1>1, <1>2, <1>3

LEMMA InvTokens ==
  ASSUME LexInv
  PROVE  /\ src \in Seq(STRING) /\ Len(src) \in Nat
         /\ Len(out) \in Nat /\ DOMAIN out = 1..Len(out)
         /\ Range(out) = {out[i] : i \in 1..Len(out)}
         /\ \A i \in 1..Len(out) : TokenHolds(src, out, i)
         /\ \A i \in 1..(Len(out) - 1) : PairHolds(src, out[i], out[i + 1])
<1>1. src \in Seq(STRING) /\ TokensHold(src, out)
  BY ONLY LexInv DEF LexInv
<1>2. PICK o : o = out
  OBVIOUS
<1>3. TokensHold(src, o)
  BY ONLY <1>1, <1>2
<1>4. /\ Len(o) \in Nat /\ o = [i \in 1..Len(o) |-> o[i]]
      /\ \A i \in 1..Len(o) : TokenHolds(src, o, i)
      /\ \A i \in 1..(Len(o) - 1) : PairHolds(src, o[i], o[i + 1])
  BY ONLY <1>3 DEF TokensHold
<1>5. DOMAIN o = 1..Len(o)
  BY ONLY <1>4
<1>6. Range(o) = {o[i] : i \in 1..Len(o)}
  BY ONLY <1>5 DEF Range
<1>7. Len(src) \in Nat
  BY ONLY <1>1
<1> QED BY ONLY <1>1, <1>2, <1>4, <1>5, <1>6, <1>7

LEMMA InvPlaces ==
  ASSUME LexInv
  PROVE  PlacesExact
<1>1. DOMAIN out = 1..Len(out) /\ \A i \in 1..Len(out) : TokenHolds(src, out, i)
  BY ONLY LexInv, InvTokens
<1>2. ASSUME NEW i \in DOMAIN out
      PROVE  /\ out[i].line = 1 + Cardinality(NewlinesBefore(out[i].at))
             /\ ~AfterChar(i) =>
                  out[i].col = out[i].at - Max(NewlinesBefore(out[i].at) \cup {0})
  <2>1. Placed(src, out, i - 1, out[i].at, out[i].line, out[i].col)
    BY ONLY <1>1, i \in DOMAIN out DEF TokenHolds
  <2>2. NewlinesBefore(out[i].at) = Breaks(src, 1, out[i].at - 1)
    BY ONLY OfSource
  <2>3. Charred(src, out, i - 1, out[i].line) <=> AfterChar(i)
    BY ONLY OfSource DEF Charred, AfterChar
  <2>4. out[i].line = 1 + Cardinality(Breaks(src, 1, out[i].at - 1))
    BY ONLY <2>1 DEF Placed, LineAt
  <2>5. ~AfterChar(i) => out[i].col = out[i].at - Max(Breaks(src, 1, out[i].at - 1) \cup {0})
    BY ONLY <2>1, <2>3 DEF Placed, ColAt
  <2> QED BY ONLY <2>2, <2>4, <2>5, Zenon
<1> QED BY ONLY <1>2 DEF PlacesExact

LEMMA InvQuotes ==
  ASSUME LexInv
  PROVE  QuotesBare
<1>1. /\ Range(out) = {out[i] : i \in 1..Len(out)}
      /\ \A i \in 1..Len(out) : TokenHolds(src, out, i)
  BY ONLY LexInv, InvTokens
<1>2. ASSUME NEW t \in Range(out)
      PROVE  t.kind \in {"STRING", "FSTRING"} \/ (t.kind = "INT" /\ At(t.at) = "'") =>
               \A p \in (t.at + 1)..(t.end - 1) :
                 /\ p < t.end - 1 /\ At(p) = At(t.end - 1)
                       /\ (t.kind = "FSTRING" => p > t.at + 1) => Backslashes(p) % 2 = 1
                 /\ p = t.end - 1 => Backslashes(p) % 2 = 0
  <2>1. PICK i \in 1..Len(out) : t = out[i]
    BY ONLY <1>1, t \in Range(out)
  <2>2. QuoteHolds(src, t)
    BY ONLY <1>1, <2>1, i \in 1..Len(out) DEF TokenHolds
  <2> QED BY ONLY <2>2, OfSource DEF QuoteHolds
<1> QED BY ONLY <1>2 DEF QuotesBare

LEMMA InvMunch ==
  ASSUME LexInv
  PROVE  LongestMatch
<1>1. /\ Range(out) = {out[i] : i \in 1..Len(out)}
      /\ \A i \in 1..Len(out) : TokenHolds(src, out, i)
  BY ONLY LexInv, InvTokens
<1>2. ASSUME NEW t \in Range(out)
      PROVE  /\ t.kind = "PUNCT" =>
                  ~\E i \in DOMAIN PUNCTS :
                      Len(PUNCTS[i]) > t.end - t.at
                      /\ IsPrefix(PUNCTS[i], SubSeq(src, t.at, Len(src)))
             /\ t.kind \in {"IDENT", "KEYWORD", "TYPE"} => At(t.end) \notin Alphas \cup Digits
  <2>1. PICK i \in 1..Len(out) : t = out[i]
    BY ONLY <1>1, t \in Range(out)
  <2>2. MunchHolds(src, t)
    BY ONLY <1>1, <2>1, i \in 1..Len(out) DEF TokenHolds
  <2>3. At(t.end) = CharAt(src, t.end)
    BY ONLY OfSource
  <2> QED BY ONLY <2>2, <2>3, Zenon DEF MunchHolds
<1> QED BY ONLY <1>2 DEF LongestMatch

LEMMA InvNothingDropped ==
  ASSUME LexInv
  PROVE  NothingDropped
<1>1. /\ src \in Seq(STRING) /\ Len(src) \in Nat /\ Len(out) \in Nat
      /\ \A i \in 1..Len(out) : TokenHolds(src, out, i)
      /\ \A i \in 1..(Len(out) - 1) : PairHolds(src, out[i], out[i + 1])
  BY ONLY LexInv, InvTokens
<1>2. ASSUME NEW i \in 1..(Len(out) - 1)
      PROVE  Skippable(out[i].end, out[i + 1].at)
  <2>1. PICK n \in Nat : n = Len(out)
    BY ONLY <1>1
  <2>2. i \in 1..n /\ i + 1 \in 1..n
    <3>1. i \in 1..(n - 1)
      BY ONLY <2>1, i \in 1..(Len(out) - 1)
    <3> QED BY ONLY <2>1, <3>1, n \in Nat
  <2>3. PICK p \in 1..(Len(src) + 1) : p = out[i].end
    BY ONLY <1>1, <2>1, <2>2 DEF TokenHolds
  <2>4. PICK q \in 1..(Len(src) + 1) : q = out[i + 1].at
    BY ONLY <1>1, <2>1, <2>2 DEF TokenHolds
  <2>5. Clear(src, p, q)
    BY ONLY <1>1, <2>3, <2>4, i \in 1..(Len(out) - 1) DEF PairHolds
  <2>6. p \in p..q
    BY ONLY <2>5 DEF Clear, Hops
  <2>7. p \in Nat \ {0} /\ q \in p..(Len(src) + 1)
    BY ONLY <1>1, <2>6, p \in 1..(Len(src) + 1), q \in 1..(Len(src) + 1)
  <2>8. Skippable(p, q)
    BY ONLY <1>1, <2>5, <2>7, ClearSkips
  <2> QED BY ONLY <2>3, <2>4, <2>8
<1> QED BY ONLY <1>2 DEF NothingDropped

LEMMA InvClosed ==
  ASSUME LexInv
  PROVE  StreamClosed
<1>1. \A i \in 1..(Len(out) - 1) : PairHolds(src, out[i], out[i + 1])
  BY ONLY LexInv, InvTokens
<1>2. \A i \in 1..(Len(out) - 1) : ~(out[i].kind = "NEWLINE" /\ out[i + 1].kind = "NEWLINE")
  BY ONLY <1>1 DEF PairHolds
<1>3. done /\ ~hasError => Closed(out)
  BY ONLY LexInv DEF LexInv
<1> QED BY ONLY <1>2, <1>3 DEF StreamClosed, Closed

LEMMA InvExact == LexInv => ScanExact
  BY ONLY InvPlaces, InvQuotes, InvNothingDropped, InvMunch, InvClosed DEF ScanExact

\* Whatever the text, what lexRange makes of it (with lexNumber, lexIdent,
\* lexString, lexEscape, lexChar, lexPunct and the comments it skips itself) is
\* that text: the place on every token is right, a literal ends at its first
\* bare quote, only blanks and comments lie between two tokens, each token takes
\* the longest match, and the stream is closed when no error was reported.
THEOREM ScanIsExact == LexSpec => []ScanExact
<1>1. LexInit => LexInv
  BY InvInit
<1>2. LexInv /\ [LexTurn]_lexVars => LexInv'
  BY InvNext
<1>3. LexInv => ScanExact
  BY InvExact
<1> QED BY <1>1, <1>2, <1>3, PTL DEF LexSpec
=============================================================================
