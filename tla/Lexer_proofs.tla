---------------------------- MODULE Lexer_proofs ----------------------------
(***************************************************************************)
(* Theorems of Lexer for any set of streams: its types, that the tokens    *)
(* follow one another, that each token's line and column are those of its  *)
(* first character, and that each is the longest lexeme that begins there. *)
(***************************************************************************)
EXTENDS Lexer, Extrema, SequenceTheorems

-----------------------------------------------------------------------------
(* Least gives a smallest place, or the other where there is none. *)
LEMMA LeastPlace ==
  ASSUME NEW a \in Int, NEW b \in Int, NEW places \in SUBSET (a..b), NEW other
  PROVE  \/ places = {} /\ Least(places, other) = other
         \/ /\ places # {} /\ Least(places, other) \in places
            /\ \A l \in places : Least(places, other) <= l
  <1>1. IsFiniteSet(places) /\ places \in SUBSET Int
    <2>1. IsFiniteSet(a..b)
      BY FS_Interval
    <2>2. IsFiniteSet(places)
      BY <2>1, FS_Subset
    <2> QED
      BY <2>2
  <1>2. CASE places = {}
    BY <1>2 DEF Least
  <1>3. CASE places # {}
    <2>1. \E m \in places : \A l \in places : m <= l
      BY <1>1, <1>3, Minimum
    <2> QED
      BY <1>3, <2>1 DEF Least
  <1> QED
    BY <1>2, <1>3
-----------------------------------------------------------------------------
(* A run ends in the stream, and behind its beginning where that belongs to it. *)
LEMMA RunEndBounds ==
  ASSUME N \in Nat, NEW i \in Nat, i <= N + 1, NEW chars
  PROVE  /\ RunEnd(i, chars) \in (i - 1)..N
         /\ i <= N /\ text[i] \in chars => RunEnd(i, chars) >= i
  <1> DEFINE places == {k \in i..N : text[k] \notin chars}
  <1>1. \/ places = {} /\ Least(places, N + 1) = N + 1
        \/ Least(places, N + 1) \in places
    <2>1. places \in SUBSET (i..N) /\ i \in Int /\ N \in Int
      OBVIOUS
    <2> HIDE DEF places
    <2> QED
      BY <2>1, LeastPlace
  <1> QED
    BY <1>1 DEF RunEnd

(* A comment ends in the stream, or where get() meets the end of it. *)
LEMMA CommentEndBounds ==
  ASSUME N \in Nat, pos \in Nat, pos < N
  PROVE  LineEnd \in First..(N + 1) /\ CommentEnd \in First..(N + 1)
  <1> DEFINE lines == {k \in (First + 2)..N : text[k] = "\n"}
             ends  == {k \in (First + 3)..N : text[k] = "/" /\ text[k - 1] = "*"}
  <1>1. First + 2 \in Int /\ First + 3 \in Int /\ N \in Int
    BY DEF First
  <1>2. (lines = {} /\ Least(lines, N + 1) = N + 1) \/ Least(lines, N + 1) \in lines
    <2>1. lines \in SUBSET ((First + 2)..N)
      OBVIOUS
    <2> HIDE DEF lines
    <2> QED
      BY <1>1, <2>1, LeastPlace
  <1>3. (ends = {} /\ Least(ends, N + 1) = N + 1) \/ Least(ends, N + 1) \in ends
    <2>1. ends \in SUBSET ((First + 3)..N)
      OBVIOUS
    <2> HIDE DEF ends
    <2> QED
      BY <1>1, <2>1, LeastPlace
  <1> QED
    BY <1>2, <1>3 DEF LineEnd, CommentEnd, First

(* An operator that is begun ends in the stream, and is still one of the table
   there, but not with one more character. *)
LEMMA OperatorEndBounds ==
  ASSUME N \in Nat, pos \in Nat, Matching(First) # {}
  PROVE  /\ OperatorEnd \in First..N
         /\ Matching(OperatorEnd) # {}
         /\ Matching(OperatorEnd + 1) = {}
  <1> DEFINE places == {k \in First..(N + 1) : Matching(k) = {}}
  <1>1. First \in Nat /\ First <= N
    BY DEF First, Matching
  <1>2. N + 1 \in places
    BY <1>1 DEF Matching
  <1>3. /\ Least(places, N + 1) \in places
        /\ \A l \in places : Least(places, N + 1) <= l
    <2>1. places \in SUBSET (First..(N + 1)) /\ First \in Int /\ N + 1 \in Int
      BY <1>1
    <2> HIDE DEF places
    <2> QED
      BY <1>2, <2>1, LeastPlace
  <1>4. Least(places, N + 1) # First
    BY <1>3
  <1>5. OperatorEnd \in First..N /\ OperatorEnd \notin places
    BY <1>1, <1>3, <1>4 DEF OperatorEnd
  <1>6. OperatorEnd + 1 \in places
    <2>1. Least(places, N + 1) \in Int
      BY <1>1, <1>3
    <2>2. OperatorEnd + 1 = Least(places, N + 1)
      BY <2>1 DEF OperatorEnd
    <2> QED
      BY <1>3, <2>2
  <1> QED
    BY <1>5, <1>6, <1>1

(* Every spelling of the table has a length. *)
LEMMA PatternLengths == \A t \in DOMAIN Patterns : Len(Patterns[t]) \in Nat
  <1>1. DOMAIN Patterns =
          { "LPAR", "RPAR", "LCURLY", "RCURLY", "LSQUARE", "RSQUARE", "OP_PLUS_PLUS",
            "OP_MINUS_MINUS", "OP_DOT", "OP_OR_GREATER", "OP_PLUS", "OP_MINUS", "OP_BANG",
            "OP_STAR_STAR", "OP_STAR", "OP_SLASH", "OP_PERCENT", "OP_LESS_EQ_GREATER", "OP_LESS",
            "OP_LESS_EQ", "OP_GREATER", "OP_GREATER_EQ", "OP_EQ_EQ", "OP_BANG_EQ", "OP_EQ",
            "OP_COLON_EQ", "OP_PLUS_EQ", "OP_MINUS_EQ", "OP_STAR_EQ", "OP_SLASH_EQ",
            "OP_PERCENT_EQ", "OP_COMMA", "OP_SEMICOLON" }
    BY DEF Patterns
  <1>2. /\ Len(Patterns.LPAR) = 1 /\ Len(Patterns.RPAR) = 1 /\ Len(Patterns.LCURLY) = 1
        /\ Len(Patterns.RCURLY) = 1 /\ Len(Patterns.LSQUARE) = 1 /\ Len(Patterns.RSQUARE) = 1
        /\ Len(Patterns.OP_DOT) = 1 /\ Len(Patterns.OP_PLUS) = 1 /\ Len(Patterns.OP_MINUS) = 1
        /\ Len(Patterns.OP_BANG) = 1 /\ Len(Patterns.OP_STAR) = 1 /\ Len(Patterns.OP_SLASH) = 1
        /\ Len(Patterns.OP_PERCENT) = 1 /\ Len(Patterns.OP_LESS) = 1 /\ Len(Patterns.OP_GREATER) = 1
        /\ Len(Patterns.OP_EQ) = 1 /\ Len(Patterns.OP_COMMA) = 1 /\ Len(Patterns.OP_SEMICOLON) = 1
        /\ Len(Patterns.OP_PLUS_PLUS) = 2 /\ Len(Patterns.OP_MINUS_MINUS) = 2 /\ Len(Patterns.OP_OR_GREATER) = 2
        /\ Len(Patterns.OP_STAR_STAR) = 2 /\ Len(Patterns.OP_LESS_EQ) = 2 /\ Len(Patterns.OP_GREATER_EQ) = 2
        /\ Len(Patterns.OP_EQ_EQ) = 2 /\ Len(Patterns.OP_BANG_EQ) = 2 /\ Len(Patterns.OP_COLON_EQ) = 2
        /\ Len(Patterns.OP_PLUS_EQ) = 2 /\ Len(Patterns.OP_MINUS_EQ) = 2 /\ Len(Patterns.OP_STAR_EQ) = 2
        /\ Len(Patterns.OP_SLASH_EQ) = 2 /\ Len(Patterns.OP_PERCENT_EQ) = 2 /\ Len(Patterns.OP_LESS_EQ_GREATER) = 3
    BY DEF Patterns
  <1> QED
    BY <1>1, <1>2

(* An operator that is found is one of the table, and the shortest that matches. *)
LEMMA OperatorTypeKnown ==
  ASSUME Matching(OperatorEnd) # {}
  PROVE  /\ OperatorType \in DOMAIN Patterns
         /\ OperatorType \in Matching(OperatorEnd)
         /\ \A u \in Matching(OperatorEnd) : Len(Patterns[OperatorType]) <= Len(Patterns[u])
  <1> DEFINE M == Matching(OperatorEnd)
  <1>1. PICK t \in M : TRUE
    OBVIOUS
  <1>2. M \subseteq DOMAIN Patterns
    BY DEF Matching
  <1> DEFINE lengths == {n \in 0..Len(Patterns[t]) : \E u \in M : n = Len(Patterns[u])}
  <1>3. Len(Patterns[t]) \in Nat /\ Len(Patterns[t]) \in lengths
    BY <1>1, <1>2, PatternLengths
  <1>4. IsFiniteSet(lengths) /\ lengths \in SUBSET Int
    <2>1. IsFiniteSet(0..Len(Patterns[t]))
      BY <1>3, FS_Interval
    <2> QED
      BY <2>1, FS_Subset
  <1>5. PICK n \in lengths : \A l \in lengths : n <= l
    BY <1>3, <1>4, Minimum
  <1>6. PICK s \in M : n = Len(Patterns[s])
    BY <1>5
  <1>7. \A u \in M : Len(Patterns[s]) <= Len(Patterns[u])
    <2>1. SUFFICES ASSUME NEW u \in M PROVE n <= Len(Patterns[u])
      BY <1>6
    <2>2. Len(Patterns[u]) \in Nat
      BY <1>2, PatternLengths
    <2>3. CASE Len(Patterns[u]) <= Len(Patterns[t])
      BY <2>2, <2>3, <1>3, <1>5
    <2>4. CASE Len(Patterns[u]) > Len(Patterns[t])
      BY <2>2, <2>4, <1>3, <1>5
    <2> QED
      BY <2>2, <2>3, <2>4, <1>3
  <1>8. OperatorType \in M /\ \A u \in M : Len(Patterns[OperatorType]) <= Len(Patterns[u])
    BY <1>6, <1>7 DEF OperatorType
  <1> QED
    BY <1>2, <1>8
-----------------------------------------------------------------------------
(* The inductive invariant.  What get() has counted is a matter of the text and
   of the place in it alone - but the column only until the stream ends, for a
   read that meets the end counts a column too many. *)
Before(t, p) == {k \in 1..p : t[k] = "\n"}

LastOf(m, S) == m \in S \cup {0} /\ \A l \in S : l <= m

(* PositionsPoint of one token. *)
Points(t, s) ==
  LET before == {k \in 1..(t.first - 1) : s[k] = "\n"}
      last == CHOOSE k \in before \cup {0} : \A l \in before : l <= k
  IN  t.lix = Cardinality(before) /\ t.cix = t.first - 1 - last

CountsExact ==
  /\ lix = Cardinality(Before(text, pos))
  /\ pos < N => \E m \in Int : LastOf(m, Before(text, pos)) /\ cix = pos - m

TokenSet == [type : Kinds, first : Nat, last : Nat, lix : Nat, cix : Nat]

ReadSoFar ==
  /\ text \in Seq(STRING)
  /\ tokens \in Seq(TokenSet)
  /\ pos = (IF tokens = <<>> THEN 0 ELSE tokens[Len(tokens)].last)

IInv == TypeOK /\ ReadSoFar /\ CountsExact /\ Consecutive /\ PositionsPoint

(* What reading on from pos makes of the newlines before it. *)
LEMMA NewlinesAdd ==
  ASSUME text \in Seq(STRING), pos \in Nat, pos < N, NEW to \in First..(N + 1),
         NEW end, end = (IF to > N THEN N ELSE to)
  PROVE  /\ Before(text, end) = Before(text, pos) \cup Newlines(to)
         /\ Before(text, pos) \cap Newlines(to) = {}
         /\ Newlines(to) \in SUBSET (First..end)
         /\ IsFiniteSet(Before(text, pos)) /\ IsFiniteSet(Newlines(to))
  <1>1. N \in Nat /\ First = pos + 1 /\ end \in First..N
    BY DEF N, First
  <1>2. Newlines(to) = {k \in First..end : text[k] = "\n"}
    <2>1. \A k \in First..to : Char(k) = "\n" => k <= N /\ text[k] = "\n"
      BY DEF Char
    <2>2. \A k \in First..end : k \in First..to /\ Char(k) = text[k]
      BY <1>1 DEF Char
    <2>3. \A k \in First..to : k <= N => k \in First..end
      BY <1>1
    <2> QED
      BY <2>1, <2>2, <2>3 DEF Newlines
  <1>3. Before(text, end) = Before(text, pos) \cup Newlines(to)
    <2>1. 1..end = (1..pos) \cup (First..end)
      BY <1>1
    <2> QED
      BY <1>2, <2>1 DEF Before
  <1>4. Before(text, pos) \cap Newlines(to) = {}
    <2>1. (1..pos) \cap (First..end) = {}
      BY <1>1
    <2> QED
      BY <1>2, <2>1 DEF Before
  <1>5. IsFiniteSet(Before(text, pos)) /\ IsFiniteSet(Newlines(to))
    <2>1. IsFiniteSet(1..pos) /\ IsFiniteSet(First..end)
      BY <1>1, FS_Interval
    <2>2. Before(text, pos) \subseteq 1..pos /\ Newlines(to) \subseteq First..end
      BY <1>2 DEF Before
    <2> QED
      BY <2>1, <2>2, FS_Subset
  <1> QED
    BY <1>2, <1>3, <1>4, <1>5

(* The line that get() has counted is that of the place it has come to. *)
LEMMA LineExact ==
  ASSUME text \in Seq(STRING), pos \in Nat, pos < N, NEW to \in First..(N + 1),
         NEW end, end = (IF to > N THEN N ELSE to), lix = Cardinality(Before(text, pos))
  PROVE  LineAfter(to) = Cardinality(Before(text, end)) /\ LineAfter(to) \in Nat
  <1> DEFINE A == Before(text, pos)
             B == Newlines(to)
  <1>1. /\ Before(text, end) = A \cup B /\ A \cap B = {}
        /\ IsFiniteSet(A) /\ IsFiniteSet(B)
    BY NewlinesAdd
  <1>2. Cardinality(A) \in Nat /\ Cardinality(B) \in Nat
    BY <1>1, FS_CardinalityType
  <1>3. Cardinality(A \cup B) = Cardinality(A) + Cardinality(B) - Cardinality(A \cap B)
    BY <1>1, FS_Union
  <1>4. Cardinality({}) = 0
    BY FS_EmptySet
  <1>5. LineAfter(to) = Cardinality(A) + Cardinality(B)
    BY DEF LineAfter
  <1> HIDE DEF A, B
  <1>6. Cardinality(A \cap B) = 0
    BY <1>1, <1>4
  <1>7. Cardinality(A \cup B) = Cardinality(A) + Cardinality(B)
    BY <1>2, <1>3, <1>6
  <1>8. LineAfter(to) = Cardinality(A \cup B) /\ LineAfter(to) \in Nat
    BY <1>2, <1>5, <1>7
  <1> QED
    BY <1>1, <1>8

(* And so is the column, unless the read has met the end of the stream. *)
LEMMA ColumnExact ==
  ASSUME text \in Seq(STRING), pos \in Nat, pos < N, NEW to \in First..(N + 1), cix \in Nat,
         NEW m \in Int, LastOf(m, Before(text, pos)), cix = pos - m
  PROVE  /\ ColumnAfter(to) \in Nat
         /\ to <= N => \E k \in Int : LastOf(k, Before(text, to)) /\ ColumnAfter(to) = to - k
  <1> DEFINE end == IF to > N THEN N ELSE to
             A == Before(text, pos)
             B == Newlines(to)
  <1>1. /\ Before(text, end) = A \cup B /\ B \in SUBSET (First..end) /\ IsFiniteSet(B)
    BY NewlinesAdd
  <1>2. N \in Nat /\ First = pos + 1 /\ end \in First..N /\ end <= to /\ to \in Int
    BY DEF N, First
  <1>3. A \in SUBSET (1..pos)
    BY DEF Before
  <1>4. to <= N => end = to
    BY <1>2
  <1>5. ColumnAfter(to) = IF B = {} THEN cix + to - pos
                          ELSE to - CHOOSE k \in B : \A l \in B : l <= k
    BY DEF ColumnAfter
  <1> HIDE DEF A, B, end
  <1>6. CASE B = {}
    <2>1. ColumnAfter(to) = to - m
      BY <1>2, <1>5, <1>6
    <2>2. ColumnAfter(to) \in Nat
      BY <1>2, <1>5, <1>6
    <2>3. LastOf(m, A) /\ Before(text, end) = A
      BY <1>1, <1>6 DEF A
    <2> QED
      BY <1>4, <2>1, <2>2, <2>3
  <1>7. CASE B # {}
    <2>1. B \in SUBSET Int
      BY <1>1, <1>2
    <2>2. \E k \in B : \A l \in B : l <= k
      BY <1>1, <1>7, <2>1, Maximum
    <2>3. PICK k \in B : (\A l \in B : l <= k) /\ ColumnAfter(to) = to - k
      BY <1>5, <1>7, <2>2
    <2>4. k \in First..end
      BY <1>1
    <2>5. \A l \in A : l <= k
      BY <1>2, <1>3, <2>4
    <2>6. LastOf(k, A \cup B)
      BY <2>3, <2>5 DEF LastOf
    <2>7. ColumnAfter(to) \in Nat
      BY <1>2, <2>3, <2>4
    <2>8. ASSUME to <= N
          PROVE  \E j \in Int : LastOf(j, Before(text, to)) /\ ColumnAfter(to) = to - j
      <3>1. k \in Int
        BY <1>2, <2>4
      <3>2. Before(text, to) = A \cup B
        BY <1>1, <1>4, <2>8
      <3>3. LastOf(k, Before(text, to)) /\ ColumnAfter(to) = to - k
        BY <2>3, <2>6, <3>2
      <3> QED
        BY <3>1, <3>3
    <2> QED
      BY <2>7, <2>8
  <1> QED
    BY <1>6, <1>7
-----------------------------------------------------------------------------
(* Reading a token of a known kind, that ends behind its beginning, keeps the
   invariant: it is all that the actions have to show. *)
LEMMA ReadKeeps ==
  ASSUME IInv, pos < N, status = "lexing",
         NEW type \in Kinds, NEW to \in First..(N + 1), Read(type, to)
  PROVE  IInv'
  <1> DEFINE end == IF to > N THEN N ELSE to
             tk == Token(type, to)
             n == Len(tokens)
  <1>1. /\ text \in Seq(STRING) /\ tokens \in Seq(TokenSet) /\ n \in Nat
        /\ N \in Nat /\ pos \in Nat /\ lix \in Nat /\ cix \in Nat /\ First = pos + 1
        /\ to \in Int /\ end \in First..N
    BY DEF IInv, ReadSoFar, TypeOK, N, First
  <1>2. /\ text' = text /\ N' = N /\ status' = status /\ pos' = end
        /\ lix' = LineAfter(to) /\ cix' = ColumnAfter(to) /\ tokens' = Append(tokens, tk)
    BY DEF Read, N
  <1>3. PICK m \in Int : LastOf(m, Before(text, pos)) /\ cix = pos - m
    BY DEF IInv, CountsExact
  <1>4. lix' = Cardinality(Before(text, end)) /\ lix' \in Nat
    <2>1. lix = Cardinality(Before(text, pos))
      BY DEF IInv, CountsExact
    <2> QED
      BY <1>1, <1>2, <2>1, LineExact
  <1>5. /\ cix' \in Nat
        /\ to <= N => \E k \in Int : LastOf(k, Before(text, to)) /\ cix' = to - k
    BY <1>1, <1>2, <1>3, ColumnExact
  <1>6. /\ tk \in TokenSet /\ tk.type = type /\ tk.first = First /\ tk.last = end
        /\ tk.lix = lix /\ tk.cix = cix
    BY <1>1 DEF Token, TokenSet
  <1> HIDE DEF tk, end
  <1>7. /\ tokens' \in Seq(TokenSet) /\ Len(tokens') = n + 1 /\ tokens' # <<>>
        /\ tokens'[n + 1] = tk
        /\ \A i \in 1..n : tokens'[i] = tokens[i]
    <2>1. tokens' = Append(tokens, tk) /\ tokens \in Seq(TokenSet) /\ tk \in TokenSet
      BY <1>1, <1>2, <1>6
    <2>2. tokens' \in Seq(TokenSet) /\ Len(tokens') = n + 1 /\ tokens' # <<>>
      BY <2>1, AppendProperties
    <2>3. tokens'[n + 1] = tk
      BY <2>1, AppendProperties
    <2>4. \A i \in 1..n : tokens'[i] = tokens[i]
      BY <2>1, AppendProperties
    <2> QED
      BY <2>2, <2>3, <2>4
  <1> HIDE DEF n
  <1>8. 1..(n + 1) = (1..n) \cup {n + 1}
    BY <1>1
  <1>9. TypeOK'
    <2>1. \A i \in 1..n : tokens'[i].type \in Kinds /\ tokens'[i].last \in 1..N
      BY <1>7 DEF IInv, TypeOK, n
    <2>2. tokens'[n + 1].type \in Kinds /\ tokens'[n + 1].last \in 1..N
      BY <1>1, <1>6, <1>7
    <2>3. \A i \in 1..Len(tokens') : tokens'[i].type \in Kinds /\ tokens'[i].last \in 1..N'
      BY <1>2, <1>7, <1>8, <2>1, <2>2
    <2>4. pos' \in 0..N'
      BY <1>1, <1>2
    <2>5. status' \in {"lexing", "done", "not implemented"}
      BY <1>2
    <2> QED
      BY <1>2, <1>4, <1>5, <2>3, <2>4, <2>5 DEF TypeOK, Kinds
  <1>10. ReadSoFar'
    BY <1>1, <1>2, <1>6, <1>7 DEF ReadSoFar, TokenSet, Kinds
  <1>11. CountsExact'
    <2>1. lix' = Cardinality(Before(text', pos'))
      BY <1>2, <1>4
    <2>2. pos' < N' => pos' = to /\ to <= N
      BY <1>1, <1>2 DEF end
    <2>3. pos' < N' => \E k \in Int : LastOf(k, Before(text', pos')) /\ cix' = pos' - k
      BY <1>2, <1>5, <2>2
    <2> QED
      BY <2>1, <2>3 DEF CountsExact, Before, LastOf, N
  <1>12. Consecutive'
    <2>1. tk.first = IF n = 0 THEN 1 ELSE tokens[n].last + 1
      BY <1>1, <1>6 DEF IInv, ReadSoFar, n
    <2>2. \A i \in 1..n : tokens[i].first = IF i = 1 THEN 1 ELSE tokens[i - 1].last + 1
      BY DEF IInv, Consecutive, n
    <2>3. ASSUME NEW i \in 1..(n + 1)
          PROVE  tokens'[i].first = IF i = 1 THEN 1 ELSE tokens'[i - 1].last + 1
      <3>1. CASE i = n + 1
        BY <1>1, <1>7, <2>1, <3>1
      <3>2. CASE i \in 1..n
        BY <1>1, <1>7, <2>2, <3>2
      <3> QED
        BY <1>8, <3>1, <3>2
    <2> QED
      BY <1>7, <2>3 DEF Consecutive
  <1>13. PositionsPoint'
    <2>1. \A i \in 1..n : Points(tokens[i], text)
      BY DEF IInv, PositionsPoint, Points, n
    <2>2. Points(tk, text)
      <3> DEFINE A == Before(text, pos)
                 last == CHOOSE k \in A \cup {0} : \A l \in A : l <= k
      <3>1. tk.first - 1 = pos /\ A = {k \in 1..(tk.first - 1) : text[k] = "\n"}
        BY <1>1, <1>6 DEF Before
      <3>2. A \in SUBSET (1..pos)
        BY DEF Before
      <3>3. LastOf(m, A)
        BY <1>3
      <3>4. lix = Cardinality(A)
        BY DEF IInv, CountsExact
      <3> HIDE DEF A
      <3>5. LastOf(last, A)
        BY <3>3 DEF LastOf
      <3> HIDE DEF last
      <3>6. last = m
        BY <1>1, <1>3, <3>2, <3>3, <3>5 DEF LastOf
      <3>7. tk.lix = Cardinality(A) /\ tk.cix = tk.first - 1 - last
        BY <1>3, <1>6, <3>1, <3>4, <3>6
      <3> QED
        BY <3>1, <3>7 DEF last, Points
    <2>3. \A i \in 1..(n + 1) : Points(tokens'[i], text')
      BY <1>2, <1>7, <1>8, <2>1, <2>2
    <2> QED
      BY <1>7, <2>3 DEF PositionsPoint, Points
  <1> QED
    BY <1>9, <1>10, <1>11, <1>12, <1>13 DEF IInv
-----------------------------------------------------------------------------
(* Every action keeps the invariant: the reading ones by where their tokens end,
   the others because they leave the tokens and the counts alone. *)
LEMMA StepKeeps == IInv /\ [Next]_vars => IInv'
  <1> SUFFICES ASSUME IInv, [Next]_vars PROVE IInv'
    OBVIOUS
  <1>1. /\ text \in Seq(STRING) /\ N \in Nat /\ pos \in Nat /\ pos <= N
        /\ First = pos + 1
    <2>1. text \in Seq(STRING) /\ pos \in 0..N
      BY DEF IInv, ReadSoFar, TypeOK
    <2>2. N \in Nat
      BY <2>1 DEF N
    <2> QED
      BY <2>1, <2>2 DEF First
  <1>2. ASSUME NEW chars, "eof" \notin chars, Lexing(chars)
        PROVE  status = "lexing" /\ pos < N /\ text[First] \in chars
    BY <1>1, <1>2 DEF Lexing, Char
  <1>3. {"WHITESPACE", "COMMENT", "STRING", "NUM", "NAME"} \subseteq Kinds
    BY DEF Kinds
  <1>4. CASE Whitespace
    <2>1. "eof" \notin Spaces /\ Lexing(Spaces)
      BY <1>4 DEF Whitespace, Spaces
    <2>2. status = "lexing" /\ pos < N /\ text[First] \in Spaces
      BY <1>2, <2>1
    <2>3. RunEnd(First, Spaces) \in First..(N + 1)
      BY <1>1, <2>2, RunEndBounds
    <2> QED
      BY <1>3, <1>4, <2>2, <2>3, ReadKeeps DEF Whitespace
  <1>5. CASE String
    <2>1. status = "lexing" /\ pos < N
      BY <1>2, <1>5 DEF String
    <2>2. First \in First..(N + 1)
      BY <1>1, <2>1
    <2> QED
      BY <1>3, <1>5, <2>1, <2>2, ReadKeeps DEF String
  <1>6. CASE LineComment \/ BlockComment
    <2>1. status = "lexing" /\ pos < N
      BY <1>2, <1>6 DEF LineComment, BlockComment
    <2>2. LineEnd \in First..(N + 1) /\ CommentEnd \in First..(N + 1)
      BY <1>1, <2>1, CommentEndBounds
    <2> QED
      BY <1>3, <1>6, <2>1, <2>2, ReadKeeps DEF LineComment, BlockComment
  <1>7. CASE Number
    <2> DEFINE run == RunEnd(First, Digits \cup {".", "'"})
    <2>1. "eof" \notin Digits /\ Lexing(Digits)
      BY <1>7 DEF Number, Digits
    <2>2. status = "lexing" /\ pos < N /\ text[First] \in Digits
      BY <1>2, <2>1
    <2>3. run \in First..N
      BY <1>1, <2>2, RunEndBounds
    <2> HIDE DEF run
    <2>4. RunEnd(run + 1, Letters) \in run..N
      <3>1. run + 1 \in Nat /\ run + 1 <= N + 1 /\ (run + 1) - 1 = run
        BY <1>1, <2>3
      <3> QED
        BY <1>1, <3>1, RunEndBounds
    <2>5. NumberEnd \in First..(N + 1)
      <3>1. RunEnd(run + 1, Letters) \in First..(N + 1)
        BY <1>1, <2>3, <2>4
      <3> QED
        BY <3>1 DEF NumberEnd, run
    <2> QED
      BY <1>3, <1>7, <2>2, <2>5, ReadKeeps DEF Number
  <1>8. CASE Name
    <2>1. "eof" \notin Letters \cup {"_"} /\ Lexing(Letters \cup {"_"})
      BY <1>8 DEF Name, Letters
    <2>2. status = "lexing" /\ pos < N
      BY <1>2, <2>1
    <2>3. text[First] \in Letters \cup {"_"}
      BY <1>2, <2>1
    <2>4. NameEnd \in First..(N + 1)
      <3> DEFINE chars == Letters \cup Digits \cup {"_"}
      <3>1. text[First] \in chars
        BY <2>3
      <3>2. First \in Nat /\ First <= N
        BY <1>1, <2>2
      <3> HIDE DEF chars
      <3>3. RunEnd(First, chars) \in First..(N + 1)
        BY <1>1, <3>1, <3>2, RunEndBounds
      <3> QED
        BY <3>3 DEF NameEnd, chars
    <2> QED
      BY <1>3, <1>8, <2>2, <2>4, ReadKeeps DEF Name
  <1>9. CASE Operator
    <2>1. status = "lexing" /\ Matching(First) # {} /\ Read(OperatorType, OperatorEnd)
      BY <1>9 DEF Operator, Lexing
    <2>2. pos < N
      BY <1>1, <2>1 DEF Matching
    <2>3. OperatorEnd \in First..N /\ Matching(OperatorEnd) # {}
      BY <1>1, <2>1, OperatorEndBounds
    <2>4. OperatorType \in Kinds
      BY <2>3, OperatorTypeKnown DEF Kinds
    <2>5. OperatorEnd \in First..(N + 1)
      BY <1>1, <2>3
    <2> QED
      BY <2>1, <2>2, <2>4, <2>5, ReadKeeps
  <1>10. CASE Character \/ End \/ UNCHANGED vars
    <2>1. /\ UNCHANGED <<text, pos, lix, cix, tokens>>
          /\ status' \in {"lexing", "done", "not implemented"}
      BY <1>10 DEF Character, End, vars, IInv, TypeOK
    <2>2. TypeOK' /\ ReadSoFar' /\ CountsExact'
      BY <2>1 DEF IInv, TypeOK, ReadSoFar, CountsExact, TokenSet, Before, LastOf, N
    <2>3. Consecutive'
      BY <2>1 DEF IInv, Consecutive
    <2>4. PositionsPoint'
      <3>1. text' = text /\ tokens' = tokens
        BY <2>1
      <3>2. \A i \in 1..Len(tokens) : Points(tokens[i], text)
        BY DEF IInv, PositionsPoint, Points
      <3>3. \A i \in 1..Len(tokens') : Points(tokens'[i], text')
        BY <3>1, <3>2
      <3> QED
        BY <3>3 DEF PositionsPoint, Points
    <2> QED
      BY <2>2, <2>3, <2>4 DEF IInv
  <1> QED
    BY <1>4, <1>5, <1>6, <1>7, <1>8, <1>9, <1>10 DEF Next

(* Before anything is read, everything that was read is counted. *)
LEMMA InitInv == Init => IInv
  <1> SUFFICES ASSUME Init PROVE IInv
    OBVIOUS
  <1>1. text \in Seq(STRING) /\ N \in Nat /\ Len(tokens) = 0
    BY TextsAssumption DEF Init, N
  <1>2. Before(text, pos) = {} /\ Cardinality(Before(text, pos)) = 0
    BY FS_EmptySet DEF Init, Before
  <1>3. CountsExact
    <2>1. LastOf(0, Before(text, pos)) /\ cix = pos - 0
      BY <1>2 DEF Init, LastOf
    <2> QED
      BY <1>2, <2>1 DEF Init, CountsExact
  <1>4. TypeOK /\ Consecutive /\ PositionsPoint
    BY <1>1 DEF Init, TypeOK, Consecutive, PositionsPoint
  <1>5. ReadSoFar
    BY <1>1 DEF Init, ReadSoFar
  <1> QED
    BY <1>3, <1>4, <1>5 DEF IInv

(* get_token never leaves the state the lexer is made for: the invariant holds
   whatever the stream. *)
THEOREM Invariant == Spec => []IInv
  BY InitInv, StepKeeps, PTL DEF Spec

(* Every token is of a kind the language has, and ends in the stream. *)
THEOREM TypeCorrect == Spec => []TypeOK
  <1>1. IInv => TypeOK
    BY DEF IInv
  <1> QED
    BY Invariant, <1>1, PTL

(* get_token loses no character and reads none twice: each token begins where
   the one before it has ended. *)
THEOREM NothingBetweenTokens == Spec => []Consecutive
  <1>1. IInv => Consecutive
    BY DEF IInv
  <1> QED
    BY Invariant, <1>1, PTL

(* The line and the column of a token, which get() counts as it reads, are those
   of its first character in the stream. *)
THEOREM PositionsCorrect == Spec => []PositionsPoint
  <1>1. IInv => PositionsPoint
    BY DEF IInv
  <1> QED
    BY Invariant, <1>1, PTL
-----------------------------------------------------------------------------
(* The longest lexemes.  The characters that begin the kinds of lexemes are
   apart; ... *)
Quote       == "\""
NameChars   == Letters \cup Digits \cup {"_"}
NameStarts  == Letters \cup {"_"}
NumberChars == Digits \cup {".", "'"}

(* ... no operator begins with one of these, ... *)
Plain == Spaces \cup NameChars \cup {Quote}

(* ... but with one of these, each of which is an operator, or with | or :. *)
Singles == {"(", ")", "{", "}", "[", "]", ".", "+", "-", "!", "*", "/", "%", "<", ">", "=",
            ",", ";"}

OperatorChars == Singles \cup {"|", ":"}

(* None of them belongs to two kinds. *)
LEMMA CharactersApart ==
  /\ Spaces \cap NameChars = {} /\ Letters \cap NumberChars = {} /\ Digits \subseteq NumberChars
  /\ NameStarts \cap Digits = {} /\ NameStarts \subseteq NameChars
  /\ "/" \notin Plain /\ Quote \notin Spaces \cup NameChars
  /\ "|" \notin Plain \cup Singles /\ ":" \notin Plain \cup Singles /\ Singles \cap Plain = {}
  <1>1. /\ Spaces \cap NameChars = {} /\ Letters \cap NumberChars = {} /\ Digits \subseteq NumberChars
        /\ NameStarts \cap Digits = {} /\ NameStarts \subseteq NameChars
    BY Zenon DEF Spaces, NameChars, NameStarts, Letters, Digits, NumberChars
  <1>2. "/" \notin Plain /\ Quote \notin Spaces \cup NameChars
    BY Zenon DEF Plain, Spaces, NameChars, Letters, Digits, Quote
  <1>3. "|" \notin Plain \cup Singles /\ ":" \notin Plain \cup Singles
    BY Zenon DEF Plain, Singles, Spaces, NameChars, Letters, Digits, Quote
  <1>4. ASSUME NEW c \in Singles PROVE c \notin Plain
    BY Zenon DEF Plain, Singles, Spaces, NameChars, Letters, Digits, Quote
  <1> QED
    BY Zenon, <1>1, <1>2, <1>3, <1>4

(* The spellings of the table: no operator is longer than three characters, the
   only one that long is <=>, which goes on from <=, and every other goes on from
   one of a single character, apart from |> and :=. *)
Spelling(t) ==
  \/ \E c \in Singles : Patterns[t] = <<c>>
  \/ \E c, d \in Singles : Patterns[t] = <<c, d>>
  \/ Patterns[t] = <<"<", "=", ">">>
  \/ t = "OP_OR_GREATER" /\ Patterns[t] = <<"|", ">">>
  \/ t = "OP_COLON_EQ" /\ Patterns[t] = <<":", "=">>

(* The table is like that, and has what the longer operators go on from. *)
LEMMA PatternTable ==
  /\ \A t \in DOMAIN Patterns : Spelling(t)
  /\ \A c \in Singles : \E u \in DOMAIN Patterns : Patterns[u] = <<c>>
  /\ \E u \in DOMAIN Patterns : Patterns[u] = <<"<", "=">>
  <1> DEFINE P == Patterns
             Ones == { "LPAR", "RPAR", "LCURLY", "RCURLY", "LSQUARE", "RSQUARE", "OP_DOT", "OP_PLUS",
                       "OP_MINUS", "OP_BANG", "OP_STAR", "OP_SLASH", "OP_PERCENT", "OP_LESS",
                       "OP_GREATER", "OP_EQ", "OP_COMMA", "OP_SEMICOLON" }
             Twos == { "OP_PLUS_PLUS", "OP_MINUS_MINUS", "OP_STAR_STAR", "OP_LESS_EQ",
                       "OP_GREATER_EQ", "OP_EQ_EQ", "OP_BANG_EQ", "OP_PLUS_EQ", "OP_MINUS_EQ",
                       "OP_STAR_EQ", "OP_SLASH_EQ", "OP_PERCENT_EQ" }
  <1>1. /\ P["LPAR"] = <<"(">> /\ P["RPAR"] = <<")">> /\ P["LCURLY"] = <<"{">> /\ P["RCURLY"] = <<"}">>
        /\ P["LSQUARE"] = <<"[">> /\ P["RSQUARE"] = <<"]">> /\ P["OP_DOT"] = <<".">>
        /\ P["OP_PLUS"] = <<"+">> /\ P["OP_MINUS"] = <<"-">> /\ P["OP_BANG"] = <<"!">>
        /\ P["OP_STAR"] = <<"*">> /\ P["OP_SLASH"] = <<"/">> /\ P["OP_PERCENT"] = <<"%">>
        /\ P["OP_LESS"] = <<"<">> /\ P["OP_GREATER"] = <<">">> /\ P["OP_EQ"] = <<"=">>
        /\ P["OP_COMMA"] = <<",">> /\ P["OP_SEMICOLON"] = <<";">>
    BY DEF Patterns
  <1>2. /\ P["OP_PLUS_PLUS"] = <<"+", "+">> /\ P["OP_MINUS_MINUS"] = <<"-", "-">>
        /\ P["OP_STAR_STAR"] = <<"*", "*">> /\ P["OP_LESS_EQ"] = <<"<", "=">>
        /\ P["OP_GREATER_EQ"] = <<">", "=">> /\ P["OP_EQ_EQ"] = <<"=", "=">>
        /\ P["OP_BANG_EQ"] = <<"!", "=">> /\ P["OP_PLUS_EQ"] = <<"+", "=">>
        /\ P["OP_MINUS_EQ"] = <<"-", "=">> /\ P["OP_STAR_EQ"] = <<"*", "=">>
        /\ P["OP_SLASH_EQ"] = <<"/", "=">> /\ P["OP_PERCENT_EQ"] = <<"%", "=">>
    BY DEF Patterns
  <1>3. /\ P["OP_LESS_EQ_GREATER"] = <<"<", "=", ">">>
        /\ P["OP_OR_GREATER"] = <<"|", ">">> /\ P["OP_COLON_EQ"] = <<":", "=">>
    BY DEF Patterns
  <1>4. DOMAIN P = Ones \cup Twos \cup {"OP_LESS_EQ_GREATER", "OP_OR_GREATER", "OP_COLON_EQ"}
    <2>1. DOMAIN P =
            { "LPAR", "RPAR", "LCURLY", "RCURLY", "LSQUARE", "RSQUARE", "OP_PLUS_PLUS",
              "OP_MINUS_MINUS", "OP_DOT", "OP_OR_GREATER", "OP_PLUS", "OP_MINUS", "OP_BANG",
              "OP_STAR_STAR", "OP_STAR", "OP_SLASH", "OP_PERCENT", "OP_LESS_EQ_GREATER",
              "OP_LESS", "OP_LESS_EQ", "OP_GREATER", "OP_GREATER_EQ", "OP_EQ_EQ", "OP_BANG_EQ",
              "OP_EQ", "OP_COLON_EQ", "OP_PLUS_EQ", "OP_MINUS_EQ", "OP_STAR_EQ", "OP_SLASH_EQ",
              "OP_PERCENT_EQ", "OP_COMMA", "OP_SEMICOLON" }
      BY DEF Patterns
    <2> QED
      BY <2>1
  <1>5. ASSUME NEW t \in Ones PROVE \E c \in Singles : Patterns[t] = <<c>>
    BY Zenon, <1>1 DEF Singles
  <1>6. ASSUME NEW t \in Twos PROVE \E c, d \in Singles : Patterns[t] = <<c, d>>
    BY Zenon, <1>2 DEF Singles
  <1>7. ASSUME NEW c \in Singles PROVE \E u \in Ones : Patterns[u] = <<c>>
    BY Zenon, <1>1 DEF Singles
  <1>8. Ones \subseteq DOMAIN P /\ "OP_LESS_EQ" \in DOMAIN P
    BY Zenon, <1>4
  <1>9. ASSUME NEW t \in DOMAIN P PROVE Spelling(t)
    BY Zenon, <1>3, <1>4, <1>5, <1>6 DEF Spelling
  <1> HIDE DEF Ones, Twos
  <1> QED
    BY Zenon, <1>2, <1>7, <1>8, <1>9

(* What that says of one operator. *)
LEMMA OperatorSpelling ==
  ASSUME NEW t \in DOMAIN Patterns
  PROVE  /\ Patterns[t] \in Seq(OperatorChars) /\ Len(Patterns[t]) \in {1, 2, 3}
         /\ Patterns[t][1] \in OperatorChars /\ Patterns[t][1] \notin Plain
         /\ Len(Patterns[t]) = 3 => Patterns[t] = <<"<", "=", ">">>
         /\ \/ Patterns[t][1] \in Singles
            \/ Patterns[t][1] = "|" /\ t = "OP_OR_GREATER"
            \/ Patterns[t][1] = ":" /\ t = "OP_COLON_EQ"
  <1>1. {"<", "=", ">", "|", ":"} \subseteq OperatorChars /\ Singles \subseteq OperatorChars
        /\ {"<", "=", ">"} \subseteq Singles
    BY Zenon DEF OperatorChars, Singles
  <1>2. OperatorChars \cap Plain = {}
    BY CharactersApart DEF OperatorChars
  <1>3. Spelling(t)
    BY PatternTable
  <1>4. CASE \E c \in Singles : Patterns[t] = <<c>>
    BY <1>1, <1>2, <1>4
  <1>5. CASE \E c, d \in Singles : Patterns[t] = <<c, d>>
    BY <1>1, <1>2, <1>5
  <1>6. CASE Patterns[t] = <<"<", "=", ">">>
    BY <1>1, <1>2, <1>6
  <1>7. CASE t = "OP_OR_GREATER" /\ Patterns[t] = <<"|", ">">>
    BY <1>1, <1>2, <1>7
  <1>8. CASE t = "OP_COLON_EQ" /\ Patterns[t] = <<":", "=">>
    BY <1>1, <1>2, <1>8
  <1> QED
    BY <1>3, <1>4, <1>5, <1>6, <1>7, <1>8 DEF Spelling

(* IsLexeme kind by kind. *)
LEMMA LexemeKinds ==
  ASSUME NEW i, NEW j
  PROVE  /\ IsLexeme("WHITESPACE", i, j) <=> Word(i, j, Spaces)
         /\ IsLexeme("COMMENT", i, j) <=> Comment(i, j)
         /\ IsLexeme("STRING", i, j) <=> i = j /\ text[i] = Quote
         /\ IsLexeme("NAME", i, j) <=> text[i] \notin Digits /\ Word(i, j, NameChars)
         /\ IsLexeme("NUM", i, j) <=> /\ text[i] \in Digits
                                      /\ \E k \in i..j : Word(i, k, NumberChars)
                                                         /\ Word(k + 1, j, Letters)
         /\ \A u \in DOMAIN Patterns :
              IsLexeme(u, i, j) <=>
                \/ SubSeq(text, i, j) = Patterns[u]
                \/ u = "OP_OR_GREATER" /\ SubSeq(text, i, j) = <<"|">>
                \/ u = "OP_COLON_EQ" /\ SubSeq(text, i, j) = <<":">>
  <1>1. {"WHITESPACE", "COMMENT", "STRING", "NUM", "NAME"} \cap DOMAIN Patterns = {}
    BY DEF Patterns
  <1>2. /\ IsLexeme("WHITESPACE", i, j) <=> Word(i, j, Spaces)
        /\ IsLexeme("COMMENT", i, j) <=> Comment(i, j)
        /\ IsLexeme("STRING", i, j) <=> i = j /\ text[i] = Quote
    BY Zenon DEF IsLexeme, Quote
  <1>3. /\ IsLexeme("NAME", i, j) <=> text[i] \notin Digits /\ Word(i, j, NameChars)
    BY Zenon DEF IsLexeme, NameChars
  <1>4. IsLexeme("NUM", i, j) <=> /\ text[i] \in Digits
                                  /\ \E k \in i..j : Word(i, k, NumberChars)
                                                     /\ Word(k + 1, j, Letters)
    BY Zenon DEF IsLexeme, NumberChars
  <1>5. ASSUME NEW u \in DOMAIN Patterns
        PROVE  IsLexeme(u, i, j) <=>
                 \/ SubSeq(text, i, j) = Patterns[u]
                 \/ u = "OP_OR_GREATER" /\ SubSeq(text, i, j) = <<"|">>
                 \/ u = "OP_COLON_EQ" /\ SubSeq(text, i, j) = <<":">>
    <2>1. u \notin {"WHITESPACE", "COMMENT", "STRING", "NUM", "NAME"}
      BY <1>1
    <2> QED
      BY Zenon, <2>1 DEF IsLexeme
  <1> QED
    BY <1>2, <1>3, <1>4, <1>5

(* The first character of a lexeme tells its kind; only a slash begins both a
   comment and an operator. *)
LEMMA LexemeStarts ==
  ASSUME text \in Seq(STRING), NEW i \in Nat, i >= 1, NEW j \in i..N,
         NEW u \in Kinds, IsLexeme(u, i, j)
  PROVE  /\ text[i] \in Spaces => u = "WHITESPACE"
         /\ text[i] \in Digits => u = "NUM"
         /\ text[i] \in NameStarts => u = "NAME"
         /\ text[i] = Quote => u = "STRING"
         /\ text[i] \notin Plain => u = "COMMENT" \/ u \in DOMAIN Patterns
         /\ u = "COMMENT" => text[i] = "/"
  <1>1. N \in Nat /\ i \in i..j
    BY DEF N
  <1>2. /\ Spaces \subseteq Plain /\ Digits \subseteq Plain /\ NameStarts \subseteq Plain
        /\ NameChars \subseteq Plain /\ Quote \in Plain
    BY Zenon DEF Plain, NameChars, NameStarts
  <1>3. CASE u = "WHITESPACE"
    <2>1. text[i] \in Spaces
      BY <1>1, <1>3, LexemeKinds DEF Word
    <2> QED
      BY <1>2, <1>3, <2>1, CharactersApart DEF NameChars, NameStarts
  <1>4. CASE u = "COMMENT"
    <2>1. text[i] = "/"
      BY <1>4, LexemeKinds DEF Comment
    <2> QED
      BY <1>2, <1>4, <2>1, CharactersApart
  <1>5. CASE u = "STRING"
    <2>1. text[i] = Quote
      BY <1>5, LexemeKinds
    <2> QED
      BY <1>2, <1>5, <2>1, CharactersApart DEF NameChars, NameStarts
  <1>6. CASE u = "NUM"
    <2>1. text[i] \in Digits
      BY <1>6, LexemeKinds
    <2> QED
      BY <1>2, <1>6, <2>1, CharactersApart DEF NameChars, NameStarts
  <1>7. CASE u = "NAME"
    <2>1. text[i] \in NameChars /\ text[i] \notin Digits
      BY <1>1, <1>7, LexemeKinds DEF Word
    <2> QED
      BY <1>2, <1>7, <2>1, CharactersApart DEF NameChars, NameStarts
  <1>8. CASE u \in DOMAIN Patterns
    <2> DEFINE s == SubSeq(text, i, j)
    <2>1. s[1] = text[i]
      <3>1. \A k \in i..j : text[k] \in STRING
        BY <1>1 DEF N
      <3>2. \A k \in 1..(j - i + 1) : s[k] = text[i + k - 1]
        BY <1>1, <3>1, SubSeqProperties
      <3>3. 1 \in 1..(j - i + 1) /\ i + 1 - 1 = i
        BY <1>1
      <3> QED
        BY <3>2, <3>3
    <2>2. s = Patterns[u] \/ s = <<"|">> \/ s = <<":">>
      BY <1>8, LexemeKinds
    <2>3. s[1] \notin Plain
      <3>1. CASE s = Patterns[u]
        BY <1>8, <3>1, OperatorSpelling
      <3> HIDE DEF s
      <3>2. CASE s = <<"|">>
        <4>1. s[1] = "|"
          BY <3>2
        <4> QED
          BY Zenon, <4>1, CharactersApart
      <3>3. CASE s = <<":">>
        <4>1. s[1] = ":"
          BY <3>3
        <4> QED
          BY Zenon, <4>1, CharactersApart
      <3> QED
        BY <2>2, <3>1, <3>2, <3>3
    <2>4. u # "COMMENT"
      BY <1>8 DEF Patterns
    <2> QED
      BY <1>2, <1>8, <2>1, <2>3, <2>4
  <1> QED
    BY <1>3, <1>4, <1>5, <1>6, <1>7, <1>8 DEF Kinds

(* A run is of its characters, and what follows it is none of them. *)
LEMMA RunEndExact ==
  ASSUME N \in Nat, NEW i \in Nat, i <= N + 1, NEW chars
  PROVE  /\ \A k \in i..RunEnd(i, chars) : text[k] \in chars
         /\ RunEnd(i, chars) < N => text[RunEnd(i, chars) + 1] \notin chars
  <1> DEFINE places == {k \in i..N : text[k] \notin chars}
             least == Least(places, N + 1)
  <1>1. \/ places = {} /\ least = N + 1
        \/ least \in places /\ \A l \in places : least <= l
    <2>1. places \in SUBSET (i..N) /\ i \in Int /\ N \in Int
      OBVIOUS
    <2> HIDE DEF places
    <2> QED
      BY <2>1, LeastPlace
  <1>2. RunEnd(i, chars) = least - 1
    BY DEF RunEnd
  <1>3. \A k : k \in places <=> k \in i..N /\ text[k] \notin chars
    OBVIOUS
  <1> HIDE DEF places, least
  <1>4. least \in Int /\ least <= N + 1
    BY <1>1, <1>3
  <1>5. ASSUME NEW k \in i..(least - 1) PROVE text[k] \in chars
    <2>1. k \in i..N /\ ~(least <= k)
      BY <1>4
    <2> QED
      BY <1>1, <1>3, <2>1
  <1>6. least - 1 < N => text[(least - 1) + 1] \notin chars
    <2>1. least - 1 < N => least # N + 1
      BY <1>4
    <2>2. (least - 1) + 1 = least
      BY <1>4
    <2> QED
      BY <1>1, <1>3, <2>1, <2>2
  <1> QED
    BY <1>2, <1>5, <1>6

(* A comment ends at the first place that can end it. *)
LEMMA CommentEndExact ==
  ASSUME N \in Nat, pos \in Nat, pos < N
  PROVE  /\ LineEnd <= N => LineEnd >= First + 2 /\ text[LineEnd] = "\n"
         /\ \A k \in (First + 2)..N : k < LineEnd => text[k] # "\n"
         /\ CommentEnd <= N => /\ CommentEnd >= First + 3
                               /\ text[CommentEnd] = "/" /\ text[CommentEnd - 1] = "*"
         /\ \A k \in (First + 3)..N : k < CommentEnd => ~(text[k] = "/" /\ text[k - 1] = "*")
  <1> DEFINE lines == {k \in (First + 2)..N : text[k] = "\n"}
             ends  == {k \in (First + 3)..N : text[k] = "/" /\ text[k - 1] = "*"}
  <1>1. First + 2 \in Int /\ First + 3 \in Int /\ N \in Int
    BY DEF First
  <1>2. \/ lines = {} /\ LineEnd = N + 1
        \/ LineEnd \in lines /\ \A l \in lines : LineEnd <= l
    <2>1. lines \in SUBSET ((First + 2)..N) /\ LineEnd = Least(lines, N + 1)
      BY DEF LineEnd
    <2> HIDE DEF lines
    <2> QED
      BY <1>1, <2>1, LeastPlace
  <1>3. \/ ends = {} /\ CommentEnd = N + 1
        \/ CommentEnd \in ends /\ \A l \in ends : CommentEnd <= l
    <2>1. ends \in SUBSET ((First + 3)..N) /\ CommentEnd = Least(ends, N + 1)
      BY DEF CommentEnd
    <2> HIDE DEF ends
    <2> QED
      BY <1>1, <2>1, LeastPlace
  <1>4. /\ \A k : k \in lines <=> k \in (First + 2)..N /\ text[k] = "\n"
        /\ \A k : k \in ends <=> k \in (First + 3)..N /\ text[k] = "/" /\ text[k - 1] = "*"
    OBVIOUS
  <1>5. LineEnd \in Int /\ CommentEnd \in Int
    BY CommentEndBounds, <1>1
  <1> HIDE DEF lines, ends
  <1>6. /\ LineEnd <= N => LineEnd >= First + 2 /\ text[LineEnd] = "\n"
        /\ CommentEnd <= N => /\ CommentEnd >= First + 3
                              /\ text[CommentEnd] = "/" /\ text[CommentEnd - 1] = "*"
    BY <1>1, <1>2, <1>3, <1>4
  <1>7. ASSUME NEW k \in (First + 2)..N, k < LineEnd PROVE text[k] # "\n"
    BY <1>1, <1>2, <1>4, <1>5, <1>7
  <1>8. ASSUME NEW k \in (First + 3)..N, k < CommentEnd
        PROVE  ~(text[k] = "/" /\ text[k - 1] = "*")
    BY <1>1, <1>3, <1>4, <1>5, <1>8
  <1> QED
    BY <1>6, <1>7, <1>8

-----------------------------------------------------------------------------
(* A token and no longer lexeme at its place. *)
Longest(t) ==
  /\ IsLexeme(t.type, t.first, t.last)
  /\ \A u \in Kinds, j \in (t.last + 1)..N : ~IsLexeme(u, t.first, j)

(* Which lexemes there are is a matter of the text. *)
LEMMA LongestSame ==
  ASSUME text' = text, NEW t
  PROVE  Longest(t)' <=> Longest(t)
  <1>1. Kinds' = Kinds
    BY DEF Kinds
  <1>2. ASSUME NEW u, NEW i, NEW j PROVE IsLexeme(u, i, j)' <=> IsLexeme(u, i, j)
    BY DEF IsLexeme, Word, Comment, N, Spaces, Letters, Digits, Patterns
  <1> QED
    BY <1>1, <1>2 DEF Longest, N

(* What the actions have to show of the token that they read. *)
LEMMA TokenLongest ==
  ASSUME N \in Nat, NEW type, NEW to \in Int,
         NEW end, end = (IF to > N THEN N ELSE to),
         IsLexeme(type, First, end),
         \A u \in Kinds, j \in (end + 1)..N : ~IsLexeme(u, First, j)
  PROVE  Longest(Token(type, to))
  <1> DEFINE t == Token(type, to)
  <1>1. t.type = type /\ t.first = First /\ t.last = end
    BY DEF Token
  <1> HIDE DEF t
  <1>2. Longest(t)
    BY <1>1 DEF Longest
  <1> QED
    BY <1>2 DEF t

(* A run of one kind of characters is the longest lexeme where it begins. *)
LEMMA WhitespaceLongest ==
  ASSUME text \in Seq(STRING), pos \in Nat, pos < N, text[First] \in Spaces
  PROVE  Longest(Token("WHITESPACE", RunEnd(First, Spaces)))
  <1> DEFINE e == RunEnd(First, Spaces)
  <1>1. N \in Nat /\ First \in Nat /\ First >= 1 /\ First <= N
    BY DEF N, First
  <1>2. /\ e \in First..N
        /\ \A k \in First..e : text[k] \in Spaces
        /\ e < N => text[e + 1] \notin Spaces
    <2>1. /\ e \in (First - 1)..N /\ e >= First
          /\ \A k \in First..e : text[k] \in Spaces
          /\ e < N => text[e + 1] \notin Spaces
      BY <1>1, RunEndBounds, RunEndExact
    <2> HIDE DEF e
    <2> QED
      BY <1>1, <2>1
  <1> HIDE DEF e
  <1>3. IsLexeme("WHITESPACE", First, e)
    BY <1>2, LexemeKinds DEF Word
  <1>4. ASSUME NEW u \in Kinds, NEW j \in (e + 1)..N, IsLexeme(u, First, j) PROVE FALSE
    <2>1. j \in First..N /\ e + 1 \in First..j /\ e < N
      BY <1>1, <1>2
    <2>2. u = "WHITESPACE"
      BY <1>1, <1>4, <2>1, LexemeStarts
    <2>3. text[e + 1] \in Spaces
      BY <1>4, <2>1, <2>2, LexemeKinds DEF Word
    <2> QED
      BY <1>2, <2>1, <2>3
  <1>5. e \in Int /\ e = IF e > N THEN N ELSE e
    BY <1>1, <1>2
  <1> QED
    BY <1>1, <1>3, <1>4, <1>5, TokenLongest DEF e

(* The same for a name. *)
LEMMA NameLongest ==
  ASSUME text \in Seq(STRING), pos \in Nat, pos < N, text[First] \in NameStarts
  PROVE  Longest(Token("NAME", NameEnd))
  <1> DEFINE e == RunEnd(First, NameChars)
  <1>1. N \in Nat /\ First \in Nat /\ First >= 1 /\ First <= N
    BY DEF N, First
  <1>2. text[First] \in NameChars /\ text[First] \notin Digits
    BY Zenon, CharactersApart
  <1>3. NameEnd = e
    BY Zenon DEF NameEnd, NameChars
  <1>4. /\ e \in First..N
        /\ \A k \in First..e : text[k] \in NameChars
        /\ e < N => text[e + 1] \notin NameChars
    <2>1. /\ e \in (First - 1)..N /\ e >= First
          /\ \A k \in First..e : text[k] \in NameChars
          /\ e < N => text[e + 1] \notin NameChars
      BY <1>1, <1>2, RunEndBounds, RunEndExact
    <2> HIDE DEF e
    <2> QED
      BY <1>1, <2>1
  <1> HIDE DEF e
  <1>5. IsLexeme("NAME", First, e)
    BY <1>2, <1>4, LexemeKinds DEF Word
  <1>6. ASSUME NEW u \in Kinds, NEW j \in (e + 1)..N, IsLexeme(u, First, j) PROVE FALSE
    <2>1. j \in First..N /\ e + 1 \in First..j /\ e < N
      BY <1>1, <1>4
    <2>2. u = "NAME"
      BY <1>1, <1>6, <2>1, LexemeStarts
    <2>3. text[e + 1] \in NameChars
      BY <1>6, <2>1, <2>2, LexemeKinds DEF Word
    <2> QED
      BY <1>4, <2>1, <2>3
  <1>7. e \in Int /\ e = IF e > N THEN N ELSE e
    BY <1>1, <1>4
  <1> QED
    BY <1>1, <1>3, <1>5, <1>6, <1>7, TokenLongest

(* A number may go on in letters, but not from them in digits again. *)
LEMMA NumberLongest ==
  ASSUME text \in Seq(STRING), pos \in Nat, pos < N, text[First] \in Digits
  PROVE  Longest(Token("NUM", NumberEnd))
  <1> DEFINE r == RunEnd(First, NumberChars)
             e == RunEnd(r + 1, Letters)
  <1>1. N \in Nat /\ First \in Nat /\ First >= 1 /\ First <= N
    BY DEF N, First
  <1>2. text[First] \in NumberChars
    BY Zenon, CharactersApart
  <1>3. NumberEnd = e
    BY Zenon DEF NumberEnd, NumberChars
  <1>4. /\ r \in First..N
        /\ \A k \in First..r : text[k] \in NumberChars
        /\ r < N => text[r + 1] \notin NumberChars
    <2>1. /\ r \in (First - 1)..N /\ r >= First
          /\ \A k \in First..r : text[k] \in NumberChars
          /\ r < N => text[r + 1] \notin NumberChars
      BY <1>1, <1>2, RunEndBounds, RunEndExact
    <2> HIDE DEF r
    <2> QED
      BY <1>1, <2>1
  <1>5. /\ e \in r..N
        /\ \A k \in (r + 1)..e : text[k] \in Letters
        /\ e < N => text[e + 1] \notin Letters
    <2> HIDE DEF r
    <2>1. r + 1 \in Nat /\ r + 1 <= N + 1 /\ (r + 1) - 1 = r
      BY <1>1, <1>4
    <2> QED
      BY <1>1, <2>1, RunEndBounds, RunEndExact
  <1> HIDE DEF r, e
  <1>6. e \in First..N /\ r \in First..e
    BY <1>1, <1>4, <1>5
  <1>7. IsLexeme("NUM", First, e)
    <2>1. Word(First, r, NumberChars) /\ Word(r + 1, e, Letters)
      BY <1>4, <1>5 DEF Word
    <2> QED
      BY <1>6, <2>1, LexemeKinds
  <1>8. ASSUME NEW u \in Kinds, NEW j \in (e + 1)..N, IsLexeme(u, First, j) PROVE FALSE
    <2>1. j \in First..N /\ e + 1 \in First..j /\ e < N
      BY <1>1, <1>6
    <2>2. u = "NUM"
      BY <1>1, <1>8, <2>1, LexemeStarts
    <2>3. PICK k \in First..j : Word(First, k, NumberChars) /\ Word(k + 1, j, Letters)
      BY <1>8, <2>2, LexemeKinds
    <2>4. CASE k < r
      <3>1. k + 1 \in First..r /\ k + 1 \in (k + 1)..j
        BY <1>1, <1>4, <1>6, <2>1, <2>4
      <3>2. text[k + 1] \in NumberChars /\ text[k + 1] \in Letters
        BY <1>4, <2>3, <3>1 DEF Word
      <3> QED
        BY <3>2, CharactersApart
    <2>5. CASE k > r
      <3>1. r + 1 \in First..k /\ r < N
        BY <1>1, <1>4, <1>6, <2>1, <2>5
      <3> QED
        BY <1>4, <2>3, <3>1 DEF Word
    <2>6. CASE k = r
      <3>1. e + 1 \in (k + 1)..j
        BY <1>1, <1>6, <2>1, <2>6
      <3> QED
        BY <1>5, <2>1, <2>3, <3>1 DEF Word
    <2> QED
      BY <1>1, <1>4, <2>4, <2>5, <2>6
  <1>9. e \in Int /\ e = IF e > N THEN N ELSE e
    BY <1>1, <1>6
  <1> QED
    BY <1>1, <1>3, <1>7, <1>8, <1>9, TokenLongest

(* A quote is a token of its own. *)
LEMMA StringLongest ==
  ASSUME text \in Seq(STRING), pos \in Nat, pos < N, text[First] = Quote
  PROVE  Longest(Token("STRING", First))
  <1>1. N \in Nat /\ First \in Nat /\ First >= 1 /\ First <= N
    BY DEF N, First
  <1>2. IsLexeme("STRING", First, First)
    BY LexemeKinds
  <1>3. ASSUME NEW u \in Kinds, NEW j \in (First + 1)..N, IsLexeme(u, First, j) PROVE FALSE
    <2>1. j \in First..N /\ j # First
      BY <1>1
    <2>2. u = "STRING"
      BY <1>1, <1>3, <2>1, LexemeStarts
    <2> QED
      BY <1>3, <2>1, <2>2, LexemeKinds
  <1>4. First \in Int /\ First = IF First > N THEN N ELSE First
    BY <1>1
  <1> QED
    BY <1>1, <1>2, <1>3, <1>4, TokenLongest

(* What begins with two slashes or with a slash and an asterisk is a comment:
   no operator does. *)
LEMMA OnlyAComment ==
  ASSUME text \in Seq(STRING), pos \in Nat, First + 1 <= N,
         text[First] = "/", text[First + 1] \in {"/", "*"},
         NEW j \in (First + 2)..N, NEW u \in Kinds, IsLexeme(u, First, j)
  PROVE  u = "COMMENT"
  <1>1. N \in Nat /\ First \in Nat /\ First >= 1
    BY DEF N, First
  <1>2. j \in First..N /\ j - First + 1 >= 3
    BY <1>1
  <1>3. u = "COMMENT" \/ u \in DOMAIN Patterns
    BY <1>1, <1>2, CharactersApart, LexemeStarts
  <1>4. ASSUME u \in DOMAIN Patterns PROVE FALSE
    <2> DEFINE s == SubSeq(text, First, j)
    <2>1. Len(s) >= 3 /\ s[1] = "/"
      <3>1. \A k \in First..j : text[k] \in STRING
        BY <1>1 DEF N
      <3>2. /\ Len(s) = IF First <= j THEN j - First + 1 ELSE 0
            /\ \A k \in 1..(j - First + 1) : s[k] = text[First + k - 1]
        BY <1>1, <3>1, SubSeqProperties
      <3>3. 1 \in 1..(j - First + 1) /\ First + 1 - 1 = First /\ First <= j
        BY <1>1
      <3> QED
        BY <1>2, <3>2, <3>3
    <2>2. \/ s = Patterns[u] \/ s = <<"|">> \/ s = <<":">>
      BY <1>4, LexemeKinds
    <2> HIDE DEF s
    <2>3. s = Patterns[u]
      <3>1. s # <<"|">> /\ s # <<":">>
        BY <2>1
      <3> QED
        BY <2>2, <3>1
    <2>4. s = <<"<", "=", ">">>
      <3> DEFINE l == Len(Patterns[u])
      <3>1. l \in {1, 2, 3} /\ (l = 3 => Patterns[u] = <<"<", "=", ">">>) /\ l >= 3
        BY <1>4, <2>1, <2>3, OperatorSpelling
      <3> HIDE DEF l
      <3>2. l = 3
        BY <3>1
      <3> QED
        BY <2>3, <3>1, <3>2
    <2> QED
      BY <2>1, <2>4
  <1> QED
    BY <1>3, <1>4

(* A comment to the end of the line. *)
LEMMA LineCommentLongest ==
  ASSUME text \in Seq(STRING), pos \in Nat, First + 1 <= N,
         text[First] = "/", text[First + 1] = "/"
  PROVE  Longest(Token("COMMENT", LineEnd))
  <1> DEFINE to == LineEnd
             e == IF to > N THEN N ELSE to
  <1>1. N \in Nat /\ First \in Nat /\ First >= 1 /\ pos < N
    BY DEF N, First
  <1>2. /\ to \in First..(N + 1)
        /\ to <= N => to >= First + 2 /\ text[to] = "\n"
        /\ \A k \in (First + 2)..N : k < to => text[k] # "\n"
    BY <1>1, CommentEndBounds, CommentEndExact
  <1> HIDE DEF to
  <1>3. e \in (First + 1)..N /\ (e < N => e = to)
    BY <1>1, <1>2
  <1>4. ASSUME NEW k \in First..(e - 1) PROVE text[k] # "\n"
    <2>1. (k \in (First + 2)..N /\ k < to) \/ k = First \/ k = First + 1
      BY <1>1, <1>2, <1>3
    <2> QED
      BY <1>2, <2>1
  <1>5. text[e] = "\n" \/ e = N
    BY <1>2, <1>3
  <1> HIDE DEF e
  <1>6. e > First
    BY <1>1, <1>3
  <1>7. IsLexeme("COMMENT", First, e)
    <2>1. Comment(First, e)
      BY <1>4, <1>5, <1>6 DEF Comment
    <2> QED
      BY <2>1, LexemeKinds
  <1>8. ASSUME NEW u \in Kinds, NEW j \in (e + 1)..N, IsLexeme(u, First, j) PROVE FALSE
    <2>1. j \in (First + 2)..N /\ e \in First..(j - 1) /\ e < N
      BY <1>1, <1>3
    <2>2. u = "COMMENT"
      BY <1>8, <2>1, OnlyAComment
    <2>3. \A k \in First..(j - 1) : text[k] # "\n"
      BY <1>8, <2>2, LexemeKinds DEF Comment
    <2>4. text[e] = "\n"
      BY <1>1, <1>3, <1>5, <2>1
    <2> QED
      BY <2>1, <2>3, <2>4
  <1>9. to \in Int /\ e = IF to > N THEN N ELSE to
    BY <1>1, <1>2 DEF e
  <1> QED
    BY <1>1, <1>7, <1>8, <1>9, TokenLongest DEF to

(* A comment to the first asterisk and slash behind its own. *)
LEMMA BlockCommentLongest ==
  ASSUME text \in Seq(STRING), pos \in Nat, First + 1 <= N,
         text[First] = "/", text[First + 1] = "*"
  PROVE  Longest(Token("COMMENT", CommentEnd))
  <1> DEFINE to == CommentEnd
             e == IF to > N THEN N ELSE to
  <1>1. N \in Nat /\ First \in Nat /\ First >= 1 /\ pos < N
    BY DEF N, First
  <1>2. /\ to \in First..(N + 1)
        /\ to <= N => to >= First + 3 /\ text[to] = "/" /\ text[to - 1] = "*"
        /\ \A k \in (First + 3)..N : k < to => ~(text[k] = "/" /\ text[k - 1] = "*")
    BY <1>1, CommentEndBounds, CommentEndExact
  <1> HIDE DEF to
  <1>3. e \in (First + 1)..N /\ (e < N => e = to)
    BY <1>1, <1>2
  <1>4. ASSUME NEW k \in (First + 3)..(e - 1) PROVE ~(text[k] = "/" /\ text[k - 1] = "*")
    <2>1. k \in (First + 3)..N /\ k < to
      BY <1>1, <1>2, <1>3
    <2> QED
      BY <1>2, <2>1
  <1>5. (e > First + 2 /\ text[e] = "/" /\ text[e - 1] = "*") \/ e = N
    BY <1>1, <1>2, <1>3
  <1> HIDE DEF e
  <1>6. e > First
    BY <1>1, <1>3
  <1>7. IsLexeme("COMMENT", First, e)
    <2>1. Comment(First, e)
      BY <1>4, <1>5, <1>6 DEF Comment
    <2> QED
      BY <2>1, LexemeKinds
  <1>8. ASSUME NEW u \in Kinds, NEW j \in (e + 1)..N, IsLexeme(u, First, j) PROVE FALSE
    <2>1. j \in (First + 2)..N /\ e < N
      BY <1>1, <1>3
    <2>2. u = "COMMENT"
      BY <1>8, <2>1, OnlyAComment
    <2>3. \A k \in (First + 3)..(j - 1) : ~(text[k] = "/" /\ text[k - 1] = "*")
      BY <1>8, <2>2, LexemeKinds DEF Comment
    <2>4. e > First + 2 /\ text[e] = "/" /\ text[e - 1] = "*"
      BY <1>1, <1>3, <1>5, <2>1
    <2>5. e \in (First + 3)..(j - 1)
      BY <1>1, <1>3, <2>4
    <2> QED
      BY <2>3, <2>4, <2>5
  <1>9. to \in Int /\ e = IF to > N THEN N ELSE to
    BY <1>1, <1>2 DEF e
  <1> QED
    BY <1>1, <1>7, <1>8, <1>9, TokenLongest DEF to

(* What was read of an operator is its spelling, except for half of |> and of :=:
   any other beginning of an operator is an operator itself, and the shortest one
   that begins like that. *)
LEMMA OperatorRead ==
  ASSUME text \in Seq(STRING), pos \in Nat, Matching(First) # {}
  PROVE  /\ IsLexeme(OperatorType, First, OperatorEnd)
         /\ text[First] \notin Plain
  <1> DEFINE e == OperatorEnd
             t == OperatorType
             p == Patterns[t]
             l == Len(p)
             n == e - First + 1
             s == SubSeq(text, First, e)
  <1>1. N \in Nat /\ First \in Nat /\ First >= 1
    BY DEF N, First
  <1>2. e \in First..N /\ Matching(e) # {}
    BY <1>1, OperatorEndBounds
  <1>3. /\ t \in DOMAIN Patterns
        /\ l > e - First /\ SubSeq(p, 1, n) = s
        /\ \A u \in Matching(e) : l <= Len(Patterns[u])
    BY <1>2, OperatorTypeKnown DEF Matching
  <1>4. /\ p \in Seq(OperatorChars) /\ l \in {1, 2, 3}
        /\ p[1] \in OperatorChars /\ p[1] \notin Plain
        /\ l = 3 => p = <<"<", "=", ">">>
        /\ \/ p[1] \in Singles
           \/ p[1] = "|" /\ t = "OP_OR_GREATER"
           \/ p[1] = ":" /\ t = "OP_COLON_EQ"
    BY <1>3, OperatorSpelling
  <1>5. ASSUME NEW u \in DOMAIN Patterns, Patterns[u] = s, Len(s) = n PROVE p = s
    <2>1. Patterns[u] \in Seq(OperatorChars)
      BY OperatorSpelling
    <2>2. SubSeq(Patterns[u], 1, n) = s
      BY <1>5, <2>1, SubSeqFull
    <2>3. n > e - First
      BY <1>1, <1>2
    <2>4. u \in Matching(e)
      BY <1>2, <1>5, <2>2, <2>3 DEF Matching
    <2>5. l <= n
      BY <1>3, <1>5, <2>4
    <2>6. l = n
      <3> HIDE DEF l
      <3> QED
        BY <1>1, <1>2, <1>3, <1>4, <2>5
    <2>7. SubSeq(p, 1, l) = p
      BY <1>4, SubSeqFull
    <2> QED
      BY <1>3, <2>6, <2>7
  <1> HIDE DEF e, t, p, l, n, s
  <1>6. n \in Int /\ 1 <= n /\ n <= l
    BY <1>1, <1>2, <1>3, <1>4 DEF n
  <1>7. /\ s \in Seq(OperatorChars) /\ Len(s) = n
        /\ \A i \in 1..n : s[i] = p[i]
    <2>1. \A i \in 1..n : p[i] \in OperatorChars
      BY <1>4, <1>6, ElementOfSeq DEF l
    <2>2. /\ SubSeq(p, 1, n) \in Seq(OperatorChars)
          /\ Len(SubSeq(p, 1, n)) = IF 1 <= n THEN n - 1 + 1 ELSE 0
          /\ \A i \in 1..(n - 1 + 1) : SubSeq(p, 1, n)[i] = p[1 + i - 1]
      BY <1>6, <2>1, SubSeqProperties
    <2>3. n - 1 + 1 = n /\ \A i \in 1..n : 1 + i - 1 = i
      BY <1>6
    <2> QED
      BY <1>3, <1>6, <2>2, <2>3
  <1>8. text[First] = p[1]
    <2>1. \A k \in First..e : text[k] \in STRING
      BY <1>1, <1>2 DEF N
    <2>2. \A i \in 1..(e - First + 1) : s[i] = text[First + i - 1]
      BY <1>1, <1>2, <2>1, SubSeqProperties DEF s
    <2>3. 1 \in 1..(e - First + 1) /\ First + 1 - 1 = First /\ 1 \in 1..n
      BY <1>1, <1>2, <1>6 DEF n
    <2> QED
      BY <1>7, <2>2, <2>3
  <1>9. \/ p = s
        \/ s = <<"|">> /\ t = "OP_OR_GREATER"
        \/ s = <<":">> /\ t = "OP_COLON_EQ"
    <2>1. CASE n = l
      <3>1. SubSeq(p, 1, l) = p
        BY <1>4, SubSeqFull DEF l
      <3> QED
        BY <1>3, <2>1, <3>1
    <2>2. CASE n = 1
      <3>1. s = <<p[1]>>
        BY <1>4, <1>7, <2>2
      <3>2. CASE p[1] \in Singles
        <4>1. PICK u \in DOMAIN Patterns : Patterns[u] = <<p[1]>>
          BY <3>2, PatternTable
        <4> QED
          BY <1>5, <1>7, <3>1, <4>1
      <3> QED
        BY <1>4, <3>1, <3>2
    <2>3. CASE n = 2 /\ l = 3
      <3>1. p[1] = "<" /\ p[2] = "="
        BY <1>4, <2>3
      <3>2. s = <<"<", "=">>
        BY <1>4, <1>7, <2>3, <3>1
      <3>3. PICK u \in DOMAIN Patterns : Patterns[u] = <<"<", "=">>
        BY PatternTable
      <3> QED
        BY <1>5, <1>7, <3>2, <3>3
    <2> QED
      BY <1>4, <1>6, <2>1, <2>2, <2>3
  <1>10. IsLexeme(t, First, e)
    BY <1>3, <1>9, LexemeKinds DEF s, p
  <1> QED
    BY <1>4, <1>8, <1>10 DEF e, t

(* No longer operator begins there, and no comment. *)
LEMMA OperatorLongest ==
  ASSUME text \in Seq(STRING), pos \in Nat, Matching(First) # {},
         First + 1 <= N /\ text[First] = "/" => text[First + 1] \notin {"/", "*"}
  PROVE  Longest(Token(OperatorType, OperatorEnd))
  <1> DEFINE e == OperatorEnd
  <1>1. N \in Nat /\ First \in Nat /\ First >= 1
    BY DEF N, First
  <1>2. e \in First..N /\ Matching(e + 1) = {}
    BY <1>1, OperatorEndBounds
  <1>3. IsLexeme(OperatorType, First, e) /\ text[First] \notin Plain
    BY OperatorRead
  <1> HIDE DEF e
  <1>4. ASSUME NEW u \in Kinds, NEW j \in (e + 1)..N, IsLexeme(u, First, j) PROVE FALSE
    <2>1. j \in First..N /\ j > First /\ e + 1 \in First..j /\ First + 1 <= N
      BY <1>1, <1>2
    <2>2. u = "COMMENT" \/ u \in DOMAIN Patterns
      BY <1>1, <1>3, <1>4, <2>1, LexemeStarts
    <2>3. CASE u = "COMMENT"
      <3>1. text[First] = "/" /\ text[First + 1] \in {"/", "*"}
        BY <1>4, <2>3, LexemeKinds DEF Comment
      <3> QED
        BY <2>1, <3>1
    <2>4. CASE u \in DOMAIN Patterns
      <3> DEFINE s == SubSeq(text, First, j)
                 n == ((e + 1) - First) + 1
      <3>1. s \in Seq(STRING) /\ Len(s) = j - First + 1
        <4>1. \A k \in First..j : text[k] \in STRING
          BY <1>1, <2>1 DEF N
        <4>2. s \in Seq(STRING) /\ Len(s) = IF First <= j THEN j - First + 1 ELSE 0
          BY <1>1, <2>1, <4>1, SubSeqProperties
        <4> QED
          BY <1>1, <2>1, <4>2
      <3>2. s = Patterns[u] \/ s = <<"|">> \/ s = <<":">>
        BY <1>4, <2>4, LexemeKinds
      <3>3. SubSeq(s, 1, n) = SubSeq(text, First, e + 1)
        <4>1. n \in 1..(j - First + 1) /\ 1 \in 1..(j - First + 1)
          BY <1>1, <1>2, <2>1
        <4>2. First \in 1..Len(text) /\ j \in 1..Len(text)
          BY <1>1, <2>1 DEF N
        <4>3. SubSeq(s, 1, n) = SubSeq(text, First + 1 - 1, First + n - 1)
          BY <4>1, <4>2, SubSeqOfSubSeq
        <4>4. First + 1 - 1 = First /\ First + n - 1 = e + 1
          BY <1>1, <1>2
        <4> QED
          BY <4>3, <4>4
      <3> HIDE DEF s
      <3>4. s = Patterns[u]
        <4>1. Len(s) # 1
          BY <1>1, <2>1, <3>1
        <4>2. Len(<<"|">>) = 1 /\ Len(<<":">>) = 1
          OBVIOUS
        <4> QED
          BY Zenon, <3>2, <4>1, <4>2
      <3>5. Len(Patterns[u]) > (e + 1) - First /\ e + 1 <= N
        BY <1>1, <1>2, <2>1, <3>1, <3>4
      <3>6. u \in Matching(e + 1)
        BY Zenon, <2>4, <3>3, <3>4, <3>5 DEF Matching
      <3> QED
        BY <1>2, <3>6
    <2> QED
      BY <2>2, <2>3, <2>4
  <1>5. e \in Int /\ e = IF e > N THEN N ELSE e
    BY <1>1, <1>2
  <1> QED
    BY <1>1, <1>3, <1>4, <1>5, TokenLongest DEF e
-----------------------------------------------------------------------------
(* The invariant of the theorem: every token that was given is a longest lexeme. *)
AllLongest == \A i \in 1..Len(tokens) : Longest(tokens[i])

(* Reading one more such token keeps it: which lexemes there are is a matter of
   the text, and that does not change. *)
LEMMA ReadLongest ==
  ASSUME IInv, AllLongest, NEW type, NEW to, Read(type, to), Longest(Token(type, to))
  PROVE  AllLongest'
  <1> DEFINE n == Len(tokens)
  <1>1. text' = text
    BY DEF Read
  <1>2. tokens \in Seq(TokenSet) /\ n \in Nat
    BY DEF IInv, ReadSoFar
  <1>3. PICK tk : tk = Token(type, to)
    OBVIOUS
  <1>4. tokens' = Append(tokens, tk)
    BY <1>3 DEF Read
  <1>5. /\ Len(tokens') = n + 1 /\ tokens'[n + 1] = tk
        /\ \A i \in 1..n : tokens'[i] = tokens[i]
    BY <1>2, <1>4
  <1>6. ASSUME NEW i \in 1..(n + 1), NEW t, t = tokens'[i] PROVE Longest(t)
    <2>1. CASE i = n + 1
      BY <1>3, <1>5, <1>6, <2>1
    <2>2. CASE i # n + 1
      <3>1. i \in 1..n
        BY <1>2, <2>2
      <3>2. t = tokens[i]
        BY <1>5, <1>6, <3>1
      <3> QED
        BY <3>1, <3>2 DEF AllLongest
    <2> QED
      BY <2>1, <2>2
  <1>7. ASSUME NEW i \in 1..Len(tokens') PROVE Longest(tokens[i])'
    <2>1. PICK t : t = tokens'[i]
      OBVIOUS
    <2>2. Longest(t)'
      BY <1>1, <1>5, <1>6, <2>1, LongestSame
    <2> QED
      BY <2>1, <2>2
  <1> QED
    BY <1>7 DEF AllLongest

(* Every action that reads a token reads a longest lexeme. *)
LEMMA StepLongest == IInv /\ AllLongest /\ [Next]_vars => AllLongest'
  <1> SUFFICES ASSUME IInv, AllLongest, [Next]_vars PROVE AllLongest'
    OBVIOUS
  <1>1. /\ text \in Seq(STRING) /\ N \in Nat /\ pos \in Nat /\ pos <= N
        /\ First = pos + 1
    <2>1. text \in Seq(STRING) /\ pos \in 0..N
      BY DEF IInv, ReadSoFar, TypeOK
    <2>2. N \in Nat
      BY <2>1 DEF N
    <2> QED
      BY <2>1, <2>2 DEF First
  <1>2. ASSUME NEW chars, "eof" \notin chars, Lexing(chars)
        PROVE  pos < N /\ text[First] \in chars
    BY <1>1, <1>2 DEF Lexing, Char
  <1>3. "eof" \notin Spaces /\ "eof" \notin Digits /\ "eof" \notin NameStarts /\ "eof" # Quote
    BY Zenon DEF Spaces, Digits, NameStarts, Letters, Quote
  <1>4. CASE Whitespace
    BY <1>1, <1>2, <1>3, <1>4, WhitespaceLongest, ReadLongest DEF Whitespace
  <1>5. CASE String
    <2>1. Lexing({Quote}) /\ Read("STRING", First)
      BY Zenon, <1>5 DEF String, Quote
    <2>2. pos < N /\ text[First] = Quote
      BY <1>2, <1>3, <2>1
    <2> QED
      BY <1>1, <2>1, <2>2, StringLongest, ReadLongest
  <1>6. CASE LineComment
    <2>1. pos < N /\ text[First] = "/"
      BY <1>2, <1>6 DEF LineComment
    <2>2. First + 1 <= N /\ text[First + 1] = "/"
      BY <1>1, <1>6 DEF LineComment, Char
    <2> QED
      BY <1>1, <1>6, <2>1, <2>2, LineCommentLongest, ReadLongest DEF LineComment
  <1>7. CASE BlockComment
    <2>1. pos < N /\ text[First] = "/"
      BY <1>2, <1>7 DEF BlockComment
    <2>2. First + 1 <= N /\ text[First + 1] = "*"
      BY <1>1, <1>7 DEF BlockComment, Char
    <2> QED
      BY <1>1, <1>7, <2>1, <2>2, BlockCommentLongest, ReadLongest DEF BlockComment
  <1>8. CASE Number
    BY <1>1, <1>2, <1>3, <1>8, NumberLongest, ReadLongest DEF Number
  <1>9. CASE Name
    <2>1. Lexing(NameStarts) /\ Read("NAME", NameEnd)
      BY Zenon, <1>9 DEF Name, NameStarts
    <2>2. pos < N /\ text[First] \in NameStarts
      BY <1>2, <1>3, <2>1
    <2> QED
      BY <1>1, <2>1, <2>2, NameLongest, ReadLongest
  <1>10. CASE Operator
    <2>1. /\ Char(First) = "/" => Char(First + 1) \notin {"/", "*"}
          /\ Matching(First) # {} /\ Read(OperatorType, OperatorEnd)
      BY Zenon, <1>10 DEF Operator
    <2>2. First + 1 <= N /\ text[First] = "/" => text[First + 1] \notin {"/", "*"}
      BY <1>1, <2>1 DEF Char
    <2> QED
      BY <1>1, <2>1, <2>2, OperatorLongest, ReadLongest
  <1>11. CASE Character \/ End \/ UNCHANGED vars
    <2>1. text' = text /\ tokens' = tokens
      BY Zenon, <1>11 DEF Character, End, vars
    <2>2. ASSUME NEW i \in 1..Len(tokens') PROVE Longest(tokens[i])'
      <3>1. PICK t : t = tokens'[i]
        OBVIOUS
      <3>2. Longest(t)
        BY <2>1, <3>1 DEF AllLongest
      <3>3. Longest(t)'
        BY <2>1, <3>2, LongestSame
      <3> QED
        BY <3>1, <3>3
    <2> QED
      BY <2>2 DEF AllLongest
  <1> QED
    BY <1>4, <1>5, <1>6, <1>7, <1>8, <1>9, <1>10, <1>11 DEF Next

(* get_token cuts the stream into the longest lexemes: each token is a lexeme of
   its kind, and no longer lexeme of any kind starts where it does. *)
THEOREM TokensAreLongest == Spec => []LongestLexemes
  <1>1. Init => AllLongest
    <2> SUFFICES ASSUME Init PROVE AllLongest
      OBVIOUS
    <2>1. Len(tokens) = 0
      BY DEF Init
    <2> QED
      BY <2>1 DEF AllLongest
  <1>2. IInv /\ AllLongest => LongestLexemes
    <2> SUFFICES ASSUME IInv, AllLongest PROVE LongestLexemes
      OBVIOUS
    <2>1. Consecutive
      BY DEF IInv
    <2>2. ASSUME NEW i \in 1..Len(tokens)
          PROVE  /\ IsLexeme(tokens[i].type, tokens[i].first, tokens[i].last)
                 /\ \A u \in Kinds, j \in (tokens[i].last + 1)..N :
                      ~IsLexeme(u, tokens[i].first, j)
      BY DEF AllLongest, Longest
    <2> QED
      BY <2>1, <2>2 DEF LongestLexemes
  <1> QED
    BY Invariant, StepLongest, <1>1, <1>2, PTL DEF Spec
=============================================================================
