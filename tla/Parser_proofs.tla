--------------------------- MODULE Parser_proofs ---------------------------
(***************************************************************************)
(* Theorems of Parser for any set of token streams: its types, that the    *)
(* stack stays sorted, that no token is lost, that only an unmatched       *)
(* closing token leads to undefined behavior; and that every expression of *)
(* the grammar, however high its tree, comes out in postfix order.         *)
(*                                                                         *)
(* The last one goes along the trees.  An expression is Sound if the       *)
(* parser, wherever it meets the expression's tokens in a stream, leaves   *)
(* two parts of its tree: what is out already, and on the stack the        *)
(* operators of its right edge, none of which binds weaker than the        *)
(* operator on top.  Whatever comes next pops all of them or none, and     *)
(* each way to make an expression of others makes a sound one of sound     *)
(* ones.                                                                   *)
(***************************************************************************)
EXTENDS Syntax, Extrema, SequenceTheorems

-----------------------------------------------------------------------------
(* What parse_token needs of a stack and keeps: StackSorted and the types, of
   any state s. *)
Typed(st)  == \A k \in 1..Len(st) : IsGroup(st[k]) \/ HasArity(st[k].type, st[k].arity)
Above(item, op) == UseOf(op).prec < UseOf(item).prec
                     \/ (UseOf(op).prec = UseOf(item).prec /\ UseOf(op).assoc = "RIGHT")
Sorted(st) == \A k \in 2..Len(st) : ~IsGroup(st[k]) /\ ~IsGroup(st[k-1]) => Above(st[k-1], st[k])

Shape(s) == /\ s.stack \in Seq(Items) /\ s.rpn \in Seq(Items)
            /\ Typed(s.stack) /\ Sorted(s.stack)

(* The openings on the stack. *)
Opened(s) == Cardinality(Groups(s.stack))

(* The openings on a stack are finitely many. *)
LEMMA GroupsFinite ==
  ASSUME NEW st \in Seq(Items)
  PROVE  IsFiniteSet(Groups(st)) /\ Groups(st) \in SUBSET (1..Len(st)) /\ Cardinality(Groups(st)) \in Nat
  <1>1. Groups(st) \in SUBSET (1..Len(st)) /\ Len(st) \in Int
    BY DEF Groups
  <1>2. IsFiniteSet(1..Len(st))
    BY <1>1, FS_Interval
  <1>3. IsFiniteSet(Groups(st))
    BY <1>1, <1>2, FS_Subset
  <1> QED
    BY <1>1, <1>3, FS_CardinalityType

(* Keep is the last of the places that stay, 0 where none does. *)
LEMMA KeepIsLast ==
  ASSUME NEW n \in Nat, NEW staying \in SUBSET (1..n)
  PROVE  /\ Keep(staying) \in 0..n
         /\ Keep(staying) # 0 => Keep(staying) \in staying
         /\ \A j \in staying : j <= Keep(staying)
         /\ staying # {} => Keep(staying) # 0
  <1>1. \E k \in staying \cup {0} : \A j \in staying : j <= k
    <2>1. CASE staying = {}
      BY <2>1
    <2>2. CASE staying # {}
      <3>1. IsFiniteSet(staying) /\ staying \in SUBSET Int
        <4>1. IsFiniteSet(1..n) /\ staying \in SUBSET Int
          BY FS_Interval
        <4>2. IsFiniteSet(staying)
          BY <4>1, FS_Subset
        <4> QED
          BY <4>1, <4>2
      <3> QED
        BY <2>2, <3>1, Maximum
    <2> QED
      BY <2>1, <2>2
  <1>2. Keep(staying) \in staying \cup {0} /\ \A j \in staying : j <= Keep(staying)
    BY <1>1 DEF Keep
  <1>3. Keep(staying) \in 0..n /\ (Keep(staying) # 0 => Keep(staying) \in staying)
    <2>1. \A j \in staying \cup {0} : j \in 0..n
      OBVIOUS
    <2> QED
      BY <1>2, <2>1
  <1>4. ASSUME NEW j \in staying PROVE Keep(staying) # 0
    <2>1. j \in 1..n /\ j <= Keep(staying)
      BY <1>2
    <2> QED
      BY <2>1
  <1> QED
    BY <1>2, <1>3, <1>4

(* Popping down to a place that all openings are at or below keeps the shape. *)
LEMMA PoppedKeeps ==
  ASSUME NEW s, Shape(s), NEW keep \in 0..Len(s.stack), Groups(s.stack) \subseteq 1..keep
  PROVE  /\ Shape(Popped(s, keep)) /\ Len(Popped(s, keep).stack) = keep
         /\ \A k \in 1..keep : Popped(s, keep).stack[k] = s.stack[k]
         /\ Groups(Popped(s, keep).stack) = Groups(s.stack)
  <1> DEFINE n == Len(s.stack)
             low == SubSeq(s.stack, 1, keep)
             high == SubSeq(s.stack, keep + 1, n)
  <1>1. n \in Nat /\ keep \in 0..n /\ s.stack \in Seq(Items) /\ s.rpn \in Seq(Items)
    BY DEF Shape
  <1>2. low \in Seq(Items) /\ Len(low) = keep /\ \A k \in 1..keep : low[k] = s.stack[k]
    BY <1>1
  <1>3. high \in Seq(Items) /\ Len(high) = n - keep
    BY <1>1
  <1> HIDE DEF low, high
  <1>4. Reversed(high) \in Seq(Items) /\ Len(Reversed(high)) = n - keep
    BY <1>1, <1>3 DEF Reversed
  <1>5. Popped(s, keep).stack = low /\ Popped(s, keep).rpn = s.rpn \o Reversed(high)
    BY DEF Popped, State, low, high
  <1> DEFINE out == s.rpn \o Reversed(high)
  <1>6. out \in Seq(Items) /\ Len(out) = Len(s.rpn) + Len(Reversed(high))
    BY <1>1, <1>4, ConcatProperties
  <1> HIDE DEF out, n
  <1>7. Typed(low)
    BY <1>1, <1>2 DEF Shape, Typed
  <1>8. Sorted(low)
    <2> SUFFICES ASSUME NEW k \in 2..keep, ~IsGroup(low[k]), ~IsGroup(low[k - 1])
                 PROVE  Above(low[k - 1], low[k])
      BY <1>2 DEF Sorted
    <2>1. k \in 2..n /\ low[k] = s.stack[k] /\ low[k - 1] = s.stack[k - 1]
      BY <1>1, <1>2
    <2> QED
      BY <2>1 DEF Shape, Sorted, n
  <1>9. Groups(low) = Groups(s.stack)
    BY <1>1, <1>2 DEF Groups
  <1>10. Popped(s, keep).stack = low /\ Popped(s, keep).rpn = out
    BY <1>5 DEF out
  <1>11. Shape(Popped(s, keep))
    BY <1>2, <1>6, <1>7, <1>8, <1>10 DEF Shape
  <1> QED
    BY <1>2, <1>9, <1>10, <1>11

(* Pushing an item that is an opening, or that binds tighter than the operator
   below it, keeps the shape. *)
LEMMA PushKeeps ==
  ASSUME NEW st \in Seq(Items), Typed(st), Sorted(st), NEW item \in Items,
         IsGroup(item) \/ HasArity(item.type, item.arity),
         ~IsGroup(item) /\ st # <<>> /\ ~IsGroup(st[Len(st)]) => Above(st[Len(st)], item)
  PROVE  /\ Append(st, item) \in Seq(Items)
         /\ Typed(Append(st, item)) /\ Sorted(Append(st, item))
         /\ IsGroup(item) => Groups(Append(st, item)) = Groups(st) \cup {Len(st) + 1}
         /\ ~IsGroup(item) => Groups(Append(st, item)) = Groups(st)
  <1> DEFINE new == Append(st, item)
             n == Len(st)
  <1>1. /\ n \in Nat /\ new \in Seq(Items) /\ Len(new) = n + 1 /\ new[n + 1] = item
        /\ \A k \in 1..n : new[k] = st[k]
        /\ st # <<>> <=> n # 0
    OBVIOUS
  <1> HIDE DEF new, n
  <1>2. Typed(new)
    <2> SUFFICES ASSUME NEW k \in 1..(n + 1) PROVE IsGroup(new[k]) \/ HasArity(new[k].type, new[k].arity)
      BY <1>1 DEF Typed
    <2>1. CASE k \in 1..n
      BY <1>1, <2>1 DEF Typed, n
    <2>2. CASE k = n + 1
      BY <1>1, <2>2
    <2> QED
      BY <1>1, <2>1, <2>2
  <1>3. Sorted(new)
    <2> SUFFICES ASSUME NEW k \in 2..(n + 1), ~IsGroup(new[k]), ~IsGroup(new[k - 1])
                 PROVE  Above(new[k - 1], new[k])
      BY <1>1 DEF Sorted
    <2>1. CASE k \in 2..n
      <3>1. new[k] = st[k] /\ new[k - 1] = st[k - 1]
        BY <1>1, <2>1
      <3> QED
        BY <2>1, <3>1 DEF Sorted, n
    <2>2. CASE k = n + 1
      <3>1. n # 0 /\ k - 1 = n /\ new[k - 1] = st[n] /\ new[k] = item
        BY <1>1, <2>2
      <3> QED
        BY <1>1, <3>1 DEF n
    <2> QED
      BY <1>1, <2>1, <2>2
  <1>4. Groups(new) = {k \in 1..n : IsGroup(st[k])} \cup {k \in {n + 1} : IsGroup(item)}
    <2>1. 1..(n + 1) = (1..n) \cup {n + 1}
      BY <1>1
    <2> QED
      BY <1>1, <2>1 DEF Groups
  <1> QED
    BY <1>1, <1>2, <1>3, <1>4 DEF Groups, new, n

(* What is put on the output is not on the stack. *)
LEMMA OutputKeeps ==
  ASSUME NEW st, NEW out, NEW item \in Items, Shape(State(st, out))
  PROVE  Shape(State(st, Append(out, item)))
  <1>1. State(st, out).stack = st /\ State(st, out).rpn = out
    BY DEF State
  <1>2. State(st, Append(out, item)).stack = st /\ State(st, Append(out, item)).rpn = Append(out, item)
    BY DEF State
  <1>3. out \in Seq(Items) /\ st \in Seq(Items)
    BY <1>1 DEF Shape
  <1>4. Append(out, item) \in Seq(Items)
    BY <1>3
  <1> QED
    BY <1>1, <1>2, <1>4 DEF Shape

(* Putting an operator keeps the shape and opens nothing. *)
LEMMA PutOperatorKeeps ==
  ASSUME NEW s, Shape(s), NEW op \in Items, ~IsGroup(op), HasArity(op.type, op.arity)
  PROVE  /\ Shape(PutOperator(s, op))
         /\ Groups(PutOperator(s, op).stack) = Groups(s.stack)
  <1> DEFINE staying == Outlasting(s.stack, op)
             keep == Keep(staying)
             p == Popped(s, keep)
  <1>1. Len(s.stack) \in Nat /\ staying \in SUBSET (1..Len(s.stack))
    BY DEF Shape, Outlasting
  <1>2. /\ keep \in 0..Len(s.stack)
        /\ keep # 0 => keep \in staying
        /\ \A j \in staying : j <= keep
    BY <1>1, KeepIsLast
  <1>3. Groups(s.stack) \subseteq 1..keep
    <2>1. Groups(s.stack) \subseteq staying
      BY DEF Groups, Outlasting, Outlasts
    <2> HIDE DEF staying, keep
    <2>2. \A j \in staying : j \in 1..keep
      BY <1>1, <1>2
    <2> QED
      BY <2>1, <2>2
  <1>4. /\ Shape(p) /\ Len(p.stack) = keep /\ Groups(p.stack) = Groups(s.stack)
        /\ \A k \in 1..keep : p.stack[k] = s.stack[k]
    <2> HIDE DEF keep
    <2> QED
      BY <1>2, <1>3, PoppedKeeps
  <1>5. p = State(p.stack, p.rpn)
    BY DEF Popped, State
  <1>6. keep # 0 => IsGroup(s.stack[keep]) \/ Above(s.stack[keep], op)
    <2>1. keep # 0 => Outlasts(s.stack[keep], op)
      <3> HIDE DEF keep
      <3> QED
        BY <1>2 DEF Outlasting
    <2> QED
      BY <2>1 DEF Outlasts, Above
  <1> HIDE DEF p, keep, staying
  <1>7. PutOperator(s, op) = IF op.arity = "RUNARY" THEN State(p.stack, Append(p.rpn, op))
                             ELSE State(Append(p.stack, op), p.rpn)
    BY DEF PutOperator, p, keep, staying
  <1>8. CASE op.arity = "RUNARY"
    <2>1. PutOperator(s, op) = State(p.stack, Append(p.rpn, op))
      BY <1>7, <1>8
    <2>2. Shape(State(p.stack, p.rpn))
      BY <1>4, <1>5
    <2>3. State(p.stack, Append(p.rpn, op)).stack = p.stack
      BY DEF State
    <2> QED
      BY <1>4, <2>1, <2>2, <2>3, OutputKeeps
  <1>9. CASE op.arity # "RUNARY"
    <2> DEFINE new == Append(p.stack, op)
    <2>1. PutOperator(s, op).stack = new /\ PutOperator(s, op).rpn = p.rpn
      BY <1>7, <1>9 DEF State
    <2>2. p.stack \in Seq(Items) /\ p.rpn \in Seq(Items) /\ Typed(p.stack) /\ Sorted(p.stack)
      BY <1>4 DEF Shape
    <2>3. p.stack # <<>> => keep # 0 /\ p.stack[Len(p.stack)] = s.stack[keep]
      BY <1>2, <1>4, <2>2
    <2>4. /\ new \in Seq(Items) /\ Typed(new) /\ Sorted(new) /\ Groups(new) = Groups(p.stack)
      BY <1>6, <2>2, <2>3, PushKeeps
    <2> HIDE DEF new
    <2>6. Shape(PutOperator(s, op))
      BY <2>1, <2>2, <2>4 DEF Shape
    <2> QED
      BY <1>4, <1>5, <2>1, <2>4, <2>6
  <1> QED
    BY <1>8, <1>9

(* A value leaves the stack alone. *)
LEMMA PutValueKeeps ==
  ASSUME NEW s, Shape(s), NEW item \in Items
  PROVE  Shape(PutValue(s, item)) /\ PutValue(s, item).stack = s.stack
  <1>1. PutValue(s, item).stack = s.stack /\ PutValue(s, item).rpn = Append(s.rpn, item)
    BY DEF PutValue, State
  <1>2. Append(s.rpn, item) \in Seq(Items)
    BY DEF Shape
  <1> QED
    BY <1>1, <1>2 DEF Shape

(* An opening is one more on the stack. *)
LEMMA PutLGroupKeeps ==
  ASSUME NEW s, Shape(s), NEW item \in Items, IsGroup(item)
  PROVE  /\ Shape(PutLGroup(s, item))
         /\ Opened(PutLGroup(s, item)) = Opened(s) + 1
  <1> DEFINE new == Append(s.stack, item)
             out == Append(s.rpn, item)
             n == Len(s.stack)
  <1>1. PutLGroup(s, item).stack = new /\ PutLGroup(s, item).rpn = out
    BY DEF PutLGroup, State
  <1>2. s.stack \in Seq(Items) /\ s.rpn \in Seq(Items) /\ Typed(s.stack) /\ Sorted(s.stack)
    BY DEF Shape
  <1>3. new \in Seq(Items) /\ Typed(new) /\ Sorted(new) /\ Groups(new) = Groups(s.stack) \cup {n + 1}
    BY <1>2, PushKeeps
  <1>4. n \in Nat /\ out \in Seq(Items)
    BY <1>2
  <1>6. IsFiniteSet(Groups(s.stack)) /\ Groups(s.stack) \in SUBSET (1..n)
    BY <1>2, GroupsFinite
  <1> HIDE DEF n, new, out
  <1>7. n + 1 \notin Groups(s.stack)
    BY <1>4, <1>6
  <1>8. Cardinality(Groups(new)) = Cardinality(Groups(s.stack)) + 1
    BY <1>3, <1>6, <1>7, FS_AddElement
  <1>9. Shape(PutLGroup(s, item))
    BY <1>1, <1>3, <1>4 DEF Shape
  <1> QED
    BY <1>1, <1>8, <1>9 DEF Opened

(* A closing takes the last opening off the stack. *)
LEMMA PutRGroupKeeps ==
  ASSUME NEW s, Shape(s), NEW item \in Items, Groups(s.stack) # {}
  PROVE  /\ Shape(PutRGroup(s, item))
         /\ Opened(PutRGroup(s, item)) = Opened(s) - 1
  <1> DEFINE keep == Keep(Groups(s.stack))
             p == Popped(s, keep)
             low == SubSeq(p.stack, 1, keep - 1)
             out == Append(p.rpn, item)
  <1>1. /\ s.stack \in Seq(Items) /\ Len(s.stack) \in Nat
        /\ Groups(s.stack) \in SUBSET (1..Len(s.stack)) /\ IsFiniteSet(Groups(s.stack))
    BY GroupsFinite DEF Shape
  <1>2. /\ keep \in 1..Len(s.stack) /\ keep \in Groups(s.stack)
        /\ \A j \in Groups(s.stack) : j <= keep
    BY <1>1, KeepIsLast
  <1>3. Shape(p) /\ Len(p.stack) = keep /\ Groups(p.stack) = Groups(s.stack)
    <2> HIDE DEF keep
    <2>1. Groups(s.stack) \subseteq 1..keep /\ keep \in 0..Len(s.stack)
      BY <1>1, <1>2
    <2> QED
      BY <2>1, PoppedKeeps
  <1>4. PutRGroup(s, item).stack = low /\ PutRGroup(s, item).rpn = out
    BY <1>3 DEF PutRGroup, State
  <1> HIDE DEF keep, p
  <1>5. /\ p.stack \in Seq(Items) /\ p.rpn \in Seq(Items) /\ Typed(p.stack) /\ Sorted(p.stack)
        /\ keep \in Nat \ {0}
    BY <1>1, <1>2, <1>3 DEF Shape
  <1>6. low \in Seq(Items) /\ Len(low) = keep - 1 /\ \A k \in 1..(keep - 1) : low[k] = p.stack[k]
    BY <1>3, <1>5
  <1>7. out \in Seq(Items)
    BY <1>5
  <1> HIDE DEF low, out
  <1>8. Typed(low)
    BY <1>3, <1>5, <1>6 DEF Typed
  <1>9. Sorted(low)
    <2> SUFFICES ASSUME NEW k \in 2..(keep - 1), ~IsGroup(low[k]), ~IsGroup(low[k - 1])
                 PROVE  Above(low[k - 1], low[k])
      BY <1>5, <1>6 DEF Sorted
    <2>1. k \in 2..keep /\ low[k] = p.stack[k] /\ low[k - 1] = p.stack[k - 1]
      BY <1>5, <1>6
    <2> QED
      BY <1>3, <1>5, <2>1 DEF Sorted
  <1>10. Groups(low) = Groups(s.stack) \ {keep}
    <2>1. 1..(keep - 1) = (1..keep) \ {keep}
      BY <1>5
    <2>2. Groups(low) = {k \in 1..(keep - 1) : IsGroup(p.stack[k])}
      BY <1>6 DEF Groups
    <2>3. Groups(p.stack) = {k \in 1..keep : IsGroup(p.stack[k])}
      BY <1>3 DEF Groups
    <2> QED
      BY <1>3, <2>1, <2>2, <2>3
  <1>11. Cardinality(Groups(low)) = Cardinality(Groups(s.stack)) - 1
    BY <1>1, <1>2, <1>10, FS_RemoveElement
  <1>12. Shape(PutRGroup(s, item))
    BY <1>4, <1>6, <1>7, <1>8, <1>9 DEF Shape
  <1> QED
    BY <1>4, <1>11, <1>12 DEF Opened

-----------------------------------------------------------------------------
(* What the table says of the kinds of tokens: they are apart, and a CALL is a
   binary operator. *)
LEMMA KindsApart ==
  /\ Operators \cap (LGroups \cup RGroups \cup Values) = {}
  /\ LGroups \cap (RGroups \cup Values) = {} /\ RGroups \cap Values = {}
  /\ Markers \cap (LGroups \cup RGroups \cup Values) = {}
  /\ HasArity("CALL", "BINARY")
  <1>1. DOMAIN Specs =
          { "CALL", "OP_PLUS_PLUS", "OP_MINUS_MINUS", "OP_DOT", "OP_OR_GREATER", "OP_PLUS",
            "OP_MINUS", "OP_BANG", "OP_STAR_STAR", "OP_STAR", "OP_SLASH", "OP_PERCENT",
            "OP_LESS_EQ_GREATER", "OP_LESS", "OP_LESS_EQ", "OP_GREATER", "OP_GREATER_EQ",
            "OP_EQ_EQ", "OP_BANG_EQ", "OP_EQ", "OP_COLON_EQ", "OP_PLUS_EQ", "OP_MINUS_EQ",
            "OP_STAR_EQ", "OP_SLASH_EQ", "OP_PERCENT_EQ", "OP_COMMA", "OP_SEMICOLON" }
    BY DEF Specs
  <1>2. Specs.CALL = LeftBinary(2)
    BY DEF Specs
  <1>3. \E u \in LeftBinary(2) : u.arity = "BINARY"
    BY DEF LeftBinary, Use
  <1>4. HasArity("CALL", "BINARY")
    BY <1>1, <1>2, <1>3 DEF HasArity, Operators
  <1> QED
    BY <1>1, <1>4 DEF Operators, LGroups, RGroups, Values, Markers

(* The inductive invariant: prev is the token before, and while the parser
   parses the openings on the stack are those that no closing has met. *)
ReadSoFar == prev = IF pos = 0 THEN "START" ELSE input[pos]

Balanced ==
  status = "parsing" =>
    Cardinality(Groups(stack)) + Count(RGroups, pos) = Count(LGroups, pos)

IInv == TypeOK /\ StackSorted /\ UndefinedOnlyUnmatched /\ ReadSoFar /\ Balanced

(* 1 where c holds. *)
One(c) == IF c THEN 1 ELSE 0

(* Reading one more token counts it where it belongs. *)
LEMMA CountNext ==
  ASSUME NEW set, NEW n \in Nat
  PROVE  Count(set, n) \in Nat /\ Count(set, n + 1) = Count(set, n) + One(input[n + 1] \in set)
  <1> DEFINE A == {i \in 1..n : input[i] \in set}
  <1>1. IsFiniteSet(A) /\ n + 1 \notin A
    <2>1. IsFiniteSet(1..n) /\ A \in SUBSET (1..n)
      BY FS_Interval
    <2>2. IsFiniteSet(A)
      BY <2>1, FS_Subset
    <2> QED
      BY <2>1, <2>2
  <1>2. {i \in 1..(n + 1) : input[i] \in set} = IF input[n + 1] \in set THEN A \cup {n + 1} ELSE A
    <2>1. 1..(n + 1) = (1..n) \cup {n + 1}
      OBVIOUS
    <2> QED
      BY <2>1
  <1> HIDE DEF A
  <1>3. Cardinality(A) \in Nat /\ Cardinality(A \cup {n + 1}) = Cardinality(A) + 1
    BY <1>1, FS_CardinalityType, FS_AddElement
  <1>4. Count(set, n) = Cardinality(A)
    BY DEF Count, A
  <1>5. Count(set, n + 1) = IF input[n + 1] \in set THEN Cardinality(A) + 1 ELSE Cardinality(A)
    BY <1>2, <1>3 DEF Count
  <1> QED
    BY <1>3, <1>4, <1>5 DEF One

(* The state before the step. *)
Here == State(stack, rpn)

(* It has the shape that parse_token needs. *)
LEMMA HereKnown ==
  ASSUME IInv
  PROVE  /\ Shape(Here) /\ Here.stack = stack /\ Here.rpn = rpn
         /\ pos \in Nat /\ input \in Seq(Types \ Markers) /\ Len(input) \in Nat
  <1>1. Here.stack = stack /\ Here.rpn = rpn
    BY DEF Here, State
  <1>2. stack \in Seq(Items) /\ rpn \in Seq(Items) /\ Typed(stack)
    BY DEF IInv, TypeOK, Typed
  <1>3. Sorted(stack)
    BY DEF IInv, StackSorted, Sorted, Above
  <1>4. input \in Seq(Types \ Markers)
    BY InputsAssumption DEF IInv, TypeOK
  <1>5. pos \in Nat /\ Len(input) \in Nat
    BY <1>4 DEF IInv, TypeOK
  <1> QED
    BY <1>1, <1>2, <1>3, <1>4, <1>5 DEF Shape

(* A step that reads a token keeps the invariant if it opens and closes what it
   reads. *)
LEMMA Advance ==
  ASSUME IInv, NEW t, Reading(t), status' = "parsing", NEW s, Shape(s), Becomes(s),
         Opened(s) + One(t \in RGroups) = Opened(Here) + One(t \in LGroups)
  PROVE  IInv'
  <1>1. /\ Shape(Here) /\ Here.stack = stack /\ Here.rpn = rpn
        /\ pos \in Nat /\ input \in Seq(Types \ Markers) /\ Len(input) \in Nat
    BY HereKnown
  <1>2. /\ status = "parsing" /\ pos < Len(input) /\ t = input[pos + 1]
        /\ pos' = pos + 1 /\ prev' = t /\ input' = input
        /\ stack' = s.stack /\ rpn' = s.rpn
    BY DEF Reading, Becomes
  <1>3. t \in Types
    BY <1>1, <1>2
  <1>4. TypeOK'
    <2>1. pos' \in 0..Len(input') /\ input' \in Inputs /\ prev' \in Types
      BY <1>1, <1>2, <1>3 DEF IInv, TypeOK
    <2>2. /\ stack' \in Seq(Items) /\ rpn' \in Seq(Items)
          /\ \A k \in 1..Len(stack') : IsGroup(stack'[k]) \/ HasArity(stack'[k].type, stack'[k].arity)
      BY <1>2 DEF Shape, Typed
    <2> QED
      BY <2>1, <2>2 DEF TypeOK, IsGroup
  <1>5. StackSorted'
    <2>1. Sorted(stack')
      BY <1>2 DEF Shape
    <2> QED
      BY <2>1 DEF StackSorted, Sorted, Above, IsGroup, UseOf
  <1>7. Balanced'
    <2>1. Opened(Here) + Count(RGroups, pos) = Count(LGroups, pos)
      BY <1>1, <1>2 DEF IInv, Balanced, Opened
    <2>2. /\ Count(RGroups, pos) \in Nat /\ Count(LGroups, pos) \in Nat
          /\ Count(RGroups, pos + 1) = Count(RGroups, pos) + One(t \in RGroups)
          /\ Count(LGroups, pos + 1) = Count(LGroups, pos) + One(t \in LGroups)
      BY <1>1, <1>2, CountNext
    <2>3. /\ Opened(Here) \in Nat /\ Opened(s) \in Nat
          /\ One(t \in RGroups) \in Nat /\ One(t \in LGroups) \in Nat
      BY <1>1, GroupsFinite DEF One, Opened, Shape
    <2>4. Opened(s) + Count(RGroups, pos + 1) = Count(LGroups, pos + 1)
      BY <2>1, <2>2, <2>3
    <2>5. Cardinality(Groups(stack')) + Count(RGroups, pos') = Count(LGroups, pos')
      BY <1>2, <2>4 DEF Opened
    <2> QED
      BY <1>2, <2>5 DEF Balanced, Count, Groups, IsGroup
  <1>8. UndefinedOnlyUnmatched' /\ ReadSoFar'
    BY <1>1, <1>2 DEF UndefinedOnlyUnmatched, ReadSoFar
  <1> QED
    BY <1>4, <1>5, <1>7, <1>8 DEF IInv

(* The CALL that is put between two values opens nothing. *)
LEMMA CallKeeps ==
  ASSUME IInv, NEW t
  PROVE  Shape(WithCall(t)) /\ Opened(WithCall(t)) = Opened(Here)
  <1> DEFINE call == Item("CALL", pos + 1, "BINARY")
  <1>1. Shape(Here) /\ Here.stack = stack /\ pos \in Nat
    BY HereKnown
  <1>3. call \in Items /\ HasArity(call.type, call.arity) /\ ~IsGroup(call)
    BY <1>1, KindsApart DEF Item, Items, IsGroup, HasArity, Types
  <1> HIDE DEF call
  <1>4. WithCall(t) = IF VEnd(prev) /\ VBegin(t) THEN PutOperator(Here, call) ELSE Here
    BY DEF WithCall, Here, call
  <1>5. CASE VEnd(prev) /\ VBegin(t)
    <2>1. WithCall(t) = PutOperator(Here, call)
      BY <1>4, <1>5
    <2> QED
      BY <1>1, <1>3, <2>1, PutOperatorKeeps DEF Opened
  <1>6. CASE ~(VEnd(prev) /\ VBegin(t))
    BY <1>1, <1>4, <1>6
  <1> QED
    BY <1>5, <1>6

-----------------------------------------------------------------------------
(* An operand, and the CALL in front of it. *)
LEMMA OperandKeeps ==
  ASSUME IInv, NEW t \in Types, Operand(t)
  PROVE  IInv'
  <1> DEFINE item == Item(t, pos + 1, "NULLARY")
             s == WithCall(t)
  <1>1. Reading(t) /\ status' = "parsing"
    BY DEF Operand, Reading
  <1>2. Shape(s) /\ Opened(s) = Opened(Here)
    BY CallKeeps
  <1>3. item \in Items /\ item.type = t
    BY HereKnown DEF Item, Items
  <1>4. Opened(Here) \in Nat
    BY HereKnown, GroupsFinite DEF Opened, Shape
  <1> HIDE DEF item, s
  <1>5. CASE t \in Values /\ Becomes(PutValue(s, item))
    <2> DEFINE new == PutValue(s, item)
    <2>1. Shape(new) /\ Opened(new) = Opened(Here)
      BY <1>2, <1>3, PutValueKeeps DEF Opened
    <2>2. One(t \in RGroups) = 0 /\ One(t \in LGroups) = 0
      BY <1>5, KindsApart DEF One
    <2> HIDE DEF new
    <2>3. Opened(new) + One(t \in RGroups) = Opened(Here) + One(t \in LGroups)
      BY <1>4, <2>1, <2>2
    <2> QED
      BY <1>1, <1>5, <2>1, <2>3, Advance DEF new
  <1>6. CASE t \in LGroups /\ Becomes(PutLGroup(s, item))
    <2> DEFINE new == PutLGroup(s, item)
    <2>1. IsGroup(item)
      BY <1>3, <1>6 DEF IsGroup
    <2>2. Shape(new) /\ Opened(new) = Opened(Here) + 1
      BY <1>2, <1>3, <2>1, PutLGroupKeeps
    <2>3. One(t \in RGroups) = 0 /\ One(t \in LGroups) = 1
      BY <1>6, KindsApart DEF One
    <2> HIDE DEF new
    <2>4. Opened(new) + One(t \in RGroups) = Opened(Here) + One(t \in LGroups)
      BY <1>4, <2>2, <2>3
    <2> QED
      BY <1>1, <1>6, <2>2, <2>4, Advance DEF new
  <1> QED
    BY <1>5, <1>6 DEF Operand, item, s

(* A closing that has an opening to meet. *)
LEMMA CloseGroupKeeps ==
  ASSUME IInv, NEW t \in Types, CloseGroup(t)
  PROVE  IInv'
  <1> DEFINE item == Item(t, pos + 1, "NULLARY")
             new == PutRGroup(Here, item)
  <1>1. /\ Reading(t) /\ status' = "parsing" /\ t \in RGroups
        /\ Groups(stack) # {} /\ Becomes(new)
    BY DEF CloseGroup, Reading, Here
  <1>2. item \in Items /\ Shape(Here) /\ Here.stack = stack
    BY HereKnown DEF Item, Items
  <1>3. Shape(new) /\ Opened(new) = Opened(Here) - 1
    BY <1>1, <1>2, PutRGroupKeeps
  <1>4. Opened(Here) \in Nat
    BY <1>2, GroupsFinite DEF Opened, Shape
  <1>5. One(t \in RGroups) = 1 /\ One(t \in LGroups) = 0
    BY <1>1, KindsApart DEF One
  <1> HIDE DEF item, new
  <1>6. Opened(new) + One(t \in RGroups) = Opened(Here) + One(t \in LGroups)
    BY <1>3, <1>4, <1>5
  <1> QED
    BY <1>1, <1>3, <1>6, Advance

(* An operator with one of its uses. *)
LEMMA OperatorKeeps ==
  ASSUME IInv, NEW t \in Types, Operator(t)
  PROVE  IInv'
  <1> DEFINE arity == Arity(t, prev, Peek)
             item == Item(t, pos + 1, arity)
             new == PutOperator(Here, item)
  <1>1. /\ Reading(t) /\ status' = "parsing" /\ t \in Operators
        /\ arity # "NONE" /\ Becomes(new)
    BY DEF Operator, Reading, Here
  <1>2. HasArity(t, arity) /\ arity \in {"LUNARY", "RUNARY", "BINARY"}
    BY <1>1 DEF Arity
  <1> HIDE DEF arity
  <1>3. /\ item \in Items /\ HasArity(item.type, item.arity) /\ ~IsGroup(item)
        /\ Shape(Here) /\ Here.stack = stack
    BY <1>1, <1>2, HereKnown, KindsApart DEF Item, Items, IsGroup
  <1>4. Shape(new) /\ Opened(new) = Opened(Here)
    BY <1>3, PutOperatorKeeps DEF Opened
  <1>5. One(t \in RGroups) = 0 /\ One(t \in LGroups) = 0
    BY <1>1, KindsApart DEF One
  <1> HIDE DEF item, new
  <1>6. Opened(new) + One(t \in RGroups) = Opened(Here) + One(t \in LGroups)
    BY <1>4, <1>5
  <1> QED
    BY <1>1, <1>4, <1>6, Advance

(* A token that ends the parsing leaves the stack and the output alone; a closing
   with no opening on the stack is one too many. *)
LEMMA GivingUpKeeps ==
  ASSUME IInv, NEW t \in Types, CloseNothing(t) \/ Misplaced(t)
  PROVE  IInv'
  <1>1. /\ Reading(t) /\ UNCHANGED <<stack, rpn>> /\ status' \in {"error", "undefined"}
        /\ status' = "undefined" => t \in RGroups /\ Groups(stack) = {}
    BY DEF CloseNothing, Misplaced
  <1>2. /\ status = "parsing" /\ t = input[pos + 1] /\ pos < Len(input)
        /\ pos' = pos + 1 /\ prev' = t /\ input' = input /\ pos \in Nat /\ Len(input) \in Nat
    BY <1>1, HereKnown DEF Reading
  <1>3. TypeOK'
    BY <1>1, <1>2 DEF IInv, TypeOK
  <1>4. StackSorted'
    BY <1>1 DEF IInv, StackSorted
  <1>5. Balanced' /\ ReadSoFar'
    BY <1>1, <1>2 DEF Balanced, ReadSoFar
  <1>6. UndefinedOnlyUnmatched'
    <2> SUFFICES ASSUME status' = "undefined"
                 PROVE  \E n \in 1..(pos + 1) : Count(RGroups, n) > Count(LGroups, n)
      BY <1>2 DEF UndefinedOnlyUnmatched, Count
    <2>1. t \in RGroups /\ t \notin LGroups /\ Cardinality(Groups(stack)) = 0
      BY <1>1, KindsApart, FS_EmptySet
    <2>2. /\ Count(RGroups, pos) \in Nat /\ Count(LGroups, pos) \in Nat
          /\ Count(RGroups, pos + 1) = Count(RGroups, pos) + 1
          /\ Count(LGroups, pos + 1) = Count(LGroups, pos) + 0
      BY <1>2, <2>1, CountNext DEF One
    <2>3. Count(RGroups, pos) = Count(LGroups, pos)
      BY <1>2, <2>1, <2>2 DEF IInv, Balanced
    <2>4. Count(RGroups, pos + 1) > Count(LGroups, pos + 1)
      BY <2>2, <2>3
    <2>5. pos + 1 \in 1..(pos + 1)
      BY <1>2
    <2> QED
      BY <2>4, <2>5
  <1> QED
    BY <1>3, <1>4, <1>5, <1>6 DEF IInv

(* The end empties the stack. *)
LEMMA EndKeeps ==
  ASSUME IInv, End
  PROVE  IInv'
  <1> DEFINE end == Item("END", Len(input) + 1, "NULLARY")
             p == Popped(Here, 0)
             out == rpn \o Reversed(SubSeq(stack, 0 + 1, Len(stack)))
  <1>1. /\ status' = "done" /\ UNCHANGED <<input, pos, prev>>
        /\ stack' = PutEnd(Here).stack /\ rpn' = PutEnd(Here).rpn
    BY DEF End, Becomes, Here
  <1>2. Shape(Here) /\ end \in Items
    BY HereKnown DEF Item, Items, Types, Markers
  <1>3. p.stack = SubSeq(stack, 1, 0) /\ p.rpn = out
    BY HereKnown DEF Popped, State
  <1>4. SubSeq(stack, 1, 0) = <<>> /\ stack \in Seq(Items) /\ rpn \in Seq(Items)
    BY DEF IInv, TypeOK
  <1>5. out \in Seq(Items)
    <2>1. Reversed(SubSeq(stack, 0 + 1, Len(stack))) \in Seq(Items)
      BY <1>4 DEF Reversed
    <2> QED
      BY <1>4, <2>1, ConcatProperties
  <1> HIDE DEF p, out
  <1>6. rpn' \in Seq(Items) /\ stack' = <<>>
    <2>1. PutEnd(Here).stack = p.stack /\ PutEnd(Here).rpn = Append(p.rpn, end)
      BY DEF PutEnd, PutValue, State, p
    <2> QED
      BY <1>1, <1>2, <1>3, <1>4, <1>5, <2>1
  <1>7. TypeOK'
    BY <1>1, <1>6 DEF IInv, TypeOK
  <1>8. StackSorted'
    BY <1>6 DEF StackSorted
  <1>9. UndefinedOnlyUnmatched' /\ ReadSoFar' /\ Balanced'
    BY <1>1 DEF IInv, UndefinedOnlyUnmatched, ReadSoFar, Balanced
  <1> QED
    BY <1>7, <1>8, <1>9 DEF IInv

(* Nothing is open in an empty stream. *)
LEMMA InitInv == Init => IInv
  <1> SUFFICES ASSUME Init PROVE IInv
    OBVIOUS
  <1>1. /\ input \in Inputs /\ pos = 0 /\ prev = "START" /\ stack = <<>> /\ rpn = <<>>
        /\ status = "parsing"
    BY DEF Init
  <1>2. input \in Seq(Types \ Markers) /\ Len(input) \in Nat
    BY <1>1, InputsAssumption
  <1>3. TypeOK
    BY <1>1, <1>2 DEF TypeOK, Types, Markers
  <1>4. StackSorted /\ UndefinedOnlyUnmatched /\ ReadSoFar
    BY <1>1 DEF StackSorted, UndefinedOnlyUnmatched, ReadSoFar
  <1>5. Groups(stack) = {}
    BY <1>1 DEF Groups
  <1>6. \A set : {i \in 1..pos : input[i] \in set} = {}
    BY <1>1
  <1>7. Count(RGroups, pos) = 0 /\ Count(LGroups, pos) = 0
    BY <1>6, FS_EmptySet DEF Count
  <1>8. Cardinality(Groups(stack)) = 0
    BY <1>5, FS_EmptySet
  <1>9. Balanced
    BY <1>7, <1>8 DEF Balanced
  <1> QED
    BY <1>3, <1>4, <1>9 DEF IInv

(* Whatever the tokens, every iteration of parse keeps the invariant. *)
THEOREM Invariant == Spec => []IInv
  <1>1. IInv /\ Next => IInv'
    BY OperandKeeps, CloseGroupKeeps, GivingUpKeeps, OperatorKeeps, EndKeeps DEF Next
  <1>2. IInv /\ UNCHANGED vars => IInv'
    <2> SUFFICES ASSUME IInv, UNCHANGED vars PROVE IInv'
      OBVIOUS
    <2>1. UNCHANGED <<input, pos, prev, stack, rpn, status>>
      BY DEF vars
    <2>2. TypeOK' /\ ReadSoFar' /\ StackSorted'
      BY <2>1 DEF IInv, TypeOK, ReadSoFar, StackSorted
    <2>3. Balanced' /\ UndefinedOnlyUnmatched'
      BY <2>1 DEF IInv, Balanced, UndefinedOnlyUnmatched, Count
    <2> QED
      BY <2>2, <2>3 DEF IInv
  <1> QED
    BY InitInv, <1>1, <1>2, PTL DEF Spec

(* The stack and the output hold tokens with one of their uses. *)
THEOREM TypeCorrect == Spec => []TypeOK
  <1>1. IInv => TypeOK
    BY DEF IInv
  <1> QED
    BY Invariant, <1>1, PTL

(* Between two openings the operators on the stack bind tighter and tighter, so
   that parse_token pops those whose operands are complete. *)
THEOREM StackStaysSorted == Spec => []StackSorted
  <1>1. IInv => StackSorted
    BY DEF IInv
  <1> QED
    BY Invariant, <1>1, PTL

(* op_stack is popped empty only where the stream has more closings than
   openings: a program with matching groups cannot do it. *)
THEOREM UndefinedNeedsUnmatched == Spec => []UndefinedOnlyUnmatched
  <1>1. IInv => UndefinedOnlyUnmatched
    BY DEF IInv
  <1> QED
    BY Invariant, <1>1, PTL

-----------------------------------------------------------------------------
(* Each token in its place: what a step puts in, item by item.               *)

Is(x, t, i)     == x.type = t /\ x.ix = i
Places(s, t, i) == {k \in 1..Len(s) : Is(s[k], t, i)}
Held(s, t, i)   == CopiesIn(s.rpn, t, i) + CopiesIn(s.stack, t, i)

(* Two sets are equally large if a function takes one to the other, one to one. *)
LEMMA SameMany ==
  ASSUME NEW S, NEW T, IsFiniteSet(S), NEW f \in [S -> T],
         \A x, y \in S : f[x] = f[y] => x = y,
         \A y \in T : \E x \in S : f[x] = y
  PROVE  IsFiniteSet(T) /\ Cardinality(T) = Cardinality(S)
  <1>1. f \in Bijection(S, T)
    BY DEF Bijection, Injection, Surjection, IsInjective
  <1>2. ExistsBijection(S, T)
    BY <1>1 DEF ExistsBijection
  <1> QED
    BY <1>2, FS_Bijection

(* A sequence holds a token in finitely many places. *)
LEMMA PlacesFinite ==
  ASSUME NEW s \in Seq(Items), NEW t, NEW i
  PROVE  /\ Places(s, t, i) \in SUBSET (1..Len(s)) /\ IsFiniteSet(Places(s, t, i))
         /\ CopiesIn(s, t, i) = Cardinality(Places(s, t, i)) /\ CopiesIn(s, t, i) \in Nat
  <1>1. Places(s, t, i) \in SUBSET (1..Len(s)) /\ Len(s) \in Int
    BY DEF Places
  <1>2. IsFiniteSet(1..Len(s))
    BY <1>1, FS_Interval
  <1>3. IsFiniteSet(Places(s, t, i))
    BY <1>1, <1>2, FS_Subset
  <1>4. CopiesIn(s, t, i) = Cardinality(Places(s, t, i))
    BY DEF CopiesIn, Places, Is
  <1> QED
    BY <1>1, <1>3, <1>4, FS_CardinalityType

(* Two sequences of items, one behind the other. *)
LEMMA JoinedItems ==
  ASSUME NEW a \in Seq(Items), NEW b \in Seq(Items)
  PROVE  /\ a \o b \in Seq(Items) /\ Len(a \o b) = Len(a) + Len(b)
         /\ \A k \in 1..Len(a) : (a \o b)[k] = a[k]
         /\ \A k \in 1..Len(b) : (a \o b)[Len(a) + k] = b[k]
  BY ConcatProperties

(* Two sequences together hold what both do. *)
LEMMA CopiesTogether ==
  ASSUME NEW a \in Seq(Items), NEW b \in Seq(Items), NEW t, NEW i
  PROVE  CopiesIn(a \o b, t, i) = CopiesIn(a, t, i) + CopiesIn(b, t, i)
  <1> DEFINE c == a \o b
             m == Len(a)
             n == Len(b)
             A == Places(a, t, i)
             B == Places(b, t, i)
             C == {m + k : k \in B}
             f == [k \in B |-> m + k]
  <1>1. /\ m \in Nat /\ n \in Nat /\ c \in Seq(Items) /\ Len(c) = m + n
        /\ \A k \in 1..m : c[k] = a[k]
        /\ \A k \in 1..n : c[m + k] = b[k]
    BY ConcatProperties
  <1>2. /\ A \in SUBSET (1..m) /\ IsFiniteSet(A) /\ CopiesIn(a, t, i) = Cardinality(A)
        /\ B \in SUBSET (1..n) /\ IsFiniteSet(B) /\ CopiesIn(b, t, i) = Cardinality(B)
        /\ CopiesIn(c, t, i) = Cardinality(Places(c, t, i))
    BY <1>1, PlacesFinite
  <1> HIDE DEF c, m, n
  <1>3. IsFiniteSet(C) /\ Cardinality(C) = Cardinality(B)
    <2>1. \A x \in B : x \in Nat
      BY <1>1, <1>2
    <2>2. f \in [B -> C] /\ \A x \in B : f[x] = m + x
      OBVIOUS
    <2>3. \A x, y \in B : f[x] = f[y] => x = y
      BY <1>1, <2>1, <2>2
    <2>4. \A y \in C : \E x \in B : f[x] = y
      BY <2>2
    <2>5. IsFiniteSet(B) /\ f \in [B -> C]
      BY <1>2, <2>2
    <2> HIDE DEF B, C, f
    <2> QED
      BY <2>3, <2>4, <2>5, SameMany
  <1>4. Places(c, t, i) = A \cup C
    <2>1. ASSUME NEW k \in 1..(m + n) PROVE Is(c[k], t, i) <=> k \in A \cup C
      <3>1. CASE k \in 1..m
        <4>1. c[k] = a[k] /\ k \notin C
          BY <1>1, <1>2, <3>1
        <4> QED
          BY <3>1, <4>1 DEF Places, m
      <3>2. CASE k \notin 1..m
        <4>1. k - m \in 1..n /\ k = m + (k - m)
          BY <1>1, <3>2
        <4>2. c[k] = b[k - m] /\ k \notin A
          BY <1>1, <1>2, <3>2, <4>1
        <4>3. k \in C <=> k - m \in B
          <5>1. \A x \in B : x \in Nat /\ (k = m + x => x = k - m)
            BY <1>1, <1>2
          <5> HIDE DEF B
          <5>2. k \in C <=> \E x \in B : k = m + x
            OBVIOUS
          <5> QED
            BY <4>1, <5>1, <5>2
        <4>4. k - m \in B <=> Is(b[k - m], t, i)
          BY <4>1 DEF Places, n
        <4> QED
          BY <4>2, <4>3, <4>4
      <3> QED
        BY <3>1, <3>2
    <2>2. \A k \in A \cup C : k \in 1..(m + n)
      BY <1>1, <1>2
    <2>3. Places(c, t, i) = {k \in 1..(m + n) : Is(c[k], t, i)}
      BY <1>1 DEF Places
    <2> HIDE DEF A, C
    <2> QED
      BY <2>1, <2>2, <2>3
  <1>5. A \cap C = {}
    BY <1>1, <1>2
  <1> HIDE DEF A, B, C
  <1>6. Cardinality(A \cup C) = Cardinality(A) + Cardinality(C)
    <2>1. Cardinality(A \cup C) = Cardinality(A) + Cardinality(C) - Cardinality(A \cap C)
      BY <1>2, <1>3, FS_Union
    <2>2. Cardinality(A) \in Nat /\ Cardinality(C) \in Nat /\ Cardinality(A \cap C) = 0
      BY <1>2, <1>3, <1>5, FS_CardinalityType, FS_EmptySet
    <2> QED
      BY <2>1, <2>2
  <1> QED
    BY <1>2, <1>3, <1>4, <1>6 DEF c

(* Reversed turns the items around. *)
LEMMA ReversedItems ==
  ASSUME NEW s \in Seq(Items)
  PROVE  /\ Reversed(s) \in Seq(Items) /\ Len(Reversed(s)) = Len(s)
         /\ \A i \in 1..Len(s) : Reversed(s)[i] = s[Len(s) + 1 - i]
  BY DEF Reversed

(* Turned around a sequence holds the same. *)
LEMMA CopiesReversed ==
  ASSUME NEW s \in Seq(Items), NEW t, NEW i
  PROVE  CopiesIn(Reversed(s), t, i) = CopiesIn(s, t, i)
  <1> DEFINE r == Reversed(s)
             n == Len(s)
             A == Places(s, t, i)
             B == Places(r, t, i)
             f == [k \in A |-> n + 1 - k]
  <1>1. /\ n \in Nat /\ r \in Seq(Items) /\ Len(r) = n
        /\ \A k \in 1..n : r[k] = s[n + 1 - k]
    BY DEF Reversed
  <1>2. /\ A \in SUBSET (1..n) /\ IsFiniteSet(A) /\ CopiesIn(s, t, i) = Cardinality(A)
        /\ B \in SUBSET (1..n) /\ CopiesIn(r, t, i) = Cardinality(B)
    BY <1>1, PlacesFinite
  <1>3. \A k \in 1..n : n + 1 - k \in 1..n /\ n + 1 - (n + 1 - k) = k
    BY <1>1
  <1>4. \A k \in 1..n : k \in A <=> Is(s[k], t, i)
    BY DEF Places
  <1>5. \A k \in 1..n : k \in B <=> Is(s[n + 1 - k], t, i)
    BY <1>1 DEF Places
  <1> HIDE DEF r, n, A, B
  <1>6. \A k \in A : n + 1 - k \in B
    BY <1>2, <1>3, <1>4, <1>5
  <1>7. f \in [A -> B] /\ \A x \in A : f[x] = n + 1 - x
    BY <1>6
  <1>8. \A x, y \in A : f[x] = f[y] => x = y
    <2>1. \A x, y \in 1..n : n + 1 - x = n + 1 - y => x = y
      BY <1>1
    <2> QED
      BY <1>2, <1>7, <2>1
  <1>9. \A y \in B : \E x \in A : f[x] = y
    <2> SUFFICES ASSUME NEW y \in B PROVE \E x \in A : f[x] = y
      OBVIOUS
    <2>1. n + 1 - y \in A
      BY <1>2, <1>3, <1>4, <1>5
    <2>2. f[n + 1 - y] = y
      BY <1>2, <1>3, <1>7, <2>1
    <2> QED
      BY <2>1, <2>2
  <1>10. Cardinality(B) = Cardinality(A)
    <2> HIDE DEF f
    <2> QED
      BY <1>2, <1>7, <1>8, <1>9, SameMany
  <1> QED
    BY <1>2, <1>10 DEF r

(* One item more is there once more. *)
LEMMA CopiesAppend ==
  ASSUME NEW s \in Seq(Items), NEW x \in Items, NEW t, NEW i
  PROVE  CopiesIn(Append(s, x), t, i) = CopiesIn(s, t, i) + One(Is(x, t, i))
  <1> DEFINE r == Append(s, x)
             n == Len(s)
             A == Places(s, t, i)
  <1>1. /\ n \in Nat /\ r \in Seq(Items) /\ Len(r) = n + 1 /\ r[n + 1] = x
        /\ \A k \in 1..n : r[k] = s[k]
    OBVIOUS
  <1>2. /\ A \in SUBSET (1..n) /\ IsFiniteSet(A) /\ CopiesIn(s, t, i) = Cardinality(A)
        /\ CopiesIn(r, t, i) = Cardinality(Places(r, t, i))
    BY <1>1, PlacesFinite
  <1>3. Places(r, t, i) = IF Is(x, t, i) THEN A \cup {n + 1} ELSE A
    <2> HIDE DEF r, n
    <2>1. 1..(n + 1) = (1..n) \cup {n + 1}
      BY <1>1
    <2>2. Places(r, t, i) = {k \in (1..n) \cup {n + 1} : Is(r[k], t, i)}
      BY <1>1, <2>1 DEF Places
    <2>3. A = {k \in 1..n : Is(r[k], t, i)}
      BY <1>1 DEF Places, n
    <2> QED
      BY <1>1, <2>2, <2>3
  <1> HIDE DEF r, n, A
  <1>4. n + 1 \notin A
    BY <1>1, <1>2
  <1>5. Cardinality(A) \in Nat /\ Cardinality(A \cup {n + 1}) = Cardinality(A) + 1
    BY <1>2, <1>4, FS_CardinalityType, FS_AddElement
  <1> QED
    BY <1>2, <1>3, <1>5 DEF One, r

(* Popping moves tokens from the stack to the output and loses none. *)
LEMMA PoppedHolds ==
  ASSUME NEW s, Shape(s), NEW keep \in 0..Len(s.stack), NEW t, NEW i
  PROVE  /\ Held(Popped(s, keep), t, i) = Held(s, t, i)
         /\ CopiesIn(s.rpn, t, i) <= CopiesIn(Popped(s, keep).rpn, t, i)
         /\ Popped(s, keep).stack \in Seq(Items) /\ Popped(s, keep).rpn \in Seq(Items)
  <1> DEFINE st == s.stack
             out == s.rpn
             n == Len(st)
             low == SubSeq(st, 1, keep)
             high == SubSeq(st, keep + 1, n)
             back == Reversed(high)
             both == low \o high
             more == out \o back
  <1>1. n \in Nat /\ keep \in 0..n /\ st \in Seq(Items) /\ out \in Seq(Items)
    BY DEF Shape
  <1>2. low \in Seq(Items) /\ Len(low) = keep /\ \A k \in 1..keep : low[k] = st[k]
    BY <1>1
  <1>3. high \in Seq(Items) /\ Len(high) = n - keep /\ \A k \in 1..(n - keep) : high[k] = st[keep + k]
    BY <1>1
  <1>4. Popped(s, keep).stack = low /\ Popped(s, keep).rpn = more
    BY DEF Popped, State
  <1> HIDE DEF st, out, n, low, high
  <1>5. both = st
    <2>0. /\ both \in Seq(Items) /\ Len(both) = Len(low) + Len(high)
          /\ \A k \in 1..Len(low) : both[k] = low[k]
          /\ \A k \in 1..Len(high) : both[Len(low) + k] = high[k]
      BY <1>2, <1>3, JoinedItems
    <2> HIDE DEF both
    <2>1. /\ both \in Seq(Items) /\ Len(both) = keep + (n - keep)
          /\ \A k \in 1..keep : both[k] = low[k]
          /\ \A k \in 1..(n - keep) : both[keep + k] = high[k]
      BY <1>2, <1>3, <2>0
    <2>2. Len(both) = n
      BY <1>1, <2>1
    <2>3. ASSUME NEW k \in 1..n PROVE both[k] = st[k]
      <3>1. CASE k \in 1..keep
        BY <1>2, <2>1, <3>1
      <3>2. CASE k \notin 1..keep
        <4>1. k - keep \in 1..(n - keep) /\ k = keep + (k - keep)
          BY <1>1, <3>2
        <4>2. both[k] = high[k - keep] /\ high[k - keep] = st[k]
          BY <1>3, <2>1, <4>1
        <4> QED
          BY <4>2
      <3> QED
        BY <3>1, <3>2
    <2>4. Len(st) = n
      BY DEF n
    <2> QED
      BY <1>1, <2>1, <2>2, <2>3, <2>4, SeqEqual
  <1>6. back \in Seq(Items)
    BY <1>3, ReversedItems
  <1>7. CopiesIn(st, t, i) = CopiesIn(low, t, i) + CopiesIn(high, t, i)
    <2>1. CopiesIn(low \o high, t, i) = CopiesIn(low, t, i) + CopiesIn(high, t, i)
      BY <1>2, <1>3, CopiesTogether
    <2> QED
      BY <1>5, <2>1
  <1>8. CopiesIn(back, t, i) = CopiesIn(high, t, i)
    BY <1>3, CopiesReversed
  <1> HIDE DEF both, back
  <1>9. CopiesIn(more, t, i) = CopiesIn(out, t, i) + CopiesIn(back, t, i) /\ more \in Seq(Items)
    BY <1>1, <1>6, CopiesTogether, ConcatProperties
  <1> HIDE DEF more
  <1>10. /\ CopiesIn(out, t, i) \in Nat /\ CopiesIn(low, t, i) \in Nat
         /\ CopiesIn(high, t, i) \in Nat
    BY <1>1, <1>2, <1>3, PlacesFinite
  <1>11. /\ CopiesIn(more, t, i) + CopiesIn(low, t, i) = CopiesIn(out, t, i) + CopiesIn(st, t, i)
         /\ CopiesIn(out, t, i) <= CopiesIn(more, t, i)
    BY <1>7, <1>8, <1>9, <1>10
  <1> QED
    BY <1>2, <1>4, <1>9, <1>11 DEF Held, st, out

(* r is s and the item x: in one place, an opening in the output and perhaps on the
   stack. *)
Puts(s, r, x) ==
  \A t, i :
    LET one == One(Is(x, t, i)) IN
    /\ t \notin LGroups => Held(r, t, i) = Held(s, t, i) + one
    /\ t \in LGroups => /\ CopiesIn(s.rpn, t, i) + one <= CopiesIn(r.rpn, t, i)
                        /\ Held(r, t, i) <= Held(s, t, i) + 2 * one

(* What is on the stack and in the output is counted. *)
LEMMA HeldCounts ==
  ASSUME NEW s, s.stack \in Seq(Items), s.rpn \in Seq(Items), NEW t, NEW i
  PROVE  /\ CopiesIn(s.rpn, t, i) \in Nat /\ CopiesIn(s.stack, t, i) \in Nat
         /\ Held(s, t, i) \in Nat
         /\ Held(s, t, i) = CopiesIn(s.rpn, t, i) + CopiesIn(s.stack, t, i)
  <1>1. CopiesIn(s.rpn, t, i) \in Nat /\ CopiesIn(s.stack, t, i) \in Nat
    BY PlacesFinite
  <1> QED
    BY <1>1 DEF Held

(* An operator goes to the stack or to the output. *)
LEMMA PutOperatorPuts ==
  ASSUME NEW s, Shape(s), NEW op \in Items, ~IsGroup(op)
  PROVE  Puts(s, PutOperator(s, op), op)
  <1> DEFINE keep == Keep(Outlasting(s.stack, op))
             p == Popped(s, keep)
             r == PutOperator(s, op)
  <1>1. keep \in 0..Len(s.stack)
    <2>1. Len(s.stack) \in Nat /\ Outlasting(s.stack, op) \in SUBSET (1..Len(s.stack))
      BY DEF Shape, Outlasting
    <2> QED
      BY <2>1, KeepIsLast
  <1>2. r = IF op.arity = "RUNARY" THEN State(p.stack, Append(p.rpn, op))
                                   ELSE State(Append(p.stack, op), p.rpn)
    BY DEF PutOperator
  <1>3. \/ r.stack = p.stack /\ r.rpn = Append(p.rpn, op)
        \/ r.stack = Append(p.stack, op) /\ r.rpn = p.rpn
    BY <1>2 DEF State
  <1> HIDE DEF keep, r
  <1> SUFFICES ASSUME NEW t, NEW i
               PROVE  LET one == One(Is(op, t, i)) IN
                      /\ t \notin LGroups => Held(r, t, i) = Held(s, t, i) + one
                      /\ t \in LGroups => /\ CopiesIn(s.rpn, t, i) + one <= CopiesIn(r.rpn, t, i)
                                          /\ Held(r, t, i) <= Held(s, t, i) + 2 * one
    BY DEF Puts, r
  <1>4. /\ Held(p, t, i) = Held(s, t, i) /\ CopiesIn(s.rpn, t, i) <= CopiesIn(p.rpn, t, i)
        /\ p.stack \in Seq(Items) /\ p.rpn \in Seq(Items) /\ s.stack \in Seq(Items) /\ s.rpn \in Seq(Items)
    BY <1>1, PoppedHolds DEF Shape
  <1> HIDE DEF p
  <1>5. /\ CopiesIn(s.rpn, t, i) \in Nat /\ CopiesIn(p.rpn, t, i) \in Nat
        /\ CopiesIn(p.stack, t, i) \in Nat /\ Held(s, t, i) \in Nat
        /\ Held(p, t, i) = CopiesIn(p.rpn, t, i) + CopiesIn(p.stack, t, i)
    BY <1>4, HeldCounts
  <1>6. /\ CopiesIn(Append(p.rpn, op), t, i) = CopiesIn(p.rpn, t, i) + One(Is(op, t, i))
        /\ CopiesIn(Append(p.stack, op), t, i) = CopiesIn(p.stack, t, i) + One(Is(op, t, i))
    BY <1>4, CopiesAppend
  <1>7. One(Is(op, t, i)) \in {0, 1} /\ (t \in LGroups => One(Is(op, t, i)) = 0)
    BY DEF One, Is, IsGroup
  <1>8. /\ Held(r, t, i) = Held(s, t, i) + One(Is(op, t, i))
        /\ CopiesIn(s.rpn, t, i) <= CopiesIn(r.rpn, t, i)
    <2>1. CASE r.stack = p.stack /\ r.rpn = Append(p.rpn, op)
      BY <1>4, <1>5, <1>6, <1>7, <2>1 DEF Held
    <2>2. CASE r.stack = Append(p.stack, op) /\ r.rpn = p.rpn
      BY <1>4, <1>5, <1>6, <1>7, <2>2 DEF Held
    <2> QED
      BY <1>3, <2>1, <2>2
  <1>9. CASE t \notin LGroups
    BY <1>8, <1>9
  <1>10. CASE t \in LGroups
    BY <1>5, <1>7, <1>8, <1>10
  <1> QED
    BY <1>9, <1>10

(* A value goes to the output. *)
LEMMA PutValuePuts ==
  ASSUME NEW s, s.stack \in Seq(Items), s.rpn \in Seq(Items), NEW x \in Items
  PROVE  Puts(s, PutValue(s, x), x)
  <1> DEFINE r == PutValue(s, x)
  <1>1. r.stack = s.stack /\ r.rpn = Append(s.rpn, x)
    BY DEF PutValue, State
  <1> HIDE DEF r
  <1> SUFFICES ASSUME NEW t, NEW i
               PROVE  LET one == One(Is(x, t, i)) IN
                      /\ t \notin LGroups => Held(r, t, i) = Held(s, t, i) + one
                      /\ t \in LGroups => /\ CopiesIn(s.rpn, t, i) + one <= CopiesIn(r.rpn, t, i)
                                          /\ Held(r, t, i) <= Held(s, t, i) + 2 * one
    BY DEF Puts, r
  <1>2. CopiesIn(Append(s.rpn, x), t, i) = CopiesIn(s.rpn, t, i) + One(Is(x, t, i))
    BY CopiesAppend
  <1>3. CopiesIn(s.rpn, t, i) \in Nat /\ CopiesIn(s.stack, t, i) \in Nat
    BY PlacesFinite
  <1> QED
    BY <1>1, <1>2, <1>3 DEF Held, One

(* An opening goes to both. *)
LEMMA PutLGroupPuts ==
  ASSUME NEW s, s.stack \in Seq(Items), s.rpn \in Seq(Items), NEW x \in Items, IsGroup(x)
  PROVE  Puts(s, PutLGroup(s, x), x)
  <1> DEFINE r == PutLGroup(s, x)
  <1>1. r.stack = Append(s.stack, x) /\ r.rpn = Append(s.rpn, x)
    BY DEF PutLGroup, State
  <1> HIDE DEF r
  <1> SUFFICES ASSUME NEW t, NEW i
               PROVE  LET one == One(Is(x, t, i)) IN
                      /\ t \notin LGroups => Held(r, t, i) = Held(s, t, i) + one
                      /\ t \in LGroups => /\ CopiesIn(s.rpn, t, i) + one <= CopiesIn(r.rpn, t, i)
                                          /\ Held(r, t, i) <= Held(s, t, i) + 2 * one
    BY DEF Puts, r
  <1>2. /\ CopiesIn(Append(s.rpn, x), t, i) = CopiesIn(s.rpn, t, i) + One(Is(x, t, i))
        /\ CopiesIn(Append(s.stack, x), t, i) = CopiesIn(s.stack, t, i) + One(Is(x, t, i))
    BY CopiesAppend
  <1>3. CopiesIn(s.rpn, t, i) \in Nat /\ CopiesIn(s.stack, t, i) \in Nat
    BY PlacesFinite
  <1>4. t \notin LGroups => One(Is(x, t, i)) = 0
    BY DEF One, Is, IsGroup
  <1>5. One(Is(x, t, i)) \in {0, 1}
    BY DEF One
  <1> QED
    BY <1>1, <1>2, <1>3, <1>4, <1>5 DEF Held

(* A closing goes to the output, and an opening is taken off the stack. *)
LEMMA PutRGroupPuts ==
  ASSUME NEW s, Shape(s), NEW x \in Items, ~IsGroup(x), Groups(s.stack) # {}
  PROVE  Puts(s, PutRGroup(s, x), x)
  <1> DEFINE keep == Keep(Groups(s.stack))
             p == Popped(s, keep)
             low == SubSeq(p.stack, 1, Len(p.stack) - 1)
             last == p.stack[Len(p.stack)]
             r == PutRGroup(s, x)
  <1>1. /\ s.stack \in Seq(Items) /\ s.rpn \in Seq(Items) /\ Len(s.stack) \in Nat
        /\ Groups(s.stack) \in SUBSET (1..Len(s.stack))
    BY GroupsFinite DEF Shape
  <1>2. keep \in 1..Len(s.stack) /\ keep \in Groups(s.stack) /\ \A j \in Groups(s.stack) : j <= keep
    BY <1>1, KeepIsLast
  <1>3. /\ Len(p.stack) = keep /\ \A k \in 1..keep : p.stack[k] = s.stack[k]
    <2> HIDE DEF keep
    <2>1. Groups(s.stack) \subseteq 1..keep /\ keep \in 0..Len(s.stack)
      BY <1>1, <1>2
    <2> QED
      BY <2>1, PoppedKeeps
  <1>4. r.stack = low /\ r.rpn = Append(p.rpn, x)
    BY DEF PutRGroup, State
  <1> HIDE DEF keep, r
  <1>5. IsGroup(last)
    <2>1. last = s.stack[keep]
      BY <1>1, <1>2, <1>3
    <2> QED
      BY <1>2, <2>1 DEF Groups
  <1> SUFFICES ASSUME NEW t, NEW i
               PROVE  LET one == One(Is(x, t, i)) IN
                      /\ t \notin LGroups => Held(r, t, i) = Held(s, t, i) + one
                      /\ t \in LGroups => /\ CopiesIn(s.rpn, t, i) + one <= CopiesIn(r.rpn, t, i)
                                          /\ Held(r, t, i) <= Held(s, t, i) + 2 * one
    BY DEF Puts, r
  <1>6. /\ Held(p, t, i) = Held(s, t, i) /\ CopiesIn(s.rpn, t, i) <= CopiesIn(p.rpn, t, i)
        /\ p.stack \in Seq(Items) /\ p.rpn \in Seq(Items)
    <2>1. keep \in 0..Len(s.stack)
      BY <1>1, <1>2
    <2> QED
      BY <2>1, PoppedHolds
  <1> HIDE DEF p
  <1>7. low \in Seq(Items) /\ last \in Items /\ Append(low, last) = p.stack
    <2>1. Len(p.stack) \in Nat \ {0} /\ p.stack \in Seq(Items)
      BY <1>1, <1>2, <1>3, <1>6
    <2>2. p.stack # <<>>
      BY <2>1
    <2> QED
      BY <2>1, <2>2
  <1> HIDE DEF low, last
  <1>8. CopiesIn(p.stack, t, i) = CopiesIn(low, t, i) + One(Is(last, t, i))
    <2>1. low \in Seq(Items) /\ last \in Items
      BY <1>7
    <2>2. CopiesIn(Append(low, last), t, i) = CopiesIn(low, t, i) + One(Is(last, t, i))
      BY <2>1, CopiesAppend
    <2> QED
      BY <1>7, <2>2
  <1>9. CopiesIn(Append(p.rpn, x), t, i) = CopiesIn(p.rpn, t, i) + One(Is(x, t, i))
    BY <1>6, CopiesAppend
  <1>10. /\ CopiesIn(s.rpn, t, i) \in Nat /\ CopiesIn(p.rpn, t, i) \in Nat
         /\ CopiesIn(low, t, i) \in Nat /\ Held(s, t, i) \in Nat
         /\ Held(p, t, i) = CopiesIn(p.rpn, t, i) + CopiesIn(p.stack, t, i)
    <2>1. CopiesIn(low, t, i) \in Nat
      BY <1>7, PlacesFinite
    <2> QED
      BY <1>1, <1>6, <2>1, HeldCounts
  <1>11. /\ One(Is(x, t, i)) \in {0, 1} /\ One(Is(last, t, i)) \in {0, 1}
         /\ t \in LGroups => One(Is(x, t, i)) = 0
         /\ t \notin LGroups => One(Is(last, t, i)) = 0
    BY <1>5 DEF One, Is, IsGroup
  <1>12. /\ Held(r, t, i) + One(Is(last, t, i)) = Held(s, t, i) + One(Is(x, t, i))
         /\ CopiesIn(s.rpn, t, i) <= CopiesIn(r.rpn, t, i)
         /\ Held(r, t, i) \in Nat
    BY <1>4, <1>6, <1>8, <1>9, <1>10, <1>11 DEF Held
  <1>13. CASE t \notin LGroups
    BY <1>10, <1>11, <1>12, <1>13
  <1>14. CASE t \in LGroups
    BY <1>10, <1>11, <1>12, <1>14
  <1> QED
    BY <1>13, <1>14

(* What should be in place: the tokens read, the CALLs between values, and END
   when the parser is done. *)
Due(t, i) ==
  \/ i \in 1..pos /\ t = input[i]
  \/ i \in Calls /\ t = "CALL"
  \/ status = "done" /\ t = "END" /\ i = Len(input) + 1

InPlace(s, t, i, due) ==
  /\ t \notin LGroups => Held(s, t, i) = One(due)
  /\ t \in LGroups => One(due) <= CopiesIn(s.rpn, t, i) /\ Held(s, t, i) <= 2 * One(due)

Once == status \in {"parsing", "done"} => \A t, i : InPlace(Here, t, i, Due(t, i))

(* The stack is empty in the end, and END the last of the output. *)
Ended ==
  status = "done" => /\ stack = <<>> /\ Len(rpn) \in Nat \ {0}
                     /\ Is(rpn[Len(rpn)], "END", Len(input) + 1)

(* What was in place is so with one item more. *)
LEMMA PutsInPlace ==
  ASSUME NEW s, s.stack \in Seq(Items), s.rpn \in Seq(Items),
         NEW r, r.stack \in Seq(Items), r.rpn \in Seq(Items),
         NEW x, Puts(s, r, x),
         NEW t, NEW i, NEW due \in BOOLEAN, InPlace(s, t, i, due), ~(due /\ Is(x, t, i))
  PROVE  InPlace(r, t, i, due \/ Is(x, t, i))
  <1> DEFINE new == Is(x, t, i)
  <1>1. /\ t \notin LGroups => Held(r, t, i) = Held(s, t, i) + One(new)
        /\ t \in LGroups => /\ CopiesIn(s.rpn, t, i) + One(new) <= CopiesIn(r.rpn, t, i)
                            /\ Held(r, t, i) <= Held(s, t, i) + 2 * One(new)
    BY DEF Puts
  <1>2. /\ t \notin LGroups => Held(s, t, i) = One(due)
        /\ t \in LGroups => One(due) <= CopiesIn(s.rpn, t, i) /\ Held(s, t, i) <= 2 * One(due)
    BY DEF InPlace
  <1>3. /\ CopiesIn(s.rpn, t, i) \in Nat /\ Held(s, t, i) \in Nat
        /\ CopiesIn(r.rpn, t, i) \in Nat /\ Held(r, t, i) \in Nat
    BY HeldCounts
  <1>4. ~(due /\ new)
    OBVIOUS
  <1> HIDE DEF new
  <1>5. One(due) \in {0, 1} /\ One(new) \in {0, 1} /\ One(due \/ new) = One(due) + One(new)
    BY <1>4 DEF One
  <1>6. CASE t \notin LGroups
    BY <1>1, <1>2, <1>5, <1>6 DEF InPlace, new
  <1>7. CASE t \in LGroups
    <2>1. /\ One(due) + One(new) <= CopiesIn(r.rpn, t, i)
          /\ Held(r, t, i) <= 2 * (One(due) + One(new))
      BY <1>1, <1>2, <1>3, <1>5, <1>7
    <2> QED
      BY <1>5, <1>7, <2>1 DEF InPlace, new
  <1> QED
    BY <1>6, <1>7

(* A CALL is due where a value meets a value. *)
LEMMA CallsNext ==
  ASSUME IInv, NEW t, Reading(t)
  PROVE  /\ Calls' = IF VEnd(prev) /\ VBegin(t) THEN Calls \cup {pos + 1} ELSE Calls
         /\ pos + 1 \notin Calls
  <1>1. pos \in Nat /\ pos' = pos + 1 /\ input' = input /\ t = input[pos + 1]
    BY DEF IInv, TypeOK, Reading
  <1>2. Calls' = {i \in 2..(pos + 1) : VEnd(input[i - 1]) /\ VBegin(input[i])}
    BY <1>1 DEF Calls, VEnd, VBegin
  <1>3. Calls = {i \in 2..pos : VEnd(input[i - 1]) /\ VBegin(input[i])}
    BY DEF Calls, VEnd, VBegin
  <1>4. pos + 1 \notin Calls
    BY <1>1, <1>3
  <1>5. CASE pos = 0
    <2>1. ~VEnd(prev)
      BY <1>5, KindsApart DEF IInv, ReadSoFar, VEnd, Markers
    <2>2. 2..(pos + 1) = {} /\ 2..pos = {}
      BY <1>5
    <2> QED
      BY <1>2, <1>3, <1>4, <2>1, <2>2
  <1>6. CASE pos # 0
    <2>1. prev = input[pos] /\ 2..(pos + 1) = (2..pos) \cup {pos + 1} /\ (pos + 1) - 1 = pos
      BY <1>1, <1>6 DEF IInv, ReadSoFar
    <2> QED
      BY <1>1, <1>2, <1>3, <1>4, <2>1
  <1> QED
    BY <1>5, <1>6

(* A step that reads a token puts in place that token and the CALL before it. *)
LEMMA ReadingInPlace ==
  ASSUME IInv, Once, NEW t \in Types, Reading(t), status' = "parsing",
         NEW x \in Items, Is(x, t, pos + 1),
         NEW r, Shape(r), Becomes(r), Puts(WithCall(t), r, x)
  PROVE  Once'
  <1> DEFINE c == Item("CALL", pos + 1, "BINARY")
             call == VEnd(prev) /\ VBegin(t)
             s == WithCall(t)
  <1>1. /\ Shape(Here) /\ Here.stack = stack /\ Here.rpn = rpn /\ pos \in Nat
        /\ status = "parsing" /\ pos' = pos + 1 /\ input' = input /\ t = input[pos + 1]
        /\ stack' = r.stack /\ rpn' = r.rpn
    BY HereKnown DEF Reading, Becomes
  <1>2. c \in Items /\ ~IsGroup(c) /\ \A u, i : Is(c, u, i) <=> u = "CALL" /\ i = pos + 1
    BY <1>1, KindsApart DEF Item, Items, IsGroup, HasArity, Types, Is
  <1> HIDE DEF c
  <1>3. s = IF call THEN PutOperator(Here, c) ELSE Here
    BY DEF WithCall, Here, c
  <1>4. Shape(s)
    BY CallKeeps
  <1>0. Puts(s, r, x)
    OBVIOUS
  <1> HIDE DEF s
  <1>5. (call => Puts(Here, s, c)) /\ (~call => s = Here)
    BY <1>1, <1>2, <1>3, PutOperatorPuts
  <1>6. call => t # "CALL"
    BY KindsApart DEF VBegin, HasArity
  <1>7. /\ Calls' = IF call THEN Calls \cup {pos + 1} ELSE Calls
        /\ pos + 1 \notin Calls
    BY CallsNext
  <1> HIDE DEF call
  <1>8. ASSUME NEW u, NEW i PROVE InPlace(r, u, i, Due(u, i)')
    <2> DEFINE due == Due(u, i)
               withCall == due \/ (call /\ Is(c, u, i))
    <2>1. InPlace(Here, u, i, due) /\ due \in BOOLEAN /\ call \in BOOLEAN
      BY <1>1 DEF Once, Due, call, VEnd, VBegin
    <2>2. ~(due /\ call /\ Is(c, u, i))
      BY <1>1, <1>2, <1>7 DEF Due
    <2>3. Here.stack \in Seq(Items) /\ Here.rpn \in Seq(Items) /\ s.stack \in Seq(Items) /\ s.rpn \in Seq(Items)
          /\ r.stack \in Seq(Items) /\ r.rpn \in Seq(Items)
      BY <1>1, <1>4 DEF Shape
    <2>4. InPlace(s, u, i, withCall)
      <3>1. CASE call
        <4> DEFINE both == due \/ Is(c, u, i)
        <4> HIDE DEF due
        <4>1. InPlace(s, u, i, both)
          BY <1>5, <2>1, <2>2, <2>3, <3>1, PutsInPlace
        <4>2. One(both) = One(withCall)
          BY <3>1 DEF One
        <4> HIDE DEF both, withCall
        <4> QED
          BY <4>1, <4>2 DEF InPlace
      <3>2. CASE ~call
        <4> HIDE DEF due
        <4>1. One(due) = One(withCall)
          BY <3>2 DEF One
        <4> HIDE DEF withCall
        <4> QED
          BY <1>5, <2>1, <3>2, <4>1 DEF InPlace
      <3> QED
        BY <3>1, <3>2
    <2>5. ~(withCall /\ Is(x, u, i))
      BY <1>1, <1>2, <1>6, <1>7 DEF Due, Is
    <2>6. InPlace(r, u, i, withCall \/ Is(x, u, i))
      <3>1. withCall \in BOOLEAN
        BY <2>1
      <3> HIDE DEF withCall
      <3> QED
        BY <1>0, <2>3, <2>4, <2>5, <3>1, PutsInPlace
    <2>7. Due(u, i)' <=> withCall \/ Is(x, u, i)
      <3>1. 1..(pos + 1) = (1..pos) \cup {pos + 1}
        BY <1>1
      <3> QED
        BY <1>1, <1>2, <1>7, <3>1 DEF Due, Is
    <2> HIDE DEF withCall
    <2>8. One(Due(u, i)') = One(withCall \/ Is(x, u, i))
      BY <2>7 DEF One
    <2> QED
      BY <2>6, <2>8 DEF InPlace
  <1>9. ASSUME NEW u, NEW i PROVE InPlace(Here, u, i, Due(u, i))'
    BY <1>1, <1>8 DEF InPlace, Held, Here, State, CopiesIn
  <1> QED
    BY <1>9 DEF Once

(* At its end the parser puts the rest of the stack in the output, and END. *)
LEMMA EndInPlace ==
  ASSUME IInv, Once, End
  PROVE  Once' /\ Ended'
  <1> DEFINE x == Item("END", Len(input) + 1, "NULLARY")
             p == Popped(Here, 0)
             r == PutEnd(Here)
  <1>1. /\ Shape(Here) /\ Len(Here.stack) \in Nat /\ pos \in Nat /\ Len(input) \in Nat
        /\ status = "parsing" /\ status' = "done" /\ pos = Len(input)
        /\ UNCHANGED <<input, pos>> /\ stack' = r.stack /\ rpn' = r.rpn
    BY HereKnown DEF End, Becomes, Here, Shape
  <1>2. x \in Items /\ \A u, i : Is(x, u, i) <=> u = "END" /\ i = Len(input) + 1
    BY <1>1 DEF Item, Items, Types, Markers, Is
  <1>3. r = PutValue(p, x)
    BY DEF PutEnd
  <1>4. p.stack \in Seq(Items) /\ p.rpn \in Seq(Items) /\ p.stack = <<>>
    <2>1. p.stack \in Seq(Items) /\ p.rpn \in Seq(Items)
      BY <1>1, PoppedHolds
    <2>2. p.stack = SubSeq(stack, 1, 0)
      BY HereKnown DEF Popped, State
    <2>3. SubSeq(stack, 1, 0) = <<>>
      <3>1. stack \in Seq(Items)
        BY DEF IInv, TypeOK
      <3> QED
        BY <3>1
    <2> QED
      BY <2>1, <2>2, <2>3
  <1> HIDE DEF x, p, r
  <1>5. r.stack = p.stack /\ r.rpn = Append(p.rpn, x)
    BY <1>3 DEF PutValue, State
  <1>6. Ended'
    <2> DEFINE out == p.rpn
               more == Append(out, x)
               m == Len(out)
    <2>1. Len(more) = m + 1 /\ more[m + 1] = x /\ m \in Nat
      BY <1>2, <1>4
    <2>2. rpn' = more /\ stack' = <<>> /\ input' = input
      BY <1>1, <1>4, <1>5
    <2> HIDE DEF out, more, m
    <2>3. Len(more) \in Nat \ {0} /\ Is(more[Len(more)], "END", Len(input) + 1)
      BY <1>2, <2>1
    <2> QED
      BY <2>2, <2>3 DEF Ended, Is
  <1>7. ASSUME NEW u, NEW i PROVE InPlace(r, u, i, Due(u, i)')
    <2> DEFINE due == Due(u, i)
    <2>1. InPlace(Here, u, i, due) /\ due \in BOOLEAN
      BY <1>1 DEF Once, Due
    <2>2. ~(due /\ Is(x, u, i))
      <3>1. \A k \in Calls : k # Len(input) + 1
        BY <1>1 DEF Calls
      <3> QED
        BY <1>1, <1>2, <3>1 DEF Due
    <2>3. Due(u, i)' <=> due \/ Is(x, u, i)
      <3>1. Calls' = Calls
        BY <1>1 DEF Calls
      <3> QED
        BY <1>1, <1>2, <3>1 DEF Due
    <2> HIDE DEF due
    <2>4. InPlace(p, u, i, due)
      <3>1. Held(p, u, i) = Held(Here, u, i) /\ CopiesIn(Here.rpn, u, i) <= CopiesIn(p.rpn, u, i)
        BY <1>1, PoppedHolds DEF p
      <3>2. CopiesIn(Here.rpn, u, i) \in Nat /\ CopiesIn(p.rpn, u, i) \in Nat /\ One(due) \in Nat
        BY <1>1, <1>4, HeldCounts DEF Shape, One
      <3> QED
        BY <2>1, <3>1, <3>2 DEF InPlace
    <2>5. Puts(p, r, x)
      BY <1>2, <1>3, <1>4, PutValuePuts
    <2>6. r.stack \in Seq(Items) /\ r.rpn \in Seq(Items)
      BY <1>2, <1>4, <1>5
    <2>7. InPlace(r, u, i, due \/ Is(x, u, i))
      <3>1. p.stack \in Seq(Items) /\ p.rpn \in Seq(Items) /\ due \in BOOLEAN
        BY <1>4, <2>1
      <3> QED
        BY <2>2, <2>4, <2>5, <2>6, <3>1, PutsInPlace
    <2>8. One(Due(u, i)') = One(due \/ Is(x, u, i))
      BY <2>3 DEF One
    <2> QED
      BY <2>7, <2>8 DEF InPlace
  <1>8. ASSUME NEW u, NEW i PROVE InPlace(Here, u, i, Due(u, i))'
    BY <1>1, <1>7 DEF InPlace, Held, Here, State, CopiesIn
  <1> QED
    BY <1>6, <1>8 DEF Once

(* Every iteration keeps each token in its place. *)
LEMMA NextInPlace ==
  ASSUME IInv, Once, Ended, Next
  PROVE  Once' /\ Ended'
  <1>1. ASSUME NEW t \in Types, Operand(t) PROVE Once' /\ Ended'
    <2> DEFINE x == Item(t, pos + 1, "NULLARY")
               s == WithCall(t)
    <2>1. Reading(t) /\ status' = "parsing"
      BY <1>1 DEF Operand, Reading
    <2>2. x \in Items /\ Is(x, t, pos + 1) /\ x.type = t
      BY HereKnown DEF Item, Items, Is
    <2>3. Shape(s) /\ s.stack \in Seq(Items) /\ s.rpn \in Seq(Items)
      BY CallKeeps DEF Shape
    <2> HIDE DEF x, s
    <2>4. CASE t \in Values /\ Becomes(PutValue(s, x))
      <3>1. Puts(s, PutValue(s, x), x) /\ Shape(PutValue(s, x))
        BY <2>2, <2>3, PutValuePuts, PutValueKeeps
      <3> QED
        BY <2>1, <2>2, <2>4, <3>1, ReadingInPlace DEF Ended, s
    <2>5. CASE t \in LGroups /\ Becomes(PutLGroup(s, x))
      <3>1. IsGroup(x)
        BY <2>2, <2>5 DEF IsGroup
      <3>2. Puts(s, PutLGroup(s, x), x) /\ Shape(PutLGroup(s, x))
        BY <2>2, <2>3, <3>1, PutLGroupPuts, PutLGroupKeeps
      <3> QED
        BY <2>1, <2>2, <2>5, <3>2, ReadingInPlace DEF Ended, s
    <2> QED
      BY <1>1, <2>4, <2>5 DEF Operand, x, s
  <1>2. ASSUME NEW t \in Types, CloseGroup(t) PROVE Once' /\ Ended'
    <2> DEFINE x == Item(t, pos + 1, "NULLARY")
    <2>1. /\ Reading(t) /\ status' = "parsing" /\ t \in RGroups
          /\ Groups(stack) # {} /\ Becomes(PutRGroup(Here, x))
      BY <1>2 DEF CloseGroup, Reading, Here
    <2>2. WithCall(t) = Here
      BY <2>1, KindsApart DEF WithCall, Here, VBegin
    <2>3. x \in Items /\ Is(x, t, pos + 1) /\ ~IsGroup(x) /\ Shape(Here) /\ Here.stack = stack
      BY <2>1, HereKnown, KindsApart DEF Item, Items, Is, IsGroup
    <2> HIDE DEF x
    <2>4. Puts(Here, PutRGroup(Here, x), x) /\ Shape(PutRGroup(Here, x))
      BY <2>1, <2>3, PutRGroupPuts, PutRGroupKeeps
    <2> QED
      BY <2>1, <2>2, <2>3, <2>4, ReadingInPlace DEF Ended
  <1>3. ASSUME NEW t \in Types, Operator(t) PROVE Once' /\ Ended'
    <2> DEFINE arity == Arity(t, prev, Peek)
               x == Item(t, pos + 1, arity)
    <2>1. /\ Reading(t) /\ status' = "parsing" /\ t \in Operators
          /\ arity # "NONE" /\ Becomes(PutOperator(Here, x))
      BY <1>3 DEF Operator, Reading, Here
    <2>2. HasArity(t, arity) /\ arity \in {"LUNARY", "RUNARY", "BINARY"}
      BY <2>1 DEF Arity
    <2> HIDE DEF arity
    <2>3. WithCall(t) = Here
      BY <2>1, KindsApart DEF WithCall, Here, VBegin
    <2>4. /\ x \in Items /\ Is(x, t, pos + 1) /\ HasArity(x.type, x.arity) /\ ~IsGroup(x)
          /\ Shape(Here)
      BY <2>1, <2>2, HereKnown, KindsApart DEF Item, Items, Is, IsGroup
    <2> HIDE DEF x
    <2>5. Puts(Here, PutOperator(Here, x), x) /\ Shape(PutOperator(Here, x))
      BY <2>4, PutOperatorPuts, PutOperatorKeeps
    <2> QED
      BY <2>1, <2>3, <2>4, <2>5, ReadingInPlace DEF Ended
  <1>4. ASSUME NEW t \in Types, CloseNothing(t) \/ Misplaced(t) PROVE Once' /\ Ended'
    BY <1>4 DEF CloseNothing, Misplaced, Once, Ended
  <1>5. CASE End
    BY <1>5, EndInPlace
  <1> QED
    BY <1>1, <1>2, <1>3, <1>4, <1>5 DEF Next

(* What is in place is what NothingLost says: no token and no CALL is missing,
   none is there twice, and there is nothing else. *)
LEMMA InPlaceIsNothingLost ==
  ASSUME IInv, Once, Ended
  PROVE  NothingLost
  <1> SUFFICES ASSUME status \in {"parsing", "done"}
               PROVE  /\ \A i \in 1..pos : Copies(input[i], i) \in IF input[i] \in LGroups THEN {1, 2} ELSE {1}
                      /\ \A i \in Calls : Copies("CALL", i) = 1
                      /\ \A k \in 1..Len(stack) : Belongs(stack[k])
                      /\ \A k \in 1..Len(rpn) :
                           Belongs(rpn[k]) \/ (status = "done" /\ k = Len(rpn) /\ rpn[k].type = "END")
                      /\ status = "parsing" =>
                           Cardinality(Groups(stack)) = Count(LGroups, pos) - Count(RGroups, pos)
    BY DEF NothingLost
  <1>1. /\ Shape(Here) /\ Here.stack = stack /\ Here.rpn = rpn /\ pos \in Nat
        /\ stack \in Seq(Items) /\ rpn \in Seq(Items) /\ Len(rpn) \in Nat
    BY HereKnown DEF IInv, TypeOK
  <1>2. \A t, i : /\ InPlace(Here, t, i, Due(t, i)) /\ Held(Here, t, i) = Copies(t, i)
                  /\ CopiesIn(rpn, t, i) \in Nat /\ CopiesIn(stack, t, i) \in Nat
    BY <1>1, PlacesFinite DEF Once, Held, Copies
  <1>3. \A t, i : Due(t, i) => Copies(t, i) \in IF t \in LGroups THEN {1, 2} ELSE {1}
    <2> SUFFICES ASSUME NEW t, NEW i, Due(t, i)
                 PROVE  Copies(t, i) \in IF t \in LGroups THEN {1, 2} ELSE {1}
      OBVIOUS
    <2>1. InPlace(Here, t, i, Due(t, i)) /\ One(Due(t, i)) = 1
      BY <1>2 DEF One
    <2>2. CopiesIn(rpn, t, i) \in Nat /\ CopiesIn(stack, t, i) \in Nat
      BY <1>2
    <2>3. CASE t \notin LGroups
      BY <1>2, <2>1, <2>3 DEF InPlace
    <2>4. CASE t \in LGroups
      <3>1. 1 <= CopiesIn(rpn, t, i) /\ Copies(t, i) <= 2
        <4>1. One(Due(t, i)) <= CopiesIn(Here.rpn, t, i) /\ Held(Here, t, i) <= 2 * One(Due(t, i))
          BY <2>1, <2>4 DEF InPlace
        <4>2. Held(Here, t, i) = Copies(t, i) /\ CopiesIn(Here.rpn, t, i) = CopiesIn(rpn, t, i)
          BY <1>1, <1>2
        <4> DEFINE one == One(Due(t, i))
        <4>3. one = 1 /\ one <= CopiesIn(rpn, t, i) /\ Copies(t, i) <= 2 * one
          BY <2>1, <4>1, <4>2
        <4> HIDE DEF one
        <4> QED
          BY <4>3
      <3>2. Copies(t, i) \in {1, 2}
        BY <2>2, <3>1 DEF Copies
      <3> QED
        BY <2>4, <3>2
    <2> QED
      BY <2>3, <2>4
  <1>4. ASSUME NEW s \in {stack, rpn}, NEW k \in 1..Len(s) PROVE Due(s[k].type, s[k].ix)
    <2> DEFINE t == s[k].type
               i == s[k].ix
    <2>1. s \in Seq(Items) /\ k \in Places(s, t, i)
      BY <1>1 DEF Places, Is
    <2>2. CopiesIn(s, t, i) = Cardinality(Places(s, t, i)) /\ IsFiniteSet(Places(s, t, i)) /\ CopiesIn(s, t, i) \in Nat
      BY <2>1, PlacesFinite
    <2>3. CopiesIn(s, t, i) # 0
      BY <2>1, <2>2, FS_EmptySet
    <2> HIDE DEF t, i
    <2>4. Copies(t, i) \in Nat \ {0}
      BY <1>2, <2>2, <2>3 DEF Copies
    <2>5. ASSUME ~Due(t, i) PROVE FALSE
      <3>1. InPlace(Here, t, i, Due(t, i)) /\ One(Due(t, i)) = 0 /\ Held(Here, t, i) = Copies(t, i)
        BY <1>2, <2>5 DEF One
      <3>2. Copies(t, i) <= 0
        BY <2>4, <3>1 DEF InPlace
      <3> QED
        BY <2>4, <3>2
    <2> QED
      BY <2>5 DEF t, i
  <1>5. \A i \in 1..pos : Copies(input[i], i) \in IF input[i] \in LGroups THEN {1, 2} ELSE {1}
    BY <1>3 DEF Due
  <1>6. \A i \in Calls : Copies("CALL", i) = 1
    <2>1. "CALL" \notin LGroups
      BY DEF LGroups
    <2> QED
      BY <1>3, <2>1 DEF Due
  <1>7. \A i \in Calls : i \in 1..pos
    BY <1>1 DEF Calls
  <1>8. \A k \in 1..Len(stack) : Belongs(stack[k])
    <2> SUFFICES ASSUME NEW k \in 1..Len(stack) PROVE Belongs(stack[k])
      OBVIOUS
    <2>1. Due(stack[k].type, stack[k].ix)
      BY <1>4
    <2>2. status # "done"
      BY DEF Ended
    <2> QED
      BY <1>7, <2>1, <2>2 DEF Due, Belongs
  <1>9. ASSUME NEW k \in 1..Len(rpn)
        PROVE  Belongs(rpn[k]) \/ (status = "done" /\ k = Len(rpn) /\ rpn[k].type = "END")
    <2>1. Due(rpn[k].type, rpn[k].ix)
      BY <1>4
    <2>2. CASE ~(status = "done" /\ rpn[k].type = "END" /\ rpn[k].ix = Len(input) + 1)
      BY <1>7, <2>1, <2>2 DEF Due, Belongs
    <2>3. CASE status = "done" /\ rpn[k].type = "END" /\ rpn[k].ix = Len(input) + 1
      <3> DEFINE P == Places(rpn, "END", Len(input) + 1)
      <3>1. Len(rpn) \in 1..Len(rpn) /\ Is(rpn[Len(rpn)], "END", Len(input) + 1)
        BY <1>1, <2>3 DEF Ended
      <3>2. k \in P /\ Len(rpn) \in P
        BY <2>3, <3>1 DEF Places, Is
      <3>3. IsFiniteSet(P) /\ Cardinality(P) = CopiesIn(rpn, "END", Len(input) + 1)
        BY <1>1, PlacesFinite
      <3> HIDE DEF P
      <3>4. Copies("END", Len(input) + 1) = 1
        <4>1. "END" \notin LGroups /\ Due("END", Len(input) + 1)
          BY <2>3 DEF LGroups, Due
        <4> QED
          BY <1>3, <4>1
      <3>5. Cardinality(P) = 1
        <4>1. Cardinality(P) # 0
          BY <3>2, <3>3, FS_EmptySet
        <4> QED
          BY <1>2, <3>3, <3>4, <4>1 DEF Copies
      <3>6. PICK y : P = {y}
        BY <3>3, <3>5, FS_Singleton
      <3> QED
        BY <2>3, <3>2, <3>6
    <2> QED
      BY <2>2, <2>3
  <1>10. status = "parsing" => Cardinality(Groups(stack)) = Count(LGroups, pos) - Count(RGroups, pos)
    <2>1. Count(LGroups, pos) \in Nat /\ Count(RGroups, pos) \in Nat
      BY <1>1, CountNext
    <2>2. Cardinality(Groups(stack)) \in Nat
      BY <1>1, GroupsFinite
    <2> QED
      BY <2>1, <2>2 DEF IInv, Balanced
  <1> QED
    BY <1>5, <1>6, <1>8, <1>9, <1>10

(* parse loses no token: whatever the stream, each token it read, and the CALL
   between each two values, is in one place of stack and output until the end; an
   opening comes a second time, and nothing else is there but END. *)
THEOREM EachTokenOnce == Spec => []NothingLost
  <1>1. Init => Once /\ Ended
    <2> SUFFICES ASSUME Init PROVE Once /\ Ended
      OBVIOUS
    <2>1. pos = 0 /\ stack = <<>> /\ rpn = <<>> /\ status = "parsing" /\ Here.stack = <<>> /\ Here.rpn = <<>>
      BY DEF Init, Here, State
    <2>2. ASSUME NEW t, NEW i PROVE InPlace(Here, t, i, Due(t, i))
      <3>1. ~Due(t, i)
        BY <2>1 DEF Due, Calls
      <3>2. CopiesIn(<<>>, t, i) = 0
        <4>1. {k \in 1..Len(<<>>) : <<>>[k].type = t /\ <<>>[k].ix = i} = {}
          OBVIOUS
        <4> QED
          BY <4>1, FS_EmptySet DEF CopiesIn
      <3>3. Held(Here, t, i) = 0 /\ CopiesIn(Here.rpn, t, i) = 0 /\ One(Due(t, i)) = 0
        BY <2>1, <3>1, <3>2 DEF Held, One
      <3> QED
        BY <3>3 DEF InPlace
    <2> QED
      BY <2>1, <2>2 DEF Once, Ended
  <1>2. IInv /\ Once /\ Ended /\ [Next]_vars => (Once /\ Ended)'
    <2> SUFFICES ASSUME IInv, Once, Ended, UNCHANGED vars PROVE Once' /\ Ended'
      BY NextInPlace
    <2>1. UNCHANGED <<input, pos, prev, stack, rpn, status>>
      BY DEF vars
    <2>2. ASSUME Once, NEW t, NEW i, status \in {"parsing", "done"} PROVE InPlace(Here, t, i, Due(t, i))'
      <3>1. InPlace(Here, t, i, Due(t, i))
        BY <2>2 DEF Once
      <3>2. Calls' = Calls
        BY <2>1 DEF Calls
      <3>3. Here' = Here /\ (Due(t, i)' <=> Due(t, i))
        BY <2>1, <3>2 DEF Here, Due
      <3>4. One(Due(t, i)') = One(Due(t, i))
        BY <3>3 DEF One
      <3> QED
        BY <3>1, <3>3, <3>4 DEF InPlace, Held, CopiesIn
    <2> QED
      BY <2>1, <2>2 DEF Once, Ended
  <1>3. IInv /\ Once /\ Ended => NothingLost
    BY InPlaceIsNothingLost
  <1>4. Spec => [](Once /\ Ended)
    BY Invariant, <1>1, <1>2, PTL DEF Spec
  <1> QED
    BY Invariant, <1>3, <1>4, PTL

-----------------------------------------------------------------------------
(* Sequences of items: what parse does to the output and the stack.          *)

Arities == {"NULLARY", "LUNARY", "RUNARY", "BINARY"}

Shifted(item, by) == Item(item.type, item.ix + by, item.arity)

(* A shifted item is one. *)
LEMMA ShiftedItem ==
  ASSUME NEW x \in Items, NEW by \in Nat
  PROVE  Shifted(x, by) \in Items /\ [x EXCEPT !.ix = @ + by] = Shifted(x, by)
  <1>1. x = [type |-> x.type, ix |-> x.ix, arity |-> x.arity] /\ x.ix + by \in Nat
    BY DEF Items
  <1>2. Shifted(x, by) \in Items
    BY <1>1 DEF Shifted, Item, Items
  <1>3. [x EXCEPT !.ix = @ + by] = [type |-> x.type, ix |-> x.ix + by, arity |-> x.arity]
    BY DEF Items
  <1> QED
    BY <1>2, <1>3 DEF Shifted, Item

(* The items of an expression's tree are moved one by one. *)
LEMMA MovedItems ==
  ASSUME NEW s \in Seq(Items), NEW by \in Nat
  PROVE  /\ Moved(s, by) \in Seq(Items) /\ Len(Moved(s, by)) = Len(s)
         /\ \A i \in 1..Len(s) : Moved(s, by)[i] = Shifted(s[i], by)
  <1>1. Len(s) \in Nat /\ \A i \in 1..Len(s) : s[i] \in Items
    OBVIOUS
  <1>2. Moved(s, by) = [i \in 1..Len(s) |-> [s[i] EXCEPT !.ix = @ + by]]
    BY DEF Moved
  <1>3. \A i \in 1..Len(s) : [s[i] EXCEPT !.ix = @ + by] = Shifted(s[i], by) /\ Shifted(s[i], by) \in Items
    BY <1>1, ShiftedItem
  <1>4. \A i \in 1..Len(s) : Moved(s, by)[i] = Shifted(s[i], by)
    BY <1>2, <1>3
  <1>5. Moved(s, by) \in [1..Len(s) -> Items]
    BY <1>2, <1>3
  <1>6. Moved(s, by) \in Seq(Items)
    BY <1>1, <1>5, SeqDef
  <1>7. Len(Moved(s, by)) = Len(s)
    <2>1. DOMAIN Moved(s, by) = 1..Len(s)
      BY <1>2
    <2> QED
      BY <1>1, <1>6, <2>1, LenProperties
  <1> QED
    BY <1>4, <1>6, <1>7

(* Moving twice is moving once by the sum. *)
LEMMA MovedTwice ==
  ASSUME NEW s \in Seq(Items), NEW j \in Nat, NEW k \in Nat
  PROVE  Moved(Moved(s, j), k) = Moved(s, j + k)
  <1> DEFINE a == Moved(s, j)
             b == Moved(a, k)
             c == Moved(s, j + k)
  <1>1. a \in Seq(Items) /\ Len(a) = Len(s) /\ \A i \in 1..Len(s) : a[i] = Shifted(s[i], j)
    BY MovedItems
  <1>2. b \in Seq(Items) /\ Len(b) = Len(a) /\ \A i \in 1..Len(a) : b[i] = Shifted(a[i], k)
    BY <1>1, MovedItems
  <1>3. c \in Seq(Items) /\ Len(c) = Len(s) /\ \A i \in 1..Len(s) : c[i] = Shifted(s[i], j + k)
    BY MovedItems
  <1> HIDE DEF a, b, c
  <1>4. ASSUME NEW i \in 1..Len(s) PROVE b[i] = c[i]
    <2>1. s[i] \in Items /\ a[i] \in Items
      BY <1>1
    <2>2. b[i] = Shifted(Shifted(s[i], j), k) /\ c[i] = Shifted(s[i], j + k)
      BY <1>1, <1>2, <1>3
    <2>3. s[i].ix \in Nat /\ (s[i].ix + j) + k = s[i].ix + (j + k)
      BY <2>1 DEF Items
    <2> QED
      BY <2>2, <2>3 DEF Shifted, Item
  <1>5. b = c
    BY <1>1, <1>2, <1>3, <1>4, SeqEqual
  <1> QED
    BY <1>5 DEF a, b, c

(* Both parts of a sequence are moved. *)
LEMMA MovedConcat ==
  ASSUME NEW s \in Seq(Items), NEW t \in Seq(Items), NEW k \in Nat
  PROVE  Moved(s \o t, k) = Moved(s, k) \o Moved(t, k)
  <1> DEFINE u == s \o t
             v == Moved(s, k)
             w == Moved(t, k)
             a == Moved(u, k)
             b == v \o w
             m == Len(s)
             n == Len(t)
  <1>1. /\ u \in Seq(Items) /\ Len(u) = m + n /\ m \in Nat /\ n \in Nat
        /\ \A i \in 1..(m + n) : u[i] = IF i <= m THEN s[i] ELSE t[i - m]
    BY ConcatProperties
  <1>2. v \in Seq(Items) /\ Len(v) = m /\ \A i \in 1..m : v[i] = Shifted(s[i], k)
    BY MovedItems
  <1>3. w \in Seq(Items) /\ Len(w) = n /\ \A i \in 1..n : w[i] = Shifted(t[i], k)
    BY MovedItems
  <1> HIDE DEF u, v, w, m, n
  <1>4. a \in Seq(Items) /\ Len(a) = Len(u) /\ \A i \in 1..Len(u) : a[i] = Shifted(u[i], k)
    BY <1>1, MovedItems
  <1>5. /\ b \in Seq(Items) /\ Len(b) = Len(v) + Len(w)
        /\ \A i \in 1..(Len(v) + Len(w)) : b[i] = IF i <= Len(v) THEN v[i] ELSE w[i - Len(v)]
    BY <1>2, <1>3, ConcatProperties
  <1> HIDE DEF a, b
  <1>6. ASSUME NEW i \in 1..(m + n) PROVE a[i] = b[i]
    <2>1. CASE i <= m
      <3>1. i \in 1..m
        BY <1>1, <2>1
      <3>2. a[i] = Shifted(u[i], k) /\ b[i] = v[i]
        BY <1>1, <1>2, <1>3, <1>4, <1>5, <2>1
      <3>3. u[i] = s[i] /\ v[i] = Shifted(s[i], k)
        BY <1>1, <1>2, <2>1, <3>1
      <3> QED
        BY <3>2, <3>3
    <2>2. CASE ~(i <= m)
      <3>1. i - m \in 1..n
        BY <1>1, <2>2
      <3>2. a[i] = Shifted(u[i], k) /\ b[i] = w[i - m]
        BY <1>1, <1>2, <1>3, <1>4, <1>5, <2>2
      <3>3. u[i] = t[i - m] /\ w[i - m] = Shifted(t[i - m], k)
        BY <1>1, <1>3, <2>2, <3>1
      <3> QED
        BY <3>2, <3>3
    <2> QED
      BY <2>1, <2>2
  <1>7. a = b
    BY <1>1, <1>2, <1>3, <1>4, <1>5, <1>6, SeqEqual
  <1> QED
    BY <1>7 DEF a, b, u, v, w

(* One item is moved. *)
LEMMA MovedOne ==
  ASSUME NEW t \in Types, NEW ix \in Nat, NEW arity \in Arities, NEW k \in Nat
  PROVE  /\ <<Entry(t, ix, arity)>> \in Seq(Items) /\ Item(t, ix, arity) \in Items
         /\ Moved(<<Entry(t, ix, arity)>>, k) = <<Item(t, ix + k, arity)>>
  <1> DEFINE x == Entry(t, ix, arity)
             y == Item(t, ix + k, arity)
  <1>1. x \in Items /\ y \in Items /\ Item(t, ix, arity) \in Items /\ Shifted(x, k) = y
    BY DEF Entry, Item, Items, Shifted, Arities
  <1> HIDE DEF x, y
  <1>2. <<x>> \in Seq(Items) /\ <<y>> \in Seq(Items) /\ Len(<<x>>) = 1 /\ Len(<<y>>) = 1 /\ <<x>>[1] = x /\ <<y>>[1] = y
    BY <1>1
  <1>3. Moved(<<x>>, k) = <<y>>
    <2>1. /\ Moved(<<x>>, k) \in Seq(Items) /\ Len(Moved(<<x>>, k)) = 1
          /\ \A i \in 1..1 : Moved(<<x>>, k)[i] = Shifted(<<x>>[i], k)
      BY <1>2, MovedItems
    <2>2. \A i \in 1..1 : Moved(<<x>>, k)[i] = <<y>>[i]
      BY <1>1, <1>2, <2>1
    <2> QED
      BY <1>2, <2>1, <2>2, SeqEqual
  <1> QED
    BY <1>1, <1>2, <1>3 DEF x, y

(* Sequences of items may be put together in any order. *)
LEMMA ItemsAssociative == \A a, b, c \in Seq(Items) : (a \o b) \o c = a \o (b \o c)
  BY ConcatAssociative

Associates(a, b, c) == (a \o b) \o c = a \o (b \o c)

(* The same, as a fact to cite of three sequences by their names. *)
LEMMA Associative == \A a, b, c \in Seq(Items) : Associates(a, b, c)
  BY ItemsAssociative, Zenon DEF Associates

(* Items of all types and uses. *)
LEMMA ItemKnown ==
  /\ "NULLARY" \in Arities /\ "LUNARY" \in Arities /\ "RUNARY" \in Arities /\ "BINARY" \in Arities
  /\ \A t \in Types, ix \in Nat, arity \in Arities : Item(t, ix, arity) \in Items
  /\ \A t \in Types, ix \in Nat, arity \in Arities : <<Entry(t, ix, arity)>> \in Seq(Items)
  /\ \A t \in Types, ix \in Nat, arity \in Arities, k \in Nat :
       Moved(<<Entry(t, ix, arity)>>, k) = <<Item(t, ix + k, arity)>>
  <1>1. /\ \A t \in Types, ix \in Nat, arity \in Arities : Item(t, ix, arity) \in Items
        /\ \A t \in Types, ix \in Nat, arity \in Arities : <<Entry(t, ix, arity)>> \in Seq(Items)
    BY MovedOne
  <1>2. \A t \in Types, ix \in Nat, arity \in Arities, k \in Nat :
          Moved(<<Entry(t, ix, arity)>>, k) = <<Item(t, ix + k, arity)>>
    BY MovedOne
  <1> QED
    BY <1>1, <1>2 DEF Arities

(* The first item comes last when they are turned around. *)
LEMMA ReversedFirst ==
  ASSUME NEW x \in Items, NEW s \in Seq(Items)
  PROVE  Reversed(<<x>> \o s) = Reversed(s) \o <<x>>
  <1> DEFINE a == Reversed(<<x>> \o s)
             b == Reversed(s) \o <<x>>
             n == Len(s)
  <1>1. <<x>> \in Seq(Items) /\ Len(<<x>>) = 1 /\ n \in Nat /\ <<x>>[1] = x
    OBVIOUS
  <1>2. /\ <<x>> \o s \in Seq(Items) /\ Len(<<x>> \o s) = 1 + n
        /\ \A i \in 1..(1 + n) : (<<x>> \o s)[i] = IF i <= 1 THEN <<x>>[i] ELSE s[i - 1]
    BY <1>1, ConcatProperties
  <1>3. /\ a \in Seq(Items) /\ Len(a) = 1 + n
        /\ \A i \in 1..(1 + n) : a[i] = (<<x>> \o s)[1 + n + 1 - i]
    BY <1>2, ReversedItems
  <1>4. /\ Reversed(s) \in Seq(Items) /\ Len(Reversed(s)) = n
        /\ \A i \in 1..n : Reversed(s)[i] = s[n + 1 - i]
    BY ReversedItems
  <1>5. /\ b \in Seq(Items) /\ Len(b) = n + 1
        /\ \A i \in 1..(n + 1) : b[i] = IF i <= n THEN Reversed(s)[i] ELSE <<x>>[i - n]
    BY <1>1, <1>4, ConcatProperties
  <1> HIDE DEF a, b, n
  <1>6. ASSUME NEW i \in 1..(n + 1) PROVE a[i] = b[i]
    <2>1. CASE i <= n
      <3>1. i \in 1..n /\ 1 + n + 1 - i \in 1..(1 + n) /\ ~(1 + n + 1 - i <= 1) /\ (1 + n + 1 - i) - 1 = n + 1 - i
              /\ i \in 1..(1 + n)
        BY <1>1, <2>1
      <3>2. a[i] = (<<x>> \o s)[1 + n + 1 - i]
        BY <1>3, <3>1
      <3>3. (<<x>> \o s)[1 + n + 1 - i] = s[(1 + n + 1 - i) - 1]
        BY <1>2, <3>1
      <3> QED
        BY <1>4, <1>5, <2>1, <3>1, <3>2, <3>3
    <2>2. CASE i = n + 1
      <3>1. 1 + n + 1 - i = 1 /\ i - n = 1 /\ ~(i <= n) /\ 1 \in 1..(1 + n) /\ i \in 1..(1 + n)
        BY <1>1, <2>2
      <3>2. a[i] = (<<x>> \o s)[1] /\ b[i] = <<x>>[1]
        BY <1>3, <1>5, <3>1
      <3> QED
        BY <1>2, <3>1, <3>2
    <2> QED
      BY <1>1, <2>1, <2>2
  <1>7. a = b
    BY <1>1, <1>3, <1>5, <1>6, SeqEqual
  <1> QED
    BY <1>7 DEF a, b

-----------------------------------------------------------------------------
(* What the table says of the uses: nothing but a unary operator has the
   precedence 3, nothing but the semicolon 19, and no operator has two uses of
   one arity. *)
Uses == [prec : 0..19, assoc : {"LEFT", "RIGHT", "NONE"}, arity : Arities]

Entered(op, u) ==
  /\ u \in Uses /\ u.prec > 0
  /\ u.arity = "BINARY" => u.prec # 3 /\ u.prec # 19
  /\ u.arity = "LUNARY" => u.prec = 3
  /\ \A v \in Specs[op] : v.arity = u.arity => v = u

(* It says so of every operator. *)
LEMMA TheTable == \A op \in Operators : \A u \in Specs[op] : Entered(op, u)
  <1> USE DEF Specs
  <1>1. DOMAIN Specs =
          { "CALL", "OP_PLUS_PLUS", "OP_MINUS_MINUS", "OP_DOT", "OP_OR_GREATER", "OP_PLUS",
            "OP_MINUS", "OP_BANG", "OP_STAR_STAR", "OP_STAR", "OP_SLASH", "OP_PERCENT",
            "OP_LESS_EQ_GREATER", "OP_LESS", "OP_LESS_EQ", "OP_GREATER", "OP_GREATER_EQ",
            "OP_EQ_EQ", "OP_BANG_EQ", "OP_EQ", "OP_COLON_EQ", "OP_PLUS_EQ", "OP_MINUS_EQ",
            "OP_STAR_EQ", "OP_SLASH_EQ", "OP_PERCENT_EQ", "OP_COMMA", "OP_SEMICOLON" }
    OBVIOUS
  <1>2. /\ Specs["CALL"] = LeftBinary(2) /\ Specs["OP_DOT"] = LeftBinary(2)
        /\ Specs["OP_OR_GREATER"] = LeftBinary(2) /\ Specs["OP_STAR_STAR"] = LeftBinary(4)
        /\ Specs["OP_STAR"] = LeftBinary(5) /\ Specs["OP_SLASH"] = LeftBinary(5)
        /\ Specs["OP_PERCENT"] = LeftBinary(5) /\ Specs["OP_LESS_EQ_GREATER"] = LeftBinary(8)
        /\ Specs["OP_LESS"] = LeftBinary(9) /\ Specs["OP_LESS_EQ"] = LeftBinary(9)
        /\ Specs["OP_GREATER"] = LeftBinary(9) /\ Specs["OP_GREATER_EQ"] = LeftBinary(9)
        /\ Specs["OP_EQ_EQ"] = LeftBinary(10) /\ Specs["OP_BANG_EQ"] = LeftBinary(10)
        /\ Specs["OP_COMMA"] = LeftBinary(18)
    OBVIOUS
  <1>3. /\ Specs["OP_COLON_EQ"] = RightBinary(17) /\ Specs["OP_PLUS_EQ"] = RightBinary(17)
        /\ Specs["OP_MINUS_EQ"] = RightBinary(17) /\ Specs["OP_STAR_EQ"] = RightBinary(17)
        /\ Specs["OP_SLASH_EQ"] = RightBinary(17) /\ Specs["OP_PERCENT_EQ"] = RightBinary(17)
    OBVIOUS
  <1>4. /\ Specs["OP_PLUS_PLUS"] = Increment /\ Specs["OP_MINUS_MINUS"] = Increment
        /\ Specs["OP_PLUS"] = Sign /\ Specs["OP_MINUS"] = Sign
        /\ Specs["OP_BANG"] = {Use(3, "RIGHT", "LUNARY")}
        /\ Specs["OP_EQ"] = {Use(17, "NONE", "BINARY")}
        /\ Specs["OP_SEMICOLON"] = {Use(19, "LEFT", "RUNARY")}
    OBVIOUS
  <1> DEFINE Kinds == {LeftBinary(p) : p \in (2..18) \ {3}} \cup
                      {RightBinary(17), Increment, Sign, {Use(3, "RIGHT", "LUNARY")},
                       {Use(17, "NONE", "BINARY")}, {Use(19, "LEFT", "RUNARY")}}
  <1> HIDE DEF Specs
  <1>5. \A op \in Operators : Specs[op] \in Kinds
    <2> DEFINE Left == {LeftBinary(p) : p \in (2..18) \ {3}}
    <2>1. \A p \in {2, 4, 5, 8, 9, 10, 18} : LeftBinary(p) \in Left
      OBVIOUS
    <2> HIDE DEF Left
    <2> QED
      BY <1>1, <1>2, <1>3, <1>4, <2>1 DEF Operators
  <1>6. ASSUME NEW op \in Operators, NEW u \in Specs[op] PROVE Entered(op, u)
    <2> USE DEF Entered, Uses, Arities, Use
    <2>1. CASE \E p \in (2..18) \ {3} : Specs[op] = LeftBinary(p)
      BY <2>1 DEF LeftBinary
    <2>2. CASE Specs[op] \in {RightBinary(17), {Use(3, "RIGHT", "LUNARY")},
                              {Use(17, "NONE", "BINARY")}, {Use(19, "LEFT", "RUNARY")}}
      BY <2>2 DEF RightBinary
    <2>3. CASE Specs[op] = Increment
      BY <2>3 DEF Increment
    <2>4. CASE Specs[op] = Sign
      BY <2>4 DEF Sign
    <2> QED
      BY <1>5, <2>1, <2>2, <2>3, <2>4
  <1> QED
    BY <1>6

(* The use of an operator, where it has one of that arity, is the one entered. *)
LEMMA UseKnown ==
  ASSUME NEW op, NEW arity, HasArity(op, arity)
  PROVE  /\ TheUse(op, arity) \in Uses /\ TheUse(op, arity).arity = arity /\ arity \in Arities
         /\ TheUse(op, arity).prec > 0
         /\ arity = "BINARY" => TheUse(op, arity).prec # 3 /\ TheUse(op, arity).prec # 19
         /\ arity = "LUNARY" => TheUse(op, arity).prec = 3
  <1>1. op \in Operators /\ \E u \in Specs[op] : u.arity = arity
    BY DEF HasArity
  <1>2. TheUse(op, arity) \in Specs[op] /\ TheUse(op, arity).arity = arity
    BY <1>1 DEF TheUse
  <1> QED
    BY <1>1, <1>2, TheTable DEF Entered, Uses

(* The semicolon binds weakest; a call associates to the left. *)
LEMMA KnownUses ==
  /\ HasArity("OP_SEMICOLON", "RUNARY") /\ ~HasArity("OP_SEMICOLON", "BINARY")
  /\ TheUse("OP_SEMICOLON", "RUNARY") = Use(19, "LEFT", "RUNARY")
  /\ TheUse("CALL", "BINARY") = Use(2, "LEFT", "BINARY")
  <1>1. Specs["OP_SEMICOLON"] = {Use(19, "LEFT", "RUNARY")} /\ Specs["CALL"] = {Use(2, "LEFT", "BINARY")}
    BY DEF Specs, LeftBinary
  <1>2. "OP_SEMICOLON" \in Operators /\ "CALL" \in Operators
    BY DEF Operators, Specs
  <1>3. Use(19, "LEFT", "RUNARY").arity = "RUNARY" /\ Use(2, "LEFT", "BINARY").arity = "BINARY"
    BY DEF Use
  <1>4. /\ TheUse("OP_SEMICOLON", "RUNARY") \in Specs["OP_SEMICOLON"]
        /\ TheUse("CALL", "BINARY") \in Specs["CALL"]
    BY <1>1, <1>3 DEF TheUse
  <1>5. HasArity("OP_SEMICOLON", "RUNARY") /\ ~HasArity("OP_SEMICOLON", "BINARY")
    BY <1>1, <1>2, <1>3 DEF HasArity
  <1> QED
    BY <1>1, <1>4, <1>5

-----------------------------------------------------------------------------
(* An operator meets the stack: an operator below stays where the new one binds
   tighter, and the operators of complete operands on top of it go. *)
Holds(below, u) == below.prec > u.prec \/ (below.prec = u.prec /\ u.assoc = "RIGHT")

Accepts(st, u) ==
  \/ st = <<>>
  \/ IsGroup(st[Len(st)])
  \/ UseOf(st[Len(st)]) \in Uses /\ Holds(UseOf(st[Len(st)]), u)

Operates(item, u) == ~IsGroup(item) /\ UseOf(item) = u /\ u \in Uses

(* Keep finds the last place, whatever is below. *)
LEMMA KeepFinds ==
  ASSUME NEW n \in Nat, NEW k \in 0..n, NEW staying \in SUBSET (1..n),
         k # 0 => k \in staying, \A j \in staying : j <= k
  PROVE  Keep(staying) = k
  <1>1. /\ Keep(staying) \in 0..n /\ (Keep(staying) # 0 => Keep(staying) \in staying)
        /\ \A j \in staying : j <= Keep(staying)
    BY KeepIsLast
  <1>2. k <= Keep(staying)
    BY <1>1
  <1>3. Keep(staying) <= k
    BY <1>1
  <1> QED
    BY <1>1, <1>2, <1>3

(* The upper part of a stack is popped and comes out turned around. *)
LEMMA PoppedUpper ==
  ASSUME NEW st \in Seq(Items), NEW up \in Seq(Items), NEW s, s.stack = st \o up
  PROVE  Popped(s, Len(st)) = State(st, s.rpn \o Reversed(up))
  <1> DEFINE all == st \o up
             m == Len(st)
             n == Len(up)
             low == SubSeq(all, 1, m)
             high == SubSeq(all, m + 1, m + n)
  <1>1. /\ all \in Seq(Items) /\ Len(all) = m + n /\ m \in Nat /\ n \in Nat
        /\ \A i \in 1..(m + n) : all[i] = IF i <= m THEN st[i] ELSE up[i - m]
    BY ConcatProperties
  <1> HIDE DEF all, m, n
  <1>2. low \in Seq(Items) /\ Len(low) = m /\ \A i \in 1..m : low[i] = all[i]
    BY <1>1
  <1>3. high \in Seq(Items) /\ Len(high) = n /\ \A i \in 1..n : high[i] = all[m + i]
    BY <1>1
  <1> HIDE DEF low, high
  <1>4. low = st
    <2>1. \A i \in 1..m : low[i] = st[i]
      BY <1>1, <1>2
    <2> QED
      BY <1>2, <2>1, SeqEqual DEF m
  <1>5. high = up
    <2>1. \A i \in 1..n : high[i] = up[i]
      <3> SUFFICES ASSUME NEW i \in 1..n PROVE high[i] = up[i]
        OBVIOUS
      <3>1. m + i \in 1..(m + n) /\ ~(m + i <= m) /\ (m + i) - m = i
        BY <1>1
      <3> QED
        BY <1>1, <1>3, <3>1
    <2> QED
      BY <1>3, <2>1, SeqEqual DEF n
  <1>6. Popped(s, m) = State(SubSeq(all, 1, m), s.rpn \o Reversed(SubSeq(all, m + 1, Len(all))))
    BY DEF Popped, all, m
  <1>7. Popped(s, m) = State(low, s.rpn \o Reversed(high))
    BY <1>1, <1>6 DEF low, high
  <1> QED
    BY <1>4, <1>5, <1>7 DEF m

(* What PutOperator does: the upper part goes, the lower part takes the new
   operator. *)
LEMMA PutOnto ==
  ASSUME NEW st \in Seq(Items), NEW up \in Seq(Items), NEW s, s.stack = st \o up,
         NEW op, NEW u, Operates(op, u), Accepts(st, u),
         \A k \in 1..Len(up) : \E v \in Uses : Operates(up[k], v) /\ ~Holds(v, u)
  PROVE  PutOperator(s, op) =
           IF op.arity = "RUNARY" THEN State(st, Append(s.rpn \o Reversed(up), op))
                                  ELSE State(Append(st, op), s.rpn \o Reversed(up))
  <1> DEFINE all == st \o up
             m == Len(st)
             n == Len(up)
             staying == Outlasting(all, op)
  <1>1. /\ all \in Seq(Items) /\ Len(all) = m + n /\ m \in Nat /\ n \in Nat
        /\ \A i \in 1..(m + n) : all[i] = IF i <= m THEN st[i] ELSE up[i - m]
    BY ConcatProperties
  <1> HIDE DEF all, m, n
  <1>2. staying \in SUBSET (1..(m + n))
    BY <1>1 DEF Outlasting
  <1>3. ASSUME NEW j \in staying PROVE j <= m
    <2> SUFFICES ASSUME ~(j <= m) PROVE FALSE
      OBVIOUS
    <2>1. j \in 1..(m + n) /\ Outlasts(all[j], op)
      BY <1>1 DEF Outlasting
    <2>2. j - m \in 1..n /\ all[j] = up[j - m]
      BY <1>1, <2>1
    <2>3. PICK v \in Uses : Operates(all[j], v) /\ ~Holds(v, u)
      BY <2>2 DEF n
    <2> QED
      BY <2>1, <2>3 DEF Outlasts, Operates, Holds
  <1>4. m # 0 => m \in staying
    <2> SUFFICES ASSUME m # 0 PROVE m \in staying
      OBVIOUS
    <2>1. st # <<>> /\ m \in 1..(m + n) /\ all[m] = st[m]
      BY <1>1 DEF m
    <2>2. IsGroup(st[m]) \/ Holds(UseOf(st[m]), u)
      BY <2>1 DEF Accepts, m
    <2>3. Outlasts(all[m], op)
      BY <2>1, <2>2 DEF Outlasts, Holds, Operates
    <2> QED
      BY <1>1, <2>1, <2>3 DEF Outlasting
  <1>5. Keep(staying) = m
    <2> HIDE DEF staying
    <2>1. m \in 0..(m + n) /\ m + n \in Nat
      BY <1>1
    <2> QED
      BY <1>2, <1>3, <1>4, <2>1, KeepFinds
  <1>6. Popped(s, m) = State(st, s.rpn \o Reversed(up))
    BY PoppedUpper DEF m
  <1>7. Keep(Outlasting(s.stack, op)) = m
    BY <1>5 DEF all
  <1> DEFINE p == Popped(s, m)
             out == s.rpn \o Reversed(up)
  <1>8. p.stack = st /\ p.rpn = out
    BY <1>6 DEF State
  <1> HIDE DEF p, out
  <1>9. PutOperator(s, op) = IF op.arity = "RUNARY" THEN State(p.stack, Append(p.rpn, op))
                                                   ELSE State(Append(p.stack, op), p.rpn)
    BY <1>7 DEF PutOperator, p
  <1> QED
    BY <1>8, <1>9 DEF out

(* What PutRGroup does: everything down to the opening goes, and the opening. *)
Closes(s, st, up, item) ==
  /\ PutRGroup(s, item) = State(st, Append(s.rpn \o Reversed(up), item))
  /\ Groups(s.stack) # {}

(* That is so when there is no other opening above it. *)
LEMMA PutClosing ==
  ASSUME NEW st \in Seq(Items), NEW open \in Items, IsGroup(open), NEW up \in Seq(Items),
         NEW s, s.stack = Append(st, open) \o up, NEW item,
         \A k \in 1..Len(up) : ~IsGroup(up[k])
  PROVE  Closes(s, st, up, item)
  <1> DEFINE low == Append(st, open)
             m == Len(st)
             n == Len(up)
             all == low \o up
             out == s.rpn \o Reversed(up)
  <1>1. /\ low \in Seq(Items) /\ Len(low) = m + 1 /\ m \in Nat /\ n \in Nat /\ low[m + 1] = open
        /\ \A i \in 1..m : low[i] = st[i]
    OBVIOUS
  <1> HIDE DEF low
  <1>2. /\ all \in Seq(Items) /\ Len(all) = Len(low) + n
        /\ \A i \in 1..(Len(low) + n) : all[i] = IF i <= Len(low) THEN low[i] ELSE up[i - Len(low)]
    BY <1>1, ConcatProperties
  <1>3. s.stack = all
    BY DEF low
  <1> HIDE DEF all, m, n
  <1>4. Groups(all) \in SUBSET (1..(m + 1 + n))
    BY <1>1, <1>2 DEF Groups
  <1>5. m + 1 \in Groups(all)
    BY <1>1, <1>2 DEF Groups
  <1>6. ASSUME NEW j \in Groups(all) PROVE j <= m + 1
    <2> SUFFICES ASSUME ~(j <= m + 1) PROVE FALSE
      BY <1>1, <1>4
    <2>1. j \in 1..(m + 1 + n) /\ IsGroup(all[j])
      BY <1>1, <1>2 DEF Groups
    <2>2. j - (m + 1) \in 1..n /\ all[j] = up[j - (m + 1)]
      BY <1>1, <1>2, <2>1
    <2> QED
      BY <2>1, <2>2 DEF n
  <1>7. Keep(Groups(all)) = m + 1
    <2>1. m + 1 \in 0..(m + 1 + n) /\ m + 1 + n \in Nat
      BY <1>1
    <2> QED
      BY <1>4, <1>5, <1>6, <2>1, KeepFinds
  <1> DEFINE p == Popped(s, m + 1)
  <1>8. p = State(low, out)
    <2>1. s.stack = low \o up
      BY DEF low
    <2> QED
      BY <1>1, <2>1, PoppedUpper
  <1>9. p.stack = low /\ p.rpn = out
    BY <1>8 DEF State
  <1> HIDE DEF p, out
  <1>10. PutRGroup(s, item) = State(SubSeq(p.stack, 1, Len(p.stack) - 1), Append(p.rpn, item))
    BY <1>3, <1>7 DEF PutRGroup, p
  <1>11. SubSeq(low, 1, (m + 1) - 1) = st
    <2> DEFINE below == SubSeq(low, 1, (m + 1) - 1)
    <2>1. below \in Seq(Items) /\ Len(below) = m /\ \A i \in 1..m : below[i] = low[i]
      BY <1>1
    <2> HIDE DEF below
    <2>2. below = st
      BY <1>1, <2>1, SeqEqual DEF m
    <2> QED
      BY <2>2 DEF below
  <1> QED
    BY <1>1, <1>3, <1>5, <1>9, <1>10, <1>11 DEF out, Closes

-----------------------------------------------------------------------------
(* The run of the parser over a stream w, as a function: r[i] is the stack and
   the output after i tokens.  It goes on where the parser gives up.         *)
Before(w, i) == IF i = 0 THEN "START" ELSE w[i]
Ahead(w, i)  == IF i + 1 < Len(w) THEN w[i + 2] ELSE "END"

CallAt(i) == Item("CALL", i + 1, "BINARY")

Entering(w, i, s) ==
  IF VEnd(Before(w, i)) /\ VBegin(w[i + 1]) THEN PutOperator(s, CallAt(i)) ELSE s

Selected(w, i) == Arity(w[i + 1], Before(w, i), Ahead(w, i))

Fails(w, i, s) ==
  \/ w[i + 1] \in RGroups /\ Groups(s.stack) = {}
  \/ w[i + 1] \in Operators /\ Selected(w, i) = "NONE"

After(w, i, s) ==
  IF Fails(w, i, s) THEN s
  ELSE IF w[i + 1] \in Values THEN PutValue(Entering(w, i, s), Item(w[i + 1], i + 1, "NULLARY"))
  ELSE IF w[i + 1] \in LGroups THEN PutLGroup(Entering(w, i, s), Item(w[i + 1], i + 1, "NULLARY"))
  ELSE IF w[i + 1] \in RGroups THEN PutRGroup(s, Item(w[i + 1], i + 1, "NULLARY"))
  ELSE PutOperator(s, Item(w[i + 1], i + 1, Selected(w, i)))

Formed(s) == Shape(s) /\ s = State(s.stack, s.rpn)

RunsTo(w, r, n) ==
  /\ r[0] = State(<<>>, <<>>)
  /\ \A i \in 0..n : Formed(r[i])
  /\ \A i \in 0..(n - 1) : r[i + 1] = After(w, i, r[i])

Streams   == Seq(Types \ Markers)
IsRun(w, r) == w \in Streams /\ RunsTo(w, r, Len(w))

(* A token of a stream and the operators that may come of it. *)
LEMMA TokenKnown ==
  ASSUME NEW w \in Streams, NEW i \in 0..(Len(w) - 1)
  PROVE  /\ i \in Nat /\ i + 1 \in 1..Len(w) /\ Len(w) \in Nat /\ w[i + 1] \in Types \ Markers
         /\ CallAt(i) \in Items /\ ~IsGroup(CallAt(i)) /\ HasArity(CallAt(i).type, CallAt(i).arity)
         /\ Item(w[i + 1], i + 1, "NULLARY") \in Items
         /\ Item(w[i + 1], i + 1, "NULLARY").type = w[i + 1]
  <1>1. i \in Nat /\ i + 1 \in 1..Len(w) /\ Len(w) \in Nat
    BY DEF Streams
  <1>2. w[i + 1] \in Types \ Markers
    BY <1>1 DEF Streams
  <1>3. "CALL" \in Types /\ "CALL" \notin LGroups /\ HasArity("CALL", "BINARY")
    BY KindsApart DEF HasArity, Types
  <1>4. CallAt(i) \in Items /\ CallAt(i).type = "CALL" /\ CallAt(i).arity = "BINARY"
    BY <1>1, <1>3 DEF CallAt, Item, Items
  <1>5. Item(w[i + 1], i + 1, "NULLARY") \in Items /\ Item(w[i + 1], i + 1, "NULLARY").type = w[i + 1]
    BY <1>1, <1>2 DEF Item, Items
  <1> QED
    BY <1>1, <1>2, <1>3, <1>4, <1>5 DEF IsGroup

(* Putting anything makes a state. *)
LEMMA PutForms ==
  ASSUME NEW s, NEW item
  PROVE  /\ PutOperator(s, item) = State(PutOperator(s, item).stack, PutOperator(s, item).rpn)
         /\ PutValue(s, item) = State(PutValue(s, item).stack, PutValue(s, item).rpn)
         /\ PutLGroup(s, item) = State(PutLGroup(s, item).stack, PutLGroup(s, item).rpn)
         /\ PutRGroup(s, item) = State(PutRGroup(s, item).stack, PutRGroup(s, item).rpn)
  <1>1. \A st, out : State(st, out) = State(State(st, out).stack, State(st, out).rpn)
    BY DEF State
  <1>2. \E st, out : PutOperator(s, item) = State(st, out)
    BY DEF PutOperator
  <1>3. \E st, out : PutValue(s, item) = State(st, out)
    BY DEF PutValue
  <1>4. \E st, out : PutLGroup(s, item) = State(st, out)
    BY DEF PutLGroup
  <1>5. \E st, out : PutRGroup(s, item) = State(st, out)
    BY DEF PutRGroup
  <1> QED
    BY <1>1, <1>2, <1>3, <1>4, <1>5

(* So does putting in a CALL, where there is one. *)
LEMMA EnteringForms ==
  ASSUME NEW w \in Streams, NEW i \in 0..(Len(w) - 1), NEW s, Formed(s)
  PROVE  Formed(Entering(w, i, s))
  <1>1. CASE VEnd(Before(w, i)) /\ VBegin(w[i + 1])
    <2>1. Entering(w, i, s) = PutOperator(s, CallAt(i))
      BY <1>1 DEF Entering
    <2> QED
      BY <2>1, TokenKnown, PutOperatorKeeps, PutForms DEF Formed
  <1>2. CASE ~(VEnd(Before(w, i)) /\ VBegin(w[i + 1]))
    BY <1>2 DEF Entering
  <1> QED
    BY <1>1, <1>2

(* The use that is selected is one of the operator's. *)
LEMMA SelectedKnown ==
  ASSUME NEW w \in Streams, NEW i \in 0..(Len(w) - 1), w[i + 1] \in Operators, Selected(w, i) # "NONE"
  PROVE  LET item == Item(w[i + 1], i + 1, Selected(w, i)) IN
         item \in Items /\ ~IsGroup(item) /\ HasArity(item.type, item.arity)
  <1> DEFINE item == Item(w[i + 1], i + 1, Selected(w, i))
  <1>1. HasArity(w[i + 1], Selected(w, i)) /\ Selected(w, i) \in {"LUNARY", "RUNARY", "BINARY"}
    BY DEF Selected, Arity
  <1>2. i + 1 \in Nat /\ w[i + 1] \in Types /\ w[i + 1] \notin LGroups
    <2>1. i \in Nat /\ w[i + 1] \in Types
      BY TokenKnown
    <2>2. w[i + 1] \notin LGroups
      BY KindsApart
    <2> QED
      BY <2>1, <2>2
  <1>3. item \in Items /\ item.type = w[i + 1] /\ item.arity = Selected(w, i)
    BY <1>1, <1>2 DEF Item, Items
  <1> QED
    BY <1>1, <1>2, <1>3 DEF IsGroup

(* Reading a token makes a state of a state. *)
LEMMA AfterForms ==
  ASSUME NEW w \in Streams, NEW i \in 0..(Len(w) - 1), NEW s, Formed(s)
  PROVE  Formed(After(w, i, s))
  <1> DEFINE t == w[i + 1]
             item == Item(t, i + 1, "NULLARY")
             e == Entering(w, i, s)
             op == Item(t, i + 1, Selected(w, i))
  <1>1. t \in Types \ Markers /\ item \in Items /\ item.type = t
    BY TokenKnown
  <1>2. Shape(e) /\ Shape(s)
    BY EnteringForms DEF Formed
  <1>3. t \in Operators /\ Selected(w, i) # "NONE" => op \in Items /\ ~IsGroup(op) /\ HasArity(op.type, op.arity)
    BY SelectedKnown
  <1> HIDE DEF item, e, op
  <1>4. After(w, i, s) = IF Fails(w, i, s) THEN s
                         ELSE IF t \in Values THEN PutValue(e, item)
                         ELSE IF t \in LGroups THEN PutLGroup(e, item)
                         ELSE IF t \in RGroups THEN PutRGroup(s, item)
                         ELSE PutOperator(s, op)
    BY DEF After, item, e, op
  <1>5. CASE Fails(w, i, s)
    BY <1>4, <1>5
  <1>6. CASE ~Fails(w, i, s) /\ t \in Values
    BY <1>1, <1>2, <1>4, <1>6, PutValueKeeps, PutForms DEF Formed
  <1>7. CASE ~Fails(w, i, s) /\ t \notin Values /\ t \in LGroups
    <2>1. IsGroup(item)
      BY <1>1, <1>7 DEF IsGroup
    <2> QED
      BY <1>1, <1>2, <1>4, <1>7, <2>1, PutLGroupKeeps, PutForms DEF Formed
  <1>8. CASE ~Fails(w, i, s) /\ t \notin Values /\ t \notin LGroups /\ t \in RGroups
    <2>1. Groups(s.stack) # {}
      BY <1>8 DEF Fails
    <2> QED
      BY <1>1, <1>2, <1>4, <1>8, <2>1, PutRGroupKeeps, PutForms DEF Formed
  <1>9. CASE ~Fails(w, i, s) /\ t \notin Values /\ t \notin LGroups /\ t \notin RGroups
    <2>1. t \in Operators /\ Selected(w, i) # "NONE"
      BY <1>1, <1>9 DEF Fails, Types
    <2> QED
      BY <1>2, <1>3, <1>4, <1>9, <2>1, PutOperatorKeeps, PutForms DEF Formed
  <1> QED
    BY <1>5, <1>6, <1>7, <1>8, <1>9

(* Every stream has a run: it goes on to the least place where it could not. *)
LEMMA RunExists ==
  ASSUME NEW w \in Streams
  PROVE  \E r : IsRun(w, r)
  <1> DEFINE n == Len(w)
             Bad == {k \in 0..n : ~ \E r : RunsTo(w, r, k)}
  <1>1. n \in Nat
    BY DEF Streams
  <1> SUFFICES ASSUME Bad # {} PROVE FALSE
    <2>1. n \notin Bad /\ n \in 0..n
      BY <1>1
    <2> QED
      BY <2>1 DEF IsRun
  <1>2. PICK k \in Bad : \A l \in Bad : k <= l
    <2>1. Bad \in SUBSET Int /\ IsFiniteSet(Bad)
      <3>1. Bad \subseteq 0..n /\ IsFiniteSet(0..n)
        BY <1>1, FS_Interval
      <3> QED
        BY <3>1, FS_Subset
    <2> HIDE DEF Bad
    <2> QED
      BY <2>1, Minimum
  <1>3. k \in 0..n /\ ~ \E r : RunsTo(w, r, k)
    OBVIOUS
  <1>4. CASE k = 0
    <2> DEFINE r == [i \in {0} |-> State(<<>>, <<>>)]
    <2>1. Formed(State(<<>>, <<>>))
      <3>1. State(<<>>, <<>>).stack = <<>> /\ State(<<>>, <<>>).rpn = <<>>
        BY DEF State
      <3>2. Typed(<<>>) /\ Sorted(<<>>)
        BY DEF Typed, Sorted
      <3>3. <<>> \in Seq(Items)
        OBVIOUS
      <3>4. Shape(State(<<>>, <<>>))
        BY <3>1, <3>2, <3>3 DEF Shape
      <3> QED
        BY <3>1, <3>4 DEF Formed
    <2>2. r[0] = State(<<>>, <<>>) /\ 0..0 = {0} /\ 0..(0 - 1) = {}
      OBVIOUS
    <2> HIDE DEF r
    <2>3. RunsTo(w, r, 0)
      BY <2>1, <2>2 DEF RunsTo
    <2> QED
      BY <1>3, <1>4, <2>3
  <1>5. CASE k # 0
    <2>1. k - 1 \in 0..n /\ k - 1 \notin Bad
      <3>1. k - 1 \in 0..n /\ ~(k <= k - 1)
        BY <1>1, <1>3, <1>5
      <3> HIDE DEF Bad
      <3> QED
        BY <1>2, <3>1
    <2>2. PICK r : RunsTo(w, r, k - 1)
      BY <2>1
    <2> DEFINE last == After(w, k - 1, r[k - 1])
               f == [i \in 0..k |-> IF i < k THEN r[i] ELSE last]
    <2>3. k \in Nat /\ k - 1 \in 0..(n - 1) /\ k - 1 \in 0..(k - 1) /\ k \in 0..k /\ ~(k < k)
      BY <1>1, <1>3, <1>5
    <2>4. Formed(last)
      BY <2>2, <2>3, AfterForms DEF RunsTo
    <2> HIDE DEF last
    <2>5. f[k] = last /\ \A i \in 0..(k - 1) : f[i] = r[i]
      <3>1. \A i \in 0..(k - 1) : i \in 0..k /\ i < k
        BY <2>3
      <3> QED
        BY <2>3, <3>1
    <2> HIDE DEF f
    <2>6. f[0] = State(<<>>, <<>>)
      BY <2>2, <2>3, <2>5 DEF RunsTo
    <2>7. \A i \in 0..k : Formed(f[i])
      <3>1. \A i \in 0..k : i = k \/ i \in 0..(k - 1)
        BY <2>3
      <3> QED
        BY <2>2, <2>4, <2>5, <3>1 DEF RunsTo
    <2>8. \A i \in 0..(k - 1) : f[i + 1] = After(w, i, f[i])
      <3> SUFFICES ASSUME NEW i \in 0..(k - 1) PROVE f[i + 1] = After(w, i, f[i])
        OBVIOUS
      <3>1. CASE i = k - 1
        <4>1. i + 1 = k
          BY <2>3, <3>1
        <4> QED
          BY <2>3, <2>5, <3>1, <4>1 DEF last
      <3>2. CASE i # k - 1
        <4>1. i \in 0..((k - 1) - 1) /\ i + 1 \in 0..(k - 1)
          BY <2>3, <3>2
        <4> QED
          BY <2>2, <2>5, <4>1 DEF RunsTo
      <3> QED
        BY <3>1, <3>2
    <2>9. RunsTo(w, f, k)
      BY <2>6, <2>7, <2>8 DEF RunsTo
    <2> QED
      BY <1>3, <2>9
  <1> QED
    BY <1>4, <1>5

-----------------------------------------------------------------------------
(* The parser follows the run of its stream up to the first token that fails. *)
Follows(r) ==
  /\ status = "parsing" => Here = r[pos]
  /\ status \in {"error", "undefined"} => \E i \in 0..(Len(input) - 1) : Fails(input, i, r[i])
  /\ status = "done" => rpn = PutEnd(r[Len(input)]).rpn

(* One token is read as After says. *)
LEMMA ReadingFollows ==
  ASSUME IInv, NEW t \in Types, Reading(t),
         Operand(t) \/ CloseGroup(t) \/ CloseNothing(t) \/ Operator(t) \/ Misplaced(t)
  PROVE  /\ status' = "parsing" => Becomes(After(input, pos, Here))
         /\ status' \in {"error", "undefined"} => Fails(input, pos, Here)
         /\ status' # "done"
  <1> DEFINE item == Item(t, pos + 1, "NULLARY")
             arity == Arity(t, prev, Peek)
             op == Item(t, pos + 1, arity)
             e == WithCall(t)
  <1>1. /\ t = input[pos + 1] /\ pos \in Nat /\ input \in Streams /\ status = "parsing"
        /\ prev = Before(input, pos) /\ Peek = Ahead(input, pos) /\ Here.stack = stack
    BY HereKnown DEF Reading, IInv, ReadSoFar, Before, Ahead, Peek, Streams
  <1>2. arity = Selected(input, pos) /\ e = Entering(input, pos, Here)
    BY <1>1 DEF Selected, WithCall, Entering, Here, CallAt
  <1> HIDE DEF item, arity, op, e
  <1>3. After(input, pos, Here) =
          IF Fails(input, pos, Here) THEN Here
          ELSE IF t \in Values THEN PutValue(e, item)
          ELSE IF t \in LGroups THEN PutLGroup(e, item)
          ELSE IF t \in RGroups THEN PutRGroup(Here, item)
          ELSE PutOperator(Here, op)
    BY <1>1, <1>2 DEF After, item, op
  <1>4. Fails(input, pos, Here) <=> \/ t \in RGroups /\ Groups(stack) = {}
                                    \/ t \in Operators /\ arity = "NONE"
    BY <1>1, <1>2 DEF Fails
  <1>5. CASE Operand(t)
    <2>1. /\ \/ t \in Values /\ Becomes(PutValue(e, item))
             \/ t \in LGroups /\ Becomes(PutLGroup(e, item))
          /\ status' = "parsing"
      BY <1>1, <1>5 DEF Operand, e, item
    <2>2. ~Fails(input, pos, Here)
      BY <1>4, <2>1, KindsApart
    <2>3. t \in LGroups => t \notin Values
      BY KindsApart
    <2> QED
      BY <1>3, <2>1, <2>2, <2>3
  <1>6. CASE CloseGroup(t)
    <2>1. t \in RGroups /\ Groups(stack) # {} /\ Becomes(PutRGroup(Here, item)) /\ status' = "parsing"
      BY <1>1, <1>6 DEF CloseGroup, Here, item
    <2>2. t \notin Values /\ t \notin LGroups /\ t \notin Operators
      BY <2>1, KindsApart
    <2> QED
      BY <1>3, <1>4, <2>1, <2>2
  <1>7. CASE CloseNothing(t)
    BY <1>4, <1>7 DEF CloseNothing
  <1>8. CASE Operator(t)
    <2>1. t \in Operators /\ arity # "NONE" /\ Becomes(PutOperator(Here, op)) /\ status' = "parsing"
      BY <1>1, <1>8 DEF Operator, Here, arity, op
    <2>2. t \notin Values /\ t \notin LGroups /\ t \notin RGroups
      BY <2>1, KindsApart
    <2> QED
      BY <1>3, <1>4, <2>1, <2>2
  <1>9. CASE Misplaced(t)
    BY <1>4, <1>9 DEF Misplaced, arity
  <1> QED
    BY <1>5, <1>6, <1>7, <1>8, <1>9

(* Every step follows the run. *)
LEMMA NextFollows ==
  ASSUME IInv, Next, NEW r, IsRun(input, r), Follows(r)
  PROVE  input' = input /\ Follows(r)'
  <1>1. pos \in Nat /\ Len(input) \in Nat /\ input \in Streams /\ pos \in 0..Len(input)
    BY HereKnown DEF IInv, TypeOK, Streams
  <1>2. CASE \E t \in Types : Operand(t) \/ CloseGroup(t) \/ CloseNothing(t) \/ Operator(t) \/ Misplaced(t)
    <2>1. PICK t \in Types : Operand(t) \/ CloseGroup(t) \/ CloseNothing(t) \/ Operator(t) \/ Misplaced(t)
      BY <1>2
    <2>2. Reading(t)
      BY <2>1 DEF Operand, CloseGroup, CloseNothing, Operator, Misplaced
    <2>3. /\ status' = "parsing" => Becomes(After(input, pos, Here))
          /\ status' \in {"error", "undefined"} => Fails(input, pos, Here)
          /\ status' # "done"
      BY <2>1, <2>2, ReadingFollows
    <2>4. pos < Len(input) /\ pos' = pos + 1 /\ input' = input /\ status = "parsing" /\ Here = r[pos]
      BY <2>2 DEF Reading, Follows
    <2>5. pos \in 0..(Len(input) - 1)
      BY <1>1, <2>4
    <2>6. r[pos + 1] = After(input, pos, r[pos]) /\ r[pos + 1] = State(r[pos + 1].stack, r[pos + 1].rpn)
      <3>1. pos + 1 \in 0..Len(input)
        BY <1>1, <2>5
      <3> QED
        BY <2>5, <3>1 DEF IsRun, RunsTo, Formed
    <2>7. status' = "parsing" => Here' = r[pos']
      BY <2>3, <2>4, <2>6 DEF Becomes, Here, State
    <2>8. status' \in {"error", "undefined"} => \E i \in 0..(Len(input) - 1) : Fails(input, i, r[i])
      BY <2>3, <2>4, <2>5
    <2> QED
      BY <2>3, <2>4, <2>7, <2>8 DEF Follows, Here, State, Fails, Groups, IsGroup, Selected, Arity, Before, Ahead
  <1>3. CASE End
    <2>1. /\ status = "parsing" /\ pos = Len(input) /\ status' = "done" /\ input' = input
          /\ rpn' = PutEnd(Here).rpn /\ Here = r[pos]
      BY <1>3 DEF End, Becomes, Here, Follows
    <2>2. rpn' = PutEnd(r[Len(input)]).rpn
      BY <2>1
    <2> QED
      BY <2>1, <2>2 DEF Follows, PutEnd
  <1> QED
    BY <1>2, <1>3 DEF Next

-----------------------------------------------------------------------------
(* What the parser makes of an expression e, from place p of a stream w on: it
   pushes the operators on the right edge of the tree (pend), that may still
   wait for more, and puts out the rest (emit), together the tree in postfix
   order.  The stack has to accept e: what is below waits for an operand that
   binds as tight as e.                                                      *)
Under(v, u) == v.prec < u.prec \/ (v.prec = u.prec /\ v.assoc = u.assoc)

Pends(item, top) == \E v \in Uses : Operates(item, v) /\ Under(v, top)

Reads(w, p, toks) == p + Len(toks) <= Len(w) /\ \A i \in 1..Len(toks) : w[p + i] = toks[i]
Ready(w, p)       == VEnd(Before(w, p)) => VBegin(w[p + 1])

Context(w, r, p, e) ==
  /\ IsRun(w, r) /\ p \in Nat /\ Reads(w, p, e.toks) /\ Ready(w, p)
  /\ Accepts(Entering(w, p, r[p]).stack, e.top)

Comes(w, r, p, e, pend, emit) ==
  LET s == Entering(w, p, r[p])  q == p + Len(e.toks) IN
  /\ r[q] = State(s.stack \o pend, s.rpn \o emit)
  /\ emit \o Reversed(pend) = Moved(e.post, p)
  /\ \A k \in 1..Len(pend) : Pends(pend[k], e.top)
  /\ \A i \in p..(q - 1) : ~Fails(w, i, r[i])

Good(e) == \A w, r, p : Context(w, r, p, e) => \E pend, emit \in Seq(Items) : Comes(w, r, p, e, pend, emit)

(* The first and the last token of an expression, and the operator on top. *)
Begins(t, top) == VBegin(t) \/ (HasArity(t, "LUNARY") /\ top # Atom)

Form(e) ==
  /\ e.toks # <<>> /\ Begins(e.toks[1], e.top) /\ VEnd(e.toks[Len(e.toks)])
  /\ e.top.prec = 19 => e.top.assoc = "LEFT"
  /\ e.top.prec = 3 => e.top.assoc = "RIGHT"

Exprs == [toks : Streams, post : Seq(Items), top : Uses]
Sound == {e \in Exprs : Form(e) /\ Good(e)}

(* The places of an expression in a stream. *)
LEMMA ContextKnown ==
  ASSUME NEW e \in Exprs, e.toks # <<>>, NEW w, NEW r, NEW p, Context(w, r, p, e)
  PROVE  /\ w \in Streams /\ IsRun(w, r) /\ p \in 0..(Len(w) - 1) /\ p \in Nat
         /\ Len(w) \in Nat /\ Len(e.toks) \in Nat /\ Len(e.toks) > 0 /\ p + Len(e.toks) <= Len(w)
         /\ Formed(r[p]) /\ Formed(Entering(w, p, r[p]))
         /\ Entering(w, p, r[p]).stack \in Seq(Items) /\ Entering(w, p, r[p]).rpn \in Seq(Items)
  <1>1. w \in Streams /\ IsRun(w, r) /\ p \in Nat /\ p + Len(e.toks) <= Len(w)
    BY DEF Context, IsRun, Reads
  <1>2. Len(w) \in Nat /\ Len(e.toks) \in Nat /\ Len(e.toks) > 0
    <2>1. e.toks \in Seq(Types \ Markers) /\ w \in Seq(Types \ Markers)
      BY <1>1 DEF Exprs, Streams
    <2> QED
      BY <2>1
  <1>3. p \in 0..(Len(w) - 1) /\ p \in 0..Len(w)
    BY <1>1, <1>2
  <1>4. Formed(r[p])
    BY <1>1, <1>3 DEF IsRun, RunsTo
  <1>5. Formed(Entering(w, p, r[p]))
    BY <1>1, <1>3, <1>4, EnteringForms
  <1> QED
    BY <1>1, <1>2, <1>3, <1>4, <1>5 DEF Formed, Shape

(* Under is an order of the uses, and a stack that accepts a use accepts those
   under it. *)
LEMMA UnderKnown ==
  ASSUME NEW u \in Uses, NEW v \in Uses, Under(v, u)
  PROVE  /\ \A x \in Uses : Under(x, v) => Under(x, u)
         /\ \A st : Accepts(st, u) => Accepts(st, v)
  <1>1. \A x \in Uses : x.prec \in Int
    BY DEF Uses
  <1>2. \A x \in Uses : Under(x, v) => Under(x, u)
    BY <1>1 DEF Under
  <1>3. \A x \in Uses : Holds(x, u) => Holds(x, v)
    BY <1>1 DEF Under, Holds
  <1> QED
    BY <1>2, <1>3 DEF Accepts

(* An operator that comes after an expression, binding no tighter than it and
   not associating to the right with it, completes it. *)
Completes(top, u) == Under(top, u) /\ (top.prec = u.prec => u.assoc # "RIGHT")

Goes(up, u) == \A k \in 1..Len(up) : \E v \in Uses : Operates(up[k], v) /\ ~Holds(v, u)

Onto(r, s, st, up, op) ==
  r = IF op.arity = "RUNARY" THEN State(st, Append(s.rpn \o Reversed(up), op))
                             ELSE State(Append(st, op), s.rpn \o Reversed(up))

(* PutOnto, as a fact to cite of a state by its name. *)
LEMMA PutOntoNamed ==
  \A st, up \in Seq(Items) : \A s, op, u :
    s.stack = st \o up /\ Operates(op, u) /\ Accepts(st, u) /\ Goes(up, u)
      => Onto(PutOperator(s, op), s, st, up, op)
  BY PutOnto DEF Goes, Onto

(* Then parse_token puts out the rest of the tree before the operator. *)
LEMMA Completed ==
  ASSUME NEW e \in Sound, NEW w, NEW r, NEW p, Context(w, r, p, e),
         NEW pend \in Seq(Items), NEW emit \in Seq(Items), Comes(w, r, p, e, pend, emit),
         NEW item, NEW u, Operates(item, u), Completes(e.top, u),
         NEW s, s = Entering(w, p, r[p]), Accepts(s.stack, u)
  PROVE  PutOperator(r[p + Len(e.toks)], item) =
           IF item.arity = "RUNARY" THEN State(s.stack, Append(s.rpn \o Moved(e.post, p), item))
                                    ELSE State(Append(s.stack, item), s.rpn \o Moved(e.post, p))
  <1>1. /\ e \in Exprs /\ e.toks # <<>> /\ e.top \in Uses /\ u \in Uses
        /\ s.stack \in Seq(Items) /\ s.rpn \in Seq(Items)
    <2>1. e \in Exprs /\ e.toks # <<>> /\ e.top \in Uses /\ u \in Uses
      BY DEF Sound, Form, Exprs, Operates
    <2> QED
      BY <2>1, ContextKnown
  <1> DEFINE q == p + Len(e.toks)
             out == s.rpn \o emit
             before == r[q]
  <1>2. /\ before = State(s.stack \o pend, out)
        /\ emit \o Reversed(pend) = Moved(e.post, p)
        /\ \A k \in 1..Len(pend) : Pends(pend[k], e.top)
    BY DEF Comes
  <1> HIDE DEF q, out, before
  <1>3. before.stack = s.stack \o pend /\ before.rpn = out
    BY <1>2 DEF State
  <1>4. ASSUME NEW k \in 1..Len(pend) PROVE \E v \in Uses : Operates(pend[k], v) /\ ~Holds(v, u)
    <2>1. PICK v \in Uses : Operates(pend[k], v) /\ Under(v, e.top)
      BY <1>2 DEF Pends
    <2>2. v.prec \in Int /\ u.prec \in Int /\ e.top.prec \in Int
      <3>1. \A x \in Uses : x.prec \in Int
        BY DEF Uses
      <3> QED
        BY <1>1, <2>1, <3>1
    <2>3. ~Holds(v, u)
      BY <2>1, <2>2 DEF Completes, Under, Holds
    <2> QED
      BY <2>1, <2>3
  <1>5. out \o Reversed(pend) = s.rpn \o Moved(e.post, p)
    <2> DEFINE back == Reversed(pend)
               old == s.rpn
    <2>1. back \in Seq(Items) /\ old \in Seq(Items)
      BY <1>1, ReversedItems
    <2>2. emit \o back = Moved(e.post, p)
      BY <1>2
    <2> HIDE DEF back, old
    <2>3. Associates(old, emit, back)
      BY <2>1, Associative
    <2>4. (old \o emit) \o back = old \o (emit \o back)
      BY <2>3 DEF Associates
    <2> QED
      BY <2>2, <2>4 DEF out, back, old
  <1>6. PutOperator(before, item) =
          IF item.arity = "RUNARY" THEN State(s.stack, Append(before.rpn \o Reversed(pend), item))
                                   ELSE State(Append(s.stack, item), before.rpn \o Reversed(pend))
    <2>1. Goes(pend, u)
      BY <1>4 DEF Goes
    <2> DEFINE st == s.stack
    <2>2. st \in Seq(Items) /\ before.stack = st \o pend /\ Accepts(st, u) /\ pend \in Seq(Items)
      BY <1>1, <1>3
    <2> HIDE DEF st
    <2>3. Onto(PutOperator(before, item), before, st, pend, item)
      BY <2>1, <2>2, PutOntoNamed, Zenon
    <2> QED
      BY <2>3 DEF Onto, st
  <1> QED
    BY <1>3, <1>5, <1>6 DEF before, q

(* The right hand side of an operator that waits for it on the stack: the
   operator comes right after it. *)
Waits(u, top) == Under(top, u) /\ Holds(u, top)

(* The stack takes its operators on top of the one that waits. *)
LEMMA WaitsAccepts ==
  ASSUME NEW st \in Seq(Items), NEW item \in Items, NEW u, Operates(item, u), NEW top, Waits(u, top)
  PROVE  Accepts(Append(st, item), top)
  <1>1. Append(st, item)[Len(Append(st, item))] = item
    OBVIOUS
  <1> QED
    BY <1>1 DEF Operates, Waits, Accepts

Edge(s, st, out, post, top) ==
  \E more, all \in Seq(Items) :
    /\ s = State(st \o more, out \o all)
    /\ all \o Reversed(more) = post
    /\ \A k \in 1..Len(more) : Pends(more[k], top)

Stands(w, r, p, st, item, out, left) == Entering(w, p, r[p]) = State(Append(st, item), out \o left)

(* Then both the operator and what waits in e are on the stack. *)
LEMMA Joined ==
  ASSUME NEW e \in Sound, NEW w, NEW r, NEW p, Context(w, r, p, e),
         NEW pend \in Seq(Items), NEW emit \in Seq(Items), Comes(w, r, p, e, pend, emit),
         NEW item \in Items, NEW u, Operates(item, u), Waits(u, e.top),
         NEW st \in Seq(Items), NEW out \in Seq(Items), NEW left \in Seq(Items),
         Stands(w, r, p, st, item, out, left)
  PROVE  Edge(r[p + Len(e.toks)], st, out, (left \o Moved(e.post, p)) \o <<item>>, u)
  <1> DEFINE s == Entering(w, p, r[p])
             q == p + Len(e.toks)
             one == <<item>>
             post == Moved(e.post, p)
  <1>1. /\ r[q] = State(s.stack \o pend, s.rpn \o emit)
        /\ emit \o Reversed(pend) = post
        /\ \A k \in 1..Len(pend) : Pends(pend[k], e.top)
    BY DEF Comes
  <1>2. s.stack = Append(st, item) /\ s.rpn = out \o left
    BY DEF Stands, State
  <1>3. /\ one \in Seq(Items) /\ Len(one) = 1 /\ one[1] = item /\ Reversed(pend) \in Seq(Items)
        /\ Append(st, item) = st \o one
    <2>1. Reversed(pend) \in Seq(Items)
      BY ReversedItems
    <2>2. Append(st, item) = st \o <<item>>
      OBVIOUS
    <2> QED
      BY <2>1, <2>2
  <1> HIDE DEF s, q
  <1>4. Reversed(one \o pend) = Reversed(pend) \o one
    BY ReversedFirst
  <1> HIDE DEF one
  <1>5. (st \o one) \o pend = st \o (one \o pend)
    <2>1. Associates(st, one, pend)
      BY <1>3, Associative
    <2> QED
      BY <2>1 DEF Associates
  <1>6. (out \o left) \o emit = out \o (left \o emit)
    <2>1. Associates(out, left, emit)
      BY Associative
    <2> QED
      BY <2>1 DEF Associates
  <1>7. (left \o emit) \o (Reversed(pend) \o one) = (left \o post) \o one
    <2> DEFINE back == Reversed(pend)
    <2>1. back \in Seq(Items) /\ emit \o back = post
      BY <1>1, <1>3
    <2> HIDE DEF back, post
    <2> DEFINE le == left \o emit
    <2>2. le \in Seq(Items)
      BY ConcatProperties
    <2> HIDE DEF le
    <2>3. Associates(le, back, one) /\ Associates(left, emit, back)
      BY <1>3, <2>1, <2>2, Associative
    <2>4. (le \o back) \o one = le \o (back \o one)
      BY <2>3 DEF Associates
    <2>5. le \o back = left \o (emit \o back)
      BY <2>3 DEF Associates, le
    <2> QED
      BY <2>1, <2>4, <2>5 DEF back, le
  <1> DEFINE both == one \o pend
  <1>8. /\ both \in Seq(Items) /\ Len(both) = 1 + Len(pend)
        /\ \A k \in 1..(1 + Len(pend)) : both[k] = IF k <= 1 THEN one[k] ELSE pend[k - 1]
    BY <1>3, ConcatProperties
  <1>9. left \o emit \in Seq(Items)
    BY ConcatProperties
  <1> HIDE DEF both
  <1>10. ASSUME NEW k \in 1..Len(both) PROVE Pends(both[k], u)
    <2>1. u \in Uses /\ e.top \in Uses /\ Under(e.top, u) /\ Len(pend) \in Nat
      BY DEF Operates, Sound, Exprs, Waits
    <2>2. CASE k = 1
      <3>1. 1 \in 1..(1 + Len(pend)) /\ 1 <= 1
        BY <2>1
      <3>2. both[1] = one[1]
        BY <1>8, <3>1
      <3>3. both[k] = item
        BY <1>3, <2>2, <3>2
      <3> QED
        BY <2>1, <3>3 DEF Pends, Under
    <2>3. CASE k # 1
      <3>1. k - 1 \in 1..Len(pend) /\ both[k] = pend[k - 1]
        BY <1>8, <2>1, <2>3
      <3>2. PICK v \in Uses : Operates(both[k], v) /\ Under(v, e.top)
        BY <1>1, <3>1 DEF Pends
      <3> QED
        BY <2>1, <3>2, UnderKnown DEF Pends
    <2> QED
      BY <2>2, <2>3
  <1> DEFINE all == left \o emit
  <1>11. /\ r[q] = State(st \o both, out \o all)
         /\ all \o Reversed(both) = (left \o post) \o one
    BY <1>1, <1>2, <1>3, <1>4, <1>5, <1>6, <1>7 DEF both
  <1> HIDE DEF all
  <1>12. all \in Seq(Items)
    BY <1>9 DEF all
  <1> QED
    BY <1>8, <1>10, <1>11, <1>12 DEF one, q, Edge

-----------------------------------------------------------------------------
(* The tokens of an expression are read in parts. *)
LEMMA ReadsParts ==
  ASSUME NEW a \in Streams, NEW b \in Streams, NEW w \in Streams, NEW p \in Nat, Reads(w, p, a \o b)
  PROVE  Reads(w, p, a) /\ Reads(w, p + Len(a), b) /\ p + Len(a) \in Nat
  <1> DEFINE m == Len(a)
             n == Len(b)
             both == a \o b
  <1>1. /\ both \in Streams /\ Len(both) = m + n /\ m \in Nat /\ n \in Nat /\ Len(w) \in Nat
        /\ \A i \in 1..(m + n) : both[i] = IF i <= m THEN a[i] ELSE b[i - m]
    BY ConcatProperties DEF Streams
  <1>2. p + Len(both) <= Len(w) /\ \A i \in 1..Len(both) : w[p + i] = both[i]
    BY DEF Reads
  <1> HIDE DEF both, m, n
  <1>3. p + m <= Len(w) /\ \A i \in 1..m : w[p + i] = a[i]
    <2>1. \A i \in 1..m : i \in 1..(m + n) /\ i <= m
      BY <1>1
    <2> QED
      BY <1>1, <1>2, <2>1
  <1>4. (p + m) + n <= Len(w) /\ \A i \in 1..n : w[(p + m) + i] = b[i]
    <2>1. (p + m) + n <= Len(w)
      BY <1>1, <1>2
    <2>2. ASSUME NEW i \in 1..n PROVE w[(p + m) + i] = b[i]
      <3>1. m + i \in 1..(m + n) /\ ~(m + i <= m) /\ (m + i) - m = i /\ p + (m + i) = (p + m) + i
        BY <1>1
      <3>2. w[p + (m + i)] = both[m + i] /\ both[m + i] = b[(m + i) - m]
        BY <1>1, <1>2, <3>1
      <3> QED
        BY <3>1, <3>2
    <2> QED
      BY <2>1, <2>2
  <1> QED
    BY <1>1, <1>3, <1>4 DEF Reads, m, n

(* A part may be one token. *)
LEMMA ReadsOne ==
  ASSUME NEW t \in Types \ Markers, NEW w \in Streams, NEW p \in Nat, Reads(w, p, <<t>>)
  PROVE  p \in 0..(Len(w) - 1) /\ w[p + 1] = t /\ <<t>> \in Streams /\ Len(<<t>>) = 1 /\ <<t>>[1] = t
  <1>1. <<t>> \in Streams /\ Len(<<t>>) = 1 /\ <<t>>[1] = t /\ Len(w) \in Nat
    BY DEF Streams
  <1>2. p + 1 <= Len(w) /\ w[p + 1] = <<t>>[1]
    <2>1. 1 \in 1..1
      OBVIOUS
    <2> QED
      BY <1>1, <2>1 DEF Reads
  <1> QED
    BY <1>1, <1>2

(* What is read, token by token: a value, *)
LEMMA ValueRead ==
  ASSUME NEW w, NEW r, IsRun(w, r), NEW i \in 0..(Len(w) - 1), w[i + 1] \in Values
  PROVE  /\ ~Fails(w, i, r[i])
         /\ r[i + 1] = PutValue(Entering(w, i, r[i]), Item(w[i + 1], i + 1, "NULLARY"))
  <1>1. r[i + 1] = After(w, i, r[i])
    BY DEF IsRun, RunsTo
  <1>2. ~Fails(w, i, r[i])
    BY KindsApart DEF Fails
  <1> QED
    BY <1>1, <1>2 DEF After

(* After an opening, or an operator, no call is put in. *)
LEMMA NoCallAfter ==
  ASSUME NEW w, NEW i \in Nat, w[i + 1] \in LGroups \cup Operators
  PROVE  Ready(w, i + 1) /\ \A s : Entering(w, i + 1, s) = s
  <1>1. Before(w, i + 1) = w[i + 1]
    BY DEF Before
  <1>2. ~VEnd(w[i + 1])
    BY KindsApart DEF VEnd
  <1> QED
    BY <1>1, <1>2 DEF Ready, Entering

(* an opening, *)
LEMMA OpeningRead ==
  ASSUME NEW w, NEW r, IsRun(w, r), NEW i \in 0..(Len(w) - 1), w[i + 1] \in LGroups
  PROVE  /\ ~Fails(w, i, r[i])
         /\ r[i + 1] = PutLGroup(Entering(w, i, r[i]), Item(w[i + 1], i + 1, "NULLARY"))
  <1>1. r[i + 1] = After(w, i, r[i])
    BY DEF IsRun, RunsTo
  <1>2. ~Fails(w, i, r[i]) /\ w[i + 1] \notin Values
    BY KindsApart DEF Fails
  <1> QED
    BY <1>1, <1>2 DEF After

(* a closing that has its opening, *)
LEMMA ClosingRead ==
  ASSUME NEW w, NEW r, IsRun(w, r), NEW i \in 0..(Len(w) - 1), w[i + 1] \in RGroups,
         Groups(r[i].stack) # {}
  PROVE  /\ ~Fails(w, i, r[i])
         /\ r[i + 1] = PutRGroup(r[i], Item(w[i + 1], i + 1, "NULLARY"))
  <1>1. r[i + 1] = After(w, i, r[i])
    BY DEF IsRun, RunsTo
  <1>2. ~Fails(w, i, r[i]) /\ w[i + 1] \notin Values /\ w[i + 1] \notin LGroups
    BY KindsApart DEF Fails
  <1> QED
    BY <1>1, <1>2 DEF After

(* and an operator whose use is selected. *)
LEMMA OperatorRead ==
  ASSUME NEW w, NEW r, IsRun(w, r), NEW i \in 0..(Len(w) - 1), w[i + 1] \in Operators,
         NEW arity, Selected(w, i) = arity, arity # "NONE"
  PROVE  /\ ~Fails(w, i, r[i])
         /\ r[i + 1] = PutOperator(r[i], Item(w[i + 1], i + 1, arity))
         /\ Entering(w, i, r[i]) = r[i]
  <1>1. r[i + 1] = After(w, i, r[i])
    BY DEF IsRun, RunsTo
  <1>2. /\ ~Fails(w, i, r[i]) /\ w[i + 1] \notin Values /\ w[i + 1] \notin LGroups
        /\ w[i + 1] \notin RGroups /\ ~VBegin(w[i + 1])
    BY KindsApart DEF Fails, VBegin
  <1> QED
    BY <1>1, <1>2 DEF After, Entering

-----------------------------------------------------------------------------
(* A name is an expression, and out at once. *)
LEMMA LeafSound == Leaf \in Sound
  <1> DEFINE x == Entry("NAME", 1, "NULLARY")
  <1>1. Leaf.toks = <<"NAME">> /\ Leaf.post = <<x>> /\ Leaf.top = Atom
    BY DEF Leaf, Expr
  <1>2. Leaf = [toks |-> <<"NAME">>, post |-> <<x>>, top |-> Atom]
    BY DEF Leaf, Expr
  <1>3. /\ "NAME" \in Types \ Markers /\ "NAME" \in Types /\ "NAME" \in Values
        /\ VBegin("NAME") /\ VEnd("NAME") /\ "NULLARY" \in Arities
    BY DEF Types, Markers, Values, VBegin, VEnd, Arities
  <1>4. <<"NAME">> \in Streams /\ Len(<<"NAME">>) = 1 /\ <<"NAME">>[1] = "NAME" /\ <<"NAME">> # <<>>
    BY <1>3 DEF Streams
  <1>5. <<x>> \in Seq(Items)
    BY <1>3, MovedOne
  <1>6. Atom \in Uses /\ Atom.prec = 0
    BY DEF Atom, Use, Uses, Arities
  <1>7. Leaf \in Exprs
    BY <1>2, <1>4, <1>5, <1>6 DEF Exprs
  <1>8. Form(Leaf)
    BY <1>1, <1>3, <1>4, <1>6 DEF Form, Begins
  <1>9. ASSUME NEW w, NEW r, NEW p, Context(w, r, p, Leaf)
        PROVE  \E pend, emit \in Seq(Items) : Comes(w, r, p, Leaf, pend, emit)
    <2> DEFINE s == Entering(w, p, r[p])
               item == Item("NAME", p + 1, "NULLARY")
               st == s.stack
               out == s.rpn
    <2>1. /\ w \in Streams /\ IsRun(w, r) /\ p \in Nat /\ st \in Seq(Items) /\ out \in Seq(Items)
          /\ p \in 0..(Len(w) - 1)
      BY <1>1, <1>4, <1>7, <1>9, ContextKnown
    <2>2. w[p + 1] = "NAME"
      <3>1. Reads(w, p, <<"NAME">>)
        BY <1>1, <1>9 DEF Context
      <3> QED
        BY <1>3, <2>1, <3>1, ReadsOne
    <2>3. ~Fails(w, p, r[p]) /\ r[p + 1] = PutValue(s, item)
      BY <1>3, <2>1, <2>2, ValueRead
    <2>4. item \in Items /\ Moved(<<x>>, p) = <<item>>
      <3>1. 1 + p = p + 1 /\ p + 1 \in Nat
        BY <2>1
      <3>3. Moved(<<x>>, p) = <<Item("NAME", 1 + p, "NULLARY")>>
        BY <1>3, <2>1, MovedOne
      <3>2. item \in Items
        BY <1>3, <3>1, MovedOne
      <3> QED
        BY <3>1, <3>2, <3>3
    <2>5. r[p + 1] = State(st, Append(out, item))
      BY <2>3 DEF PutValue
    <2> HIDE DEF s, item, st, out, x
    <2>6. <<>> \in Seq(Items) /\ <<item>> \in Seq(Items) /\ Append(out, item) = out \o <<item>> /\ st \o <<>> = st
      BY <2>1, <2>4
    <2>7. Reversed(<<>>) = <<>> /\ <<item>> \o <<>> = <<item>>
      <3>1. Reversed(<<>>) \in Seq(Items) /\ Len(Reversed(<<>>)) = 0
        BY <2>6, ReversedItems
      <3> QED
        BY <2>6, <3>1, EmptySeq
    <2>8. Comes(w, r, p, Leaf, <<>>, <<item>>)
      <3>1. Len(Leaf.toks) = 1 /\ Len(<<>>) = 0
        BY <1>1, <1>4
      <3>2. r[p + Len(Leaf.toks)] = State(st \o <<>>, out \o <<item>>)
        BY <2>5, <2>6, <3>1
      <3>3. <<item>> \o Reversed(<<>>) = Moved(Leaf.post, p)
        BY <1>1, <2>4, <2>7
      <3>4. \A i \in p..((p + Len(Leaf.toks)) - 1) : ~Fails(w, i, r[i])
        <4>1. \A i \in p..((p + 1) - 1) : i = p
          BY <2>1
        <4> QED
          BY <2>3, <3>1, <4>1
      <3>5. \A k \in 1..Len(<<>>) : Pends(<<>>[k], Leaf.top)
        BY <3>1
      <3> QED
        BY <3>2, <3>3, <3>4, <3>5 DEF Comes, s, st, out
    <2> QED
      BY <2>6, <2>8
  <1> QED
    BY <1>7, <1>8, <1>9 DEF Sound, Good

Moves(a, b, c, p) ==
  /\ (a \o b) \o c \in Seq(Items)
  /\ Moved((a \o b) \o c, p) = (Moved(a, p) \o Moved(b, p)) \o Moved(c, p)

(* The three parts of an output are moved. *)
LEMMA MovedParts ==
  ASSUME NEW a \in Seq(Items), NEW b \in Seq(Items), NEW c \in Seq(Items), NEW p \in Nat
  PROVE  Moves(a, b, c, p)
  <1>1. a \o b \in Seq(Items)
    BY ConcatProperties
  <1> DEFINE ab == a \o b
  <1>2. ab \in Seq(Items)
    BY <1>1
  <1>3. Moved(ab, p) = Moved(a, p) \o Moved(b, p)
    BY MovedConcat
  <1> HIDE DEF ab
  <1>4. ab \o c \in Seq(Items)
    BY <1>2, ConcatProperties
  <1>5. Moved(ab \o c, p) = Moved(ab, p) \o Moved(c, p)
    BY <1>2, MovedConcat
  <1> QED
    BY <1>3, <1>4, <1>5 DEF ab, Moves

(* Two parts of a stream: the first token begins it, the last one ends it. *)
LEMMA StreamParts ==
  ASSUME NEW a \in Streams, NEW b \in Streams
  PROVE  /\ a \o b \in Streams /\ Len(a \o b) = Len(a) + Len(b) /\ Len(a) \in Nat /\ Len(b) \in Nat
         /\ a # <<>> => a \o b # <<>> /\ (a \o b)[1] = a[1]
         /\ b # <<>> => (a \o b)[Len(a \o b)] = b[Len(b)]
  <1> DEFINE m == Len(a)
             n == Len(b)
             both == a \o b
  <1>1. /\ both \in Streams /\ Len(both) = m + n /\ m \in Nat /\ n \in Nat
        /\ \A i \in 1..(m + n) : both[i] = IF i <= m THEN a[i] ELSE b[i - m]
        /\ (a # <<>> => m > 0) /\ (b # <<>> => n > 0)
    BY ConcatProperties, EmptySeq DEF Streams
  <1> HIDE DEF both, m, n
  <1>2. a # <<>> => both # <<>> /\ both[1] = a[1]
    <2> SUFFICES ASSUME a # <<>> PROVE both # <<>> /\ both[1] = a[1]
      OBVIOUS
    <2>1. 1 \in 1..(m + n) /\ 1 <= m /\ Len(both) # 0
      BY <1>1
    <2> QED
      BY <1>1, <2>1
  <1>3. b # <<>> => both[m + n] = b[n]
    <2> SUFFICES ASSUME b # <<>> PROVE both[m + n] = b[n]
      OBVIOUS
    <2>1. m + n \in 1..(m + n) /\ ~(m + n <= m) /\ (m + n) - m = n
      BY <1>1
    <2> QED
      BY <1>1, <2>1
  <1> QED
    BY <1>1, <1>2, <1>3 DEF both, m, n

(* A token is a stream. *)
LEMMA TokenStream ==
  ASSUME NEW t \in Types \ Markers
  PROVE  <<t>> \in Streams /\ Len(<<t>>) = 1 /\ <<t>>[1] = t /\ <<t>> # <<>>
  BY DEF Streams

(* The parser gives up at none of the tokens from place p up to q. *)
NoneFails(w, r, p, q) == \A i \in p..(q - 1) : ~Fails(w, i, r[i])

(* So for two parts, one after the other, *)
LEMMA NoneFailsParts ==
  ASSUME NEW p \in Nat, NEW m \in Nat, NEW q \in Nat, m <= q, NEW w, NEW r,
         NoneFails(w, r, p, m), NoneFails(w, r, m, q)
  PROVE  NoneFails(w, r, p, q)
  <1>1. \A i \in p..(q - 1) : i \in p..(m - 1) \/ i \in m..(q - 1)
    OBVIOUS
  <1> QED
    BY <1>1 DEF NoneFails

(* and for one token. *)
LEMMA NoneFailsOne ==
  ASSUME NEW p \in Nat, NEW w, NEW r, ~Fails(w, p, r[p])
  PROVE  NoneFails(w, r, p, p + 1)
  <1>1. \A i \in p..((p + 1) - 1) : i = p
    OBVIOUS
  <1> QED
    BY <1>1 DEF NoneFails

(* A sound expression has tokens, a tree and a use on top. *)
LEMMA SoundKnown ==
  ASSUME NEW e \in Sound
  PROVE  /\ e \in Exprs /\ Form(e) /\ Good(e) /\ e.toks \in Streams /\ e.post \in Seq(Items) /\ e.top \in Uses
         /\ Len(e.toks) \in Nat /\ Len(e.toks) > 0 /\ e.toks # <<>>
  <1>1. e \in Exprs /\ Form(e) /\ Good(e)
    BY DEF Sound
  <1>2. e.toks \in Streams /\ e.post \in Seq(Items) /\ e.top \in Uses /\ e.toks # <<>>
    BY <1>1 DEF Exprs, Form
  <1>3. Len(e.toks) \in Nat /\ Len(e.toks) > 0
    BY <1>2, EmptySeq DEF Streams
  <1> QED
    BY <1>1, <1>2, <1>3

(* It comes out as Comes says. *)
LEMMA GoodUsed ==
  ASSUME NEW e \in Sound, NEW w, NEW r, NEW p, Context(w, r, p, e), NEW s, s = Entering(w, p, r[p])
  PROVE  \E pend, emit \in Seq(Items) :
           /\ Comes(w, r, p, e, pend, emit)
           /\ r[p + Len(e.toks)] = State(s.stack \o pend, s.rpn \o emit)
           /\ emit \o Reversed(pend) = Moved(e.post, p)
           /\ \A k \in 1..Len(pend) : Pends(pend[k], e.top)
           /\ NoneFails(w, r, p, p + Len(e.toks))
  <1>1. PICK pend, emit \in Seq(Items) : Comes(w, r, p, e, pend, emit)
    BY SoundKnown DEF Good
  <1> QED
    BY <1>1 DEF Comes, NoneFails

(* What a group puts out when it is closed. *)
Closing(out, open, emit, back, post, close) ==
  /\ Append((Append(out, open) \o emit) \o back, close) = out \o ((<<open>> \o post) \o <<close>>)
  /\ (<<open>> \o post) \o <<close>> \in Seq(Items)

(* An opening, what is out of the tree, the rest of it and the closing, one
   after the other, are the opening, the tree and the closing. *)
LEMMA GroupOutput ==
  ASSUME NEW out \in Seq(Items), NEW emit \in Seq(Items), NEW back \in Seq(Items), NEW post,
         emit \o back = post, NEW open \in Items, NEW close \in Items
  PROVE  Closing(out, open, emit, back, post, close)
  <1> DEFINE a == <<open>>
             z == <<close>>
             oa == out \o a
             eb == emit \o back
             aeb == a \o eb
  <1>1. a \in Seq(Items) /\ z \in Seq(Items) /\ Append(out, open) = oa
    OBVIOUS
  <1>2. \A x \in Seq(Items) : Append(x, close) = x \o z
    OBVIOUS
  <1> HIDE DEF a, z
  <1>3. /\ oa \in Seq(Items) /\ eb \in Seq(Items) /\ aeb \in Seq(Items) /\ oa \o eb \in Seq(Items)
        /\ aeb \o z \in Seq(Items)
    BY <1>1, ConcatProperties
  <1>4. \A x, y, t \in Seq(Items) : Associates(x, y, t)
    BY Associative
  <1> HIDE DEF oa, eb, aeb
  <1>5. Associates(oa, emit, back) /\ Associates(out, a, eb) /\ Associates(out, aeb, z)
    BY <1>1, <1>3, <1>4
  <1>6. (oa \o emit) \o back = oa \o eb /\ oa \o eb = out \o aeb /\ (out \o aeb) \o z = out \o (aeb \o z)
    BY <1>5, Zenon DEF Associates, oa, eb, aeb
  <1>7. Append((oa \o emit) \o back, close) = (oa \o eb) \o z
    BY <1>2, <1>3, <1>6
  <1>8. Append((oa \o emit) \o back, close) = out \o (aeb \o z)
    BY <1>6, <1>7
  <1> QED
    BY <1>1, <1>3, <1>8 DEF Closing, a, z, eb, aeb

(* ( e ): the closing pops to the opening, which is out as well. *)
LEMMA GroupSound ==
  ASSUME NEW e \in Sound
  PROVE  Group(e) \in Sound
  <1> DEFINE n == Len(e.toks)
             inner == <<"LPAR">> \o e.toks
             first == Entry("LPAR", 1, "NULLARY")
             last == Entry("RPAR", n + 2, "NULLARY")
             g == Group(e)
  <1>1. /\ g.toks = inner \o <<"RPAR">> /\ g.top = Atom
        /\ g.post = (<<first>> \o Moved(e.post, 1)) \o <<last>>
        /\ g = [toks |-> g.toks, post |-> g.post, top |-> g.top]
    BY DEF Group, Expr
  <1>2. /\ e.toks \in Streams /\ e.post \in Seq(Items) /\ e.top \in Uses /\ n \in Nat /\ n > 0
        /\ e.toks # <<>> /\ e \in Exprs
    BY SoundKnown
  <1>3. /\ "LPAR" \in Types \ Markers /\ "RPAR" \in Types \ Markers /\ "LPAR" \in Types /\ "RPAR" \in Types
        /\ "LPAR" \in LGroups /\ "RPAR" \in RGroups /\ "NULLARY" \in Arities
        /\ VBegin("LPAR") /\ VEnd("RPAR")
    BY DEF Types, Markers, LGroups, RGroups, Arities, VBegin, VEnd
  <1>4. /\ <<"LPAR">> \in Streams /\ Len(<<"LPAR">>) = 1 /\ <<"LPAR">>[1] = "LPAR" /\ <<"LPAR">> # <<>>
        /\ <<"RPAR">> \in Streams /\ Len(<<"RPAR">>) = 1 /\ <<"RPAR">>[1] = "RPAR" /\ <<"RPAR">> # <<>>
    BY <1>3, TokenStream
  <1>5. inner \in Streams /\ Len(inner) = 1 + n /\ inner # <<>> /\ inner[1] = "LPAR"
    BY <1>2, <1>4, StreamParts
  <1>6. <<first>> \in Seq(Items) /\ <<last>> \in Seq(Items) /\ Moved(e.post, 1) \in Seq(Items)
    <2>1. n + 2 \in Nat /\ 1 \in Nat
      BY <1>2
    <2> QED
      BY <1>2, <1>3, <2>1, MovedOne, MovedItems
  <1> HIDE DEF inner, g, n
  <1>7. g.toks \in Streams /\ g.toks # <<>> /\ g.toks[1] = "LPAR" /\ g.toks[Len(g.toks)] = "RPAR"
        /\ Len(g.toks) = (1 + n) + 1
    <2> DEFINE stop == <<"RPAR">>
               toks == inner \o stop
    <2>1. stop \in Streams /\ stop # <<>> /\ Len(stop) = 1 /\ stop[1] = "RPAR" /\ g.toks = toks
      BY <1>1, <1>4
    <2> HIDE DEF stop
    <2>2. /\ toks \in Streams /\ Len(toks) = Len(inner) + Len(stop)
          /\ toks # <<>> /\ toks[1] = inner[1] /\ toks[Len(toks)] = stop[Len(stop)]
      BY <1>5, <2>1, StreamParts
    <2> HIDE DEF toks
    <2> QED
      BY <1>5, <2>1, <2>2
  <1>8. g.post \in Seq(Items)
    <2>1. Moves(<<first>>, Moved(e.post, 1), <<last>>, 0)
      BY <1>6, MovedParts
    <2> QED
      BY <1>1, <2>1 DEF Moves
  <1>9. Atom \in Uses /\ Atom.prec = 0
    BY DEF Atom, Use, Uses, Arities
  <1>10. g \in Exprs
    BY <1>1, <1>7, <1>8, <1>9 DEF Exprs
  <1>11. Form(g)
    BY <1>1, <1>3, <1>7, <1>9 DEF Form, Begins
  <1>12. ASSUME NEW w, NEW r, NEW p, Context(w, r, p, g)
         PROVE  \E pend, emit \in Seq(Items) : Comes(w, r, p, g, pend, emit)
    <2> DEFINE s == Entering(w, p, r[p])
               open == Item("LPAR", p + 1, "NULLARY")
               st == s.stack
               out == s.rpn
               q == (p + 1) + n
               close == Item("RPAR", q + 1, "NULLARY")
               post == Moved(e.post, p + 1)
    <2>1. /\ w \in Streams /\ IsRun(w, r) /\ p \in Nat /\ st \in Seq(Items) /\ out \in Seq(Items)
          /\ p \in 0..(Len(w) - 1) /\ Len(w) \in Nat /\ p + 1 \in Nat
      BY <1>7, <1>10, <1>12, ContextKnown
    <2>2. /\ w[p + 1] = "LPAR" /\ Reads(w, p + 1, e.toks)
          /\ q \in 0..(Len(w) - 1) /\ q \in Nat /\ w[q + 1] = "RPAR"
      <3>1. Reads(w, p, inner \o <<"RPAR">>)
        BY <1>1, <1>12 DEF Context
      <3>2. Reads(w, p, inner) /\ Reads(w, p + (1 + n), <<"RPAR">>)
        BY <1>4, <1>5, <2>1, <3>1, ReadsParts
      <3>3. Reads(w, p, <<"LPAR">>) /\ Reads(w, p + 1, e.toks)
        <4> DEFINE one == <<"LPAR">>
        <4>1. one \in Streams /\ Len(one) = 1 /\ Reads(w, p, one \o e.toks)
          BY <1>4, <3>2 DEF inner
        <4> HIDE DEF one
        <4>2. Reads(w, p, one) /\ Reads(w, p + Len(one), e.toks)
          BY <1>2, <2>1, <4>1, ReadsParts
        <4> QED
          BY <4>1, <4>2 DEF one
      <3>4. w[p + 1] = "LPAR"
        BY <1>3, <2>1, <3>3, ReadsOne
      <3>5. q = p + (1 + n) /\ q \in Nat
        BY <1>2, <2>1
      <3>6. q \in 0..(Len(w) - 1) /\ w[q + 1] = "RPAR"
        BY <1>3, <2>1, <3>2, <3>5, ReadsOne
      <3> QED
        BY <3>3, <3>4, <3>5, <3>6
    <2>3. ~Fails(w, p, r[p]) /\ r[p + 1] = PutLGroup(s, open)
      BY <1>3, <2>1, <2>2, OpeningRead
    <2>4. r[p + 1] = State(Append(st, open), Append(out, open))
      BY <2>3 DEF PutLGroup
    <2>5. /\ open \in Items /\ IsGroup(open) /\ close \in Items /\ post \in Seq(Items)
          /\ Moved(<<first>>, p) = <<open>> /\ Moved(<<last>>, p) = <<close>>
          /\ Moved(Moved(e.post, 1), p) = post
      <3>1. 1 + p = p + 1 /\ (n + 2) + p = q + 1 /\ q + 1 \in Nat /\ n + 2 \in Nat /\ 1 \in Nat
        BY <1>2, <2>1, <2>2
      <3>2. open \in Items /\ Moved(<<first>>, p) = <<Item("LPAR", 1 + p, "NULLARY")>>
        BY <1>3, <2>1, <3>1, ItemKnown
      <3>3. close \in Items /\ Moved(<<last>>, p) = <<Item("RPAR", (n + 2) + p, "NULLARY")>>
        BY <1>3, <2>1, <3>1, ItemKnown
      <3>4. post \in Seq(Items) /\ Moved(Moved(e.post, 1), p) = Moved(e.post, 1 + p)
        BY <1>2, <2>1, <3>1, MovedItems, MovedTwice
      <3>5. IsGroup(open)
        BY <1>3 DEF IsGroup, Item
      <3> QED
        BY <3>1, <3>2, <3>3, <3>4, <3>5
    <2> HIDE DEF s, open, st, out, close, post, first, last
    <2>6. Ready(w, p + 1) /\ Entering(w, p + 1, r[p + 1]) = r[p + 1]
      BY <1>3, <2>1, <2>2, NoCallAfter
    <2> DEFINE low == Append(st, open)
               more == Append(out, open)
    <2>7. /\ low \in Seq(Items) /\ more \in Seq(Items) /\ low[Len(low)] = open
          /\ more = out \o <<open>> /\ <<open>> \in Seq(Items) /\ <<close>> \in Seq(Items)
      <3>1. open \in Items /\ close \in Items /\ st \in Seq(Items) /\ out \in Seq(Items)
        BY <2>1, <2>5
      <3>2. <<open>> \in Seq(Items) /\ <<close>> \in Seq(Items)
        BY <3>1
      <3>3. more \in Seq(Items) /\ more = out \o <<open>>
        BY <3>1
      <3>4. low \in Seq(Items) /\ low[Len(low)] = open
        BY <3>1
      <3> QED
        BY <3>2, <3>3, <3>4
    <2> HIDE DEF low, more
    <2>8. r[p + 1].stack = low /\ r[p + 1].rpn = more
      BY <2>4 DEF State, low, more
    <2>9. Context(w, r, p + 1, e)
      <3>1. Accepts(low, e.top)
        BY <2>5, <2>7 DEF Accepts
      <3> QED
        BY <2>1, <2>2, <2>6, <2>8, <3>1 DEF Context
    <2>10. PICK pend, emit \in Seq(Items) :
             /\ r[q] = State(low \o pend, more \o emit)
             /\ emit \o Reversed(pend) = post
             /\ \A k \in 1..Len(pend) : Pends(pend[k], e.top)
             /\ NoneFails(w, r, p + 1, q)
      <3>1. \E pend, emit \in Seq(Items) :
             /\ Comes(w, r, p + 1, e, pend, emit)
             /\ r[q] = State(r[p + 1].stack \o pend, r[p + 1].rpn \o emit)
             /\ emit \o Reversed(pend) = post
             /\ \A k \in 1..Len(pend) : Pends(pend[k], e.top)
             /\ NoneFails(w, r, p + 1, q)
        BY <2>6, <2>9, GoodUsed DEF n, post
      <3> QED
        BY <2>8, <3>1
    <2> HIDE DEF q
    <2>11. r[q].stack = low \o pend /\ r[q].rpn = more \o emit
      BY <2>10 DEF State
    <2>12. /\ PutRGroup(r[q], close) = State(st, Append(r[q].rpn \o Reversed(pend), close))
           /\ Groups(r[q].stack) # {}
      <3>1. \A k \in 1..Len(pend) : ~IsGroup(pend[k])
        BY <2>10 DEF Pends, Operates
      <3>2. r[q].stack = Append(st, open) \o pend
        BY <2>11 DEF low
      <3>3. st \in Seq(Items) /\ open \in Items /\ IsGroup(open) /\ pend \in Seq(Items)
        BY <2>1, <2>5, <2>10
      <3> DEFINE before == r[q]
      <3>4. before.stack = Append(st, open) \o pend
        BY <3>2
      <3> HIDE DEF before
      <3>5. Closes(before, st, pend, close)
        BY <3>1, <3>3, <3>4, PutClosing
      <3> QED
        BY <3>5 DEF before, Closes
    <2>13. ~Fails(w, q, r[q]) /\ r[q + 1] = State(st, Append(r[q].rpn \o Reversed(pend), close))
      BY <1>3, <2>1, <2>2, <2>12, ClosingRead DEF close
    <2> DEFINE all == (<<open>> \o post) \o <<close>>
    <2>14. Append(r[q].rpn \o Reversed(pend), close) = out \o all /\ all \in Seq(Items)
      <3> DEFINE back == Reversed(pend)
      <3>1. back \in Seq(Items) /\ r[q].rpn = Append(out, open) \o emit
        BY <2>10, <2>11, ReversedItems DEF more
      <3>2. /\ out \in Seq(Items) /\ emit \in Seq(Items) /\ post \in Seq(Items) /\ emit \o back = post
            /\ open \in Items /\ close \in Items
        BY <2>1, <2>5, <2>10
      <3> HIDE DEF back
      <3>3. Closing(out, open, emit, back, post, close)
        BY <3>1, <3>2, GroupOutput
      <3> DEFINE now == r[q].rpn
      <3>4. now = Append(out, open) \o emit
        BY <3>1
      <3> HIDE DEF now
      <3>5. Append(now \o back, close) = out \o all /\ all \in Seq(Items)
        BY <3>3, <3>4, Zenon DEF Closing
      <3> QED
        BY <3>5 DEF back, now
    <2>15. Moved(g.post, p) = all
      <3> DEFINE a == <<first>>
                 b == Moved(e.post, 1)
                 c == <<last>>
      <3>1. a \in Seq(Items) /\ b \in Seq(Items) /\ c \in Seq(Items) /\ p \in Nat
        BY <1>6, <2>1
      <3>2. Moved(a, p) = <<open>> /\ Moved(b, p) = post /\ Moved(c, p) = <<close>>
        BY <2>5
      <3>4. g.post = (a \o b) \o c
        BY <1>1
      <3> HIDE DEF a, b, c
      <3>3. Moves(a, b, c, p)
        BY <3>1, MovedParts
      <3> QED
        BY <3>2, <3>3, <3>4, Zenon DEF Moves
    <2> HIDE DEF all
    <2>16. <<>> \in Seq(Items) /\ Reversed(<<>>) = <<>> /\ all \o <<>> = all /\ st \o <<>> = st /\ Len(<<>>) = 0
      <3>1. <<>> \in Seq(Items) /\ Len(<<>>) = 0
        OBVIOUS
      <3>2. Reversed(<<>>) \in Seq(Items) /\ Len(Reversed(<<>>)) = 0
        BY <3>1, ReversedItems
      <3> QED
        BY <2>1, <2>14, <3>1, <3>2, EmptySeq, ConcatEmptySeq
    <2>17. p + Len(g.toks) = q + 1
      BY <1>2, <1>7, <2>1 DEF q
    <2>18. NoneFails(w, r, p, q + 1)
      <3>1. NoneFails(w, r, p, p + 1) /\ NoneFails(w, r, q, q + 1)
        BY <2>1, <2>2, <2>3, <2>13, NoneFailsOne
      <3>2. p + 1 <= q /\ q <= q + 1 /\ p + 1 \in Nat /\ q + 1 \in Nat
        BY <1>2, <2>1, <2>2 DEF q
      <3>3. NoneFails(w, r, p, q)
        BY <2>1, <2>2, <2>10, <3>1, <3>2, NoneFailsParts
      <3> QED
        BY <2>1, <2>2, <3>1, <3>2, <3>3, NoneFailsParts
    <2>19. Comes(w, r, p, g, <<>>, all)
      <3>1. r[p + Len(g.toks)] = State(st \o <<>>, out \o all)
        BY <2>13, <2>14, <2>16, <2>17
      <3>2. all \o Reversed(<<>>) = Moved(g.post, p)
        BY <2>15, <2>16
      <3>3. \A k \in 1..Len(<<>>) : Pends(<<>>[k], g.top)
        BY <2>16
      <3> QED
        BY <2>17, <2>18, <3>1, <3>2, <3>3 DEF Comes, NoneFails, s, st, out
    <2> QED
      BY <2>14, <2>16, <2>19
  <1>13. g \in Sound
    BY <1>10, <1>11, <1>12 DEF Sound, Good
  <1> QED
    BY <1>13 DEF g

(* An expression x that starts with the expression e: where x may stand, e may,
   if e binds no weaker than x. *)
LEMMA StartsIn ==
  ASSUME NEW x \in Exprs, x.toks # <<>>, NEW e \in Sound, NEW w, NEW r, NEW p, Context(w, r, p, x),
         Reads(w, p, e.toks), Under(e.top, x.top)
  PROVE  Context(w, r, p, e)
  <1>1. x.top \in Uses /\ e.top \in Uses
    BY SoundKnown DEF Exprs
  <1>2. Accepts(Entering(w, p, r[p]).stack, e.top)
    BY <1>1, UnderKnown DEF Context
  <1> QED
    BY <1>2 DEF Context

(* The left operand, and what its operator does to it. *)
LEMMA LeftSide ==
  ASSUME NEW x \in Exprs, x.toks # <<>>, NEW e \in Sound, NEW w, NEW r, NEW p, Context(w, r, p, x),
         Reads(w, p, e.toks), Completes(e.top, x.top),
         NEW item, Operates(item, x.top), NEW s, s = Entering(w, p, r[p])
  PROVE  /\ NoneFails(w, r, p, p + Len(e.toks))
         /\ PutOperator(r[p + Len(e.toks)], item) =
              IF item.arity = "RUNARY" THEN State(s.stack, Append(s.rpn \o Moved(e.post, p), item))
                                       ELSE State(Append(s.stack, item), s.rpn \o Moved(e.post, p))
  <1>1. Context(w, r, p, e) /\ Accepts(s.stack, x.top)
    BY StartsIn DEF Completes, Context
  <1>2. PICK pend, emit \in Seq(Items) :
          Comes(w, r, p, e, pend, emit) /\ NoneFails(w, r, p, p + Len(e.toks))
    BY <1>1, GoodUsed
  <1> DEFINE u == x.top
  <1>3. Completes(e.top, u) /\ Operates(item, u) /\ Accepts(s.stack, u)
    BY <1>1
  <1> HIDE DEF u
  <1>4. Comes(w, r, p, e, pend, emit)
    BY <1>2
  <1>5. PutOperator(r[p + Len(e.toks)], item) =
          IF item.arity = "RUNARY" THEN State(s.stack, Append(s.rpn \o Moved(e.post, p), item))
                                   ELSE State(Append(s.stack, item), s.rpn \o Moved(e.post, p))
    BY <1>1, <1>3, <1>4, Completed
  <1> QED
    BY <1>2, <1>5

(* The right operand e of x, from place m on, with x's operator on the stack
   and the left operand out. *)
Rests(w, r, p, x, m, e, item, left) ==
  LET s == Entering(w, p, r[p]) IN
  /\ m \in Nat /\ p <= m /\ m + Len(e.toks) = p + Len(x.toks)
  /\ Reads(w, m, e.toks) /\ Ready(w, m) /\ NoneFails(w, r, p, m)
  /\ Entering(w, m, r[m]) = State(Append(s.stack, item), s.rpn \o left)
  /\ Operates(item, x.top) /\ Waits(x.top, e.top)
  /\ Moved(x.post, p) = (left \o Moved(e.post, m)) \o <<item>>

(* Then x comes: its operator waits on the right edge of its tree. *)
LEMMA RightSide ==
  ASSUME NEW x \in Exprs, x.toks # <<>>, NEW e \in Sound, NEW w, NEW r, NEW p, Context(w, r, p, x),
         NEW m, NEW item \in Items, NEW left \in Seq(Items), Rests(w, r, p, x, m, e, item, left)
  PROVE  \E pend, emit \in Seq(Items) : Comes(w, r, p, x, pend, emit)
  <1> DEFINE s == Entering(w, p, r[p])
             st == s.stack
             out == s.rpn
             u == x.top
             t == Entering(w, m, r[m])
             one == <<item>>
             n == Len(e.toks)
             q == p + Len(x.toks)
  <1>1. /\ IsRun(w, r) /\ p \in Nat /\ p <= Len(w) /\ st \in Seq(Items) /\ out \in Seq(Items)
        /\ m \in Nat /\ p <= m /\ m + n = q /\ n \in Nat /\ n > 0 /\ q \in Nat /\ u \in Uses /\ e.top \in Uses
    <2>1. /\ IsRun(w, r) /\ p \in Nat /\ st \in Seq(Items) /\ out \in Seq(Items)
          /\ Len(x.toks) \in Nat /\ Len(w) \in Nat /\ p + Len(x.toks) <= Len(w)
      BY ContextKnown
    <2>2. n \in Nat /\ n > 0 /\ e.top \in Uses /\ u \in Uses
      BY SoundKnown DEF Exprs
    <2> QED
      BY <2>1, <2>2 DEF Rests
  <1>2. /\ Reads(w, m, e.toks) /\ Ready(w, m) /\ NoneFails(w, r, p, m)
        /\ t = State(Append(st, item), out \o left)
        /\ Operates(item, u) /\ Waits(u, e.top)
        /\ Moved(x.post, p) = (left \o Moved(e.post, m)) \o one
    BY DEF Rests
  <1> HIDE DEF s, st, out, u, t, q
  <1>3. t.stack = Append(st, item)
    BY <1>2 DEF State
  <1>4. Context(w, r, m, e)
    <2>1. Accepts(Append(st, item), e.top)
      BY <1>1, <1>2, WaitsAccepts
    <2> QED
      BY <1>1, <1>2, <1>3, <2>1 DEF Context, t
  <1>5. PICK pend, emit \in Seq(Items) :
          Comes(w, r, m, e, pend, emit) /\ NoneFails(w, r, m, m + n)
    BY <1>4, GoodUsed
  <1>6. PICK more, all \in Seq(Items) :
          /\ r[m + n] = State(st \o more, out \o all)
          /\ all \o Reversed(more) = (left \o Moved(e.post, m)) \o one
          /\ \A k \in 1..Len(more) : Pends(more[k], u)
    <2>1. /\ Comes(w, r, m, e, pend, emit) /\ Operates(item, u) /\ Waits(u, e.top)
          /\ Stands(w, r, m, st, item, out, left)
          /\ st \in Seq(Items) /\ out \in Seq(Items)
      BY <1>1, <1>2, <1>5 DEF t, Stands
    <2>2. Edge(r[m + n], st, out, (left \o Moved(e.post, m)) \o one, u)
      BY <1>4, <2>1, Joined
    <2> QED
      BY <2>2 DEF Edge
  <1> HIDE DEF one
  <1>7. NoneFails(w, r, p, q)
    <2>1. m <= q
      BY <1>1
    <2>2. NoneFails(w, r, m, q)
      BY <1>1, <1>5, Zenon
    <2> QED
      BY <1>1, <1>2, <2>1, <2>2, NoneFailsParts
  <1>8. /\ r[q] = State(st \o more, out \o all)
        /\ all \o Reversed(more) = Moved(x.post, p)
    BY <1>1, <1>2, <1>6
  <1>9. Comes(w, r, p, x, more, all)
    BY <1>6, <1>7, <1>8 DEF Comes, NoneFails, q, u, s, st, out
  <1> QED
    BY <1>6, <1>9

(* The first token of a part and its last one. *)
LEMMA ReadsEnds ==
  ASSUME NEW a \in Streams, a # <<>>, NEW w \in Streams, NEW p \in Nat, Reads(w, p, a)
  PROVE  /\ w[p + 1] = a[1] /\ Before(w, p + Len(a)) = a[Len(a)]
         /\ p \in 0..(Len(w) - 1) /\ p + Len(a) \in Nat /\ p + Len(a) <= Len(w)
  <1>1. Len(a) \in Nat /\ Len(a) > 0 /\ Len(w) \in Nat
    BY EmptySeq DEF Streams
  <1>2. p + Len(a) <= Len(w) /\ \A i \in 1..Len(a) : w[p + i] = a[i]
    BY DEF Reads
  <1>3. 1 \in 1..Len(a) /\ Len(a) \in 1..Len(a) /\ p + Len(a) # 0
    BY <1>1
  <1> QED
    BY <1>1, <1>2, <1>3 DEF Before

(* The tokens of two operands and of the operator between them. *)
Strung(a, t, c) == (a \o <<t>>) \o c

(* They are read one after the other. *)
LEMMA ReadsInfix ==
  ASSUME NEW a \in Streams, a # <<>>, NEW c \in Streams, c # <<>>, NEW t \in Types \ Markers,
         NEW w \in Streams, NEW p \in Nat, Reads(w, p, Strung(a, t, c)),
         NEW q, q = p + Len(a)
  PROVE  /\ Reads(w, p, a) /\ w[q + 1] = t /\ Reads(w, q + 1, c)
         /\ Before(w, q) = a[Len(a)] /\ Ahead(w, q) = c[1]
         /\ q \in 0..(Len(w) - 1) /\ q \in Nat
  <1> DEFINE one == <<t>>
             at == a \o one
             m == Len(at)
  <1>1. one \in Streams /\ one # <<>> /\ Len(one) = 1 /\ one[1] = t
    BY TokenStream
  <1> HIDE DEF one
  <1>2. at \in Streams /\ m = Len(a) + 1 /\ Len(a) \in Nat /\ Len(w) \in Nat
    <2>1. Len(w) \in Nat
      BY DEF Streams
    <2>2. at \in Streams /\ Len(at) = Len(a) + Len(one) /\ Len(a) \in Nat
      BY <1>1, StreamParts
    <2> QED
      BY <1>1, <2>1, <2>2
  <1>3. Reads(w, p, at) /\ Reads(w, p + m, c) /\ p + m \in Nat
    <2> HIDE DEF at
    <2>1. Reads(w, p, at \o c)
      BY DEF at, one, Strung
    <2> QED
      BY <1>2, <2>1, ReadsParts
  <1>4. Reads(w, p, a) /\ Reads(w, q, one) /\ q \in Nat
    BY <1>1, <1>3, ReadsParts
  <1> HIDE DEF at, m
  <1>5. p + m = q + 1 /\ q + 1 \in Nat
    BY <1>2, <1>4
  <1>6. q \in 0..(Len(w) - 1) /\ w[q + 1] = t
    BY <1>1, <1>4, ReadsEnds
  <1>7. Reads(w, q + 1, c)
    BY <1>3, <1>5
  <1>8. w[(q + 1) + 1] = c[1] /\ q + 1 \in 0..(Len(w) - 1)
    BY <1>5, <1>7, ReadsEnds
  <1>9. (q + 1) + 1 = q + 2 /\ q + 1 < Len(w)
    BY <1>2, <1>5, <1>8, <1>4
  <1>10. Ahead(w, q) = c[1]
    BY <1>8, <1>9 DEF Ahead
  <1>11. Before(w, q) = a[Len(a)]
    BY <1>4, ReadsEnds
  <1> QED
    BY <1>4, <1>6, <1>7, <1>10, <1>11

(* They begin as the left operand does and end as the right one. *)
LEMMA StreamInfix ==
  ASSUME NEW a \in Streams, a # <<>>, NEW c \in Streams, c # <<>>, NEW t \in Types \ Markers
  PROVE  LET toks == Strung(a, t, c) IN
         /\ toks \in Streams /\ toks # <<>> /\ Len(toks) = (Len(a) + 1) + Len(c)
         /\ toks[1] = a[1] /\ toks[Len(toks)] = c[Len(c)]
  <1> DEFINE one == <<t>>
             at == a \o one
             all == at \o c
  <1>1. one \in Streams /\ one # <<>> /\ Len(one) = 1
    BY TokenStream
  <1> HIDE DEF one
  <1>2. at \in Streams /\ at # <<>> /\ Len(at) = Len(a) + Len(one) /\ at[1] = a[1] /\ Len(a) \in Nat
    BY <1>1, StreamParts
  <1> HIDE DEF at
  <1>3. /\ all \in Streams /\ all # <<>> /\ Len(all) = Len(at) + Len(c)
        /\ all[1] = at[1] /\ all[Len(all)] = c[Len(c)] /\ Len(c) \in Nat
    BY <1>2, StreamParts
  <1>4. Strung(a, t, c) = all
    BY DEF at, one, Strung
  <1> HIDE DEF all
  <1> QED
    BY <1>1, <1>2, <1>3, <1>4

(* The operators are tokens of a stream, and no operands. *)
LEMMA OperatorsKnown ==
  \A t \in Operators : t \in Types \ Markers /\ t \in Types /\ t \notin LGroups /\ ~VBegin(t) /\ ~VEnd(t)
  <1>1. Operators \cap Markers = {}
    BY DEF Operators, Specs, Markers
  <1> QED
    BY <1>1, KindsApart DEF Types, VBegin, VEnd

(* l op r: l is complete when op comes, and op waits for r. *)
LEMMA InfixSound ==
  ASSUME NEW l \in Sound, NEW op \in Binary, NEW e \in Sound, Fits(l, TheUse(op, "BINARY"), e)
  PROVE  Infix(l, op, e) \in Sound
  <1> DEFINE n == Len(l.toks)
             u == TheUse(op, "BINARY")
             x == Infix(l, op, e)
             last == Entry(op, n + 1, "BINARY")
  <1>1. /\ x.toks = Strung(l.toks, op, e.toks) /\ x.top = u
        /\ x.post = (l.post \o Moved(e.post, n + 1)) \o <<last>>
        /\ x = [toks |-> x.toks, post |-> x.post, top |-> x.top]
    BY DEF Infix, Expr, Strung
  <1>2. op \in Operators /\ HasArity(op, "BINARY")
    BY SyntaxAssumption
  <1>3. op \in Types \ Markers /\ op \in Types /\ op \notin LGroups
    BY <1>2, OperatorsKnown
  <1>4. u \in Uses /\ u.prec > 0 /\ u.prec # 3 /\ u.prec # 19 /\ "BINARY" \in Arities
    BY <1>2, UseKnown
  <1>5. /\ l.toks \in Streams /\ l.toks # <<>> /\ l.post \in Seq(Items) /\ n \in Nat /\ n > 0
        /\ e.toks \in Streams /\ e.toks # <<>> /\ e.post \in Seq(Items) /\ l.top \in Uses /\ e.top \in Uses
        /\ Form(l) /\ Form(e)
    BY SoundKnown
  <1>6. Completes(l.top, u) /\ Waits(u, e.top)
    <2>1. l.top.prec \in Int /\ u.prec \in Int /\ e.top.prec \in Int
      <3>1. \A v \in Uses : v.prec \in Int
        BY DEF Uses
      <3> QED
        BY <1>4, <1>5, <3>1
    <2>2. Beside("LEFT", l, u) /\ Beside("RIGHT", e, u)
      BY DEF Fits
    <2> HIDE DEF u
    <2> QED
      BY <2>1, <2>2 DEF Beside, Completes, Waits, Under, Holds
  <1>7. /\ x.toks \in Streams /\ x.toks # <<>> /\ Len(x.toks) = (n + 1) + Len(e.toks)
        /\ x.toks[1] = l.toks[1] /\ x.toks[Len(x.toks)] = e.toks[Len(e.toks)]
    <2> DEFINE toks == x.toks
               la == l.toks
               lc == e.toks
    <2>1. toks = Strung(la, op, lc) /\ la \in Streams /\ la # <<>> /\ lc \in Streams /\ lc # <<>>
      BY <1>1, <1>5
    <2> HIDE DEF toks, la, lc
    <2>2. /\ toks \in Streams /\ toks # <<>> /\ Len(toks) = (Len(la) + 1) + Len(lc)
          /\ toks[1] = la[1] /\ toks[Len(toks)] = lc[Len(lc)]
      BY <1>3, <2>1, StreamInfix
    <2> QED
      BY <2>2 DEF toks, la, lc
  <1> DEFINE a == l.post
             b == Moved(e.post, n + 1)
             c == <<last>>
  <1>8. a \in Seq(Items) /\ b \in Seq(Items) /\ c \in Seq(Items) /\ n + 1 \in Nat
    <2>1. n + 1 \in Nat
      BY <1>5
    <2> QED
      BY <1>3, <1>4, <1>5, <2>1, MovedItems, ItemKnown
  <1>9. x.post = (a \o b) \o c
    BY <1>1
  <1> HIDE DEF x, u, a, b, c, n, last
  <1>10. \A p \in Nat : Moves(a, b, c, p)
    BY <1>8, MovedParts
  <1>11. x.post \in Seq(Items)
    <2>1. Moves(a, b, c, 0)
      BY <1>10
    <2> QED
      BY <1>9, <2>1 DEF Moves
  <1>12. x \in Exprs
    BY <1>1, <1>4, <1>7, <1>11 DEF Exprs
  <1>13. Form(x)
    <2>1. u # Atom
      BY <1>4 DEF Atom, Use
    <2>2. Begins(x.toks[1], u) /\ VEnd(x.toks[Len(x.toks)])
      BY <1>5, <1>7, <2>1 DEF Form, Begins
    <2> QED
      BY <1>1, <1>4, <1>7, <2>2 DEF Form
  <1>14. ASSUME NEW w, NEW r, NEW p, Context(w, r, p, x)
         PROVE  \E pend, emit \in Seq(Items) : Comes(w, r, p, x, pend, emit)
    <2> DEFINE q == p + n
               item == Item(op, q + 1, "BINARY")
               left == Moved(l.post, p)
               s == Entering(w, p, r[p])
    <2>1. /\ w \in Streams /\ IsRun(w, r) /\ p \in Nat /\ s.stack \in Seq(Items) /\ s.rpn \in Seq(Items)
          /\ Reads(w, p, x.toks) /\ Len(w) \in Nat
      BY <1>7, <1>12, <1>14, ContextKnown DEF Context
    <2>2. /\ Reads(w, p, l.toks) /\ w[q + 1] = op /\ Reads(w, q + 1, e.toks)
          /\ Before(w, q) = l.toks[n] /\ Ahead(w, q) = e.toks[1]
          /\ q \in 0..(Len(w) - 1) /\ q \in Nat
      <3> DEFINE la == l.toks
                 lc == e.toks
      <3>1. Reads(w, p, Strung(la, op, lc)) /\ q = p + Len(la)
        BY <1>1, <2>1 DEF n
      <3>2. w \in Streams /\ p \in Nat /\ la \in Streams /\ la # <<>> /\ lc \in Streams /\ lc # <<>>
        BY <1>5, <2>1
      <3> HIDE DEF q, la, lc
      <3>3. /\ Reads(w, p, la) /\ w[q + 1] = op /\ Reads(w, q + 1, lc)
            /\ Before(w, q) = la[Len(la)] /\ Ahead(w, q) = lc[1]
            /\ q \in 0..(Len(w) - 1) /\ q \in Nat
        BY <1>3, <3>1, <3>2, ReadsInfix
      <3> QED
        BY <3>3 DEF la, lc, n
    <2>3. Selected(w, q) = "BINARY"
      <3>1. VEnd(l.toks[n]) /\ (VBegin(e.toks[1]) \/ HasArity(e.toks[1], "LUNARY"))
        BY <1>5 DEF Form, Begins, n
      <3> QED
        BY <1>2, <2>2, <3>1 DEF Selected, Arity
    <2>4. item \in Items /\ Operates(item, u) /\ item.arity = "BINARY" /\ q + 1 \in Nat
      <3>1. item.type = op /\ item.arity = "BINARY" /\ q + 1 \in Nat
        BY <2>2 DEF Item
      <3> QED
        BY <1>3, <1>4, <3>1, ItemKnown DEF Operates, IsGroup, UseOf, u
    <2>5. ~Fails(w, q, r[q]) /\ r[q + 1] = PutOperator(r[q], item)
      BY <1>2, <2>1, <2>2, <2>3, OperatorRead
    <2>6. Moved(x.post, p) = (left \o Moved(e.post, q + 1)) \o <<item>>
      <3>1. (n + 1) + p = q + 1 /\ n + 1 \in Nat
        BY <1>8, <2>1, <2>2, <1>5 DEF n
      <3>2. Moved(b, p) = Moved(e.post, q + 1) /\ Moved(a, p) = left
        <4>1. Moved(b, p) = Moved(e.post, (n + 1) + p)
          BY <1>5, <2>1, <3>1, MovedTwice DEF b
        <4> QED
          BY <3>1, <4>1 DEF a
      <3>3. Moved(c, p) = <<item>>
        BY <1>3, <1>4, <2>1, <3>1, ItemKnown DEF c, last
      <3>4. Moves(a, b, c, p)
        BY <1>10, <2>1
      <3> QED
        BY <1>9, <3>2, <3>3, <3>4 DEF Moves
    <2>7. Ready(w, q + 1) /\ Entering(w, q + 1, r[q + 1]) = r[q + 1]
      BY <1>2, <2>2, NoCallAfter
    <2>8. /\ NoneFails(w, r, p, q)
          /\ PutOperator(r[q], item) = State(Append(s.stack, item), s.rpn \o left)
      <3>1. Operates(item, x.top) /\ Completes(l.top, x.top) /\ item.arity # "RUNARY"
        BY <1>1, <1>6, <2>4
      <3> HIDE DEF item, s
      <3>2. s = Entering(w, p, r[p])
        BY DEF s
      <3> QED
        BY <1>7, <1>12, <1>14, <2>2, <3>1, <3>2, LeftSide DEF n
    <2>9. NoneFails(w, r, p, q + 1)
      <3>1. NoneFails(w, r, q, q + 1)
        BY <2>2, <2>5, NoneFailsOne
      <3>2. p <= q /\ q <= q + 1
        BY <1>5, <2>1, <2>2 DEF n
      <3> QED
        BY <2>1, <2>2, <2>4, <2>8, <3>1, <3>2, NoneFailsParts
    <2>10. Rests(w, r, p, x, q + 1, e, item, left)
      <3>1. p <= q + 1 /\ (q + 1) + Len(e.toks) = p + Len(x.toks)
        <4>1. Len(e.toks) \in Nat /\ n \in Nat /\ p \in Nat
          BY <2>1, SoundKnown DEF n
        <4>2. Len(x.toks) = (n + 1) + Len(e.toks)
          BY <1>7
        <4> DEFINE j == Len(e.toks)
                   k == Len(x.toks)
        <4>3. j \in Nat /\ k = (n + 1) + j
          BY <4>1, <4>2
        <4> HIDE DEF j, k
        <4>4. p <= q + 1 /\ (q + 1) + j = p + k
          BY <4>1, <4>3
        <4> QED
          BY <4>4 DEF j, k
      <3>2. Entering(w, q + 1, r[q + 1]) = State(Append(s.stack, item), s.rpn \o left)
        BY <2>5, <2>7, <2>8
      <3>3. Operates(item, x.top) /\ Waits(x.top, e.top)
        BY <1>1, <1>6, <2>4
      <3> HIDE DEF q, item, left
      <3> QED
        BY <2>2, <2>4, <2>6, <2>7, <2>9, <3>1, <3>2, <3>3 DEF Rests, s
    <2>11. left \in Seq(Items)
      BY <1>5, <2>1, MovedItems
    <2> HIDE DEF q, item, left
    <2> QED
      BY <1>7, <1>12, <1>14, <2>4, <2>10, <2>11, RightSide
  <1>15. x \in Sound
    BY <1>12, <1>13, <1>14 DEF Sound, Good
  <1> QED
    BY <1>15 DEF x

(* f x: the CALL that is put in between is an operator. *)
LEMMA CallSound ==
  ASSUME NEW f \in Sound, NEW e \in Sound, Beside("LEFT", f, TheUse("CALL", "BINARY")), e.top = Atom
  PROVE  Call(f, e) \in Sound
  <1> DEFINE n == Len(f.toks)
             u == TheUse("CALL", "BINARY")
             x == Call(f, e)
             last == Entry("CALL", n + 1, "BINARY")
  <1>1. /\ x.toks = f.toks \o e.toks /\ x.top = u
        /\ x.post = (f.post \o Moved(e.post, n)) \o <<last>>
        /\ x = [toks |-> x.toks, post |-> x.post, top |-> x.top]
    BY DEF Call, Expr
  <1>2. "CALL" \in Operators /\ HasArity("CALL", "BINARY")
    BY KindsApart DEF HasArity
  <1>3. "CALL" \in Types /\ "CALL" \notin LGroups
    BY <1>2, OperatorsKnown
  <1>4. u \in Uses /\ u.prec > 0 /\ u.prec # 3 /\ u.prec # 19 /\ "BINARY" \in Arities
    BY <1>2, UseKnown
  <1>5. /\ f.toks \in Streams /\ f.toks # <<>> /\ f.post \in Seq(Items) /\ n \in Nat /\ n > 0
        /\ e.toks \in Streams /\ e.toks # <<>> /\ e.post \in Seq(Items) /\ f.top \in Uses /\ e.top \in Uses
        /\ Form(f) /\ Form(e)
    BY SoundKnown
  <1>6. Completes(f.top, u) /\ Waits(u, e.top)
    <2>1. f.top.prec \in Int /\ u.prec \in Int
      <3>1. \A v \in Uses : v.prec \in Int
        BY DEF Uses
      <3> QED
        BY <1>4, <1>5, <3>1
    <2>2. Beside("LEFT", f, u) /\ e.top.prec = 0
      BY DEF Atom, Use
    <2>3. u.prec > 0
      BY <1>4
    <2> HIDE DEF u
    <2> QED
      BY <2>1, <2>2, <2>3 DEF Beside, Completes, Waits, Under, Holds
  <1>7. VBegin(e.toks[1])
    BY <1>5 DEF Form, Begins
  <1>8. /\ x.toks \in Streams /\ x.toks # <<>> /\ Len(x.toks) = n + Len(e.toks)
        /\ x.toks[1] = f.toks[1] /\ x.toks[Len(x.toks)] = e.toks[Len(e.toks)]
    <2> DEFINE la == f.toks
               lc == e.toks
               toks == la \o lc
    <2>1. la \in Streams /\ la # <<>> /\ lc \in Streams /\ lc # <<>> /\ x.toks = toks
      BY <1>1, <1>5
    <2> HIDE DEF la, lc
    <2>2. /\ toks \in Streams /\ toks # <<>> /\ Len(toks) = Len(la) + Len(lc)
          /\ toks[1] = la[1] /\ toks[Len(toks)] = lc[Len(lc)]
      BY <2>1, StreamParts
    <2> HIDE DEF toks
    <2> QED
      BY <2>1, <2>2 DEF la, lc
  <1> DEFINE a == f.post
             b == Moved(e.post, n)
             c == <<last>>
  <1>9. a \in Seq(Items) /\ b \in Seq(Items) /\ c \in Seq(Items) /\ n + 1 \in Nat
    <2>1. n + 1 \in Nat
      BY <1>5
    <2> QED
      BY <1>3, <1>4, <1>5, <2>1, MovedItems, ItemKnown
  <1>10. x.post = (a \o b) \o c
    BY <1>1
  <1> HIDE DEF x, u, a, b, c, n, last
  <1>11. \A p \in Nat : Moves(a, b, c, p)
    BY <1>9, MovedParts
  <1>12. x.post \in Seq(Items)
    <2>1. Moves(a, b, c, 0)
      BY <1>11
    <2> QED
      BY <1>10, <2>1 DEF Moves
  <1>13. x \in Exprs
    BY <1>1, <1>4, <1>8, <1>12 DEF Exprs
  <1>14. Form(x)
    <2>1. u # Atom
      BY <1>4 DEF Atom, Use
    <2>2. Begins(x.toks[1], u) /\ VEnd(x.toks[Len(x.toks)])
      BY <1>5, <1>8, <2>1 DEF Form, Begins
    <2> QED
      BY <1>1, <1>4, <1>8, <2>2 DEF Form
  <1>15. ASSUME NEW w, NEW r, NEW p, Context(w, r, p, x)
         PROVE  \E pend, emit \in Seq(Items) : Comes(w, r, p, x, pend, emit)
    <2> DEFINE q == p + n
               item == CallAt(q)
               left == Moved(f.post, p)
               s == Entering(w, p, r[p])
    <2>1. /\ w \in Streams /\ IsRun(w, r) /\ p \in Nat /\ s.stack \in Seq(Items) /\ s.rpn \in Seq(Items)
          /\ Reads(w, p, x.toks) /\ Len(w) \in Nat
      BY <1>8, <1>13, <1>15, ContextKnown DEF Context
    <2>2. /\ Reads(w, p, f.toks) /\ Reads(w, q, e.toks) /\ q \in Nat
          /\ w[q + 1] = e.toks[1] /\ Before(w, q) = f.toks[n] /\ q \in 0..(Len(w) - 1)
      <3>1. Reads(w, p, f.toks \o e.toks) /\ w \in Streams /\ p \in Nat
        BY <1>1, <2>1
      <3>2. Reads(w, p, f.toks) /\ Reads(w, q, e.toks) /\ q \in Nat
        BY <1>5, <3>1, ReadsParts DEF n
      <3>3. Before(w, q) = f.toks[n]
        BY <1>5, <3>1, <3>2, ReadsEnds DEF n
      <3>4. w[q + 1] = e.toks[1] /\ q \in 0..(Len(w) - 1)
        <4> HIDE DEF q
        <4> QED
          BY <1>5, <3>1, <3>2, ReadsEnds
      <3> QED
        BY <3>2, <3>3, <3>4
    <2>3. VEnd(Before(w, q)) /\ VBegin(w[q + 1])
      BY <1>5, <1>7, <2>2 DEF Form, n
    <2>4. item \in Items /\ Operates(item, u) /\ item.arity = "BINARY"
      <3>1. item.type = "CALL" /\ item.arity = "BINARY" /\ q + 1 \in Nat
        BY <2>2 DEF CallAt, Item
      <3>2. item \in Items
        BY <1>3, <1>4, <3>1, ItemKnown DEF CallAt
      <3> QED
        BY <1>3, <1>4, <3>1, <3>2 DEF Operates, IsGroup, UseOf, u
    <2>5. Ready(w, q) /\ Entering(w, q, r[q]) = PutOperator(r[q], item)
      BY <2>3 DEF Ready, Entering
    <2>6. Moved(x.post, p) = (left \o Moved(e.post, q)) \o <<item>>
      <3>1. n + p = q /\ (n + 1) + p = q + 1 /\ n + 1 \in Nat /\ n \in Nat
        <4>1. n \in Nat /\ p \in Nat
          BY <1>5, <2>1 DEF n
        <4> QED
          BY <4>1
      <3>2. Moved(b, p) = Moved(e.post, q) /\ Moved(a, p) = left
        <4>1. Moved(b, p) = Moved(e.post, n + p)
          BY <1>5, <2>1, <3>1, MovedTwice DEF b
        <4> QED
          BY <3>1, <4>1 DEF a
      <3>3. Moved(c, p) = <<item>>
        BY <1>3, <1>4, <2>1, <3>1, ItemKnown DEF c, last, CallAt
      <3>4. Moves(a, b, c, p)
        BY <1>11, <2>1
      <3> QED
        BY <1>10, <3>2, <3>3, <3>4 DEF Moves
    <2>7. /\ NoneFails(w, r, p, q)
          /\ PutOperator(r[q], item) = State(Append(s.stack, item), s.rpn \o left)
      <3>1. Operates(item, x.top) /\ Completes(f.top, x.top) /\ item.arity # "RUNARY"
        BY <1>1, <1>6, <2>4
      <3> HIDE DEF item, s
      <3>2. s = Entering(w, p, r[p])
        BY DEF s
      <3> QED
        BY <1>8, <1>13, <1>15, <2>2, <3>1, <3>2, LeftSide DEF n
    <2>8. Rests(w, r, p, x, q, e, item, left)
      <3>1. p <= q /\ q + Len(e.toks) = p + Len(x.toks)
        <4>1. Len(e.toks) \in Nat /\ n \in Nat /\ p \in Nat
          BY <2>1, SoundKnown DEF n
        <4>2. Len(x.toks) = n + Len(e.toks)
          BY <1>8
        <4> DEFINE j == Len(e.toks)
                   k == Len(x.toks)
        <4>3. j \in Nat /\ k = n + j
          BY <4>1, <4>2
        <4> HIDE DEF j, k
        <4>4. p <= q /\ q + j = p + k
          BY <4>1, <4>3
        <4> QED
          BY <4>4 DEF j, k
      <3>2. Entering(w, q, r[q]) = State(Append(s.stack, item), s.rpn \o left)
        BY <2>5, <2>7
      <3>3. Operates(item, x.top) /\ Waits(x.top, e.top)
        BY <1>1, <1>6, <2>4
      <3> HIDE DEF q, item, left
      <3> QED
        BY <2>2, <2>5, <2>6, <2>7, <3>1, <3>2, <3>3 DEF Rests, s
    <2>9. left \in Seq(Items)
      BY <1>5, <2>1, MovedItems
    <2> HIDE DEF q, item, left
    <2> QED
      BY <1>8, <1>13, <1>15, <2>4, <2>8, <2>9, RightSide
  <1>16. x \in Sound
    BY <1>13, <1>14, <1>15 DEF Sound, Good
  <1> QED
    BY <1>16 DEF x

(* op e: the operator is no operand's first token, so no call goes before it. *)
LEMMA PrefixSound ==
  ASSUME NEW op \in Unary, NEW e \in Sound, e.top.prec <= TheUse(op, "LUNARY").prec
  PROVE  Prefix(op, e) \in Sound
  <1> DEFINE u == TheUse(op, "LUNARY")
             x == Prefix(op, e)
             last == Entry(op, 1, "LUNARY")
  <1>1. /\ x.toks = <<op>> \o e.toks /\ x.top = u
        /\ x.post = Moved(e.post, 1) \o <<last>>
        /\ x = [toks |-> x.toks, post |-> x.post, top |-> x.top]
    BY DEF Prefix, Expr
  <1>2. op \in Operators /\ HasArity(op, "LUNARY") /\ u.assoc = "RIGHT"
    BY SyntaxAssumption
  <1>3. op \in Types \ Markers /\ op \in Types /\ op \notin LGroups /\ ~VBegin(op)
    BY <1>2, OperatorsKnown
  <1>4. u \in Uses /\ u.prec = 3 /\ "LUNARY" \in Arities
    BY <1>2, UseKnown
  <1>5. /\ e.toks \in Streams /\ e.toks # <<>> /\ e.post \in Seq(Items) /\ e.top \in Uses /\ Form(e)
        /\ Len(e.toks) \in Nat
    BY SoundKnown
  <1>6. Waits(u, e.top)
    <2>1. e.top.prec \in Int /\ u.prec = 3 /\ u.assoc = "RIGHT" /\ e.top.prec <= u.prec
      <3>1. \A v \in Uses : v.prec \in Int
        BY DEF Uses
      <3> QED
        BY <1>2, <1>4, <1>5, <3>1
    <2>2. e.top.prec = 3 => e.top.assoc = "RIGHT"
      BY <1>5 DEF Form
    <2> HIDE DEF u
    <2> QED
      BY <2>1, <2>2 DEF Waits, Under, Holds
  <1>7. /\ x.toks \in Streams /\ x.toks # <<>> /\ Len(x.toks) = 1 + Len(e.toks)
        /\ x.toks[1] = op /\ x.toks[Len(x.toks)] = e.toks[Len(e.toks)]
    <2> DEFINE la == <<op>>
               lc == e.toks
               toks == la \o lc
    <2>1. /\ la \in Streams /\ la # <<>> /\ Len(la) = 1 /\ la[1] = op
          /\ lc \in Streams /\ lc # <<>> /\ x.toks = toks
      BY <1>1, <1>3, <1>5, TokenStream
    <2> HIDE DEF la, lc
    <2>2. /\ toks \in Streams /\ toks # <<>> /\ Len(toks) = Len(la) + Len(lc)
          /\ toks[1] = la[1] /\ toks[Len(toks)] = lc[Len(lc)]
      BY <2>1, StreamParts
    <2> HIDE DEF toks
    <2> QED
      BY <2>1, <2>2 DEF lc
  <1> DEFINE b == Moved(e.post, 1)
             c == <<last>>
             none == <<>>
  <1>8. b \in Seq(Items) /\ c \in Seq(Items) /\ 1 \in Nat /\ none \in Seq(Items)
    BY <1>3, <1>4, <1>5, MovedItems, ItemKnown
  <1>9. x.post = b \o c
    BY <1>1
  <1> HIDE DEF x, u, b, c, last
  <1>10. x.post \in Seq(Items)
    BY <1>8, <1>9, ConcatProperties
  <1>11. x \in Exprs
    BY <1>1, <1>4, <1>7, <1>10 DEF Exprs
  <1>12. Form(x)
    <2>1. u # Atom
      BY <1>4 DEF Atom, Use
    <2>2. Begins(x.toks[1], u) /\ VEnd(x.toks[Len(x.toks)])
      BY <1>2, <1>5, <1>7, <2>1 DEF Form, Begins
    <2> QED
      BY <1>1, <1>2, <1>4, <1>7, <2>2 DEF Form, u
  <1>13. ASSUME NEW w, NEW r, NEW p, Context(w, r, p, x)
         PROVE  \E pend, emit \in Seq(Items) : Comes(w, r, p, x, pend, emit)
    <2> DEFINE item == Item(op, p + 1, "LUNARY")
               s == Entering(w, p, r[p])
    <2>1. /\ w \in Streams /\ IsRun(w, r) /\ p \in Nat /\ s.stack \in Seq(Items) /\ s.rpn \in Seq(Items)
          /\ Reads(w, p, x.toks) /\ Ready(w, p) /\ Accepts(s.stack, u) /\ Len(w) \in Nat
      BY <1>1, <1>7, <1>11, <1>13, ContextKnown DEF Context
    <2>2. w[p + 1] = op /\ Reads(w, p + 1, e.toks) /\ p \in 0..(Len(w) - 1) /\ p + 1 \in Nat
      <3>1. <<op>> \in Streams /\ Len(<<op>>) = 1
        BY <1>3, TokenStream
      <3>2. Reads(w, p, <<op>> \o e.toks)
        BY <1>1, <2>1
      <3>3. Reads(w, p, <<op>>) /\ Reads(w, p + Len(<<op>>), e.toks)
        BY <1>5, <2>1, <3>1, <3>2, ReadsParts
      <3>4. Reads(w, p, <<op>>) /\ Reads(w, p + 1, e.toks)
        BY <3>1, <3>3
      <3>5. p \in 0..(Len(w) - 1) /\ w[p + 1] = op
        BY <1>3, <2>1, <3>4, ReadsOne
      <3> QED
        BY <2>1, <3>4, <3>5
    <2>3. Selected(w, p) = "LUNARY"
      BY <1>2, <1>3, <2>1, <2>2 DEF Ready, Selected, Arity
    <2>4. item \in Items /\ Operates(item, u) /\ item.arity = "LUNARY"
      <3>1. item.type = op /\ item.arity = "LUNARY" /\ p + 1 \in Nat
        BY <2>2 DEF Item
      <3>2. item \in Items
        BY <1>3, <1>4, <3>1, ItemKnown
      <3> QED
        BY <1>3, <1>4, <3>1, <3>2 DEF Operates, IsGroup, UseOf, u
    <2>5. ~Fails(w, p, r[p]) /\ r[p + 1] = PutOperator(r[p], item) /\ s = r[p]
      BY <1>2, <2>1, <2>2, <2>3, OperatorRead
    <2>6. Moved(x.post, p) = (none \o Moved(e.post, p + 1)) \o <<item>>
      <3>1. 1 + p = p + 1
        BY <2>1
      <3>2. Moved(b, p) = Moved(e.post, p + 1)
        <4>1. Moved(b, p) = Moved(e.post, 1 + p)
          BY <1>5, <2>1, MovedTwice DEF b
        <4> QED
          BY <3>1, <4>1
      <3>3. Moved(c, p) = <<item>>
        <4>1. op \in Types /\ 1 \in Nat /\ "LUNARY" \in Arities /\ p \in Nat
          BY <1>3, <1>4, <2>1
        <4>2. Moved(<<Entry(op, 1, "LUNARY")>>, p) = <<Item(op, 1 + p, "LUNARY")>>
          BY <4>1, ItemKnown, Zenon
        <4> QED
          BY <3>1, <4>2 DEF c, last
      <3>4. Moved(b \o c, p) = Moved(b, p) \o Moved(c, p)
        BY <1>8, <2>1, MovedConcat
      <3>5. none \o Moved(b, p) = Moved(b, p)
        <4>1. Moved(b, p) \in Seq(Items)
          BY <1>8, <2>1, MovedItems
        <4> QED
          BY <4>1, ConcatEmptySeq
      <3> HIDE DEF none, item
      <3> QED
        BY <1>9, <3>2, <3>3, <3>4, <3>5
    <2>7. Ready(w, p + 1) /\ Entering(w, p + 1, r[p + 1]) = r[p + 1]
      BY <1>2, <2>1, <2>2, NoCallAfter
    <2>8. PutOperator(s, item) = State(Append(s.stack, item), s.rpn \o none)
      <3> DEFINE st == s.stack
      <3>1. st \in Seq(Items) /\ s.stack = st \o none /\ none \in Seq(Items) /\ Accepts(st, u)
        BY <1>8, <2>1, ConcatEmptySeq
      <3>2. \A k \in 1..Len(none) : \E v \in Uses : Operates(none[k], v) /\ ~Holds(v, u)
        OBVIOUS
      <3>3. Reversed(none) = none
        <4>1. Reversed(none) \in Seq(Items) /\ Len(Reversed(none)) = 0
          BY <1>8, ReversedItems
        <4> QED
          BY <4>1, EmptySeq
      <3> HIDE DEF st, s, item, none
      <3>4. PutOperator(s, item) =
              IF item.arity = "RUNARY" THEN State(st, Append(s.rpn \o Reversed(none), item))
                                       ELSE State(Append(st, item), s.rpn \o Reversed(none))
        BY <2>4, <3>1, <3>2, PutOnto
      <3> QED
        BY <2>4, <3>3, <3>4 DEF st
    <2>9. NoneFails(w, r, p, p + 1)
      BY <2>1, <2>5, NoneFailsOne
    <2>10. Rests(w, r, p, x, p + 1, e, item, none)
      <3>1. p <= p + 1 /\ (p + 1) + Len(e.toks) = p + Len(x.toks)
        <4> DEFINE j == Len(e.toks)
                   k == Len(x.toks)
        <4>1. j \in Nat /\ k = 1 + j /\ p \in Nat
          BY <1>5, <1>7, <2>1
        <4> HIDE DEF j, k
        <4>2. p <= p + 1 /\ (p + 1) + j = p + k
          BY <4>1
        <4> QED
          BY <4>2 DEF j, k
      <3>2. Entering(w, p + 1, r[p + 1]) = State(Append(s.stack, item), s.rpn \o none)
        BY <2>5, <2>7, <2>8
      <3>3. Operates(item, x.top) /\ Waits(x.top, e.top)
        BY <1>1, <1>6, <2>4
      <3> HIDE DEF item, none
      <3> QED
        BY <2>2, <2>6, <2>7, <2>9, <3>1, <3>2, <3>3 DEF Rests, s
    <2> HIDE DEF item, none
    <2> QED
      BY <1>7, <1>8, <1>11, <1>13, <2>4, <2>10, RightSide
  <1>14. x \in Sound
    BY <1>11, <1>12, <1>13 DEF Sound, Good
  <1> QED
    BY <1>14 DEF x

(* A statement, its semicolon, and what is out of the tree that follows. *)
Following(out, left, semi, emit, back, post) ==
  LET all == (left \o <<semi>>) \o emit IN
  /\ all \in Seq(Items)
  /\ Append(out \o left, semi) \o emit = out \o all
  /\ all \o back = (left \o <<semi>>) \o post
  /\ Append(out \o left, semi) \in Seq(Items)

(* They are out one after the other. *)
LEMMA ThenOutput ==
  ASSUME NEW out \in Seq(Items), NEW left \in Seq(Items), NEW semi \in Items,
         NEW emit \in Seq(Items), NEW back \in Seq(Items), NEW post, emit \o back = post
  PROVE  Following(out, left, semi, emit, back, post)
  <1> DEFINE z == <<semi>>
             lz == left \o z
             ol == out \o left
             olz == ol \o z
             all == lz \o emit
  <1>1. z \in Seq(Items)
    OBVIOUS
  <1>2. \A x \in Seq(Items) : Append(x, semi) = x \o z
    OBVIOUS
  <1> HIDE DEF z
  <1>3. lz \in Seq(Items) /\ ol \in Seq(Items) /\ all \in Seq(Items) /\ olz \in Seq(Items)
    BY <1>1, ConcatProperties
  <1>4. \A x, y, t \in Seq(Items) : Associates(x, y, t)
    BY Associative
  <1> HIDE DEF lz, ol, olz, all
  <1>5. Associates(out, left, z) /\ Associates(out, lz, emit) /\ Associates(lz, emit, back)
    BY <1>1, <1>3, <1>4
  <1>6. olz = out \o lz /\ (out \o lz) \o emit = out \o all /\ all \o back = lz \o (emit \o back)
    BY <1>5, Zenon DEF Associates, lz, ol, olz, all
  <1>7. Append(ol, semi) = olz
    BY <1>2, <1>3 DEF olz
  <1>8. Append(ol, semi) \o emit = out \o all /\ all \o back = lz \o post
    BY <1>6, <1>7
  <1> QED
    BY <1>3, <1>7, <1>8 DEF Following, all, lz, ol, z

(* s ; e: what is below the semicolon is out, and it binds weaker than all. *)
LEMMA ThenSound ==
  ASSUME NEW l \in Sound, NEW e \in Sound
  PROVE  Then(l, e) \in Sound
  <1> DEFINE n == Len(l.toks)
             u == TheUse("OP_SEMICOLON", "RUNARY")
             x == Then(l, e)
             mid == Entry("OP_SEMICOLON", n + 1, "RUNARY")
  <1>1. /\ x.toks = Strung(l.toks, "OP_SEMICOLON", e.toks) /\ x.top = u
        /\ x.post = (l.post \o <<mid>>) \o Moved(e.post, n + 1)
        /\ x = [toks |-> x.toks, post |-> x.post, top |-> x.top]
    BY DEF Then, Expr, Strung
  <1>2. /\ "OP_SEMICOLON" \in Operators /\ HasArity("OP_SEMICOLON", "RUNARY")
        /\ ~HasArity("OP_SEMICOLON", "BINARY")
    BY KnownUses DEF HasArity
  <1>3. /\ "OP_SEMICOLON" \in Types \ Markers /\ "OP_SEMICOLON" \in Types
        /\ "OP_SEMICOLON" \notin LGroups
    BY <1>2, OperatorsKnown
  <1>4. u \in Uses /\ u.prec = 19 /\ u.assoc = "LEFT" /\ "RUNARY" \in Arities
    BY <1>2, UseKnown, KnownUses DEF Use
  <1>5. /\ l.toks \in Streams /\ l.toks # <<>> /\ l.post \in Seq(Items) /\ n \in Nat /\ n > 0
        /\ e.toks \in Streams /\ e.toks # <<>> /\ e.post \in Seq(Items) /\ l.top \in Uses /\ e.top \in Uses
        /\ Form(l) /\ Form(e)
    BY SoundKnown
  <1>6. Completes(l.top, u) /\ Under(e.top, u)
    <2>1. \A v \in Uses : v.prec \in Int /\ v.prec <= 19
      BY DEF Uses
    <2>2. /\ l.top.prec \in Int /\ l.top.prec <= 19 /\ e.top.prec \in Int /\ e.top.prec <= 19
          /\ u.prec = 19 /\ u.assoc = "LEFT"
      BY <1>4, <1>5, <2>1
    <2>3. (l.top.prec = 19 => l.top.assoc = "LEFT") /\ (e.top.prec = 19 => e.top.assoc = "LEFT")
      BY <1>5 DEF Form
    <2> HIDE DEF u
    <2> QED
      BY <2>2, <2>3 DEF Completes, Under
  <1>7. /\ x.toks \in Streams /\ x.toks # <<>> /\ Len(x.toks) = (n + 1) + Len(e.toks)
        /\ x.toks[1] = l.toks[1] /\ x.toks[Len(x.toks)] = e.toks[Len(e.toks)]
    <2> DEFINE la == l.toks
               lc == e.toks
               toks == Strung(la, "OP_SEMICOLON", lc)
    <2>1. x.toks = toks /\ la \in Streams /\ la # <<>> /\ lc \in Streams /\ lc # <<>>
      BY <1>1, <1>5
    <2> HIDE DEF la, lc
    <2>2. /\ toks \in Streams /\ toks # <<>> /\ Len(toks) = (Len(la) + 1) + Len(lc)
          /\ toks[1] = la[1] /\ toks[Len(toks)] = lc[Len(lc)]
      BY <1>3, <2>1, StreamInfix
    <2> HIDE DEF toks
    <2> QED
      BY <2>1, <2>2 DEF la, lc
  <1> DEFINE a == l.post
             b == <<mid>>
             c == Moved(e.post, n + 1)
  <1>8. a \in Seq(Items) /\ b \in Seq(Items) /\ c \in Seq(Items) /\ n + 1 \in Nat
    <2>1. n + 1 \in Nat
      BY <1>5
    <2> QED
      BY <1>3, <1>4, <1>5, <2>1, MovedItems, ItemKnown
  <1>9. x.post = (a \o b) \o c
    BY <1>1
  <1> HIDE DEF x, u, a, b, c, n, mid
  <1>10. \A p \in Nat : Moves(a, b, c, p)
    BY <1>8, MovedParts
  <1>11. x.post \in Seq(Items)
    <2>1. Moves(a, b, c, 0)
      BY <1>10
    <2> QED
      BY <1>9, <2>1 DEF Moves
  <1>12. x \in Exprs
    BY <1>1, <1>4, <1>7, <1>11 DEF Exprs
  <1>13. Form(x)
    <2>1. u # Atom
      BY <1>4 DEF Atom, Use
    <2>2. Begins(x.toks[1], u) /\ VEnd(x.toks[Len(x.toks)])
      BY <1>5, <1>7, <2>1 DEF Form, Begins
    <2> QED
      BY <1>1, <1>4, <1>7, <2>2 DEF Form
  <1>14. ASSUME NEW w, NEW r, NEW p, Context(w, r, p, x)
         PROVE  \E pend, emit \in Seq(Items) : Comes(w, r, p, x, pend, emit)
    <2> DEFINE q == p + n
               m == q + 1
               item == Item("OP_SEMICOLON", q + 1, "RUNARY")
               left == Moved(l.post, p)
               s == Entering(w, p, r[p])
               st == s.stack
               out == s.rpn
               more == Append(out \o left, item)
    <2>1. /\ w \in Streams /\ IsRun(w, r) /\ p \in Nat /\ st \in Seq(Items) /\ out \in Seq(Items)
          /\ Reads(w, p, x.toks) /\ Len(w) \in Nat
      BY <1>7, <1>12, <1>14, ContextKnown DEF Context
    <2>2. /\ Reads(w, p, l.toks) /\ w[q + 1] = "OP_SEMICOLON" /\ Reads(w, q + 1, e.toks)
          /\ Before(w, q) = l.toks[n] /\ Ahead(w, q) = e.toks[1]
          /\ q \in 0..(Len(w) - 1) /\ q \in Nat
      <3> DEFINE la == l.toks
                 lc == e.toks
      <3>1. Reads(w, p, Strung(la, "OP_SEMICOLON", lc)) /\ q = p + Len(la)
        BY <1>1, <2>1 DEF n
      <3>2. w \in Streams /\ p \in Nat /\ la \in Streams /\ la # <<>> /\ lc \in Streams /\ lc # <<>>
        BY <1>5, <2>1
      <3> HIDE DEF q, la, lc
      <3>3. /\ Reads(w, p, la) /\ w[q + 1] = "OP_SEMICOLON" /\ Reads(w, q + 1, lc)
            /\ Before(w, q) = la[Len(la)] /\ Ahead(w, q) = lc[1]
            /\ q \in 0..(Len(w) - 1) /\ q \in Nat
        BY <1>3, <3>1, <3>2, ReadsInfix
      <3> QED
        BY <3>3 DEF la, lc, n
    <2>3. Selected(w, q) = "RUNARY"
      <3>1. VEnd(l.toks[n])
        BY <1>5 DEF Form, n
      <3> QED
        BY <1>2, <2>2, <3>1 DEF Selected, Arity
    <2>4. item \in Items /\ Operates(item, u) /\ item.arity = "RUNARY" /\ m \in Nat
      <3>1. item.type = "OP_SEMICOLON" /\ item.arity = "RUNARY" /\ q + 1 \in Nat
        BY <2>2 DEF Item
      <3> QED
        BY <1>3, <1>4, <3>1, ItemKnown DEF Operates, IsGroup, UseOf, u
    <2>5. ~Fails(w, q, r[q]) /\ r[m] = PutOperator(r[q], item)
      BY <1>2, <2>1, <2>2, <2>3, OperatorRead
    <2>6. Moved(x.post, p) = (left \o <<item>>) \o Moved(e.post, m)
      <3>1. (n + 1) + p = m /\ n + 1 \in Nat
        <4>1. n \in Nat /\ p \in Nat
          BY <1>5, <2>1 DEF n
        <4> QED
          BY <4>1
      <3>2. Moved(c, p) = Moved(e.post, m) /\ Moved(a, p) = left
        <4>1. Moved(c, p) = Moved(e.post, (n + 1) + p)
          BY <1>5, <2>1, <3>1, MovedTwice DEF c
        <4> QED
          BY <3>1, <4>1 DEF a
      <3>3. Moved(b, p) = <<item>>
        BY <1>3, <1>4, <2>1, <3>1, ItemKnown DEF b, mid
      <3>4. Moves(a, b, c, p)
        BY <1>10, <2>1
      <3> QED
        BY <1>9, <3>2, <3>3, <3>4 DEF Moves
    <2>7. Ready(w, m) /\ Entering(w, m, r[m]) = r[m]
      BY <1>2, <2>2, NoCallAfter
    <2>8. /\ NoneFails(w, r, p, q)
          /\ PutOperator(r[q], item) = State(st, more)
      <3>1. Operates(item, x.top) /\ Completes(l.top, x.top) /\ item.arity = "RUNARY"
        BY <1>1, <1>6, <2>4
      <3> HIDE DEF item, s
      <3>2. s = Entering(w, p, r[p])
        BY DEF s
      <3> QED
        BY <1>7, <1>12, <1>14, <2>2, <3>1, <3>2, LeftSide DEF n
    <2>9. r[m].stack = st /\ r[m].rpn = more
      <3>1. r[m] = State(st, more)
        BY <2>5, <2>8, Zenon
      <3> HIDE DEF m, st, more
      <3> QED
        BY <3>1 DEF State
    <2>10. Context(w, r, m, e)
      <3>1. Accepts(st, u)
        BY <1>1, <1>14 DEF Context
      <3>2. Accepts(st, e.top)
        BY <1>4, <1>5, <1>6, <3>1, UnderKnown
      <3> QED
        BY <2>1, <2>2, <2>4, <2>7, <2>9, <3>2 DEF Context
    <2> HIDE DEF s, st, out, more, item, left, m
    <2>11. PICK pend, emit \in Seq(Items) :
             /\ r[m + Len(e.toks)] = State(st \o pend, more \o emit)
             /\ emit \o Reversed(pend) = Moved(e.post, m)
             /\ \A k \in 1..Len(pend) : Pends(pend[k], e.top)
             /\ NoneFails(w, r, m, m + Len(e.toks))
      <3> DEFINE t == Entering(w, m, r[m])
      <3>1. t = Entering(w, m, r[m])
        OBVIOUS
      <3>2. t.stack = st /\ t.rpn = more
        BY <2>7, <2>9
      <3> HIDE DEF t
      <3>3. \E pend, emit \in Seq(Items) :
             /\ Comes(w, r, m, e, pend, emit)
             /\ r[m + Len(e.toks)] = State(t.stack \o pend, t.rpn \o emit)
             /\ emit \o Reversed(pend) = Moved(e.post, m)
             /\ \A k \in 1..Len(pend) : Pends(pend[k], e.top)
             /\ NoneFails(w, r, m, m + Len(e.toks))
        BY <2>10, <3>1, GoodUsed
      <3> QED
        BY <3>2, <3>3
    <2> DEFINE all == (left \o <<item>>) \o emit
    <2>12. /\ all \in Seq(Items) /\ more \o emit = out \o all
           /\ all \o Reversed(pend) = (left \o <<item>>) \o Moved(e.post, m)
      <3> DEFINE back == Reversed(pend)
                 post == Moved(e.post, m)
      <3>1. back \in Seq(Items) /\ left \in Seq(Items) /\ out \in Seq(Items) /\ emit \o back = post /\ item \in Items
        BY <1>5, <2>1, <2>4, <2>11, ReversedItems, MovedItems DEF left
      <3> HIDE DEF back, post
      <3>2. Following(out, left, item, emit, back, post)
        BY <3>1, ThenOutput
      <3> QED
        BY <3>2, Zenon DEF Following, back, post, more
    <2> HIDE DEF all
    <2>13. p + Len(x.toks) = m + Len(e.toks) /\ p <= q /\ q <= m /\ m <= m + Len(e.toks) /\ m + Len(e.toks) \in Nat
      <3> DEFINE j == Len(e.toks)
                 k == Len(x.toks)
      <3>1. j \in Nat /\ k = (n + 1) + j /\ p \in Nat /\ n \in Nat
        BY <1>5, <1>7, <2>1, SoundKnown DEF n
      <3> HIDE DEF j, k
      <3>2. p + k = m + j /\ p <= q /\ q <= m /\ m <= m + j /\ m + j \in Nat
        BY <3>1 DEF m
      <3> QED
        BY <3>2 DEF j, k
    <2>14. NoneFails(w, r, p, m + Len(e.toks))
      <3> HIDE DEF q
      <3>1. NoneFails(w, r, q, m)
        BY <2>2, <2>5, NoneFailsOne DEF m
      <3>2. NoneFails(w, r, p, m)
        BY <2>1, <2>2, <2>4, <2>8, <2>13, <3>1, NoneFailsParts
      <3> QED
        BY <2>1, <2>4, <2>11, <2>13, <3>2, NoneFailsParts
    <2>15. \A k \in 1..Len(pend) : Pends(pend[k], x.top)
      <3>1. \A v \in Uses : Under(v, e.top) => Under(v, u)
        BY <1>4, <1>5, <1>6, UnderKnown
      <3> QED
        BY <1>1, <2>11, <3>1 DEF Pends
    <2>16. Comes(w, r, p, x, pend, all)
      <3>1. r[p + Len(x.toks)] = State(st \o pend, out \o all)
        BY <2>11, <2>12, <2>13
      <3>2. all \o Reversed(pend) = Moved(x.post, p)
        BY <2>6, <2>12
      <3>3. NoneFails(w, r, p, p + Len(x.toks))
        BY <2>13, <2>14
      <3> QED
        BY <2>15, <3>1, <3>2, <3>3 DEF Comes, NoneFails, s, st, out
    <2> QED
      BY <2>12, <2>16
  <1>15. x \in Sound
    BY <1>12, <1>13, <1>14 DEF Sound, Good
  <1> QED
    BY <1>15 DEF x

-----------------------------------------------------------------------------
(* Every expression of the grammar is sound: one level of the trees after the
   other. *)
LEMMA LargerSound ==
  ASSUME NEW E \in SUBSET Sound
  PROVE  Larger(Binary, Unary, E) \in SUBSET Sound
  <1>1. Infixes(E, Binary, E) \in SUBSET Sound
    <2> SUFFICES ASSUME NEW l \in E, NEW op \in Binary, NEW e \in E, Fits(l, TheUse(op, "BINARY"), e)
                 PROVE  Infix(l, op, e) \in Sound
      BY DEF Infixes
    <2> QED
      BY InfixSound
  <1>2. CallsOf(E, E) \in SUBSET Sound
    <2> SUFFICES ASSUME NEW f \in E, NEW e \in E, Beside("LEFT", f, TheUse("CALL", "BINARY")), e.top = Atom
                 PROVE  Call(f, e) \in Sound
      BY DEF CallsOf
    <2> QED
      BY CallSound
  <1>3. Prefixes(Unary, E) \in SUBSET Sound
    <2> SUFFICES ASSUME NEW op \in Unary, NEW e \in E, e.top.prec <= TheUse(op, "LUNARY").prec
                 PROVE  Prefix(op, e) \in Sound
      BY DEF Prefixes
    <2> QED
      BY PrefixSound
  <1>4. Parentheses(E) \in SUBSET Sound
    BY GroupSound DEF Parentheses
  <1>5. Thens(E) \in SUBSET Sound
    <2> SUFFICES ASSUME NEW l \in E, NEW e \in E PROVE Then(l, e) \in Sound
      BY DEF Thens
    <2> QED
      BY ThenSound
  <1> QED
    BY <1>1, <1>2, <1>3, <1>4, <1>5 DEF Larger

(* The recursion of Expressions, as a function. *)
LevelAt(f, n) == IF n = 0 THEN {Leaf} ELSE f[n - 1] \cup Larger(Binary, Unary, f[n - 1])
Levels == CHOOSE f : f = [n \in 0..Depth |-> LevelAt(f, n)]

(* The trees of any height are sound. *)
LEMMA SentencesSound == Sentences \in SUBSET Sound
  <1> DEFINE D == 0..Depth
             V == SUBSET Sound
             m == [n \in D |-> n]
             B == Depth + 1
             S == [f \in [D -> V] |-> [n \in D |-> LevelAt(f, n)]]
  <1>1. Depth \in Nat
    BY SyntaxAssumption
  <1>2. m \in [D -> Nat] /\ B \in Nat /\ \A n \in D : m[n] < B
    BY <1>1
  <1>3. ASSUME NEW f \in [D -> V], NEW n \in D PROVE LevelAt(f, n) \in V
    <2>1. CASE n = 0
      BY <2>1, LeafSound DEF LevelAt
    <2>2. CASE n # 0
      <3>1. n - 1 \in D
        BY <1>1, <2>2
      <3>2. f[n - 1] \in SUBSET Sound
        BY <3>1
      <3>3. Larger(Binary, Unary, f[n - 1]) \in SUBSET Sound
        BY <3>2, LargerSound
      <3> QED
        BY <2>2, <3>2, <3>3 DEF LevelAt
    <2> QED
      BY <2>1, <2>2
  <1>4. ASSUME NEW f \in [D -> V], NEW g \in [D -> V], NEW n \in D,
               \A k \in D : m[k] < m[n] => f[k] = g[k]
        PROVE  LevelAt(f, n) = LevelAt(g, n)
    <2>1. CASE n = 0
      BY <2>1 DEF LevelAt
    <2>2. CASE n # 0
      <3>1. n - 1 \in D /\ m[n - 1] < m[n]
        BY <1>1, <2>2
      <3> QED
        BY <1>4, <2>2, <3>1 DEF LevelAt
    <2> QED
      BY <2>1, <2>2
  <1>5. IsRecursion(S, D, V, m, B)
    <2>1. S \in [[D -> V] -> [D -> V]]
      <3> HIDE DEF D, V
      <3> QED
        BY <1>3
    <2>2. \A f, g \in [D -> V], n \in D : (\A k \in D : m[k] < m[n] => f[k] = g[k]) => S[f][n] = S[g][n]
      <3> HIDE DEF D, V, m
      <3> QED
        BY <1>4
    <2>3. V # {}
      OBVIOUS
    <2> HIDE DEF D, V, m, B, S
    <2> QED
      BY <1>2, <2>1, <2>2, <2>3, Zenon DEF IsRecursion
  <1>6. \E f \in [D -> V] : f = [n \in D |-> LevelAt(f, n)]
    <2>1. PICK f \in [D -> V] : S[f] = f
      <3> HIDE DEF D, V, m, B, S
      <3> QED
        BY <1>5, RecursiveFunction
    <2> HIDE DEF D, V
    <2> QED
      BY <2>1
  <1>7. Levels = [n \in D |-> LevelAt(Levels, n)]
    BY <1>6 DEF Levels
  <1>8. \A n \in D : Levels[n] \in V
    <2>1. ASSUME NEW n \in D, \A k \in D : m[k] < m[n] => Levels[k] \in V PROVE Levels[n] \in V
      <3>1. Levels[n] = LevelAt(Levels, n)
        <4> HIDE DEF D
        <4> QED
          BY <1>7
      <3>2. CASE n = 0
        BY <3>1, <3>2, LeafSound DEF LevelAt
      <3>3. CASE n # 0
        <4>1. n - 1 \in D /\ m[n - 1] < m[n]
          BY <1>1, <3>3
        <4>2. Levels[n - 1] \in SUBSET Sound
          BY <2>1, <4>1
        <4>3. Larger(Binary, Unary, Levels[n - 1]) \in SUBSET Sound
          BY <4>2, LargerSound
        <4> QED
          BY <3>1, <3>3, <4>2, <4>3 DEF LevelAt
      <3> QED
        BY <3>2, <3>3
    <2>2. \A n \in D : (\A k \in D : m[k] < m[n] => Levels[k] \in V) => Levels[n] \in V
      BY <2>1
    <2> HIDE DEF D, V, m, B
    <2> QED
      BY <1>2, <2>2, ValuesIn
  <1>9. Sentences = Levels[Depth]
    BY DEF Sentences, Expressions, Levels, LevelAt
  <1> QED
    BY <1>1, <1>8, <1>9

(* The parser follows a run of its stream, up to the token it gives up at. *)
Followed == \E r : IsRun(input, r) /\ Follows(r)

(* It starts with one, *)
LEMMA InitFollows == Init => Followed
  <1> SUFFICES ASSUME Init PROVE Followed
    OBVIOUS
  <1>1. input \in Streams /\ Here = State(<<>>, <<>>) /\ status = "parsing" /\ pos = 0
    BY InputsAssumption DEF Init, Streams, Here
  <1>2. PICK r : IsRun(input, r)
    BY <1>1, RunExists
  <1>3. r[0] = Here
    BY <1>1, <1>2 DEF IsRun, RunsTo
  <1> QED
    BY <1>1, <1>2, <1>3 DEF Followed, Follows

(* and where the stream is an expression, the output is its tree in the end. *)
LEMMA EndFollows ==
  ASSUME NEW e \in Sound, e.toks = input, IInv, Followed, status # "parsing"
  PROVE  status = "done" /\ rpn = Append(e.post, Item("END", Len(input) + 1, "NULLARY"))
  <1>1. PICK r : IsRun(input, r) /\ Follows(r)
    BY DEF Followed
  <1>2. e.toks \in Streams /\ e.post \in Seq(Items) /\ e.toks # <<>> /\ Len(input) \in Nat
    BY SoundKnown
  <1>3. Entering(input, 0, r[0]) = r[0] /\ Ready(input, 0)
    <2>1. ~VEnd(Before(input, 0))
      BY DEF Before, VEnd, RGroups, Values
    <2> QED
      BY <2>1 DEF Entering, Ready
  <1>4. r[0].stack = <<>> /\ r[0].rpn = <<>>
    BY <1>1 DEF IsRun, RunsTo, State
  <1>5. Context(input, r, 0, e)
    <2>1. Reads(input, 0, e.toks)
      <3>1. 0 + Len(e.toks) <= Len(input)
        BY <1>2
      <3>2. \A i \in 1..Len(e.toks) : input[0 + i] = e.toks[i]
        BY <1>2
      <3> QED
        BY <3>1, <3>2 DEF Reads
    <2>2. Accepts(<<>>, e.top)
      BY DEF Accepts
    <2> QED
      BY <1>1, <1>3, <1>4, <2>1, <2>2 DEF Context
  <1>6. PICK pend, emit \in Seq(Items) :
          /\ r[0 + Len(e.toks)] = State(r[0].stack \o pend, r[0].rpn \o emit)
          /\ emit \o Reversed(pend) = Moved(e.post, 0)
          /\ NoneFails(input, r, 0, 0 + Len(e.toks))
    <2> DEFINE t == Entering(input, 0, r[0])
    <2>1. t = Entering(input, 0, r[0]) /\ t = r[0]
      BY <1>3
    <2> HIDE DEF t
    <2>2. \E pend, emit \in Seq(Items) :
            /\ Comes(input, r, 0, e, pend, emit)
            /\ r[0 + Len(e.toks)] = State(t.stack \o pend, t.rpn \o emit)
            /\ emit \o Reversed(pend) = Moved(e.post, 0)
            /\ \A k \in 1..Len(pend) : Pends(pend[k], e.top)
            /\ NoneFails(input, r, 0, 0 + Len(e.toks))
      BY <1>5, <2>1, GoodUsed
    <2> QED
      BY <2>1, <2>2
  <1> DEFINE none == <<>>
             s == r[Len(input)]
  <1>7. s = State(none \o pend, emit) /\ none \in Seq(Items) /\ Len(none) = 0
    <2>1. 0 + Len(e.toks) = Len(input)
      BY <1>2
    <2>2. r[0].rpn \o emit = emit
      BY <1>4, ConcatEmptySeq
    <2> QED
      BY <1>4, <1>6, <2>1, <2>2
  <1>8. Moved(e.post, 0) = e.post
    <2> DEFINE a == Moved(e.post, 0)
               b == e.post
    <2>1. a \in Seq(Items) /\ Len(a) = Len(b) /\ \A i \in 1..Len(b) : a[i] = Shifted(b[i], 0)
      BY <1>2, MovedItems
    <2>2. b \in Seq(Items)
      BY <1>2
    <2> HIDE DEF a, b
    <2>3. ASSUME NEW i \in 1..Len(b) PROVE a[i] = b[i]
      <3>1. b[i] \in Items
        BY <2>2
      <3>2. Shifted(b[i], 0) = b[i]
        BY <3>1 DEF Shifted, Item, Items
      <3> QED
        BY <2>1, <3>2
    <2>4. a = b
      BY <2>1, <2>2, <2>3, SeqEqual
    <2> QED
      BY <2>4 DEF a, b
  <1>9. status = "done" /\ rpn = PutEnd(s).rpn
    <2>1. ~ \E i \in 0..(Len(input) - 1) : Fails(input, i, r[i])
      <3>1. 0 + Len(e.toks) = Len(input)
        BY <1>2
      <3> QED
        BY <1>6, <3>1 DEF NoneFails
    <2>2. status \in {"done", "error", "undefined"}
      BY DEF IInv, TypeOK
    <2> QED
      BY <1>1, <2>1, <2>2 DEF Follows
  <1> HIDE DEF s, none
  <1>10. s.stack = none \o pend /\ s.rpn = emit
    BY <1>7 DEF State
  <1>11. Popped(s, 0) = State(none, e.post)
    <2>1. Popped(s, Len(none)) = State(none, s.rpn \o Reversed(pend))
      BY <1>7, <1>10, PoppedUpper
    <2> QED
      BY <1>6, <1>7, <1>8, <1>10, <2>1
  <1>12. PutEnd(s).rpn = Append(e.post, Item("END", Len(input) + 1, "NULLARY"))
    BY <1>11 DEF PutEnd, PutValue, State
  <1> QED
    BY <1>9, <1>12

(* The parser gives every expression of the grammar, of any height and with any
   operators of the table but the increments, the postfix order of its tree. *)
THEOREM ParserFollowsTheTable == Spec => []FollowsTheTable
  <1>1. Init => IInv /\ Followed
    BY InitInv, InitFollows
  <1>2. IInv /\ Followed /\ [Next]_vars => Followed'
    <2> SUFFICES ASSUME IInv, [Next]_vars, NEW r, IsRun(input, r), Follows(r) PROVE Followed'
      BY DEF Followed
    <2>1. CASE Next
      <3>1. input' = input /\ Follows(r)'
        BY <2>1, NextFollows
      <3> QED
        BY <3>1 DEF Followed, IsRun
    <2>2. CASE UNCHANGED vars
      BY <2>2 DEF vars, Followed, Follows, Here, PutEnd, Fails, Selected, Arity, Before, Ahead, IsRun
    <2> QED
      BY <2>1, <2>2
  <1>3. IInv /\ Followed => FollowsTheTable
    <2> SUFFICES ASSUME IInv, Followed, status # "parsing", NEW e \in Sentences, e.toks = input
                 PROVE  status = "done" /\ rpn = Append(e.post, Item("END", Len(input) + 1, "NULLARY"))
      BY DEF FollowsTheTable, Means
    <2>1. e \in Sound
      BY SentencesSound
    <2> QED
      BY <2>1, EndFollows
  <1>4. Spec => []Followed
    BY Invariant, <1>1, <1>2, PTL DEF Spec
  <1> QED
    BY Invariant, <1>3, <1>4, PTL
=============================================================================
