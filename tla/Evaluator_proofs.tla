-------------------------- MODULE Evaluator_proofs --------------------------
(***************************************************************************)
(* Theorems of Evaluator for any programs the parser may put out: TypeOK.  *)
(*                                                                         *)
(* type_size and the count of an array's elements are recursive functions  *)
(* over places of a type: Extrema has what shows that they give numbers.   *)
(* The rest follows block::add: each case leaves a block whose types are   *)
(* made by instructions that it has.                                       *)
(***************************************************************************)
EXTENDS Evaluator, Extrema, SequenceTheorems

-----------------------------------------------------------------------------
(* type_size: every value is made of those of shorter stretches.             *)

SizeMeasure(x) ==
  IF x[1] = "type" THEN IF x[2] < x[3] THEN 2 * (x[3] - x[2]) + 1 ELSE 1
  ELSE IF x[2] < x[3] THEN 2 * (x[3] - x[2]) + 2 ELSE 0

(* FirstOrNone gives a place of the set, or 0 when there is none. *)
LEMMA FirstPlace ==
  ASSUME NEW i \in Int, NEW j \in Int, NEW places \in SUBSET (i..j)
  PROVE  IF places = {} THEN FirstOrNone(places) = 0 ELSE FirstOrNone(places) \in places
  <1>1. CASE places = {}
    BY <1>1 DEF FirstOrNone
  <1>2. CASE places # {}
    <2>1. places \in SUBSET Int /\ IsFiniteSet(places)
      <3>1. IsFiniteSet(i..j)
        BY FS_Interval
      <3>2. IsFiniteSet(places)
        BY <3>1, FS_Subset
      <3> QED
        BY <3>2
    <2>2. \E k \in places : \A l \in places : k <= l
      BY <1>2, <2>1, Minimum
    <2> QED
      BY <1>2, <2>2 DEF FirstOrNone
  <1> QED
    BY <1>1, <1>2

(* inner_type ends behind its beginning, or throws, or finds an END. *)
LEMMA InnerEndIs ==
  ASSUME NEW types, NEW i \in Int, NEW j \in Int
  PROVE  \/ i <= j /\ types[i] = END /\ InnerEnd(types, i, j) = i - 1
         \/ ~(i <= j /\ types[i] = END) /\ InnerEnd(types, i, j) \in {0} \cup (i..j)
  <1> DEFINE places == {k \in i..j : Depth(types, i, k) = 0}
  <1>1. FirstOrNone(places) \in {0} \cup (i..j)
    <2>1. places \in SUBSET (i..j)
      OBVIOUS
    <2> HIDE DEF places
    <2> QED
      BY <2>1, FirstPlace
  <1> HIDE DEF places
  <1>2. InnerEnd(types, i, j) = IF i <= j /\ types[i] = END THEN i - 1 ELSE FirstOrNone(places)
    BY DEF InnerEnd, places
  <1> QED
    BY <1>1, <1>2

(* The stretches that the size of a tuple's elements is made of ... *)
LEMMA ElementsShorter ==
  ASSUME NEW types \in Seq(Int), NEW i \in 1..(Len(types) + 1), NEW j \in 0..Len(types),
         i < j, types[i] # END, InnerEnd(types, i, j) # 0
  PROVE  LET e == InnerEnd(types, i, j) IN
         /\ <<"type", i, e>> \in SizePlaces(types)
         /\ SizeMeasure(<<"type", i, e>>) < SizeMeasure(<<"elements", i, j>>)
         /\ <<"elements", e + 1, j>> \in SizePlaces(types)
         /\ SizeMeasure(<<"elements", e + 1, j>>) < SizeMeasure(<<"elements", i, j>>)
  <1> DEFINE e == InnerEnd(types, i, j)
             n == Len(types)
  <1>1. n \in Nat /\ i \in 1..(n + 1) /\ j \in 0..n
    OBVIOUS
  <1>2. e \in i..j
    <2>1. i \in Int /\ j \in Int
      BY <1>1
    <2> QED
      BY <2>1, InnerEndIs
  <1>3. SizePlaces(types) = {"type", "elements"} \X (1..(n + 1)) \X (0..n)
    BY DEF SizePlaces
  <1> HIDE DEF e, n
  <1>4. <<"type", i, e>> \in SizePlaces(types) /\ <<"elements", e + 1, j>> \in SizePlaces(types)
    <2>1. i \in 1..(n + 1) /\ e \in 0..n /\ e + 1 \in 1..(n + 1) /\ j \in 0..n
      BY <1>1, <1>2
    <2> QED
      BY <1>3, <2>1
  <1>5. /\ SizeMeasure(<<"type", i, e>>) < SizeMeasure(<<"elements", i, j>>)
        /\ SizeMeasure(<<"elements", e + 1, j>>) < SizeMeasure(<<"elements", i, j>>)
    BY <1>1, <1>2 DEF SizeMeasure
  <1> QED
    BY <1>4, <1>5 DEF e

(* ... the elements of a type that is a tuple ... *)
LEMMA TupleShorter ==
  ASSUME NEW types \in Seq(Int), NEW i \in 1..(Len(types) + 1), NEW j \in 0..Len(types), i <= Len(types)
  PROVE  /\ <<"elements", i + 1, j>> \in SizePlaces(types)
         /\ SizeMeasure(<<"elements", i + 1, j>>) < SizeMeasure(<<"type", i, j>>)
  <1> DEFINE n == Len(types)
  <1>1. n \in Nat /\ i \in 1..(n + 1) /\ j \in 0..n /\ i <= n
    OBVIOUS
  <1>2. SizePlaces(types) = {"type", "elements"} \X (1..(n + 1)) \X (0..n)
    BY DEF SizePlaces
  <1> HIDE DEF n
  <1>3. <<"elements", i + 1, j>> \in SizePlaces(types)
    <2>1. i + 1 \in 1..(n + 1)
      BY <1>1
    <2> QED
      BY <1>1, <1>2, <2>1
  <1>4. SizeMeasure(<<"elements", i + 1, j>>) < SizeMeasure(<<"type", i, j>>)
    <2>1. i \in Int /\ j \in Int
      BY <1>1
    <2> QED
      BY <2>1 DEF SizeMeasure
  <1> QED
    BY <1>3, <1>4

(* ... and the type of an array's elements. *)
LEMMA ArrayShorter ==
  ASSUME NEW types \in Seq(Int), NEW i \in 1..(Len(types) + 1), NEW j \in 0..Len(types), i <= Len(types),
         InnerEnd(types, i + 1, j) \notin {0, j}
  PROVE  LET e == InnerEnd(types, i + 1, j) IN
         /\ <<"type", i + 1, e>> \in SizePlaces(types)
         /\ SizeMeasure(<<"type", i + 1, e>>) < SizeMeasure(<<"type", i, j>>)
         /\ types[e + 1] \in Int
  <1> DEFINE e == InnerEnd(types, i + 1, j)
             n == Len(types)
  <1>1. n \in Nat /\ i \in 1..(n + 1) /\ j \in 0..n /\ i <= n /\ e # 0 /\ e # j
    OBVIOUS
  <1>2. SizePlaces(types) = {"type", "elements"} \X (1..(n + 1)) \X (0..n)
    BY DEF SizePlaces
  <1>3. e \in i..j
    <2>1. i \in Int /\ i + 1 \in Int /\ j \in Int
      BY <1>1
    <2>2. \/ i + 1 <= j /\ e = (i + 1) - 1
          \/ e \in {0} \cup ((i + 1)..j)
      BY <2>1, InnerEndIs
    <2> HIDE DEF e
    <2> QED
      BY <1>1, <2>1, <2>2
  <1>4. \A k \in 1..n : types[k] \in Int
    OBVIOUS
  <1> HIDE DEF e, n
  <1>5. i + 1 \in 1..(n + 1) /\ e \in 0..n /\ e + 1 \in 1..n
    BY <1>1, <1>3
  <1>6. SizeMeasure(<<"type", i + 1, e>>) < SizeMeasure(<<"type", i, j>>)
    BY <1>1, <1>3 DEF SizeMeasure
  <1> QED
    BY <1>2, <1>4, <1>5, <1>6 DEF e

(* A place is a triple. *)
LEMMA PlaceIs ==
  ASSUME NEW types \in Seq(Int), NEW x \in SizePlaces(types)
  PROVE  /\ x = <<x[1], x[2], x[3]>>
         /\ x[1] \in {"type", "elements"} /\ x[2] \in 1..(Len(types) + 1) /\ x[3] \in 0..Len(types)
  BY DEF SizePlaces

(* The size at a place depends on nothing but smaller places' sizes ... *)
LEMMA SizeSame ==
  ASSUME NEW types \in Seq(Int), NEW x \in SizePlaces(types), NEW f, NEW g,
         \A y \in SizePlaces(types) : SizeMeasure(y) < SizeMeasure(x) => f[y] = g[y]
  PROVE  SizeAt(types, f, x) = SizeAt(types, g, x)
  <1> DEFINE i == x[2]
             j == x[3]
  <1>1. x = <<x[1], i, j>> /\ x[1] \in {"type", "elements"} /\ i \in 1..(Len(types) + 1) /\ j \in 0..Len(types)
    BY PlaceIs
  <1> HIDE DEF i, j
  <1>2. CASE x[1] = "elements"
    <2>1. x = <<"elements", i, j>>
      BY <1>1, <1>2
    <2>2. TupleSize(types, f, i, j) = TupleSize(types, g, i, j)
      <3>1. CASE i < j /\ types[i] # END /\ InnerEnd(types, i, j) # 0
        <4> DEFINE e == InnerEnd(types, i, j)
        <4>1. f[<<"type", i, e>>] = g[<<"type", i, e>>] /\ f[<<"elements", e + 1, j>>] = g[<<"elements", e + 1, j>>]
          BY <1>1, <2>1, <3>1, ElementsShorter
        <4> QED
          BY <4>1 DEF TupleSize
      <3>2. CASE ~(i < j /\ types[i] # END /\ InnerEnd(types, i, j) # 0)
        <4>1. i >= j \/ types[i] = END \/ InnerEnd(types, i, j) = 0
          BY <1>1, <3>2
        <4> QED
          BY <4>1 DEF TupleSize
      <3> QED
        BY <3>1, <3>2
    <2> QED
      BY <1>2, <2>2 DEF SizeAt, i, j
  <1>3. CASE x[1] = "type"
    <2>1. x = <<"type", i, j>>
      BY <1>1, <1>3
    <2>2. CASE i > Len(types)
      BY <2>2, <1>3 DEF SizeAt, SizeOfType, i, j
    <2>3. CASE i <= Len(types)
      <3>1. f[<<"elements", i + 1, j>>] = g[<<"elements", i + 1, j>>]
        BY <1>1, <2>1, <2>3, TupleShorter
      <3>2. ArraySize(types, f, i, j) = ArraySize(types, g, i, j)
        <4> DEFINE e == InnerEnd(types, i + 1, j)
        <4>1. CASE e \notin {0, j}
          <5>1. f[<<"type", i + 1, e>>] = g[<<"type", i + 1, e>>]
            BY <1>1, <2>1, <2>3, <4>1, ArrayShorter
          <5> QED
            BY <5>1 DEF ArraySize
        <4>2. CASE e \in {0, j}
          BY <4>2 DEF ArraySize
        <4> QED
          BY <4>1, <4>2
      <3>3. SizeOfType(types, f, i, j) = SizeOfType(types, g, i, j)
        BY <3>1, <3>2 DEF SizeOfType
      <3> QED
        BY <1>3, <3>3 DEF SizeAt, i, j
    <2> QED
      BY <1>1, <2>2, <2>3
  <1> QED
    BY <1>1, <1>2, <1>3

(* ... and is a number if they are. *)
LEMMA SizeTyped ==
  ASSUME NEW types \in Seq(Int), NEW x \in SizePlaces(types), NEW f,
         \A y \in SizePlaces(types) : SizeMeasure(y) < SizeMeasure(x) => f[y] \in Int
  PROVE  SizeAt(types, f, x) \in Int
  <1> DEFINE i == x[2]
             j == x[3]
  <1>1. x = <<x[1], i, j>> /\ x[1] \in {"type", "elements"} /\ i \in 1..(Len(types) + 1) /\ j \in 0..Len(types)
    BY PlaceIs
  <1>2. Len(types) \in Nat /\ \A k \in 1..Len(types) : types[k] \in Int
    OBVIOUS
  <1> HIDE DEF i, j
  <1>3. CASE x[1] = "elements"
    <2>1. x = <<"elements", i, j>>
      BY <1>1, <1>3
    <2>2. TupleSize(types, f, i, j) \in Int
      <3>1. CASE i < j /\ types[i] # END /\ InnerEnd(types, i, j) # 0
        <4> DEFINE e == InnerEnd(types, i, j)
        <4>1. f[<<"type", i, e>>] \in Int /\ f[<<"elements", e + 1, j>>] \in Int
          BY <1>1, <2>1, <3>1, ElementsShorter
        <4>2. Both(f[<<"type", i, e>>], f[<<"elements", e + 1, j>>]) \in Int
          BY <4>1 DEF Both
        <4> QED
          BY <4>2 DEF TupleSize, HANGS, INTERNAL
      <3>2. CASE ~(i < j /\ types[i] # END /\ InnerEnd(types, i, j) # 0)
        <4>1. i >= j \/ types[i] = END \/ InnerEnd(types, i, j) = 0
          BY <1>1, <3>2
        <4> QED
          BY <4>1 DEF TupleSize, HANGS, INTERNAL
      <3> QED
        BY <3>1, <3>2
    <2> QED
      BY <1>3, <2>2 DEF SizeAt, i, j
  <1>4. CASE x[1] = "type"
    <2>1. x = <<"type", i, j>>
      BY <1>1, <1>4
    <2>2. CASE i > Len(types)
      BY <2>2, <1>4 DEF SizeAt, SizeOfType, UNDEFINED, i, j
    <2>3. CASE i <= Len(types)
      <3>1. f[<<"elements", i + 1, j>>] \in Int
        BY <1>1, <2>1, <2>3, TupleShorter
      <3>2. ArraySize(types, f, i, j) \in Int
        <4> DEFINE e == InnerEnd(types, i + 1, j)
        <4>1. CASE e \notin {0, j}
          <5>1. f[<<"type", i + 1, e>>] \in Int /\ types[e + 1] \in Int
            BY <1>1, <2>1, <2>3, <4>1, ArrayShorter
          <5>2. Times(f[<<"type", i + 1, e>>], types[e + 1]) \in Int
            BY <5>1 DEF Times
          <5> QED
            BY <5>2 DEF ArraySize, INTERNAL, UNDEFINED
        <4>2. CASE e \in {0, j}
          BY <4>2 DEF ArraySize, INTERNAL, UNDEFINED
        <4> QED
          BY <4>1, <4>2
      <3>3. BasicSize(types[i]) \in Int
        BY DEF BasicSize, INTERNAL
      <3>4. SizeOfType(types, f, i, j) \in Int
        BY <3>1, <3>2, <3>3 DEF SizeOfType, UNDEFINED
      <3> QED
        BY <1>4, <3>4 DEF SizeAt, i, j
    <2> QED
      BY <1>1, <2>2, <2>3
  <1> QED
    BY <1>1, <1>3, <1>4

(* The function that type_size is defined with. *)
Sizes(types) == CHOOSE size : size = [x \in SizePlaces(types) |-> SizeAt(types, size, x)]

(* The measure is a number, and no larger than the type allows. *)
LEMMA SizeMeasured ==
  ASSUME NEW types \in Seq(Int), NEW x \in SizePlaces(types)
  PROVE  SizeMeasure(x) \in Nat /\ SizeMeasure(x) < 2 * Len(types) + 3
  <1> DEFINE i == x[2]
             j == x[3]
             n == Len(types)
  <1>1. n \in Nat /\ i \in 1..(n + 1) /\ j \in 0..n
    BY PlaceIs
  <1>2. SizeMeasure(x) \in {1, 0, 2 * (j - i) + 1, 2 * (j - i) + 2} /\ (i < j \/ SizeMeasure(x) \in {0, 1})
    BY DEF SizeMeasure
  <1> HIDE DEF i, j, n
  <1>3. SizeMeasure(x) \in Nat /\ SizeMeasure(x) < 2 * n + 3
    BY <1>1, <1>2
  <1> QED
    BY <1>3 DEF n

(* The recursion has a solution: the function is one. *)
LEMMA SizesAre ==
  ASSUME NEW types \in Seq(Int)
  PROVE  Sizes(types) = [x \in SizePlaces(types) |-> SizeAt(types, Sizes(types), x)]
  <1> DEFINE D == SizePlaces(types)
             m == [x \in D |-> SizeMeasure(x)]
             S == [f \in [D -> Int] |-> [x \in D |-> SizeAt(types, f, x)]]
             B == 2 * Len(types) + 3
  <1>1. m \in [D -> Nat] /\ B \in Nat /\ \A x \in D : m[x] < B
    BY SizeMeasured
  <1>2. S \in [[D -> Int] -> [D -> Int]]
    <2>1. ASSUME NEW f \in [D -> Int], NEW x \in D PROVE SizeAt(types, f, x) \in Int
      BY SizeTyped
    <2> HIDE DEF D
    <2> QED
      BY <2>1
  <1>3. ASSUME NEW f \in [D -> Int], NEW g \in [D -> Int], NEW x \in D,
               \A y \in D : m[y] < m[x] => f[y] = g[y]
        PROVE  S[f][x] = S[g][x]
    <2>1. \A y \in SizePlaces(types) : SizeMeasure(y) < SizeMeasure(x) => f[y] = g[y]
      BY <1>3
    <2>2. SizeAt(types, f, x) = SizeAt(types, g, x)
      BY <2>1, SizeSame
    <2> QED
      BY <2>2
  <1>4. PICK f \in [D -> Int] : S[f] = f
    <2> HIDE DEF D, m, S, B
    <2>1. IsRecursion(S, D, Int, m, B)
      <3>1. \A f, g \in [D -> Int], x \in D : (\A y \in D : m[y] < m[x] => f[y] = g[y]) => S[f][x] = S[g][x]
        BY <1>3
      <3>2. Int # {}
        OBVIOUS
      <3> QED
        BY <1>1, <1>2, <3>1, <3>2, Zenon DEF IsRecursion
    <2> QED
      BY <2>1, RecursiveFunction
  <1>5. f = [x \in D |-> SizeAt(types, f, x)]
    BY <1>4
  <1> QED
    BY <1>5 DEF Sizes

(* type_size gives a number, or one of the numbers that stand for its failures. *)
LEMMA TypeSizeType ==
  ASSUME NEW types \in Seq(Int)
  PROVE  TypeSize(types) \in Int
  <1> DEFINE D == SizePlaces(types)
             f == Sizes(types)
             m == [x \in D |-> SizeMeasure(x)]
             B == 2 * Len(types) + 3
  <1>1. m \in [D -> Nat] /\ B \in Nat /\ \A x \in D : m[x] < B
    BY SizeMeasured
  <1>2. ASSUME NEW x \in D, \A y \in D : m[y] < m[x] => f[y] \in Int
        PROVE  f[x] \in Int
    <2>1. \A y \in SizePlaces(types) : SizeMeasure(y) < SizeMeasure(x) => f[y] \in Int
      BY <1>2
    <2>2. SizeAt(types, f, x) \in Int
      BY <2>1, SizeTyped
    <2>3. f[x] = SizeAt(types, f, x)
      BY SizesAre
    <2> QED
      BY <2>2, <2>3
  <1>3. \A x \in D : f[x] \in Int
    <2> HIDE DEF D, f, m, B
    <2> QED
      BY <1>1, <1>2, ValuesIn
  <1>4. CASE types = <<>>
    BY <1>4 DEF TypeSize
  <1>5. CASE types # <<>>
    <2>1. <<"type", 1, Len(types)>> \in D
      <3>1. Len(types) \in Nat
        OBVIOUS
      <3>2. 1 \in 1..(Len(types) + 1) /\ Len(types) \in 0..Len(types)
        BY <3>1
      <3> QED
        BY <3>2 DEF SizePlaces
    <2>2. TypeSize(types) = Sizes(types)[<<"type", 1, Len(types)>>]
      BY <1>5 DEF TypeSize, Sizes
    <2> QED
      BY <1>3, <2>1, <2>2
  <1> QED
    BY <1>4, <1>5

-----------------------------------------------------------------------------
(* Types, instructions, names and blocks.                                    *)

(* A word is a number, or a half of a double or of a pointer to a function. *)
FunctionNames == {"pf_abs", "pf_pow", "pf_dpow", "pf_div", "pf_select"}
Word == {"int", "dbl1", "dbl2", "fn1", "fn2"} \X (Int \cup FunctionNames)

Ops == {"ID", "LOADI", "LOAD", "TUPLE", "ADD", "SUB", "MUL", "NEG", "COPY", "CALL", "TUPLE_ELM", "END"}

LibraryIds == {"the_answer", "abs", "pow", "div", "select"}
Ids == STRING \cup {NoName} \cup LibraryIds

TypeRecs == [types : Seq(Int), elm : Int, ix : Int, off : Int, closed : BOOLEAN, iref : Nat, pipe : BOOLEAN]

Instrs == [op : Ops, res : Seq(Int), arg1 : Seq(Int), arg2 : Seq(Int), ix : Int, words : Seq(Word),
           id : Ids, offset : Int]

ValRefs == [id : Ids, mt : {"UNDECIDED", "STACK", "LITERAL"}, type : TypeRecs, ix : Int, words : Seq(Word)]

Failures == Errors \cup {"hangs", "undefined"}

BlockRecs == [ts : Seq(TypeRecs), instrs : Seq(Instrs), ids : Seq(ValRefs), frame : Nat,
              err : {NoError} \cup Failures]

(* A type is the block's if its instruction, if any, is the block's. *)
Made(t, b) == t \in TypeRecs /\ t.iref <= Len(b.instrs)

Sound(b) ==
  /\ b \in BlockRecs
  /\ \A k \in 1..Len(b.ts) : b.ts[k].iref <= Len(b.instrs)
  /\ \A k \in 1..Len(b.ids) : b.ids[k].type.iref <= Len(b.instrs)

Ready(b, n) == Sound(b) /\ (~Failed(b) => Len(b.ts) >= n)

(* The errors are failures, and none of them is the empty one. *)
LEMMA FailuresKnown ==
  /\ NoError \notin Failures
  /\ {"internal", "UNDEFINED_ID", "CALLING_NO_FUNC", "ARRAY_ELM_TYPE_MISMATCH", "MEMBER_ACCESS_ON_NO_TUPLE",
      "UNKNOWN_MEMBER_NAME", "not implemented", "hangs", "undefined"} \subseteq Failures
  BY Zenon DEF Failures, Errors, NoError

(* What the parts of a block are. *)
LEMMA Parts ==
  ASSUME NEW b, Sound(b)
  PROVE  /\ b.ts \in Seq(TypeRecs) /\ b.instrs \in Seq(Instrs) /\ b.ids \in Seq(ValRefs)
         /\ Len(b.ts) \in Nat /\ Len(b.instrs) \in Nat /\ b.frame \in Nat
         /\ b.err \in {NoError} \cup Failures
  BY DEF Sound, BlockRecs

(* A block that fails has an error, and is what it was but for it. *)
LEMMA FailReady ==
  ASSUME NEW b, Sound(b), NEW err \in Failures, NEW n
  PROVE  Ready(Fail(b, err), n)
  <1>1. NoError \notin Failures
    BY FailuresKnown
  <1> HIDE DEF Failures
  <1>2. CASE Failed(b)
    BY <1>2 DEF Fail, Ready
  <1>3. CASE ~Failed(b)
    <2> DEFINE c == [b EXCEPT !.err = err]
    <2>1. Fail(b, err) = c
      BY <1>3 DEF Fail
    <2>2. Sound(c) /\ c.err = err
      BY DEF Sound, BlockRecs
    <2> HIDE DEF c
    <2>3. Failed(c)
      BY <1>1, <2>2 DEF Failed
    <2> QED
      BY <2>1, <2>2, <2>3 DEF Ready
  <1> QED
    BY <1>2, <1>3

(* type_stack::top and vtop throw, or find what they look for. *)
LEMMA NeedReady ==
  ASSUME NEW b, Sound(b), NEW n \in Nat
  PROVE  Ready(Need(b, n), n)
  <1>1. "internal" \in Failures
    BY FailuresKnown
  <1>2. CASE Len(b.ts) < n
    BY <1>1, <1>2, FailReady DEF Need
  <1>3. CASE ~(Len(b.ts) < n)
    <2>1. Len(b.ts) \in Nat
      BY Parts
    <2> QED
      BY <1>3, <2>1 DEF Need, Ready
  <1> QED
    BY <1>2, <1>3

(* The entry of the type stack that is looked at is the block's. *)
LEMMA TopMade ==
  ASSUME NEW b, Sound(b), NEW k \in Nat, k < Len(b.ts)
  PROVE  Made(Top(b, k), b) /\ Len(b.ts) - k \in 1..Len(b.ts)
  <1>1. Len(b.ts) - k \in 1..Len(b.ts)
    BY Parts
  <1>2. Top(b, k) \in TypeRecs /\ Top(b, k).iref <= Len(b.instrs)
    BY <1>1, Parts DEF Top, Sound
  <1> QED
    BY <1>1, <1>2 DEF Made

(* Putting a type of the block in an entry's place ... *)
LEMMA SetTopReady ==
  ASSUME NEW b, NEW n, Ready(b, n), NEW k \in Nat, k < Len(b.ts), NEW t, Made(t, b)
  PROVE  Ready(SetTop(b, k, t), n) /\ Len(SetTop(b, k, t).ts) = Len(b.ts)
         /\ (Failed(SetTop(b, k, t)) <=> Failed(b))
  <1> DEFINE i == Len(b.ts) - k
             c == [b EXCEPT !.ts[i] = t]
  <1>1. Sound(b) /\ i \in 1..Len(b.ts)
    BY TopMade DEF Ready
  <1> HIDE DEF i
  <1>2. c = [b EXCEPT !.ts = [b.ts EXCEPT ![i] = t]]
    BY <1>1 DEF Sound, BlockRecs
  <1>3. /\ c.ts = [b.ts EXCEPT ![i] = t] /\ c.instrs = b.instrs /\ c.ids = b.ids /\ c.err = b.err
        /\ c.frame = b.frame
    BY <1>1 DEF Sound, BlockRecs
  <1>4. c.ts \in Seq(TypeRecs) /\ Len(c.ts) = Len(b.ts) /\ c \in BlockRecs
    <2>1. b.ts \in Seq(TypeRecs) /\ t \in TypeRecs
      BY <1>1, Parts DEF Made
    <2>2. [b.ts EXCEPT ![i] = t] \in Seq(TypeRecs) /\ Len([b.ts EXCEPT ![i] = t]) = Len(b.ts)
      BY <1>1, <2>1, ExceptSeq
    <2>3. c \in BlockRecs
      BY <1>1, <1>2, <2>2 DEF Sound, BlockRecs
    <2> QED
      BY <1>3, <2>2, <2>3
  <1>5. ASSUME NEW j \in 1..Len(c.ts) PROVE c.ts[j].iref <= Len(c.instrs)
    <2>1. j \in 1..Len(b.ts) /\ c.ts[j] = IF j = i THEN t ELSE b.ts[j]
      BY <1>1, <1>3, <1>4, Parts
    <2> QED
      BY <1>1, <1>3, <2>1 DEF Sound, Made
  <1>6. Sound(c)
    BY <1>1, <1>3, <1>4, <1>5 DEF Sound
  <1>7. SetTop(b, k, t) = c
    BY DEF SetTop, i
  <1> HIDE DEF c
  <1> QED
    BY <1>3, <1>4, <1>6, <1>7 DEF Ready, Failed

(* What a name is bound to is a value of the block, or of the library. *)
InSight(val, b) == val \in ValRefs /\ val.type.iref <= Len(b.instrs)

(* A value known from the start is made by no instruction. *)
KnownFromStart(v) == v \in ValRefs /\ v.type.iref = 0

(* A function of the library is such a value. *)
LEMMA KnownFunction ==
  ASSUME NEW id \in LibraryIds, NEW f \in FunctionNames, NEW types \in Seq(Int)
  PROVE  KnownFromStart(Function(id, f, types))
  <1>1. TypeOf(types, NoIref) \in TypeRecs /\ TypeOf(types, NoIref).iref = 0
    BY DEF TypeOf, TypeRecs, NoIref
  <1>2. Pointer(f) \in Seq(Word)
    <2>1. <<"fn1", f>> \in Word /\ <<"fn2", f>> \in Word
      BY DEF Word
    <2> QED
      BY <2>1 DEF Pointer
  <1>3. id \in Ids
    BY DEF Ids
  <1> HIDE DEF Ids
  <1> QED
    BY <1>1, <1>2, <1>3 DEF Function, ValRef, ValRefs, KnownFromStart

(* build_lib: values of the right form, made by no instruction, ... *)
LEMMA LibraryTyped == Library \in Seq(ValRefs) /\ \A i \in 1..Len(Library) : Library[i].type.iref = 0
  <1>1. KnownFromStart(ValRef("the_answer", "LITERAL", TypeOf(<<I32>>, NoIref), 0, IntWord(42)))
    <2>1. <<"int", 42>> \in Word /\ <<I32>> \in Seq(Int)
      BY DEF Word, I32
    <2>2. IntWord(42) \in Seq(Word)
      BY <2>1 DEF IntWord
    <2>3. TypeOf(<<I32>>, NoIref) \in TypeRecs /\ TypeOf(<<I32>>, NoIref).iref = 0
      BY <2>1 DEF TypeOf, TypeRecs, NoIref
    <2>4. "the_answer" \in Ids
      BY DEF Ids, LibraryIds
    <2> QED
      BY <2>2, <2>3, <2>4 DEF ValRef, ValRefs, KnownFromStart
  <1>2. /\ <<FUNC, I32, I32, END>> \in Seq(Int)
        /\ <<FUNC, I32, TUPLE, I32, I32, END>> \in Seq(Int)
        /\ <<FUNC, F64, TUPLE, F64, F64, END>> \in Seq(Int)
        /\ <<FUNC, ARRAY, I32, -1, END, TUPLE, ARRAY, I32, -1, END, BLOCK, END, END, END>> \in Seq(Int)
    BY DEF FUNC, I32, F64, TUPLE, ARRAY, BLOCK, END
  <1> DEFINE v1 == ValRef("the_answer", "LITERAL", TypeOf(<<I32>>, NoIref), 0, IntWord(42))
             v2 == Function("abs", "pf_abs", <<FUNC, I32, I32, END>>)
             v3 == Function("pow", "pf_pow", <<FUNC, I32, TUPLE, I32, I32, END>>)
             v4 == Function("pow", "pf_dpow", <<FUNC, F64, TUPLE, F64, F64, END>>)
             v5 == Function("div", "pf_div", <<FUNC, I32, TUPLE, I32, I32, END>>)
             v6 == Function("select", "pf_select",
                     <<FUNC, ARRAY, I32, -1, END, TUPLE, ARRAY, I32, -1, END, BLOCK, END, END, END>>)
  <1>3. Library = <<v1, v2, v3, v4, v5, v6>>
    BY DEF Library
  <1>4. KnownFromStart(v2) /\ KnownFromStart(v3) /\ KnownFromStart(v4) /\ KnownFromStart(v5) /\ KnownFromStart(v6)
    <2>1. /\ {"abs", "pow", "div", "select"} \subseteq LibraryIds
          /\ {"pf_abs", "pf_pow", "pf_dpow", "pf_div", "pf_select"} \subseteq FunctionNames
      BY DEF LibraryIds, FunctionNames
    <2> QED
      BY <1>2, <2>1, KnownFunction
  <1> HIDE DEF v2, v3, v4, v5, v6
  <1>5. KnownFromStart(v1)
    BY <1>1
  <1> HIDE DEF v1
  <1> QED
    BY <1>3, <1>4, <1>5 DEF KnownFromStart

(* ... as is the value that stands for none. *)
LEMMA NoValTyped == NoVal \in ValRefs /\ NoVal.type.iref = 0
  BY DEF NoVal, ValRef, ValRefs, TypeOf, TypeRecs, NoIref, Ids

(* All that a block sees is made by its own instructions, or by none. *)
LEMMA VisibleTyped ==
  ASSUME NEW b, Sound(b)
  PROVE  Visible(b) \in Seq(ValRefs) /\ \A i \in 1..Len(Visible(b)) : InSight(Visible(b)[i], b)
  <1> DEFINE own == b.ids
             lib == Library
             n == Len(b.instrs)
  <1>1. own \in Seq(ValRefs) /\ \A i \in 1..Len(own) : own[i].type.iref <= n
    BY Parts DEF Sound
  <1>2. lib \in Seq(ValRefs) /\ \A i \in 1..Len(lib) : lib[i].type.iref = 0
    BY LibraryTyped
  <1>3. n \in Nat
    BY Parts
  <1>4. Visible(b) \in {own \o lib, own}
    BY DEF Visible
  <1> HIDE DEF own, lib, n
  <1>5. own \o lib \in Seq(ValRefs) /\ \A i \in 1..Len(own \o lib) : (own \o lib)[i].type.iref <= n
    <2>1. own \o lib \in Seq(ValRefs) /\ Len(own \o lib) = Len(own) + Len(lib)
      BY <1>1, <1>2, ConcatProperties
    <2>2. ASSUME NEW i \in 1..Len(own \o lib) PROVE (own \o lib)[i].type.iref <= n
      <3>1. (own \o lib)[i] = IF i <= Len(own) THEN own[i] ELSE lib[i - Len(own)]
        BY <1>1, <1>2, ConcatProperties
      <3>2. Len(own) \in Nat /\ Len(lib) \in Nat /\ i \in 1..(Len(own) + Len(lib))
        BY <1>1, <1>2, <2>1
      <3>3. CASE i <= Len(own)
        BY <1>1, <3>1, <3>2, <3>3
      <3>4. CASE i > Len(own)
        <4>1. i - Len(own) \in 1..Len(lib)
          BY <3>2, <3>4
        <4>2. (own \o lib)[i] = lib[i - Len(own)]
          BY <3>1, <3>2, <3>4
        <4>3. lib[i - Len(own)].type.iref = 0
          BY <1>2, <4>1
        <4> QED
          BY <1>3, <4>2, <4>3
      <3> QED
        BY <3>2, <3>3, <3>4
    <2> QED
      BY <2>1, <2>2
  <1>6. Visible(b) \in Seq(ValRefs) /\ \A i \in 1..Len(Visible(b)) : Visible(b)[i].type.iref <= n
    BY <1>1, <1>4, <1>5
  <1> QED
    BY <1>6 DEF InSight, n

(* find_val_ref and find_matching_val_ref give a value that is in sight, or none. *)
LEMMA FirstValTyped ==
  ASSUME NEW b, Sound(b), NEW places \in SUBSET (DOMAIN Visible(b))
  PROVE  InSight(FirstVal(Visible(b), places), b)
  <1>1. CASE places = {}
    BY <1>1, NoValTyped, Parts DEF FirstVal, InSight
  <1>2. CASE places # {}
    <2> DEFINE n == Len(Visible(b))
    <2>1. n \in Nat /\ DOMAIN Visible(b) = 1..n
      BY VisibleTyped
    <2>2. FirstOrNone(places) \in 1..n
      <3> HIDE DEF n
      <3>1. 1 \in Int /\ n \in Int /\ places \in SUBSET (1..n)
        BY <2>1
      <3> QED
        BY <1>2, <3>1, FirstPlace
    <2> QED
      BY <1>2, <2>2, VisibleTyped DEF FirstVal
  <1> QED
    BY <1>1, <1>2

(* The same of the two searches. *)
LEMMA FindTyped ==
  ASSUME NEW b, Sound(b), NEW id, NEW pattern
  PROVE  InSight(FindValRef(b, id), b) /\ InSight(FindMatchingValRef(b, id, pattern), b)
  BY FirstValTyped DEF FindValRef, FindMatchingValRef

-----------------------------------------------------------------------------
(* What a type is, and a type made by another instruction. *)
LEMMA TypeRecParts ==
  ASSUME NEW t \in TypeRecs
  PROVE  /\ t.types \in Seq(Int) /\ t.elm \in Int /\ t.ix \in Int /\ t.off \in Int
         /\ t.closed \in BOOLEAN /\ t.iref \in Nat /\ t.pipe \in BOOLEAN
         /\ \A i \in Nat : [t EXCEPT !.iref = i] \in TypeRecs /\ [t EXCEPT !.iref = i].iref = i
  BY DEF TypeRecs

(* What a value is, ... *)
LEMMA ValRefParts ==
  ASSUME NEW v \in ValRefs
  PROVE  v.type \in TypeRecs /\ v.ix \in Int /\ v.words \in Seq(Word) /\ v.id \in Ids
  BY DEF ValRefs

(* ... and an instruction. *)
LEMMA InstrParts ==
  ASSUME NEW x \in Instrs
  PROVE  x.offset \in Int /\ x.id \in Ids
  BY DEF Instrs

(* What the entries of a block are. *)
LEMMA Entries ==
  ASSUME NEW b, Sound(b)
  PROVE  /\ \A i \in 1..Len(b.ts) : /\ b.ts[i] \in TypeRecs /\ b.ts[i].iref \in Nat
                                    /\ b.ts[i].iref <= Len(b.instrs)
         /\ \A i \in 1..Len(b.instrs) : b.instrs[i] \in Instrs
         /\ \A i \in 1..Len(b.ids) : /\ b.ids[i] \in ValRefs /\ b.ids[i].type.iref \in Nat
                                     /\ b.ids[i].type.iref <= Len(b.instrs)
  <1>1. /\ \A i \in 1..Len(b.ts) : b.ts[i] \in TypeRecs
        /\ \A i \in 1..Len(b.instrs) : b.instrs[i] \in Instrs
        /\ \A i \in 1..Len(b.ids) : b.ids[i] \in ValRefs
    BY Parts
  <1> QED
    BY <1>1, TypeRecParts, ValRefParts DEF Sound

(* What a value in sight gives an entry that is bound to it. *)
LEMMA InSightMade ==
  ASSUME NEW b, NEW val, InSight(val, b)
  PROVE  Made(val.type, b)
  BY ValRefParts DEF InSight, Made

(* An instruction is added and its type pushed: all types stay the block's. *)
LEMMA EmitReady ==
  ASSUME NEW b, Sound(b), NEW ins, ~Failed(b) => ins \in Instrs, NEW n \in Nat,
         NEW t, ~Failed(b) => t \in TypeRecs
  PROVE  Sound(Emit(b, ins, n, t))
  <1>1. CASE Failed(b)
    BY <1>1 DEF Emit
  <1>2. CASE ~Failed(b)
    <2> DEFINE s == SubSeq(b.ts, 1, Len(b.ts) - n)
               u == [t EXCEPT !.iref = Len(b.instrs) + 1]
               c == [b EXCEPT !.instrs = Append(@, ins), !.ts = Append(s, u)]
    <2>1. Emit(b, ins, n, t) = c
      BY <1>2 DEF Emit
    <2>2. u \in TypeRecs /\ u.iref = Len(b.instrs) + 1
      <3> DEFINE l == Len(b.instrs) + 1
      <3>1. l \in Nat /\ t \in TypeRecs
        BY <1>2, Parts
      <3> HIDE DEF l
      <3>2. [t EXCEPT !.iref = l] \in TypeRecs /\ [t EXCEPT !.iref = l].iref = l
        BY <3>1, TypeRecParts
      <3> QED
        BY <3>2 DEF l
    <2>3. s \in Seq(TypeRecs) /\ Len(s) \in Nat /\ \A i \in 1..Len(s) : i \in 1..Len(b.ts) /\ s[i] = b.ts[i]
      <3> DEFINE ts == b.ts
                 l == Len(ts) - n
      <3>1. ts \in Seq(TypeRecs) /\ Len(ts) \in Nat /\ l \in Int /\ l <= Len(ts)
        BY Parts
      <3> HIDE DEF ts, l
      <3>2. SubSeq(ts, 1, l) \in Seq(TypeRecs)
        BY <3>1
      <3>3. Len(SubSeq(ts, 1, l)) = IF 1 <= l THEN l ELSE 0
        BY <3>1
      <3>4. \A i \in 1..Len(SubSeq(ts, 1, l)) : i \in 1..Len(ts) /\ SubSeq(ts, 1, l)[i] = ts[i]
        BY <3>1, <3>3
      <3> QED
        BY <3>1, <3>2, <3>3, <3>4 DEF ts, l
    <2> HIDE DEF s, u
    <2>4. /\ c.ts = Append(s, u) /\ c.instrs = Append(b.instrs, ins) /\ c.ids = b.ids
          /\ c.frame = b.frame /\ c.err = b.err
      BY DEF Sound, BlockRecs
    <2>5. c.ts \in Seq(TypeRecs) /\ c.instrs \in Seq(Instrs) /\ Len(c.instrs) = Len(b.instrs) + 1
      BY <1>2, <2>2, <2>3, <2>4, Parts
    <2>6. c \in BlockRecs
      BY <2>4, <2>5 DEF Sound, BlockRecs
    <2>7. ASSUME NEW i \in 1..Len(c.ts) PROVE c.ts[i].iref <= Len(c.instrs)
      <3>1. CASE i = Len(s) + 1
        <4>1. c.ts[i] = u
          BY <2>2, <2>3, <2>4, <3>1
        <4> QED
          BY <2>2, <2>5, <4>1, Parts
      <3>2. CASE i # Len(s) + 1
        <4>1. Len(c.ts) = Len(s) + 1
          BY <2>2, <2>3, <2>4
        <4>2. i \in 1..Len(s)
          BY <2>3, <3>2, <4>1
        <4>3. c.ts[i] = b.ts[i] /\ i \in 1..Len(b.ts)
          BY <2>2, <2>3, <2>4, <4>2
        <4>4. b.ts[i].iref <= Len(b.instrs) /\ b.ts[i].iref \in Nat
          BY <4>3, Entries
        <4> QED
          BY <2>5, <4>3, <4>4, Parts
      <3> QED
        BY <3>1, <3>2
    <2>8. ASSUME NEW i \in 1..Len(c.ids) PROVE c.ids[i].type.iref <= Len(c.instrs)
      <3>1. b.ids[i].type.iref <= Len(b.instrs) /\ b.ids[i].type.iref \in Nat
        BY <2>4, Entries
      <3> QED
        BY <2>4, <2>5, <3>1, Parts
    <2> HIDE DEF c
    <2> QED
      BY <2>1, <2>6, <2>7, <2>8 DEF Sound
  <1> QED
    BY <1>1, <1>2

(* ... and likewise where a name is bound: its instruction becomes another. *)
LEMMA BindReady ==
  ASSUME NEW b, NEW n, Ready(b, n), NEW k \in Nat, ~Failed(b) => k < Len(b.ts), ~Failed(b),
         NEW val, InSight(val, b)
  PROVE  Ready(Bind(b, k, val), n)
  <1>1. Sound(b) /\ k < Len(b.ts)
    BY DEF Ready
  <1>2. CASE val = NoVal
    <2>1. Bind(b, k, val) = Fail(b, "UNDEFINED_ID")
      BY <1>2 DEF Bind
    <2> QED
      BY <1>1, <2>1, FailReady, FailuresKnown
  <1>3. CASE val # NoVal
    <2> DEFINE i == Top(b, k).iref
               c == [b EXCEPT !.instrs[i] = MakeValInstr(val, @.offset)]
    <2>1. Bind(b, k, val) = SetTop(c, k, val.type)
      BY <1>3 DEF Bind
    <2> DEFINE new == [b.instrs EXCEPT ![i] = MakeValInstr(val, b.instrs[i].offset)]
    <2>2. c = [b EXCEPT !.instrs = new]
      BY <1>1 DEF Sound, BlockRecs
    <2>3. new \in Seq(Instrs) /\ Len(new) = Len(b.instrs)
      <3>1. CASE i \in 1..Len(b.instrs)
        <4>1. b.instrs[i].offset \in Int
          BY <1>1, <3>1, Entries, InstrParts
        <4>2. MakeValInstr(val, b.instrs[i].offset) \in Instrs
          <5> DEFINE o == b.instrs[i].offset
          <5>1. val.type.types \in Seq(Int) /\ val.ix \in Int /\ val.words \in Seq(Word)
            BY ValRefParts, TypeRecParts DEF InSight
          <5>2. <<>> \in Seq(Int) /\ o \in Int /\ NoName \in Ids
            BY <4>1 DEF Ids
          <5> HIDE DEF o
          <5>3. MakeValInstr(val, o) \in Instrs
            BY <5>1, <5>2 DEF MakeValInstr, Instr, Instrs, Ops
          <5> QED
            BY <5>3 DEF o
        <4> QED
          BY <1>1, <3>1, <4>2, Parts, ExceptSeq
      <3>2. CASE i \notin 1..Len(b.instrs)
        <4>1. DOMAIN b.instrs = 1..Len(b.instrs)
          BY <1>1, Parts
        <4>2. new = b.instrs
          BY <1>1, <3>2, <4>1, Parts
        <4> QED
          BY <1>1, <4>2, Parts
      <3> QED
        BY <3>1, <3>2
    <2> HIDE DEF new, c
    <2>4. /\ c \in BlockRecs /\ c.instrs = new /\ c.ts = b.ts /\ c.ids = b.ids /\ c.err = b.err
          /\ c.frame = b.frame
      BY <1>1, <2>2, <2>3 DEF Sound, BlockRecs
    <2>5. Ready(c, n) /\ Made(val.type, c) /\ k < Len(c.ts)
      BY <1>1, <2>3, <2>4 DEF Ready, Sound, Failed, Made, InSight, ValRefs
    <2> QED
      BY <2>1, <2>5, SetTopReady
  <1> QED
    BY <1>2, <1>3

(* A name that is looked up: what an operator looks at stays there, or there is
   an error. *)
LEMMA ResolveReady ==
  ASSUME NEW b, NEW n \in Nat, NEW k \in Nat, k < n, Ready(b, n)
  PROVE  Ready(Resolve(b, k), n)
  <1>1. CASE Failed(b) \/ ~IsName(b, k)
    BY <1>1 DEF Resolve
  <1>2. CASE ~Failed(b) /\ IsName(b, k)
    <2>1. Sound(b) /\ k < Len(b.ts)
      BY <1>2, Parts DEF Ready
    <2>2. InSight(FindValRef(b, NameAt(b, k)), b)
      BY <2>1, FindTyped
    <2> QED
      BY <1>2, <2>1, <2>2, BindReady DEF Resolve
  <1> QED
    BY <1>1, <1>2

(* resolve_rs_id_vals: afterwards there is one entry, or an error. *)
LEMMA ResolveRsReady ==
  ASSUME NEW b, Sound(b)
  PROVE  Ready(ResolveRs(b), 1)
  BY NeedReady, ResolveReady DEF ResolveRs

(* resolve_ls_id_vals: two, or an error. *)
LEMMA ResolveLsReady ==
  ASSUME NEW b, Sound(b)
  PROVE  Ready(ResolveLs(b), 2)
  BY NeedReady, ResolveReady DEF ResolveLs

(* resolve_var_id_vals. *)
LEMMA ResolveVarReady ==
  ASSUME NEW b, Sound(b)
  PROVE  Ready(ResolveVar(b), 2)
  <1> DEFINE c == Need(ResolveRs(b), 2)
  <1>1. Ready(c, 2)
    BY ResolveRsReady, NeedReady DEF Ready
  <1> HIDE DEF c
  <1>2. Ready(LeftName(c), 2)
    <2>1. CASE Failed(c) \/ ~IsName(c, 1)
      BY <1>1, <2>1 DEF LeftName
    <2>2. CASE ~Failed(c) /\ IsName(c, 1)
      <3> DEFINE val == FindValRef(c, NameAt(c, 1))
      <3>1. LeftName(c) = SetTopType(c, val)
        BY <2>2 DEF LeftName
      <3>2. InSight(val, c) /\ Sound(c) /\ 0 < Len(c.ts)
        <4>1. Sound(c) /\ Len(c.ts) >= 2 /\ Len(c.ts) \in Nat
          BY <1>1, <2>2, Parts DEF Ready
        <4> QED
          BY <4>1, FindTyped
      <3> HIDE DEF val
      <3>3. CASE val = NoVal
        BY <3>1, <3>2, <3>3, FailReady, FailuresKnown DEF SetTopType
      <3>4. CASE val # NoVal
        <4>1. Made(val.type, c)
          BY <3>2, InSightMade
        <4>2. LeftName(c) = SetTop(c, 0, val.type)
          BY <3>1, <3>4 DEF SetTopType
        <4> QED
          BY <1>1, <3>2, <4>1, <4>2, SetTopReady
      <3> QED
        BY <3>3, <3>4
    <2> QED
      BY <2>1, <2>2
  <1> QED
    BY <1>2 DEF ResolveVar, c

(* resolve_call_id_vals. *)
LEMMA ResolveCallReady ==
  ASSUME NEW b, Sound(b)
  PROVE  Ready(ResolveCall(b), 2)
  <1> DEFINE c == Need(ResolveRs(b), 2)
  <1>1. Ready(c, 2)
    BY ResolveRsReady, NeedReady DEF Ready
  <1> HIDE DEF c
  <1>2. Ready(Callee(c), 2)
    <2>1. CASE Failed(c) \/ ~IsName(c, 1)
      BY <1>1, <2>1 DEF Callee
    <2>2. CASE ~Failed(c) /\ IsName(c, 1)
      <3> DEFINE id == NameAt(c, 1)
                 pattern == <<FUNC, UNDECIDED>> \o Top(c, 0).types \o <<END>>
      <3>1. Callee(c) = Overload(c, id, pattern)
        BY <2>2 DEF Callee
      <3>2. Sound(c) /\ 1 < Len(c.ts)
        BY <1>1, <2>2, Parts DEF Ready
      <3> HIDE DEF id, pattern
      <3>3. InSight(FindMatchingValRef(c, id, pattern), c)
        BY <3>2, FindTyped
      <3>4. Ready(Bind(c, 1, FindMatchingValRef(c, id, pattern)), 2)
        BY <1>1, <2>2, <3>2, <3>3, BindReady
      <3>5. Ready(Fail(c, "undefined"), 2)
        BY <3>2, FailReady, FailuresKnown
      <3> QED
        BY <3>1, <3>4, <3>5 DEF Overload
    <2> QED
      BY <2>1, <2>2
  <1> QED
    BY <1>2 DEF ResolveCall, c

-----------------------------------------------------------------------------
(* Instructions and types that block::add makes.                             *)

(* An instruction that is made, ... *)
LEMMA InstrTyped ==
  ASSUME NEW op \in Ops, NEW res \in Seq(Int), NEW arg1 \in Seq(Int), NEW arg2 \in Seq(Int)
  PROVE  Instr(op, res, arg1, arg2) \in Instrs
  <1>1. <<>> \in Seq(Word) /\ NoName \in Ids
    BY DEF Ids
  <1> QED
    BY <1>1 DEF Instr, Instrs

(* ... and one that is changed. *)
LEMMA InstrChanged ==
  ASSUME NEW x \in Instrs
  PROVE  /\ \A ix \in Int : [x EXCEPT !.ix = ix] \in Instrs
         /\ \A words \in Seq(Word) : [x EXCEPT !.words = words] \in Instrs
         /\ \A id \in Ids : [x EXCEPT !.id = id] \in Instrs
         /\ \A offset \in Int : [x EXCEPT !.offset = offset] \in Instrs
  BY DEF Instrs

(* A type that no instruction makes yet. *)
LEMMA TypeOfTyped ==
  ASSUME NEW types \in Seq(Int)
  PROVE  TypeOf(types, NoIref) \in TypeRecs /\ TypeOf(types, NoIref).iref = 0
  BY DEF TypeOf, TypeRecs, NoIref

(* build_tuple gives such a type. *)
LEMMA BuildTupleTyped ==
  ASSUME NEW left \in TypeRecs, NEW right \in TypeRecs
  PROVE  BuildTuple(left, right) \in TypeRecs /\ BuildTuple(left, right).iref = 0
  <1> DEFINE elms  == IF IsOpen(left) THEN SubSeq(left.types, 2, Len(left.types) - 1) ELSE left.types
             count == IF IsOpen(left) THEN left.elm + 2 ELSE 2
             types == <<TUPLE>> \o elms \o right.types \o <<END>>
             size  == TypeSize(left.types)
  <1>1. left.types \in Seq(Int) /\ right.types \in Seq(Int) /\ left.elm \in Int
    BY TypeRecParts
  <1>2. Len(left.types) - 1 \in Int /\ count - 1 \in Int /\ size \in Int
    BY <1>1, TypeSizeType
  <1>3. elms \in Seq(Int)
    <2> DEFINE s == left.types
    <2>1. s \in Seq(Int) /\ Len(s) \in Nat
      BY <1>1
    <2> HIDE DEF s
    <2>2. SubSeq(s, 2, Len(s) - 1) \in Seq(Int)
      BY <2>1
    <2> QED
      BY <1>1, <2>2 DEF s
  <1>4. types \in Seq(Int)
    <2>1. <<TUPLE>> \in Seq(Int) /\ <<END>> \in Seq(Int)
      BY DEF TUPLE, END
    <2> HIDE DEF elms
    <2> QED
      BY <1>1, <1>3, <2>1
  <1>5. BuildTuple(left, right) =
          [TypeOf(types, NoIref) EXCEPT !.elm = count - 1, !.ix = Len(left.types) - 1, !.off = size]
    BY DEF BuildTuple
  <1> HIDE DEF elms, count, types, size
  <1>6. TypeOf(types, NoIref) \in TypeRecs /\ TypeOf(types, NoIref).iref = 0
    BY <1>4, TypeOfTyped
  <1> DEFINE t == TypeOf(types, NoIref)
             x == count - 1
             y == Len(left.types) - 1
  <1>7. t \in TypeRecs /\ t.iref = 0 /\ x \in Int /\ y \in Int /\ size \in Int
    BY <1>2, <1>6
  <1>8. BuildTuple(left, right) = [t EXCEPT !.elm = x, !.ix = y, !.off = size]
    BY <1>5
  <1> HIDE DEF t, x, y
  <1>9. [t EXCEPT !.elm = x, !.ix = y, !.off = size] \in TypeRecs
        /\ [t EXCEPT !.elm = x, !.ix = y, !.off = size].iref = 0
    BY <1>7 DEF TypeRecs
  <1> QED
    BY <1>8, <1>9

(* inner_type gives a type. *)
LEMMA InnerTypeTyped ==
  ASSUME NEW types \in Seq(Int), NEW i \in Int
  PROVE  /\ InnerType(types, i) \in Seq(Int)
         /\ i \in 1..Len(types) /\ types[i] # END => Len(InnerType(types, i)) \in Nat \ {0}
         /\ i > Len(types) => InnerType(types, i) = <<INTERNAL>>
  <1> DEFINE n == Len(types)
             e == InnerEnd(types, i, n)
  <1>1. n \in Nat /\ InnerType(types, i) = IF i < 1 \/ e = 0 THEN <<INTERNAL>> ELSE SubSeq(types, i, e)
    BY DEF InnerType, Between
  <1>2. <<INTERNAL>> \in Seq(Int) /\ Len(<<INTERNAL>>) = 1
    BY DEF INTERNAL
  <1>3. \/ i <= n /\ types[i] = END /\ e = i - 1
        \/ ~(i <= n /\ types[i] = END) /\ e \in {0} \cup (i..n)
    BY <1>1, InnerEndIs
  <1> HIDE DEF n, e
  <1>4. e \in Int
    BY <1>1, <1>3
  <1>5. CASE i < 1 \/ e = 0
    <2>1. i <= n \/ i > n
      BY <1>1
    <2> QED
      BY <1>1, <1>2, <1>5
  <1>6. CASE ~(i < 1 \/ e = 0)
    <2>1. e <= n /\ 1 <= i /\ i <= n
      BY <1>1, <1>3, <1>4, <1>6
    <2>2. SubSeq(types, i, e) \in Seq(Int) /\ Len(SubSeq(types, i, e)) = IF i <= e THEN e - i + 1 ELSE 0
      BY <1>4, <2>1 DEF n
    <2>3. types[i] # END => i <= e
      BY <1>1, <1>3, <1>6, <2>1
    <2>4. Len(SubSeq(types, i, e)) \in Nat /\ (types[i] # END => Len(SubSeq(types, i, e)) # 0)
      BY <1>4, <2>2, <2>3
    <2> QED
      BY <1>1, <1>6, <2>1, <2>2, <2>4 DEF n
  <1> QED
    BY <1>5, <1>6

-----------------------------------------------------------------------------
(* The number of an array's elements, place by place from the end. *)
Counts(types, inner) ==
  CHOOSE count : count =
    [i \in 1..(Len(types) + Len(inner)) |->
       IF i > Len(types) THEN UNDEFINED
       ELSE IF types[i] = END THEN 0
       ELSE IF InnerType(types, i) # inner THEN MISMATCH
       ELSE Both(1, count[i + Len(inner)])]

CountAt(types, inner, count, i) ==
  IF i > Len(types) THEN UNDEFINED
  ELSE IF types[i] = END THEN 0
  ELSE IF InnerType(types, i) # inner THEN MISMATCH
  ELSE Both(1, count[i + Len(inner)])

(* A place that another is counted from lies behind it. *)
LEMMA CountBehind ==
  ASSUME NEW types \in Seq(Int), NEW inner \in Seq(Int), NEW i \in 1..(Len(types) + Len(inner)),
         ~(i > Len(types)), types[i] # END, InnerType(types, i) = inner
  PROVE  i + Len(inner) \in 1..(Len(types) + Len(inner)) /\ Len(inner) \in Nat \ {0}
  <1>1. Len(types) \in Nat /\ Len(inner) \in Nat
    OBVIOUS
  <1>2. i \in 1..Len(types)
    BY <1>1
  <1>3. Len(inner) \in Nat \ {0}
    BY <1>2, InnerTypeTyped
  <1> QED
    BY <1>1, <1>2, <1>3

(* What is counted at a place depends on the places behind it only, ... *)
LEMMA CountSame ==
  ASSUME NEW types \in Seq(Int), NEW inner \in Seq(Int), NEW i \in 1..(Len(types) + Len(inner)),
         NEW f, NEW g, \A j \in 1..(Len(types) + Len(inner)) : i < j => f[j] = g[j]
  PROVE  CountAt(types, inner, f, i) = CountAt(types, inner, g, i)
  <1>1. CASE ~(i > Len(types)) /\ types[i] # END /\ InnerType(types, i) = inner
    <2> DEFINE l == Len(inner)
               n == Len(types)
    <2>1. i + l \in 1..(n + l) /\ l \in Nat \ {0}
      BY <1>1, CountBehind
    <2>2. i \in Int /\ i < i + l
      <3>1. n \in Nat
        OBVIOUS
      <3> HIDE DEF n, l
      <3>2. i \in 1..(n + l)
        BY DEF n, l
      <3> QED
        BY <2>1, <3>1, <3>2
    <2>3. f[i + l] = g[i + l]
      <3> HIDE DEF l, n
      <3>1. \A j \in 1..(n + l) : i < j => f[j] = g[j]
        BY DEF l, n
      <3> QED
        BY <2>1, <2>2, <3>1
    <2> QED
      BY <2>3 DEF CountAt
  <1>2. CASE ~(~(i > Len(types)) /\ types[i] # END /\ InnerType(types, i) = inner)
    BY <1>2 DEF CountAt
  <1> QED
    BY <1>1, <1>2

(* ... and is a number if it is one there. *)
LEMMA CountTyped ==
  ASSUME NEW types \in Seq(Int), NEW inner \in Seq(Int), NEW i \in 1..(Len(types) + Len(inner)),
         NEW f, \A j \in 1..(Len(types) + Len(inner)) : i < j => f[j] \in Int
  PROVE  CountAt(types, inner, f, i) \in Int
  <1>1. UNDEFINED \in Int /\ MISMATCH \in Int /\ 0 \in Int
    BY DEF UNDEFINED, MISMATCH
  <1>2. CASE ~(i > Len(types)) /\ types[i] # END /\ InnerType(types, i) = inner
    <2> DEFINE l == Len(inner)
               n == Len(types)
    <2>1. i + l \in 1..(n + l) /\ l \in Nat \ {0}
      BY <1>2, CountBehind
    <2>2. i \in Int /\ i < i + l
      <3>1. n \in Nat
        OBVIOUS
      <3> HIDE DEF n, l
      <3>2. i \in 1..(n + l)
        BY DEF n, l
      <3> QED
        BY <2>1, <3>1, <3>2
    <2>3. f[i + l] \in Int
      <3> HIDE DEF l, n
      <3>1. \A j \in 1..(n + l) : i < j => f[j] \in Int
        BY DEF l, n
      <3> QED
        BY <2>1, <2>2, <3>1
    <2>4. Both(1, f[i + l]) \in Int
      BY <2>3 DEF Both
    <2> QED
      BY <1>1, <2>4 DEF CountAt
  <1>3. CASE ~(~(i > Len(types)) /\ types[i] # END /\ InnerType(types, i) = inner)
    BY <1>1, <1>3 DEF CountAt
  <1> QED
    BY <1>2, <1>3

(* The number is one, or one of those that stand for a failure. *)
LEMMA CountElementsType ==
  ASSUME NEW types \in Seq(Int), NEW inner \in Seq(Int), Len(types) + Len(inner) >= 2
  PROVE  CountElements(types, inner) \in Int
  <1> DEFINE n == Len(types) + Len(inner)
             D == 1..n
             m == [i \in D |-> n - i]
             S == [f \in [D -> Int] |-> [i \in D |-> CountAt(types, inner, f, i)]]
             count == Counts(types, inner)
  <1>1. n \in Nat /\ n >= 2
    OBVIOUS
  <1>2. m \in [D -> Nat] /\ n + 1 \in Nat /\ \A i \in D : m[i] < n + 1
    <2> HIDE DEF n
    <2> QED
      BY <1>1
  <1>3. \A i, j \in D : m[j] < m[i] <=> i < j
    <2> HIDE DEF n
    <2> QED
      BY <1>1
  <1>4. IsRecursion(S, D, Int, m, n + 1)
    <2>1. S \in [[D -> Int] -> [D -> Int]]
      <3>1. ASSUME NEW f \in [D -> Int], NEW i \in D PROVE CountAt(types, inner, f, i) \in Int
        <4>1. \A j \in 1..(Len(types) + Len(inner)) : i < j => f[j] \in Int
          OBVIOUS
        <4> QED
          BY <4>1, CountTyped
      <3> HIDE DEF D
      <3> QED
        BY <3>1
    <2>2. ASSUME NEW f \in [D -> Int], NEW g \in [D -> Int], NEW i \in D,
                 \A j \in D : m[j] < m[i] => f[j] = g[j]
          PROVE  S[f][i] = S[g][i]
      <3>1. \A j \in 1..(Len(types) + Len(inner)) : i < j => f[j] = g[j]
        <4> HIDE DEF m
        <4> QED
          BY <1>3, <2>2
      <3>2. CountAt(types, inner, f, i) = CountAt(types, inner, g, i)
        BY <3>1, CountSame
      <3> QED
        BY <3>2
    <2> HIDE DEF D, S, m, n
    <2>3. \A f, g \in [D -> Int], i \in D : (\A j \in D : m[j] < m[i] => f[j] = g[j]) => S[f][i] = S[g][i]
      BY <2>2
    <2>4. Int # {}
      OBVIOUS
    <2> QED
      BY <1>2, <2>1, <2>3, <2>4, Zenon DEF IsRecursion
  <1>5. count = [i \in D |-> CountAt(types, inner, count, i)]
    <2>1. PICK f \in [D -> Int] : S[f] = f
      <3> HIDE DEF D, S, m, n
      <3> QED
        BY <1>4, RecursiveFunction
    <2>2. f = [i \in D |-> CountAt(types, inner, f, i)]
      BY <2>1
    <2> QED
      BY <2>2 DEF Counts, CountAt
  <1>6. ASSUME NEW i \in D, \A j \in D : m[j] < m[i] => count[j] \in Int
        PROVE  count[i] \in Int
    <2>1. \A j \in 1..(Len(types) + Len(inner)) : i < j => count[j] \in Int
      <3> HIDE DEF m, count
      <3> QED
        BY <1>3, <1>6
    <2>2. CountAt(types, inner, count, i) \in Int
      BY <2>1, CountTyped
    <2>3. count[i] = CountAt(types, inner, count, i)
      <3> HIDE DEF count, D
      <3> QED
        BY <1>5
    <2> QED
      BY <2>2, <2>3
  <1> DEFINE B == n + 1
  <1>7. \A i \in D : count[i] \in Int
    <2>1. m \in [D -> Nat] /\ B \in Nat /\ \A i \in D : m[i] < B
      BY <1>2
    <2> HIDE DEF D, m, n, count, B
    <2>2. \A i \in D : (\A j \in D : m[j] < m[i] => count[j] \in Int) => count[i] \in Int
      BY <1>6
    <2> QED
      BY <2>1, <2>2, ValuesIn
  <1>8. CountElements(types, inner) = count[2]
    BY DEF CountElements, Counts
  <1>9. 2 \in D
    <2> HIDE DEF n
    <2> QED
      BY <1>1
  <1> QED
    BY <1>7, <1>8, <1>9

-----------------------------------------------------------------------------
(* The cases of block::add leave a block whose types have their instructions. *)

(* An entry that an operator finds on the type stack. *)
LEMMA TopFound ==
  ASSUME NEW b, NEW n \in Nat, Ready(b, n), ~Failed(b), NEW k \in Nat, k < n
  PROVE  /\ Sound(b) /\ k < Len(b.ts) /\ Made(Top(b, k), b)
         /\ Top(b, k) \in TypeRecs /\ Top(b, k).types \in Seq(Int) /\ Top(b, k).iref \in Nat
  <1>1. Sound(b) /\ Len(b.ts) >= n /\ Len(b.ts) \in Nat
    BY Parts DEF Ready
  <1>2. k < Len(b.ts)
    BY <1>1
  <1>3. Made(Top(b, k), b)
    BY <1>1, <1>2, TopMade
  <1> QED
    BY <1>1, <1>2, <1>3, TypeRecParts DEF Made

(* A failure leaves such a block. *)
LEMMA FailSound ==
  ASSUME NEW b, Sound(b), NEW err \in Failures
  PROVE  Sound(Fail(b, err))
  BY FailReady DEF Ready

(* NAME. *)
LEMMA NameSound ==
  ASSUME NEW b, Sound(b), NEW t \in Tokens
  PROVE  Sound(AddName(b, t))
  <1> DEFINE ins == [Instr("ID", <<>>, <<>>, <<>>) EXCEPT !.id = t.id]
             u == TypeOf(<<>>, NoIref)
  <1>1. t.id \in Ids
    BY DEF Tokens, Ids
  <1>2. "ID" \in Ops /\ <<>> \in Seq(Int)
    BY DEF Ops
  <1>3. ins \in Instrs
    BY <1>1, <1>2, InstrTyped, InstrChanged
  <1>4. u \in TypeRecs
    BY <1>2, TypeOfTyped
  <1> HIDE DEF ins, u
  <1>5. Sound(Emit(b, ins, 0, u))
    BY <1>3, <1>4, EmitReady
  <1> QED
    BY <1>5 DEF AddName, ins, u

(* NUM. *)
LEMMA NumSound ==
  ASSUME NEW b, Sound(b), NEW t \in Tokens
  PROVE  Sound(AddNum(b, t))
  <1> DEFINE ins == [Instr("LOADI", t.types, <<>>, <<>>) EXCEPT !.words = t.words]
             u == TypeOf(t.types, NoIref)
  <1>1. t.types \in Seq(Int) /\ t.words \in Seq({"int", "dbl1", "dbl2"} \X Int)
    BY DEF Tokens
  <1>2. t.words \in Seq(Word)
    <2>1. \A w \in {"int", "dbl1", "dbl2"} \X Int : w \in Word
      BY DEF Word
    <2> DEFINE s == t.words
    <2>2. s \in Seq({"int", "dbl1", "dbl2"} \X Int)
      BY <1>1
    <2> HIDE DEF s
    <2>3. Len(s) \in Nat /\ s \in [1..Len(s) -> {"int", "dbl1", "dbl2"} \X Int]
      BY <2>2, LenProperties
    <2>4. s \in [1..Len(s) -> Word]
      BY <2>1, <2>3
    <2>5. s \in Seq(Word)
      BY <2>3, <2>4, SeqDef
    <2> QED
      BY <2>5 DEF s
  <1>3. "LOADI" \in Ops /\ <<>> \in Seq(Int)
    BY DEF Ops
  <1>4. ins \in Instrs
    BY <1>1, <1>2, <1>3, InstrTyped, InstrChanged
  <1>5. u \in TypeRecs
    BY <1>1, TypeOfTyped
  <1> HIDE DEF ins, u
  <1>6. Sound(Emit(b, ins, 0, u))
    BY <1>4, <1>5, EmitReady
  <1> QED
    BY <1>6 DEF AddNum, ins, u

(* RPAR. *)
LEMMA CloseTupleSound ==
  ASSUME NEW b, Ready(b, 1)
  PROVE  Sound(CloseTuple(b))
  <1>1. CASE Failed(b)
    BY <1>1 DEF CloseTuple, Ready
  <1>2. CASE ~Failed(b)
    <2> DEFINE t == Top(b, 0)
               u == [t EXCEPT !.closed = TRUE]
    <2>1. Made(t, b) /\ t \in TypeRecs /\ 0 < Len(b.ts)
      BY <1>2, TopFound
    <2> HIDE DEF t
    <2>2. u \in TypeRecs /\ u.iref = t.iref
      BY <2>1 DEF TypeRecs
    <2>3. Made(u, b)
      BY <2>1, <2>2 DEF Made
    <2> HIDE DEF u
    <2>4. Sound(SetTop(b, 0, u))
      BY <2>1, <2>3, SetTopReady DEF Ready
    <2> QED
      BY <1>2, <2>4 DEF CloseTuple, t, u
  <1> QED
    BY <1>1, <1>2

(* RSQUARE, ... *)
LEMMA SetArraySound ==
  ASSUME NEW b, Ready(b, 1), ~Failed(b), NEW t, Made(t, b), NEW inner \in Seq(Int), NEW count \in Int
  PROVE  Sound(SetArray(b, t, inner, count))
  <1>1. Sound(b) /\ 0 < Len(b.ts)
    BY TopFound
  <1> DEFINE types == <<ARRAY>> \o inner \o <<count, END>>
             u == [t EXCEPT !.types = types]
  <1>2. types \in Seq(Int)
    <2>1. <<ARRAY>> \in Seq(Int) /\ <<count, END>> \in Seq(Int)
      BY DEF ARRAY, END
    <2> QED
      BY <2>1
  <1> HIDE DEF types
  <1>3. Made(u, b)
    BY <1>2 DEF Made, TypeRecs
  <1> HIDE DEF u
  <1>4. Sound(SetTop(b, 0, u))
    BY <1>1, <1>3, SetTopReady DEF Ready
  <1>5. /\ Sound(Fail(b, "internal")) /\ Sound(Fail(b, "ARRAY_ELM_TYPE_MISMATCH"))
        /\ Sound(Fail(b, "undefined"))
    BY <1>1, FailSound, FailuresKnown
  <1>6. SetArray(b, t, inner, count) \in
          {Fail(b, "internal"), Fail(b, "ARRAY_ELM_TYPE_MISMATCH"), Fail(b, "undefined"), SetTop(b, 0, u)}
    BY DEF SetArray, u, types
  <1> QED
    BY <1>4, <1>5, <1>6

(* ... with one or more elements. *)
LEMMA ArraySound ==
  ASSUME NEW b, Ready(b, 1)
  PROVE  Sound(ArrayOf(b))
  <1>1. CASE Failed(b)
    BY <1>1 DEF ArrayOf, Ready
  <1>2. CASE ~Failed(b)
    <2> DEFINE t == Top(b, 0)
               inner == InnerType(t.types, 2)
               count == CountElements(t.types, inner)
    <2>1. Sound(b) /\ Made(t, b) /\ t.types \in Seq(Int)
      BY <1>2, TopFound
    <2>2. Sound(Fail(b, "undefined"))
      BY <2>1, FailSound, FailuresKnown
    <2>3. Sound(SetArray(b, t, t.types, 1))
      BY <1>2, <2>1, SetArraySound
    <2>4. t.types # <<>> => Sound(SetArray(b, t, inner, count))
      <3> SUFFICES ASSUME t.types # <<>> PROVE Sound(SetArray(b, t, inner, count))
        OBVIOUS
      <3>1. inner \in Seq(Int)
        BY <2>1, InnerTypeTyped
      <3>2. Len(t.types) \in Nat \ {0}
        BY <2>1
      <3>3. Len(t.types) + Len(inner) >= 2
        <4> DEFINE l == Len(t.types)
        <4>1. l \in Nat \ {0} /\ Len(inner) \in Nat
          BY <3>1, <3>2
        <4>2. l = 1 => inner = <<INTERNAL>>
          <5>1. 2 \in Int /\ (l = 1 => 2 > l)
            <6> HIDE DEF l
            <6> QED
              BY <4>1
          <5>2. 2 > l => InnerType(t.types, 2) = <<INTERNAL>>
            BY <2>1, <5>1, InnerTypeTyped
          <5> QED
            BY <5>1, <5>2
        <4>3. Len(<<INTERNAL>>) = 1
          OBVIOUS
        <4>4. l = 1 => Len(inner) = 1
          BY <4>2, <4>3
        <4> HIDE DEF l, inner
        <4>5. l + Len(inner) >= 2 \/ (l = 1 /\ Len(inner) = 0)
          BY <4>1
        <4> QED
          BY <4>4, <4>5 DEF l
      <3>4. count \in Int
        <4> HIDE DEF inner
        <4> QED
          BY <2>1, <3>1, <3>3, CountElementsType
      <3> HIDE DEF t, inner, count
      <3> QED
        BY <1>2, <2>1, <3>1, <3>4, SetArraySound
    <2> HIDE DEF inner, count
    <2>5. \/ ArrayOf(b) = Fail(b, "undefined")
          \/ ArrayOf(b) = SetArray(b, t, t.types, 1)
          \/ t.types # <<>> /\ ArrayOf(b) = SetArray(b, t, inner, count)
      BY <1>2 DEF ArrayOf, Elements, inner, count
    <2> QED
      BY <2>2, <2>3, <2>4, <2>5
  <1> QED
    BY <1>1, <1>2

(* OP_PLUS, OP_MINUS and OP_STAR. *)
LEMMA ArithmeticSound ==
  ASSUME NEW b, Ready(b, 2), NEW op \in {"ADD", "SUB", "MUL"}
  PROVE  Sound(Arithmetic(b, op))
  <1>1. CASE Failed(b)
    BY <1>1 DEF Arithmetic, Ready
  <1>2. CASE ~Failed(b)
    <2> DEFINE l == Top(b, 1)
               r == Top(b, 0)
               ins == Instr(op, r.types, l.types, r.types)
    <2>1. Sound(b) /\ r \in TypeRecs /\ r.types \in Seq(Int) /\ l.types \in Seq(Int)
      BY <1>2, TopFound
    <2>2. op \in Ops
      BY DEF Ops
    <2>3. ins \in Instrs
      BY <2>1, <2>2, InstrTyped
    <2>4. Arithmetic(b, op) = Emit(b, ins, 2, r)
      BY <1>2 DEF Arithmetic
    <2> HIDE DEF ins, l, r
    <2> QED
      BY <2>1, <2>3, <2>4, EmitReady
  <1> QED
    BY <1>1, <1>2

(* OP_MINUS before its operand. *)
LEMMA NegateSound ==
  ASSUME NEW b, Ready(b, 1)
  PROVE  Sound(Negate(b))
  <1>1. CASE Failed(b)
    BY <1>1 DEF Negate, Ready
  <1>2. CASE ~Failed(b)
    <2> DEFINE r == Top(b, 0)
               ins == Instr("NEG", r.types, r.types, <<>>)
    <2>1. Sound(b) /\ r \in TypeRecs /\ r.types \in Seq(Int)
      BY <1>2, TopFound
    <2>2. "NEG" \in Ops /\ <<>> \in Seq(Int)
      BY DEF Ops
    <2>3. ins \in Instrs
      BY <2>1, <2>2, InstrTyped
    <2>4. Negate(b) = Emit(b, ins, 1, r)
      BY <1>2 DEF Negate
    <2> HIDE DEF ins, r
    <2> QED
      BY <2>1, <2>3, <2>4, EmitReady
  <1> QED
    BY <1>1, <1>2

(* END. *)
LEMMA FinishSound ==
  ASSUME NEW b, Ready(b, 1)
  PROVE  Sound(Finish(b))
  <1>1. CASE Failed(b)
    BY <1>1 DEF Finish, Ready
  <1>2. CASE ~Failed(b)
    <2> DEFINE r == Top(b, 0)
               ins == Instr("END", r.types, <<>>, <<>>)
    <2>1. Sound(b) /\ r \in TypeRecs /\ r.types \in Seq(Int)
      BY <1>2, TopFound
    <2>2. "END" \in Ops /\ <<>> \in Seq(Int)
      BY DEF Ops
    <2>3. ins \in Instrs
      BY <2>1, <2>2, InstrTyped
    <2>4. Finish(b) = Emit(b, ins, 0, r)
      BY <1>2 DEF Finish
    <2> HIDE DEF ins, r
    <2> QED
      BY <2>1, <2>3, <2>4, EmitReady
  <1> QED
    BY <1>1, <1>2

(* What type_size throws, or never ends with. *)
LEMMA SizeErrorKnown ==
  ASSUME NEW size
  PROVE  SizeError(size) \in Failures
  <1>1. SizeError(size) \in {"internal", "hangs", "undefined"}
    BY DEF SizeError
  <1> QED
    BY <1>1, FailuresKnown

(* frame_def::add makes the frame no smaller. *)
LEMMA FrameEndNat ==
  ASSUME NEW frame \in Nat, NEW size \in Nat \ {0}
  PROVE  FrameEnd(frame, size) \in Nat
  <1>1. frame % size \in 0..(size - 1)
    OBVIOUS
  <1> DEFINE r == frame % size
  <1>2. r \in Nat
    BY <1>1
  <1> HIDE DEF r
  <1>3. frame + r + size \in Nat
    BY <1>2
  <1> QED
    BY <1>3 DEF FrameEnd, r

(* OP_COLON_EQ: the name that is defined, ... *)
LEMMA DefineAsSound ==
  ASSUME NEW b, Sound(b), ~Failed(b), NEW res, Made(res, b), NEW size \in Int
  PROVE  Sound(DefineAs(b, res, size))
  <1> DEFINE n == Len(b.instrs)
             val == ValRef(b.instrs[n - 1].id, "STACK", res, b.frame, <<>>)
             ins == [Instr("COPY", res.types, <<>>, res.types) EXCEPT !.ix = b.frame]
             c == [b EXCEPT !.frame = FrameEnd(@, size), !.ids = Append(@, val)]
  <1>1. CASE size <= 0 \/ n < 2
    <2>1. Sound(Fail(b, SizeError(size))) /\ Sound(Fail(b, "undefined")) /\ Sound(Fail(b, "UNDEFINED_ID"))
      BY SizeErrorKnown, FailuresKnown, FailSound
    <2>2. DefineAs(b, res, size) \in {Fail(b, SizeError(size)), Fail(b, "undefined"), Fail(b, "UNDEFINED_ID")}
      BY <1>1 DEF DefineAs
    <2> QED
      BY <2>1, <2>2
  <1>2. CASE size > 0 /\ ~(n < 2)
    <2>1. n \in Nat /\ b.frame \in Nat /\ res \in TypeRecs /\ res.types \in Seq(Int)
      BY Parts, TypeRecParts DEF Made
    <2>2. val \in ValRefs /\ val.type = res
      <3>1. n - 1 \in 1..n
        <4> HIDE DEF n
        <4> QED
          BY <1>2, <2>1
      <3>2. b.instrs[n - 1].id \in Ids
        <4>1. b.instrs[n - 1] \in Instrs
          BY <3>1, Entries
        <4> QED
          BY <4>1, InstrParts
      <3> DEFINE id == b.instrs[n - 1].id
                 ix == b.frame
      <3>3. id \in Ids /\ ix \in Int
        BY <2>1, <3>2
      <3> HIDE DEF id, ix
      <3>4. ValRef(id, "STACK", res, ix, <<>>) \in ValRefs /\ ValRef(id, "STACK", res, ix, <<>>).type = res
        BY <2>1, <3>3 DEF ValRef, ValRefs
      <3> QED
        BY <3>4 DEF id, ix
    <2>3. ins \in Instrs
      <3>1. "COPY" \in Ops /\ <<>> \in Seq(Int) /\ b.frame \in Int
        BY <2>1 DEF Ops
      <3> QED
        BY <2>1, <3>1, InstrTyped, InstrChanged
    <2> HIDE DEF val, ins
    <2>4. Sound(c) /\ ~Failed(c)
      <3> DEFINE ids == Append(b.ids, val)
                 end == FrameEnd(b.frame, size)
      <3>1. end \in Nat
        <4>1. size \in Nat \ {0}
          BY <1>2
        <4> QED
          BY <2>1, <4>1, FrameEndNat
      <3>2. ids \in Seq(ValRefs) /\ Len(ids) = Len(b.ids) + 1 /\ Len(b.ids) \in Nat
        BY <2>2, Parts
      <3>3. ASSUME NEW i \in 1..Len(ids) PROVE ids[i].type.iref <= Len(b.instrs)
        <4>1. CASE i = Len(b.ids) + 1
          <5>1. ids[i] = val
            BY <3>2, <4>1, Parts
          <5> QED
            BY <2>2, <5>1 DEF Made
        <4>2. CASE i # Len(b.ids) + 1
          <5>1. i \in 1..Len(b.ids)
            BY <3>2, <4>2
          <5>2. ids[i] = b.ids[i]
            BY <3>2, <5>1, Parts
          <5> QED
            BY <5>1, <5>2, Entries
        <4> QED
          BY <4>1, <4>2
      <3>4. c = [b EXCEPT !.frame = end, !.ids = ids]
        BY DEF Sound, BlockRecs
      <3> HIDE DEF end, ids, n, c
      <3>5. /\ c \in BlockRecs /\ c.ids = ids /\ c.instrs = b.instrs /\ c.ts = b.ts /\ c.err = b.err
        BY <3>1, <3>2, <3>4 DEF Sound, BlockRecs
      <3> QED
        BY <3>3, <3>5 DEF Sound, Failed
    <2>5. Sound(Emit(c, ins, 1, res))
      <3> HIDE DEF c
      <3> QED
        BY <2>1, <2>3, <2>4, EmitReady
    <2>6. DefineAs(b, res, size) \in {Fail(b, "UNDEFINED_ID"), Emit(c, ins, 1, res)}
      BY <1>2 DEF DefineAs, val, ins
    <2>7. Sound(Fail(b, "UNDEFINED_ID"))
      BY FailuresKnown, FailSound
    <2> HIDE DEF c
    <2> QED
      BY <2>5, <2>6, <2>7
  <1>3. n \in Nat
    BY Parts
  <1> HIDE DEF n
  <1> QED
    BY <1>1, <1>2, <1>3

(* ... and its value. *)
LEMMA DefineSound ==
  ASSUME NEW b, Ready(b, 1)
  PROVE  Sound(Define(b))
  <1>1. CASE Failed(b)
    BY <1>1 DEF Define, Ready
  <1>2. CASE ~Failed(b)
    <2>1. Sound(b) /\ Made(Top(b, 0), b) /\ TypeSize(Top(b, 0).types) \in Int
      BY <1>2, TopFound, TypeSizeType
    <2> QED
      BY <1>2, <2>1, DefineAsSound DEF Define
  <1> QED
    BY <1>1, <1>2

(* OP_COMMA. *)
LEMMA TupleSound ==
  ASSUME NEW b, Ready(b, 2)
  PROVE  Sound(Tuple(b))
  <1>1. CASE Failed(b)
    BY <1>1 DEF Tuple, Ready
  <1>2. CASE ~Failed(b)
    <2> DEFINE t == BuildTuple(Top(b, 1), Top(b, 0))
               ins == Instr("TUPLE", t.types, <<>>, <<>>)
    <2>1. Sound(b) /\ t \in TypeRecs
      BY <1>2, TopFound, BuildTupleTyped
    <2> HIDE DEF t
    <2>2. "TUPLE" \in Ops /\ <<>> \in Seq(Int) /\ t.types \in Seq(Int)
      BY <2>1, TypeRecParts DEF Ops
    <2>3. ins \in Instrs
      BY <2>2, InstrTyped
    <2> HIDE DEF ins
    <2>4. Sound(Emit(b, ins, 2, t)) /\ Sound(Fail(b, SizeError(t.off)))
      BY <2>1, <2>3, EmitReady, FailSound, SizeErrorKnown
    <2>5. PushTuple(b, t) \in {Fail(b, SizeError(t.off)), Emit(b, ins, 2, t)}
      BY DEF PushTuple, ins
    <2>6. Tuple(b) = PushTuple(b, t)
      BY <1>2 DEF Tuple, t
    <2> QED
      BY <2>4, <2>5, <2>6
  <1> QED
    BY <1>1, <1>2

(* The lower part of a type stack. *)
LEMMA LowerPart ==
  ASSUME NEW b, Sound(b), NEW n \in Nat
  PROVE  LET s == SubSeq(b.ts, 1, Len(b.ts) - n)
         IN  /\ s \in Seq(TypeRecs) /\ Len(s) \in Nat
             /\ \A i \in 1..Len(s) : s[i].iref <= Len(b.instrs)
  <1> DEFINE ts == b.ts
             l == Len(ts) - n
             s == SubSeq(ts, 1, l)
  <1>1. ts \in Seq(TypeRecs) /\ Len(ts) \in Nat /\ l \in Int /\ l <= Len(ts)
    BY Parts
  <1> HIDE DEF ts, l
  <1>2. s \in Seq(TypeRecs) /\ Len(s) \in Nat
    BY <1>1
  <1>3. Len(s) = IF 1 <= l THEN l ELSE 0
    BY <1>1
  <1>4. \A i \in 1..Len(s) : i \in 1..Len(ts) /\ s[i] = ts[i]
    BY <1>1, <1>3
  <1> HIDE DEF s
  <1>5. \A i \in 1..Len(s) : s[i].iref <= Len(b.instrs)
    BY <1>4, Entries DEF ts
  <1> QED
    BY <1>2, <1>5 DEF s, l, ts

(* CALL: a piped argument and the one on top become a tuple, ... *)
LEMMA JoinPipedReady ==
  ASSUME NEW b, Ready(b, 2)
  PROVE  Ready(JoinPiped(b), 2)
  <1>1. CASE Failed(b) \/ ~Top(b, 1).pipe
    BY <1>1 DEF JoinPiped
  <1>2. CASE ~Failed(b) /\ Top(b, 1).pipe
    <2> DEFINE t == BuildTuple(Top(b, 1), Top(b, 0))
               s == SubSeq(b.ts, 1, Len(b.ts) - 2)
               ts == Append(s, t)
               c == [b EXCEPT !.ts = Append(SubSeq(@, 1, Len(@) - 2), t)]
    <2>1. Sound(b) /\ t \in TypeRecs /\ t.iref = 0
      BY <1>2, TopFound, BuildTupleTyped
    <2> HIDE DEF t
    <2>2. s \in Seq(TypeRecs) /\ Len(s) \in Nat /\ \A i \in 1..Len(s) : s[i].iref <= Len(b.instrs)
      BY <2>1, LowerPart
    <2>3. c = [b EXCEPT !.ts = ts]
      BY <2>1 DEF Sound, BlockRecs
    <2> HIDE DEF s
    <2>4. ts \in Seq(TypeRecs) /\ Len(ts) = Len(s) + 1
      BY <2>1, <2>2
    <2>5. ASSUME NEW i \in 1..Len(ts) PROVE ts[i].iref <= Len(b.instrs)
      <3>1. CASE i = Len(s) + 1
        BY <2>1, <2>2, <3>1, Parts
      <3>2. CASE i # Len(s) + 1
        <4>1. i \in 1..Len(s)
          BY <2>2, <2>4, <3>2
        <4>2. ts[i] = s[i]
          BY <2>1, <2>2, <4>1
        <4> QED
          BY <2>2, <4>1, <4>2
      <3> QED
        BY <3>1, <3>2
    <2> HIDE DEF ts, c
    <2>6. c \in BlockRecs /\ c.ts = ts /\ c.instrs = b.instrs /\ c.ids = b.ids
      BY <2>1, <2>3, <2>4 DEF Sound, BlockRecs
    <2>7. Sound(c)
      BY <2>1, <2>5, <2>6 DEF Sound
    <2>8. Ready(ResolveLs(c), 2) /\ Ready(Fail(b, SizeError(t.off)), 2)
      BY <2>1, <2>7, ResolveLsReady, FailReady, SizeErrorKnown
    <2>9. JoinPiped(b) \in {Fail(b, SizeError(t.off)), ResolveLs(c)}
      BY <1>2 DEF JoinPiped, JoinAs, t, c
    <2> QED
      BY <2>8, <2>9
  <1> QED
    BY <1>1, <1>2

(* ... and the function's result takes their place. *)
LEMMA CallFuncSound ==
  ASSUME NEW b, Ready(b, 2)
  PROVE  Sound(CallFunc(b))
  <1>1. CASE Failed(b)
    BY <1>1 DEF CallFunc, Ready
  <1>2. CASE ~Failed(b)
    <2> DEFINE f == Top(b, 1).types
               res == InnerType(f, 2)
               arg == InnerType(f, 2 + Len(res))
               ins == Instr("CALL", res, f, arg)
               u == TypeOf(res, NoIref)
    <2>1. Sound(b) /\ f \in Seq(Int)
      BY <1>2, TopFound
    <2> HIDE DEF f
    <2>2. res \in Seq(Int)
      BY <2>1, InnerTypeTyped
    <2> HIDE DEF res
    <2>3. arg \in Seq(Int) /\ "CALL" \in Ops /\ u \in TypeRecs
      <3>1. 2 + Len(res) \in Int
        BY <2>2
      <3> QED
        BY <2>1, <2>2, <3>1, InnerTypeTyped, TypeOfTyped DEF Ops
    <2> HIDE DEF arg, u
    <2>4. ins \in Instrs
      BY <2>1, <2>2, <2>3, InstrTyped
    <2> HIDE DEF ins
    <2>5. /\ Sound(Emit(b, ins, 2, u))
          /\ Sound(Fail(b, "UNDEFINED_ID")) /\ Sound(Fail(b, "CALLING_NO_FUNC"))
      BY <2>1, <2>3, <2>4, EmitReady, FailSound, FailuresKnown
    <2>6. CallFunc(b) \in {Fail(b, "UNDEFINED_ID"), Fail(b, "CALLING_NO_FUNC"), Emit(b, ins, 2, u)}
      BY <1>2 DEF CallFunc, CallAs, f, res, arg, ins, u
    <2> QED
      BY <2>5, <2>6
  <1> QED
    BY <1>1, <1>2

(* OP_DOT. *)
LEMMA MemberSound ==
  ASSUME NEW b, Ready(b, 2)
  PROVE  Sound(Member(b))
  <1>1. CASE Failed(b)
    BY <1>1 DEF Member, Ready
  <1>2. CASE ~Failed(b)
    <2> DEFINE t == Top(b, 1)
               name == Top(b, 0)
               res == InnerType(t.types, t.ix + 1)
               size == TypeSize(t.types)
               x == size - t.off
               ins == [Instr("TUPLE_ELM", res, t.types, name.types) EXCEPT !.ix = x]
               u == TypeOf(res, NoIref)
    <2>1. Sound(b) /\ t \in TypeRecs /\ name \in TypeRecs
      BY <1>2, TopFound
    <2> HIDE DEF t, name
    <2>2. t.types \in Seq(Int) /\ name.types \in Seq(Int) /\ t.ix \in Int /\ t.off \in Int
      BY <2>1, TypeRecParts
    <2>3. res \in Seq(Int) /\ size \in Int /\ x \in Int
      <3>1. t.ix + 1 \in Int /\ TypeSize(t.types) \in Int
        BY <2>2, TypeSizeType
      <3> QED
        BY <2>2, <3>1, InnerTypeTyped
    <2> HIDE DEF res, size, x
    <2>4. ins \in Instrs /\ u \in TypeRecs
      <3>1. "TUPLE_ELM" \in Ops
        BY DEF Ops
      <3> QED
        BY <2>2, <2>3, <3>1, InstrTyped, InstrChanged, TypeOfTyped
    <2> HIDE DEF ins, u
    <2>5. /\ Sound(Emit(b, ins, 2, u)) /\ Sound(Fail(b, "UNKNOWN_MEMBER_NAME"))
          /\ Sound(Fail(b, "internal")) /\ Sound(Fail(b, "undefined"))
          /\ Sound(Fail(b, "MEMBER_ACCESS_ON_NO_TUPLE")) /\ Sound(Fail(b, SizeError(size)))
      BY <2>1, <2>4, EmitReady, FailSound, FailuresKnown, SizeErrorKnown
    <2>6. \/ MemberAs(b, t, name, res, size) = Fail(b, "UNKNOWN_MEMBER_NAME")
          \/ MemberAs(b, t, name, res, size) = Fail(b, "internal")
          \/ MemberAs(b, t, name, res, size) = Fail(b, SizeError(size))
          \/ MemberAs(b, t, name, res, size) = Emit(b, ins, 2, u)
      BY Zenon DEF MemberAs, ins, u, x
    <2>7. \/ Member(b) = Fail(b, "MEMBER_ACCESS_ON_NO_TUPLE")
          \/ Member(b) = Fail(b, "undefined")
          \/ Member(b) = MemberAs(b, t, name, res, size)
      BY <1>2 DEF Member, t, name, res, size
    <2> QED
      BY <2>5, <2>6, <2>7, Zenon
  <1> QED
    BY <1>1, <1>2

(* An instruction is given another offset. *)
LEMMA OffsetSet ==
  ASSUME NEW s \in Seq(Instrs), NEW i \in 1..Len(s), NEW offset \in Int
  PROVE  [s EXCEPT ![i].offset = offset] \in Seq(Instrs)
         /\ Len([s EXCEPT ![i].offset = offset]) = Len(s)
  <1>1. [s[i] EXCEPT !.offset = offset] \in Instrs
    <2>1. s[i] \in Instrs
      OBVIOUS
    <2> QED
      BY <2>1, InstrChanged
  <1> QED
    BY <1>1, ExceptSeq

(* OP_OR_GREATER. *)
LEMMA PipeSound ==
  ASSUME NEW b, Ready(b, 2)
  PROVE  Sound(Pipe(b))
  <1>1. CASE Failed(b)
    BY <1>1 DEF Pipe, Ready
  <1>2. CASE ~Failed(b)
    <2> DEFINE arg == Top(b, 1)
               func == Top(b, 0)
               size == TypeSize(arg.types)
               below == -(size + Room)
               i == arg.iref
               j == func.iref
               p == [arg EXCEPT !.pipe = TRUE]
               s == SubSeq(b.ts, 1, Len(b.ts) - 2)
               instrs == [[b.instrs EXCEPT ![i].offset = Room] EXCEPT ![j].offset = below]
               ts == s \o <<func, p>>
               c == [b EXCEPT !.instrs[i].offset = Room, !.instrs[j].offset = below,
                              !.ts = SubSeq(@, 1, Len(@) - 2) \o <<func, p>>]
    <2>1. Sound(b) /\ Made(arg, b) /\ Made(func, b) /\ arg.types \in Seq(Int)
      BY <1>2, TopFound
    <2> HIDE DEF arg, func
    <2>2. size \in Int /\ i \in Nat /\ j \in Nat /\ i <= Len(b.instrs) /\ j <= Len(b.instrs)
      BY <2>1, TypeSizeType, TypeRecParts DEF Made
    <2>3. below \in Int /\ Room \in Int
      <3> HIDE DEF size
      <3> QED
        BY <2>2 DEF Room
    <2>4. p \in TypeRecs /\ p.iref = i /\ func \in TypeRecs
      BY <2>1 DEF Made, TypeRecs
    <2>5. Sound(Fail(b, "undefined")) /\ Sound(Fail(b, SizeError(size)))
      BY <2>1, FailSound, FailuresKnown, SizeErrorKnown
    <2>6. ASSUME i # NoIref, j # NoIref PROVE Sound(c)
      <3>1. b.instrs \in Seq(Instrs) /\ i \in 1..Len(b.instrs) /\ j \in 1..Len(b.instrs)
        BY <2>1, <2>2, <2>6, Parts DEF NoIref
      <3> HIDE DEF below, i, j
      <3>2. instrs \in Seq(Instrs) /\ Len(instrs) = Len(b.instrs)
        <4> DEFINE one == [b.instrs EXCEPT ![i].offset = Room]
        <4>1. one \in Seq(Instrs) /\ Len(one) = Len(b.instrs)
          BY <2>3, <3>1, OffsetSet
        <4> HIDE DEF one
        <4>2. j \in 1..Len(one)
          BY <3>1, <4>1
        <4>3. [one EXCEPT ![j].offset = below] \in Seq(Instrs) /\ Len([one EXCEPT ![j].offset = below]) = Len(one)
          BY <2>3, <4>1, <4>2, OffsetSet
        <4> QED
          BY <4>1, <4>3 DEF one
      <3> HIDE DEF p
      <3>3. s \in Seq(TypeRecs) /\ Len(s) \in Nat /\ \A k \in 1..Len(s) : s[k].iref <= Len(b.instrs)
        BY <2>1, LowerPart
      <3>4. c = [b EXCEPT !.instrs = instrs, !.ts = ts]
        BY <2>1 DEF Sound, BlockRecs
      <3> HIDE DEF s, instrs, c
      <3>5. ts \in Seq(TypeRecs) /\ \A k \in 1..Len(ts) : ts[k].iref <= Len(b.instrs)
        <4> DEFINE two == <<func, p>>
        <4>1. two \in Seq(TypeRecs) /\ Len(two) = 2 /\ two[1] = func /\ two[2] = p
          BY <2>4
        <4> HIDE DEF two
        <4>2. s \o two \in Seq(TypeRecs) /\ Len(s \o two) = Len(s) + 2
          BY <3>3, <4>1, ConcatProperties
        <4>3. ASSUME NEW k \in 1..Len(s \o two) PROVE (s \o two)[k].iref <= Len(b.instrs)
          <5>1. (s \o two)[k] = IF k <= Len(s) THEN s[k] ELSE two[k - Len(s)]
            BY <3>3, <4>1, ConcatProperties
          <5>2. k \in 1..Len(s) \/ k = Len(s) + 1 \/ k = Len(s) + 2
            BY <3>3, <4>2
          <5>3. CASE k \in 1..Len(s)
            BY <3>3, <5>1, <5>3
          <5>4. CASE k = Len(s) + 1
            <6>1. (s \o two)[k] = func
              BY <3>3, <4>1, <5>1, <5>4
            <6> QED
              BY <2>2, <6>1 DEF j
          <5>5. CASE k = Len(s) + 2
            <6>1. (s \o two)[k] = p
              BY <3>3, <4>1, <5>1, <5>5
            <6> QED
              BY <2>2, <2>4, <6>1
          <5> QED
            BY <5>2, <5>3, <5>4, <5>5
        <4> QED
          BY <4>2, <4>3 DEF two
      <3> HIDE DEF ts
      <3>6. c \in BlockRecs /\ c.ts = ts /\ c.instrs = instrs /\ c.ids = b.ids
        BY <2>1, <3>2, <3>4, <3>5 DEF Sound, BlockRecs
      <3> QED
        BY <2>1, <3>2, <3>5, <3>6 DEF Sound
    <2>7. \/ Pipe(b) = Fail(b, "undefined")
          \/ Pipe(b) = Fail(b, SizeError(size))
          \/ i # NoIref /\ j # NoIref /\ Pipe(b) = c
      <3>1. Pipe(b) = PipeAs(b, arg, func, size)
        BY <1>2 DEF Pipe, arg, func
      <3> HIDE DEF size
      <3> QED
        BY <3>1 DEF PipeAs
    <2> HIDE DEF c, size, i, j
    <2> QED
      BY <2>5, <2>6, <2>7
  <1> QED
    BY <1>1, <1>2

-----------------------------------------------------------------------------
(* The inductive invariant: what TypeOK says of the blocks comes from Sound,
   and a program that is still read goes on until its END. *)
SoundBlocks(bs) == bs \in Seq(BlockRecs) /\ Len(bs) >= 1 /\ \A i \in 1..Len(bs) : Sound(bs[i]) /\ ~Failed(bs[i])

TypeInv ==
  /\ program \in Programs
  /\ at \in 0..Len(program.post)
  /\ status = "analyzing" => at < Len(program.post)
  /\ SoundBlocks(blocks)
  /\ pc \in 0..Len(Code)
  /\ status \in {"analyzing", "evaluating"} => pc = 0
  /\ status \in Failures \cup {"analyzing", "evaluating", "running", "done"}

(* The main block comes first. *)
LEMMA MainBlock ==
  ASSUME NEW bs, SoundBlocks(bs)
  PROVE  /\ Len(bs) \in Nat \ {0} /\ Sound(bs[1]) /\ Sound(bs[Len(bs)]) /\ ~Failed(bs[Len(bs)])
         /\ Len(bs[1].instrs) \in Nat
  <1>1. bs \in Seq(BlockRecs) /\ Len(bs) >= 1
    BY DEF SoundBlocks
  <1> DEFINE n == Len(bs)
  <1>2. n \in Nat /\ n >= 1
    BY <1>1
  <1>3. 1 \in 1..n /\ n \in 1..n
    <2> HIDE DEF n
    <2> QED
      BY <1>2
  <1>4. Sound(bs[1])
    BY <1>3 DEF SoundBlocks
  <1> QED
    BY <1>2, <1>3, <1>4, Parts DEF SoundBlocks

(* The innermost block is replaced, added or dropped. *)
LEMMA BlocksChanged ==
  ASSUME NEW bs, SoundBlocks(bs), NEW b, Sound(b), ~Failed(b)
  PROVE  /\ SoundBlocks([bs EXCEPT ![Len(bs)] = b])
         /\ SoundBlocks(Append(bs, b))
         /\ SoundBlocks(<<b>>)
         /\ Len(bs) # 1 => SoundBlocks(SubSeq(bs, 1, Len(bs) - 1))
  <1> DEFINE n == Len(bs)
  <1>1. bs \in Seq(BlockRecs) /\ n \in Nat /\ n >= 1
    BY DEF SoundBlocks
  <1>2. b \in BlockRecs
    BY DEF Sound
  <1>3. \A i \in 1..n : Sound(bs[i]) /\ ~Failed(bs[i])
    BY DEF SoundBlocks
  <1>4. SoundBlocks([bs EXCEPT ![n] = b])
    <2> DEFINE cs == [bs EXCEPT ![n] = b]
    <2>1. n \in 1..n
      <3> HIDE DEF n
      <3> QED
        BY <1>1
    <2>2. cs \in Seq(BlockRecs) /\ Len(cs) = n
      BY <1>1, <1>2, <2>1, ExceptSeq
    <2>3. \A i \in 1..n : cs[i] = IF i = n THEN b ELSE bs[i]
      BY <1>1
    <2> HIDE DEF cs
    <2>4. \A i \in 1..Len(cs) : Sound(cs[i]) /\ ~Failed(cs[i])
      BY <1>3, <2>2, <2>3
    <2>5. SoundBlocks(cs)
      BY <1>1, <2>2, <2>4 DEF SoundBlocks
    <2> QED
      BY <2>5 DEF cs
  <1>5. SoundBlocks(Append(bs, b))
    <2> DEFINE cs == Append(bs, b)
    <2>1. cs \in Seq(BlockRecs) /\ Len(cs) = n + 1 /\ cs[n + 1] = b /\ \A i \in 1..n : cs[i] = bs[i]
      BY <1>1, <1>2
    <2> HIDE DEF cs
    <2>2. ASSUME NEW i \in 1..Len(cs) PROVE Sound(cs[i]) /\ ~Failed(cs[i])
      <3>1. i \in 1..n \/ i = n + 1
        BY <1>1, <2>1
      <3> QED
        BY <1>3, <2>1, <3>1
    <2>3. Len(cs) >= 1
      BY <1>1, <2>1
    <2> QED
      BY <2>1, <2>2, <2>3 DEF SoundBlocks, cs
  <1>6. SoundBlocks(<<b>>)
    BY <1>2 DEF SoundBlocks
  <1>7. n # 1 => SoundBlocks(SubSeq(bs, 1, n - 1))
    <2> SUFFICES ASSUME n # 1 PROVE SoundBlocks(SubSeq(bs, 1, n - 1))
      OBVIOUS
    <2> DEFINE m == n - 1
               cs == SubSeq(bs, 1, m)
    <2>1. m \in Nat /\ m >= 1 /\ m <= n
      <3> HIDE DEF n
      <3> QED
        BY <1>1
    <2> HIDE DEF m
    <2>2. cs \in Seq(BlockRecs) /\ Len(cs) = m /\ \A i \in 1..m : cs[i] = bs[i]
      BY <1>1, <2>1
    <2>3. \A i \in 1..m : i \in 1..n
      BY <1>1, <2>1
    <2> HIDE DEF cs
    <2> QED
      BY <1>3, <2>1, <2>2, <2>3 DEF SoundBlocks, cs, m
  <1> QED
    BY <1>4, <1>5, <1>6, <1>7

(* An empty block. *)
LEMMA EmptyBlockSound == Sound(EmptyBlock) /\ ~Failed(EmptyBlock)
  <1>1. EmptyBlock \in BlockRecs
    BY DEF EmptyBlock, BlockRecs
  <1> QED
    BY <1>1 DEF Sound, EmptyBlock, Failed

(* The token that is read, and whether more follow. *)
LEMMA InputTyped ==
  ASSUME TypeInv, status = "analyzing"
  PROVE  /\ Input \in Tokens /\ Sound(Block) /\ ~Failed(Block)
         /\ at + 1 \in 0..Len(program.post)
         /\ Input.type # "END" => at + 1 < Len(program.post)
  <1> DEFINE n == Len(program.post)
  <1>1. program.post \in Seq(Tokens) /\ program.post[n].type = "END"
    BY ProgramsAssumption DEF TypeInv
  <1>2. n \in Nat /\ at \in 0..n /\ at < n
    BY <1>1 DEF TypeInv
  <1>3. at + 1 \in 1..n /\ at + 1 \in 0..n /\ (at + 1 # n => at + 1 < n)
    <2> HIDE DEF n
    <2> QED
      BY <1>2
  <1>4. Input \in Tokens /\ (Input.type # "END" => at + 1 # n)
    BY <1>1, <1>3 DEF Input
  <1> QED
    BY <1>3, <1>4, MainBlock DEF TypeInv, Block

(* What becomes of a token that is not the END. *)
LEMMA IntoTyped ==
  ASSUME TypeInv, status = "analyzing", Input.type # "END", NEW b, Sound(b), Into(b),
         UNCHANGED <<mem, pc, result>>
  PROVE  TypeInv'
  <1>1. at + 1 \in 0..Len(program.post) /\ at + 1 < Len(program.post)
    BY InputTyped
  <1>2. at' = at + 1 /\ program' = program /\ pc' = 0
    BY DEF Into, TypeInv
  <1>3. SoundBlocks(blocks)'
    <2>1. CASE Failed(b)
      BY <2>1 DEF Into, TypeInv
    <2>2. CASE ~Failed(b)
      <3>1. blocks' = [blocks EXCEPT ![Len(blocks)] = b]
        BY <2>2 DEF Into
      <3> QED
        BY <2>2, <3>1, BlocksChanged DEF TypeInv
    <2> QED
      BY <2>1, <2>2
  <1>4. status' \in Failures \cup {"analyzing"}
    <2>1. CASE Failed(b)
      <3>1. status' = b.err /\ b.err # NoError
        BY <2>1 DEF Into, Failed
      <3>2. b.err \in {NoError} \cup Failures
        BY Parts
      <3> QED
        BY <3>1, <3>2
    <2>2. CASE ~Failed(b)
      BY <2>2 DEF Into
    <2> QED
      BY <2>1, <2>2
  <1>5. pc' \in 0..Len(Code')
    <2>1. Len(Code') \in Nat
      BY <1>3, MainBlock DEF Code
    <2> QED
      BY <1>2, <2>1
  <1> HIDE DEF Failures, Failed
  <1> QED
    BY <1>1, <1>2, <1>3, <1>4, <1>5, Zenon DEF TypeInv

(* An operator's token is no END. *)
LEMMA ReadingOn ==
  ASSUME NEW types \in SUBSET (Implemented \ {"END"}), Reading(types)
  PROVE  status = "analyzing" /\ Input.type # "END"
  BY DEF Reading, Input

(* A step of the analyzer. *)
LEMMA AnalyzeTyped ==
  ASSUME TypeInv, Analyze, UNCHANGED <<mem, pc, result>>
  PROVE  TypeInv'
  <1> DEFINE Readable == Implemented \ {"END"}
  <1>1. status = "analyzing"
    BY DEF Analyze, Name, Num, OpenGroup, ClosePar, CloseArray, OpenBlock, CloseBlock, Plus, Minus, Star,
           Assign, Comma, Call, Dot, PipeTo, Other, EndOfProgram, Reading
  <1>2. Input \in Tokens /\ Sound(Block) /\ ~Failed(Block) /\ at + 1 \in 0..Len(program.post)
    BY <1>1, InputTyped
  <1>3. Ready(ResolveRs(Block), 1) /\ Ready(ResolveLs(Block), 2) /\ Ready(ResolveVar(Block), 2)
        /\ Ready(ResolveCall(Block), 2) /\ Ready(Need(Block, 1), 1)
    BY <1>2, ResolveRsReady, ResolveLsReady, ResolveVarReady, ResolveCallReady, NeedReady
  <1>4. CASE Name
    <2>1. Reading({"NAME"}) /\ Into(AddName(Block, Input)) /\ {"NAME"} \in SUBSET Readable
      BY <1>4 DEF Name, Implemented
    <2> QED
      BY <1>2, <2>1, NameSound, ReadingOn, IntoTyped
  <1>5. CASE Num
    <2>1. Reading({"NUM"}) /\ Into(AddNum(Block, Input)) /\ {"NUM"} \in SUBSET Readable
      BY <1>5 DEF Num, Implemented
    <2> QED
      BY <1>2, <2>1, NumSound, ReadingOn, IntoTyped
  <1>6. CASE OpenGroup
    <2>1. Reading({"LPAR", "LSQUARE"}) /\ Into(Block) /\ {"LPAR", "LSQUARE"} \in SUBSET Readable
      BY <1>6 DEF OpenGroup, Implemented
    <2> QED
      BY <1>2, <2>1, ReadingOn, IntoTyped
  <1>7. CASE ClosePar
    <2>1. Reading({"RPAR"}) /\ Into(CloseTuple(Need(Block, 1))) /\ {"RPAR"} \in SUBSET Readable
      BY <1>7 DEF ClosePar, Implemented
    <2> QED
      BY <1>3, <2>1, CloseTupleSound, ReadingOn, IntoTyped
  <1>8. CASE CloseArray
    <2>1. Reading({"RSQUARE"}) /\ Into(ArrayOf(Need(Block, 1))) /\ {"RSQUARE"} \in SUBSET Readable
      BY <1>8 DEF CloseArray, Implemented
    <2> QED
      BY <1>3, <2>1, ArraySound, ReadingOn, IntoTyped
  <1>9. CASE OpenBlock \/ CloseBlock
    <2>1. Reading({"LCURLY"}) \/ Reading({"RCURLY"})
      BY <1>9 DEF OpenBlock, CloseBlock
    <2>2. at + 1 < Len(program.post)
      <3>1. {"LCURLY"} \in SUBSET Readable /\ {"RCURLY"} \in SUBSET Readable
        BY DEF Implemented
      <3>2. Input.type # "END"
        BY <2>1, <3>1, ReadingOn
      <3> QED
        BY <1>1, <3>2, InputTyped
    <2>3. at' = at + 1 /\ program' = program /\ status' = status /\ pc' = 0
      BY <1>1, <1>9 DEF OpenBlock, CloseBlock, TypeInv
    <2>4. SoundBlocks(blocks)'
      <3>1. SoundBlocks(blocks)
        BY DEF TypeInv
      <3>2. /\ SoundBlocks(Append(blocks, EmptyBlock))
            /\ (Len(blocks) # 1 => SoundBlocks(SubSeq(blocks, 1, Len(blocks) - 1)))
        BY <3>1, EmptyBlockSound, BlocksChanged
      <3>3. blocks' \in {Append(blocks, EmptyBlock), blocks}
            \/ (Len(blocks) # 1 /\ blocks' = SubSeq(blocks, 1, Len(blocks) - 1))
        BY <1>9 DEF OpenBlock, CloseBlock
      <3> QED
        BY <3>1, <3>2, <3>3
    <2>5. pc' \in 0..Len(Code')
      <3>1. Len(Code') \in Nat
        BY <2>4, MainBlock DEF Code
      <3> QED
        BY <2>3, <3>1
    <2> QED
      BY <1>1, <1>2, <2>2, <2>3, <2>4, <2>5, Zenon DEF TypeInv
  <1>10. CASE Plus
    <2>1. Reading({"OP_PLUS"}) /\ Into(Arithmetic(ResolveVar(Block), "ADD")) /\ {"OP_PLUS"} \in SUBSET Readable
      BY <1>10 DEF Plus, Implemented
    <2> QED
      BY <1>3, <2>1, ArithmeticSound, ReadingOn, IntoTyped
  <1>11. CASE Minus
    <2>1. Reading({"OP_MINUS"}) /\ {"OP_MINUS"} \in SUBSET Readable
          /\ (Into(Negate(ResolveRs(Block))) \/ Into(Arithmetic(ResolveVar(Block), "SUB")))
      BY <1>11 DEF Minus, Implemented
    <2>2. Sound(Negate(ResolveRs(Block))) /\ Sound(Arithmetic(ResolveVar(Block), "SUB"))
      BY <1>3, NegateSound, ArithmeticSound
    <2> QED
      BY <2>1, <2>2, ReadingOn, IntoTyped
  <1>12. CASE Star
    <2>1. Reading({"OP_STAR"}) /\ Into(Arithmetic(ResolveVar(Block), "MUL")) /\ {"OP_STAR"} \in SUBSET Readable
      BY <1>12 DEF Star, Implemented
    <2> QED
      BY <1>3, <2>1, ArithmeticSound, ReadingOn, IntoTyped
  <1>13. CASE Assign
    <2>1. Reading({"OP_COLON_EQ"}) /\ Into(Define(ResolveRs(Block))) /\ {"OP_COLON_EQ"} \in SUBSET Readable
      BY <1>13 DEF Assign, Implemented
    <2> QED
      BY <1>3, <2>1, DefineSound, ReadingOn, IntoTyped
  <1>14. CASE Comma
    <2>1. Reading({"OP_COMMA"}) /\ Into(Tuple(ResolveVar(Block))) /\ {"OP_COMMA"} \in SUBSET Readable
      BY <1>14 DEF Comma, Implemented
    <2> QED
      BY <1>3, <2>1, TupleSound, ReadingOn, IntoTyped
  <1>15. CASE Call
    <2>1. Reading({"CALL"}) /\ Into(CallFunc(JoinPiped(ResolveCall(Block)))) /\ {"CALL"} \in SUBSET Readable
      BY <1>15 DEF Call, Implemented
    <2> QED
      BY <1>3, <2>1, JoinPipedReady, CallFuncSound, ReadingOn, IntoTyped
  <1>16. CASE Dot
    <2>1. Reading({"OP_DOT"}) /\ Into(Member(ResolveLs(Block))) /\ {"OP_DOT"} \in SUBSET Readable
      BY <1>16 DEF Dot, Implemented
    <2> QED
      BY <1>3, <2>1, MemberSound, ReadingOn, IntoTyped
  <1>17. CASE PipeTo
    <2>1. Reading({"OP_OR_GREATER"}) /\ Into(Pipe(ResolveLs(Block))) /\ {"OP_OR_GREATER"} \in SUBSET Readable
      BY <1>17 DEF PipeTo, Implemented
    <2> QED
      BY <1>3, <2>1, PipeSound, ReadingOn, IntoTyped
  <1>18. CASE Other
    <2>1. Input.type # "END"
      BY <1>18 DEF Other, Implemented
    <2>2. \E err \in Failures : Into(Fail(Block, err))
      BY <1>18, FailuresKnown, Zenon DEF Other
    <2>3. PICK err \in Failures : Into(Fail(Block, err))
      BY <2>2
    <2> QED
      BY <1>1, <1>2, <2>1, <2>3, FailSound, IntoTyped
  <1>19. CASE EndOfProgram
    <2> DEFINE b == Finish(ResolveRs(Block))
    <2>1. Sound(b)
      BY <1>3, FinishSound
    <2>2. EndWith(b) /\ at' = at + 1 /\ program' = program /\ pc' = 0
      BY <1>1, <1>19 DEF EndOfProgram, TypeInv
    <2> HIDE DEF b
    <2>3. SoundBlocks(blocks)'
      <3>1. SoundBlocks(blocks)
        BY DEF TypeInv
      <3>2. CASE Failed(b)
        BY <2>2, <3>1, <3>2 DEF EndWith
      <3>3. CASE ~Failed(b)
        <4>1. SoundBlocks(<<b>>) /\ (Len(blocks) # 1 => SoundBlocks(SubSeq(blocks, 1, Len(blocks) - 1)))
          BY <2>1, <3>1, <3>3, BlocksChanged
        <4> QED
          BY <2>2, <3>3, <4>1 DEF EndWith
      <3> QED
        BY <3>2, <3>3
    <2>4. status' \in Failures \cup {"evaluating"}
      <3>1. CASE Failed(b)
        <4>1. status' = b.err /\ b.err # NoError /\ b.err \in {NoError} \cup Failures
          BY <2>1, <2>2, <3>1, Parts DEF EndWith, Failed
        <4> QED
          BY <4>1
      <3>2. CASE ~Failed(b)
        BY <2>2, <3>2 DEF EndWith
      <3> QED
        BY <3>1, <3>2
    <2>5. pc' \in 0..Len(Code')
      <3>1. Len(Code') \in Nat
        BY <2>3, MainBlock DEF Code
      <3> QED
        BY <2>2, <3>1
    <2>6. status' # "analyzing"
      <3>1. "analyzing" \notin Failures
        BY Zenon DEF Failures, Errors
      <3> HIDE DEF Failures
      <3> QED
        BY <2>4, <3>1
    <2> HIDE DEF Failures
    <2> QED
      BY <1>2, <2>2, <2>3, <2>4, <2>5, <2>6, Zenon DEF TypeInv
  <1> QED
    BY <1>4, <1>5, <1>6, <1>7, <1>8, <1>9, <1>10, <1>11, <1>12, <1>13, <1>14, <1>15, <1>16, <1>17, <1>18,
       <1>19 DEF Analyze

(* A step of the evaluator leaves the blocks as they are. *)
LEMMA EvaluateTyped ==
  ASSUME TypeInv, Evaluate
  PROVE  TypeInv'
  <1>1. program' = program /\ at' = at /\ blocks' = blocks
    BY DEF Evaluate, EnterFrame, LoadI, Load, Nothing, Copy, Combine, Neg, CallFunction, Unknown, Return, Memory
  <1>2. pc \in 0..Len(Code) /\ Len(Code) \in Nat /\ Code' = Code
    BY <1>1, MainBlock DEF TypeInv, Code
  <1>3. {"internal", "undefined"} \subseteq Failures
    BY FailuresKnown
  <1>4. status' \in Failures \cup {"running", "done"} /\ pc' \in 0..Len(Code)
    <2>1. CASE EnterFrame
      BY <1>2, <2>1 DEF EnterFrame
    <2>2. ASSUME NEW s, status = "running", pc < Len(Code), Memory(s)
          PROVE  status' \in Failures \cup {"running", "done"} /\ pc' \in 0..Len(Code)
      <3>1. status' \in {"undefined", "running"} /\ pc' = pc + 1
        BY <2>2 DEF Memory
      <3>2. pc + 1 \in 0..Len(Code)
        BY <1>2, <2>2
      <3> QED
        BY <1>3, <3>1, <3>2
    <2>3. CASE LoadI \/ Load \/ Nothing \/ Copy \/ Combine \/ Neg \/ CallFunction
      <3>1. status = "running" /\ pc < Len(Code) /\ \E s : Memory(s)
        BY <2>3 DEF LoadI, Load, Nothing, Copy, Combine, Neg, CallFunction, Running
      <3> QED
        BY <2>2, <3>1
    <2>4. CASE Unknown
      <3>1. status' = "internal" /\ pc' = pc
        BY <2>4 DEF Unknown
      <3> QED
        BY <1>2, <1>3, <3>1
    <2>5. CASE Return
      <3> DEFINE size == TypeSize(ResultTypes)
      <3>1. pc' = pc /\ ReturnWith(ResultTypes, size)
        BY <2>5 DEF Return
      <3> HIDE DEF size
      <3>2. status' \in {SizeError(size), "undefined", "done"}
        BY <3>1 DEF ReturnWith
      <3> QED
        BY <1>2, <1>3, <3>1, <3>2, SizeErrorKnown
    <2> QED
      BY <2>1, <2>3, <2>4, <2>5 DEF Evaluate
  <1>5. status' \notin {"analyzing", "evaluating"}
    <2>1. {"analyzing", "evaluating"} \cap Failures = {}
      BY Zenon DEF Failures, Errors
    <2> HIDE DEF Failures
    <2> QED
      BY <1>4, <2>1
  <1> HIDE DEF Failures
  <1> QED
    BY <1>1, <1>2, <1>4, <1>5, Zenon DEF TypeInv

(* TypeOK in every behaviour: no type on a type stack has an instruction that
   the block does not have, whatever the operators resolve, take and push, an
   error leaves the blocks as they were, and no more instructions are run than
   the main block has. *)
THEOREM TypeCorrect == Spec => []TypeOK
  <1>1. Init => TypeInv
    <2> SUFFICES ASSUME Init PROVE TypeInv
      OBVIOUS
    <2>1. program \in Programs /\ at = 0 /\ blocks = <<EmptyBlock>> /\ status = "analyzing" /\ pc = 0
      BY DEF Init, AnalyzerInit
    <2>2. at \in 0..Len(program.post) /\ at < Len(program.post)
      <3>1. program.post \in Seq(Tokens) /\ program.post # <<>>
        BY <2>1, ProgramsAssumption
      <3>2. Len(program.post) \in Nat \ {0}
        BY <3>1
      <3> QED
        BY <2>1, <3>2
    <2>3. SoundBlocks(blocks)
      <3>1. EmptyBlock \in BlockRecs
        BY EmptyBlockSound DEF Sound
      <3> QED
        BY <2>1, <3>1, EmptyBlockSound DEF SoundBlocks
    <2>4. pc \in 0..Len(Code)
      BY <2>1, <2>3, MainBlock DEF Code
    <2> QED
      BY <2>1, <2>2, <2>3, <2>4, Zenon DEF TypeInv
  <1>2. TypeInv /\ [Next]_vars => TypeInv'
    <2> SUFFICES ASSUME TypeInv, [Next]_vars PROVE TypeInv'
      OBVIOUS
    <2>1. CASE UNCHANGED vars
      BY <2>1 DEF vars, analysis, TypeInv, Code
    <2>2. CASE Analyze /\ UNCHANGED <<mem, pc, result>>
      BY <2>2, AnalyzeTyped
    <2>3. CASE Evaluate
      BY <2>3, EvaluateTyped
    <2> QED
      BY <2>1, <2>2, <2>3 DEF Next
  <1>3. TypeInv => TypeOK
    <2> SUFFICES ASSUME TypeInv PROVE TypeOK
      OBVIOUS
    <2>1. Len(blocks) >= 1 /\ \A i \in 1..Len(blocks) : Sound(blocks[i]) /\ ~Failed(blocks[i])
      BY DEF TypeInv, SoundBlocks
    <2>2. ASSUME NEW i \in 1..Len(blocks)
          PROVE  /\ ~Failed(blocks[i]) /\ blocks[i].frame \in Nat
                 /\ \A k \in 1..Len(blocks[i].ts) : blocks[i].ts[k].iref \in 0..Len(blocks[i].instrs)
      <3>1. Sound(blocks[i]) /\ ~Failed(blocks[i])
        BY <2>1
      <3> DEFINE b == blocks[i]
      <3>2. Len(b.instrs) \in Nat /\ b.frame \in Nat
            /\ \A k \in 1..Len(b.ts) : b.ts[k].iref \in Nat /\ b.ts[k].iref <= Len(b.instrs)
        BY <3>1, Parts, Entries
      <3> HIDE DEF b
      <3>3. \A k \in 1..Len(b.ts) : b.ts[k].iref \in 0..Len(b.instrs)
        BY <3>2
      <3> QED
        BY <3>1, <3>2, <3>3 DEF b
    <2>3. status \in Errors \cup {"analyzing", "evaluating", "running", "done", "hangs", "undefined"}
      BY DEF TypeInv, Failures
    <2> HIDE DEF Failures, Errors
    <2> QED
      BY <2>1, <2>2, <2>3, Zenon DEF TypeInv, TypeOK
  <1> QED
    BY <1>1, <1>2, <1>3, PTL DEF Spec
=============================================================================
