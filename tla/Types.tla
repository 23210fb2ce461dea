------------------------------- MODULE Types -------------------------------
(***************************************************************************)
(* Types of the language, src/src/type.hh: a type is written as the        *)
(* sequence of its basic types in prefix order, closed by END, and the     *)
(* number of elements of an array stands among them as if it were a basic  *)
(* type.  Sizes are counted in words of four bytes.                        *)
(***************************************************************************)
EXTENDS Integers, Sequences, FiniteSets

(* Basic types by the number the enumeration gives them. *)
UNDECIDED == 0
I32   == 5
F64   == 14
FUNC  == 15
ARRAY == 16
TUPLE == 17
BLOCK == 18
BIEXPR == 19
ANON  == 20
END   == 21

(* What a computation on types gives when it gives no size. *)
INTERNAL  == -1   \* internal_exception
HANGS     == -2   \* a loop that makes no progress
UNDEFINED == -3   \* a read past the end of the vector

IsComposite(b) == b \in {FUNC, TUPLE, ARRAY}

(* How many types that start at i or behind it are still open behind k. *)
Depth(types, i, k) ==
  Cardinality({l \in i..k : IsComposite(types[l])}) - Cardinality({l \in i..k : types[l] = END})

FirstOrNone(places) == IF places = {} THEN 0 ELSE CHOOSE k \in places : \A l \in places : k <= l

(* The place where the type that starts at i ends, within types[i..j]; 0 when
   inner_type throws, i - 1 when it finds END and gives an empty type. *)
InnerEnd(types, i, j) ==
  IF i <= j /\ types[i] = END THEN i - 1
  ELSE FirstOrNone({k \in i..j : Depth(types, i, k) = 0})

Between(types, i, e) == IF i < 1 \/ e = 0 THEN <<INTERNAL>> ELSE SubSeq(types, i, e)

(* inner_type, <<INTERNAL>> when it throws. *)
InnerType(types, i) == Between(types, i, InnerEnd(types, i, Len(types)))

BasicSize(b) == IF b = I32 THEN 1 ELSE IF b \in {F64, FUNC} THEN 2 ELSE INTERNAL

Both(a, b) == IF a < 0 THEN a ELSE IF b < 0 THEN b ELSE a + b
Times(size, count) == IF size < 0 THEN size ELSE size * count

(* type_size: sizes of the type at i..j, or of the elements of a tuple from i
   up to its END at j; size has those of all shorter stretches.              *)
SizePlaces(types) == {"type", "elements"} \X (1..(Len(types) + 1)) \X (0..Len(types))

TupleSize(types, size, i, j) ==
  LET e == InnerEnd(types, i, j) IN
  IF i >= j THEN 0
  ELSE IF types[i] = END THEN HANGS
  ELSE IF e = 0 THEN INTERNAL
  ELSE Both(size[<<"type", i, e>>], size[<<"elements", e + 1, j>>])

ArraySize(types, size, i, j) ==
  LET e == InnerEnd(types, i + 1, j) IN
  IF e = 0 THEN INTERNAL
  ELSE IF e = j THEN UNDEFINED
  ELSE Times(size[<<"type", i + 1, e>>], types[e + 1])

SizeOfType(types, size, i, j) ==
  IF i > Len(types) THEN UNDEFINED
  ELSE IF types[i] = TUPLE THEN size[<<"elements", i + 1, j>>]
  ELSE IF types[i] = ARRAY THEN ArraySize(types, size, i, j)
  ELSE IF types[i] \in {BLOCK, BIEXPR, ANON} THEN 0
  ELSE BasicSize(types[i])

SizeAt(types, size, x) ==
  IF x[1] = "elements" THEN TupleSize(types, size, x[2], x[3]) ELSE SizeOfType(types, size, x[2], x[3])

TypeSize(types) ==
  LET size[x \in SizePlaces(types)] == SizeAt(types, size, x)
  IN  IF types = <<>> THEN 0 ELSE size[<<"type", 1, Len(types)>>]

-----------------------------------------------------------------------------
(* struct type: elm, ix and off are the name of a tuple's last element (elm  *)
(* for "_elm"), where its type begins and how far into the tuple it lies;    *)
(* iref is the instruction that makes the value, 0 for none (SIZE_MAX).      *)

NoIref == 0

TypeOf(types, iref) ==
  [types |-> types, elm |-> 0, ix |-> 0, off |-> 0, closed |-> FALSE,
   iref |-> iref, pipe |-> FALSE]

First(t) == IF t.types = <<>> THEN UNDECIDED ELSE t.types[1]

(* type::matches; a pattern's END and UNDECIDED match anything. *)
Matches(pattern, types) ==
  \A i \in 1..Len(pattern) :
    pattern[i] \in {END, UNDECIDED} \/ (i <= Len(types) /\ pattern[i] = types[i])

(* matches() compares up to the first difference: it leaves the other type
   when all of that agreed with the pattern and more of the pattern follows. *)
MatchLeaves(pattern, types) ==
  /\ Len(types) < Len(pattern)
  /\ \A i \in 1..Len(types) : pattern[i] \in {END, UNDECIDED, types[i]}
  /\ \E i \in (Len(types) + 1)..Len(pattern) : pattern[i] # END

(* Mutant: a closed tuple is extended like an open one. *)
IsOpen_always(t) == First(t) = TUPLE

(* build_tuple: a left side that is a tuple still open gets one more element. *)
IsOpen(t) == First(t) = TUPLE /\ ~t.closed

BuildTuple(left, right) ==
  LET open  == IsOpen(left)
      elms  == IF open THEN SubSeq(left.types, 2, Len(left.types) - 1) ELSE left.types
      count == IF open THEN left.elm + 2 ELSE 2
  IN  [TypeOf(<<TUPLE>> \o elms \o right.types \o <<END>>, NoIref) EXCEPT
         !.elm = count - 1, !.ix = Len(left.types) - 1, !.off = TypeSize(left.types)]
=============================================================================
