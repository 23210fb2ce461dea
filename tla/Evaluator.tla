----------------------------- MODULE Evaluator -----------------------------
(***************************************************************************)
(* hill::evaluator, src/src/evaluator.hh: runs the instructions of the     *)
(* main block over a stack of bytes, here of words.  Nothing in memory     *)
(* says what it holds: the instructions' types do.  With the analyzer it   *)
(* is hill() of src/src/hill.hh, behind the parser.                        *)
(*                                                                         *)
(* One step is one instruction.                                            *)
(***************************************************************************)
EXTENDS Analyzer

VARIABLES mem,     \* the stack, the frame at its bottom
          pc,      \* how many instructions were run
          result   \* the value: its types and its words

vars == <<analysis, mem, pc, result>>

NoResult == [types |-> <<>>, words |-> <<>>]

Junk == <<"junk", 0>>   \* a word whose bits mean something else than is read

-----------------------------------------------------------------------------
(* Words and what is read from them. *)

Zeros(n)  == [i \in 1..n |-> <<"int", 0>>]
Double(n) == IF n = 0 THEN Zeros(2) ELSE << <<"dbl1", n>>, <<"dbl2", n>> >>

(* A number read as type I32 or F64; NaN for anything else. *)
NaN == 2000000000

ReadInt(w)     == IF w[1] = "int" THEN w[2] ELSE NaN
ReadDouble(ws) ==
  IF ws[1][1] = "dbl1" /\ ws[2] = <<"dbl2", ws[1][2]>> THEN ws[1][2]
  ELSE IF ws = Zeros(2) THEN 0 ELSE NaN

Number(b, ws)   == IF b = F64 THEN ReadDouble(ws) ELSE ReadInt(ws[1])
Written(b, n)   == IF n = NaN THEN (IF b = F64 THEN <<Junk, Junk>> ELSE <<Junk>>)
                   ELSE IF b = F64 THEN Double(n) ELSE IntWord(n)

Magnitude(n) == IF n < 0 THEN -n ELSE n

(* Numbers above MaxNumber are not told apart from junk: the model stays far
   below the width of an int32_t, where overflow would be undefined. *)
MaxNumber  == 40000
Bounded(n) == IF Magnitude(n) > MaxNumber THEN NaN ELSE n

Compute(op, l, r) ==
  IF NaN \in {l, r} THEN NaN
  ELSE Bounded(CASE op = "ADD" -> l + r [] op = "SUB" -> l - r [] op = "MUL" -> l * r)

-----------------------------------------------------------------------------
(* The functions of hill.hh, on the words of their argument; <<>> where they
   are undefined: a division by zero, or a power that is no int32_t. *)

Power(b, n) ==
  LET p[k \in 0..Magnitude(n)] ==
        IF k = 0 THEN 1 ELSE IF p[k - 1] = NaN THEN NaN ELSE Bounded(p[k - 1] * b)
  IN  IF NaN \in {b, n} \/ (b = 0 /\ n < 0) THEN NaN
      ELSE IF n >= 0 THEN p[n]
      ELSE IF Magnitude(b) = 1 THEN p[-n] ELSE 0

(* With a negative exponent std::pow gives a fraction, which is no number of
   the model's: NaN, unless it is 1 or -1. *)
FractionalPower(b, n) ==
  IF NaN \notin {b, n} /\ n < 0 /\ Magnitude(b) # 1 THEN NaN ELSE Power(b, n)

Quotient(a, b) ==
  IF NaN \in {a, b} \/ b = 0 THEN NaN
  ELSE LET q == Magnitude(a) \div Magnitude(b) IN IF (a < 0) # (b < 0) THEN -q ELSE q

pf_abs(ws)  == LET n == ReadInt(ws[1]) IN Written(I32, IF n = NaN THEN NaN ELSE Magnitude(n))
pf_pow(ws)  == Written(I32, Power(ReadInt(ws[1]), ReadInt(ws[2])))
pf_dpow(ws) == Written(F64, FractionalPower(ReadDouble(SubSeq(ws, 1, 2)), ReadDouble(SubSeq(ws, 3, 4))))
pf_div(ws)  == IF ReadInt(ws[2]) = 0 THEN <<>> ELSE Written(I32, Quotient(ReadInt(ws[1]), ReadInt(ws[2])))

Functions == {"pf_abs", "pf_pow", "pf_dpow", "pf_div"}

Apply(f, ws) ==
  CASE f = "pf_abs" -> pf_abs(ws) [] f = "pf_pow" -> pf_pow(ws)
    [] f = "pf_dpow" -> pf_dpow(ws) [] f = "pf_div" -> pf_div(ws)

ArgWords(f) == CASE f = "pf_abs" -> 1 [] f \in {"pf_pow", "pf_div"} -> 2 [] f = "pf_dpow" -> 4

-----------------------------------------------------------------------------
(* The stack. Memory outside of it is undefined behaviour: Broken.           *)

Broken == << <<"broken", 0>> >>

TopWords(s, n) == SubSeq(s, Len(s) - n + 1, Len(s))
Popped(s, n)   == SubSeq(s, 1, Len(s) - n)

(* ws over the words of s from place i (counted from 0) on. *)
Overwritten(s, i, ws) ==
  IF i < 0 \/ i + Len(ws) > Len(s) THEN Broken
  ELSE [k \in 1..Len(s) |-> IF k \in (i + 1)..(i + Len(ws)) THEN ws[k - i] ELSE s[k]]

(* stack::push_alloc and push: a positive offset leaves room below the value,
   a negative one writes into room that was left. *)
Grown(s, offset, n) == IF offset >= 0 THEN s \o Zeros(offset + n) ELSE s

Pushed(s, offset, ws) == Overwritten(Grown(s, offset, Len(ws)), Len(s) + offset, ws)

-----------------------------------------------------------------------------
Code == blocks[1].instrs

Running(ops) ==
  /\ status = "running"
  /\ pc < Len(Code)
  /\ Code[pc + 1].op \in ops

Ins == Code[pc + 1]

Memory(s) ==
  /\ pc' = pc + 1
  /\ mem' = IF s = Broken THEN mem ELSE s
  /\ status' = IF s = Broken THEN "undefined" ELSE status
  /\ UNCHANGED <<program, at, blocks, result>>

EnterFrame ==
  /\ status = "evaluating"
  /\ status' = "running"
  /\ mem' = Zeros(blocks[1].frame)
  /\ UNCHANGED <<program, at, blocks, pc, result>>

LoadI == Running({"LOADI"}) /\ Memory(Pushed(mem, Ins.offset, Ins.words))

Load ==
  /\ Running({"LOAD"})
  /\ Memory(Pushed(mem, Ins.offset, SubSeq(mem, Ins.ix + 1, Ins.ix + TypeSize(Ins.arg2))))

(* A name that was never resolved, the end, and a tuple, whose elements lie on
   the stack in order already. *)
Nothing == Running({"ID", "END", "TUPLE"}) /\ Memory(mem)

(* copy pushes from the slot it has just written.  With room below, the stack
   may have been moved and the slot's old place is read. *)
Repushed(grown, n, moved) ==
  Overwritten(grown, Len(mem) - n + Ins.offset,
              [k \in 1..n |-> IF moved THEN Junk ELSE grown[Ins.ix + k]])

(* Mutant: the value is not popped first. *)
Copied_kept(n, moved) ==
  IF Len(mem) < n THEN Broken
  ELSE Pushed(Overwritten(mem, Ins.ix, TopWords(mem, n)), Ins.offset, TopWords(mem, n))

Copied(n, moved) ==
  IF Len(mem) < n THEN Broken
  ELSE Repushed(Grown(Popped(Overwritten(mem, Ins.ix, TopWords(mem, n)), n), Ins.offset, n), n, moved)

Copy ==
  /\ Running({"COPY"})
  /\ \E moved \in {FALSE, Ins.offset > 0} : Memory(Copied(TypeSize(Ins.arg2), moved))

(* The operands are popped right one first; types that are no numbers are left
   alone. *)
Combined ==
  LET b == Ins.res[1]
      n == BasicSize(b)
      l == SubSeq(mem, Len(mem) - 2 * n + 1, Len(mem) - n)
  IN  IF b \notin {I32, F64} THEN mem
      ELSE IF Len(mem) < 2 * n THEN Broken
      ELSE Pushed(Popped(mem, 2 * n), Ins.offset,
                  Written(b, Compute(Ins.op, Number(b, l), Number(b, TopWords(mem, n)))))

Combine == Running({"ADD", "SUB", "MUL"}) /\ Memory(Combined)

Negated ==
  LET b == Ins.res[1]
      n == BasicSize(b)
      v == Number(b, TopWords(mem, n))
  IN  IF Len(mem) < n THEN Broken
      ELSE Pushed(Popped(mem, n), Ins.offset, Written(b, IF v = NaN THEN NaN ELSE -v))

Neg == Running({"NEG"}) /\ Ins.res[1] \in {I32, F64} /\ Memory(Negated)

(* call: pointer and argument lie on top; the result takes their place, or that
   of the room above it, and the rest is popped.  No function's result is
   larger than pointer and argument. *)
Returned(p, res, rest) ==
  IF res = <<>> \/ Overwritten(mem, p + Ins.offset, res) = Broken THEN Broken
  ELSE Popped(Overwritten(mem, p + Ins.offset, res), rest)

CallAt(p, f, g, rest) ==
  IF SubSeq(mem, p + 1, p + 2) # Pointer(g) \/ g \notin Functions \/ p + f + ArgWords(g) > Len(mem)
  THEN Broken
  ELSE Returned(p, Apply(g, SubSeq(mem, p + f + 1, p + f + ArgWords(g))), rest)

CalledWith(f, a, res) ==
  LET p == Len(mem) - (f + a) IN
  IF p < 0 THEN Broken
  ELSE CallAt(p, f, mem[p + 1][2], f + a - res - (IF Ins.offset > 0 THEN Ins.offset ELSE 0))

Called == CalledWith(TypeSize(Ins.arg1), TypeSize(Ins.arg2), TypeSize(Ins.res))

CallFunction == Running({"CALL"}) /\ Memory(Called)

(* No case for a tuple's element, nor for the negation of what is no number. *)
Unknown ==
  /\ \/ Running({"TUPLE_ELM"})
     \/ Running({"NEG"}) /\ Ins.res[1] \notin {I32, F64}
  /\ status' = "internal"
  /\ UNCHANGED <<program, at, blocks, mem, pc, result>>

(* The value is what lies on top, by the type of the last END. *)
ResultTypes == IF Code # <<>> /\ Code[pc].op = "END" THEN Code[pc].res ELSE <<>>

ReturnWith(types, size) ==
  IF size < 0 \/ Len(mem) < size
  THEN status' = (IF size < 0 THEN SizeError(size) ELSE "undefined") /\ UNCHANGED result
  ELSE status' = "done" /\ result' = [types |-> types, words |-> TopWords(mem, size)]

Return ==
  /\ status = "running"
  /\ pc = Len(Code)
  /\ ReturnWith(ResultTypes, TypeSize(ResultTypes))
  /\ UNCHANGED <<program, at, blocks, mem, pc>>

Evaluate ==
  \/ EnterFrame \/ LoadI \/ Load \/ Nothing \/ Copy \/ Combine \/ Neg \/ CallFunction
  \/ Unknown \/ Return

Init == AnalyzerInit /\ mem = <<>> /\ pc = 0 /\ result = NoResult

Next == (Analyze /\ UNCHANGED <<mem, pc, result>>) \/ Evaluate

Spec == Init /\ [][Next]_vars

-----------------------------------------------------------------------------
Errors == {"internal", "UNDEFINED_ID", "CALLING_NO_FUNC", "ARRAY_ELM_TYPE_MISMATCH",
           "MEMBER_ACCESS_ON_NO_TUPLE", "UNKNOWN_MEMBER_NAME", "not implemented"}

(* The state of block::add and evaluate: blocks whose types have an
   instruction that makes them, and no more instructions run than there are. *)
TypeOK ==
  /\ at \in 0..Len(program.post)
  /\ Len(blocks) >= 1
  /\ \A i \in 1..Len(blocks) :
       LET b == blocks[i] IN
       /\ ~Failed(b) /\ b.frame \in Nat
       /\ \A k \in 1..Len(b.ts) : b.ts[k].iref \in 0..Len(b.instrs)
  /\ pc \in 0..Len(Code)
  /\ status \in Errors \cup {"analyzing", "evaluating", "running", "done", "hangs", "undefined"}
=============================================================================
