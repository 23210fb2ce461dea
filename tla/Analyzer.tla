------------------------------ MODULE Analyzer ------------------------------
(***************************************************************************)
(* hill::block, src/src/block.hh: the analyzer reads the parser's output   *)
(* token by token, keeps a stack of types and a list of instructions, and  *)
(* resolves names when an operator takes them.  A block inside of braces   *)
(* is analysed on its own and then thrown away.                            *)
(*                                                                         *)
(* One step is one call of block::add.  A block with an error (Failed)     *)
(* passes through every helper unchanged: the code throws.                 *)
(***************************************************************************)
EXTENDS Types, TLC

CONSTANT Programs   \* records with post, the parser's output of a program

(* What the parser puts out ends with the token END. *)
Tokens == [type : STRING, arity : STRING, id : STRING, types : Seq(Int),
           words : Seq({"int", "dbl1", "dbl2"} \X Int)]

ASSUME ProgramsAssumption ==
  \A p \in Programs :
    p.post \in Seq(Tokens) /\ p.post # <<>> /\ p.post[Len(p.post)].type = "END"

VARIABLES program,  \* the one that is analysed
          at,       \* how many tokens of it were read
          blocks,   \* the main block and the blocks inside, innermost last
          status    \* "analyzing", "evaluating", "done", or why it ended

analysis == <<program, at, blocks, status>>

(* A token: its type, its arity, what a NAME is called, and the type and the
   words of a NUM. *)
Token(type, arity, id, types, words) ==
  [type |-> type, arity |-> arity, id |-> id, types |-> types, words |-> words]

-----------------------------------------------------------------------------
(* Names: values in the frame (STACK) or known from the start (LITERAL).     *)

ValRef(id, mt, type, ix, words) ==
  [id |-> id, mt |-> mt, type |-> type, ix |-> ix, words |-> words]

(* A word of memory: a number, a half of a double or of a pointer. *)
IntWord(n) == << <<"int", n>> >>
Pointer(f) == << <<"fn1", f>>, <<"fn2", f>> >>

Function(id, f, types) == ValRef(id, "LITERAL", TypeOf(types, NoIref), 0, Pointer(f))

(* build_lib. The types of pow and div have no END of their own; -1 stands for
   an array's length. *)
Library ==
  << ValRef("the_answer", "LITERAL", TypeOf(<<I32>>, NoIref), 0, IntWord(42)),
     Function("abs", "pf_abs", <<FUNC, I32, I32, END>>),
     Function("pow", "pf_pow", <<FUNC, I32, TUPLE, I32, I32, END>>),
     Function("pow", "pf_dpow", <<FUNC, F64, TUPLE, F64, F64, END>>),
     Function("div", "pf_div", <<FUNC, I32, TUPLE, I32, I32, END>>),
     Function("select", "pf_select",
       <<FUNC, ARRAY, I32, -1, END, TUPLE, ARRAY, I32, -1, END, BLOCK, END, END, END>>) >>

NoName  == ""
NoError == ""

Failed(b) == b.err # NoError

EmptyBlock == [ts |-> <<>>, instrs |-> <<>>, ids |-> <<>>, frame |-> 0, err |-> NoError]

(* The names a block sees, nearest first: only the main block has a parent. *)
Visible(b) == IF Len(blocks) = 1 THEN b.ids \o Library ELSE b.ids

NoVal == ValRef(NoName, "UNDECIDED", TypeOf(<<>>, NoIref), 0, <<>>)

FirstVal(vals, places) == IF places = {} THEN NoVal ELSE vals[FirstOrNone(places)]

FindValRef(b, id) ==
  LET vals == Visible(b) IN FirstVal(vals, {i \in DOMAIN vals : vals[i].id = id})

FindMatchingValRef(b, id, pattern) ==
  LET vals == Visible(b)
  IN  FirstVal(vals, {i \in DOMAIN vals : vals[i].id = id /\ Matches(pattern, vals[i].type.types)})

-----------------------------------------------------------------------------
(* Steps on a block. *)

Fail(b, err) == IF Failed(b) THEN b ELSE [b EXCEPT !.err = err]

Top(b, k) == b.ts[Len(b.ts) - k]
SetTop(b, k, t) == [b EXCEPT !.ts[Len(b.ts) - k] = t]

(* type_stack::top and vtop throw when there are not n entries. *)
Need(b, n) == IF Len(b.ts) < n THEN Fail(b, "internal") ELSE b

Instr(op, res, arg1, arg2) ==
  [op |-> op, res |-> res, arg1 |-> arg1, arg2 |-> arg2,
   ix |-> 0, words |-> <<>>, id |-> NoName, offset |-> 0]

(* make_val_instr: arg2_type stays empty, whatever the instruction loads. *)
MakeValInstr(val, offset) ==
  [Instr(IF val.mt = "STACK" THEN "LOAD" ELSE "LOADI", val.type.types, <<>>, <<>>) EXCEPT
     !.ix = val.ix, !.words = val.words, !.offset = offset]

(* Mutant: size() for the last place, not size()-1. *)
Emit_size(b, ins, n, t) ==
  IF Failed(b) THEN b
  ELSE [b EXCEPT !.instrs = Append(@, ins),
                 !.ts = Append(SubSeq(@, 1, Len(@) - n), [t EXCEPT !.iref = Len(b.instrs) + 2])]

(* Add an instruction that takes n entries and leaves one, made by it. *)
Emit(b, ins, n, t) ==
  IF Failed(b) THEN b
  ELSE [b EXCEPT !.instrs = Append(@, ins),
                 !.ts = Append(SubSeq(@, 1, Len(@) - n), [t EXCEPT !.iref = Len(b.instrs) + 1])]

(* Put val in place of the name k entries below the top. *)
Bind(b, k, val) ==
  LET i == Top(b, k).iref IN
  IF val = NoVal THEN Fail(b, "UNDEFINED_ID")
  ELSE SetTop([b EXCEPT !.instrs[i] = MakeValInstr(val, @.offset)], k, val.type)

IsName(b, k) == Top(b, k).types = <<>>
NameAt(b, k) == b.instrs[Top(b, k).iref].id

Resolve(b, k) ==
  IF Failed(b) \/ ~IsName(b, k) THEN b ELSE Bind(b, k, FindValRef(b, NameAt(b, k)))

(* resolve_rs_id_vals and resolve_ls_id_vals. *)
ResolveRs(b) == Resolve(Need(b, 1), 0)
ResolveLs(b) == Resolve(Need(b, 2), 1)

SetTopType(b, val) == IF val = NoVal THEN Fail(b, "UNDEFINED_ID") ELSE SetTop(b, 0, val.type)

LeftName(b) == IF Failed(b) \/ ~IsName(b, 1) THEN b ELSE SetTopType(b, FindValRef(b, NameAt(b, 1)))

(* resolve_var_id_vals: a name on the left gives its type to the right side
   and stays what it is, in the type stack and in the instructions. *)
ResolveVar(b) == LeftName(Need(ResolveRs(b), 2))

(* resolve_call_id_vals: the overload whose argument is of the type on top. *)
Overload(b, id, pattern) ==
  IF \E i \in 1..Len(Visible(b)) :
       Visible(b)[i].id = id /\ MatchLeaves(pattern, Visible(b)[i].type.types)
  THEN Fail(b, "undefined")
  ELSE Bind(b, 1, FindMatchingValRef(b, id, pattern))

Callee(b) ==
  IF Failed(b) \/ ~IsName(b, 1) THEN b
  ELSE Overload(b, NameAt(b, 1), <<FUNC, UNDECIDED>> \o Top(b, 0).types \o <<END>>)

ResolveCall(b) == Callee(Need(ResolveRs(b), 2))

(* build_tuple measures the left side, which may throw or never end. *)
SizeError(size) ==
  CASE size = INTERNAL -> "internal" [] size = HANGS -> "hangs" [] OTHER -> "undefined"

PushTuple(b, t) ==
  IF t.off < 0 THEN Fail(b, SizeError(t.off))
  ELSE Emit(b, Instr("TUPLE", t.types, <<>>, <<>>), 2, t)

Tuple(b) == IF Failed(b) THEN b ELSE PushTuple(b, BuildTuple(Top(b, 1), Top(b, 0)))

-----------------------------------------------------------------------------
(* The cases of block::add.                                                  *)

AddName(b, t) ==
  Emit(b, [Instr("ID", <<>>, <<>>, <<>>) EXCEPT !.id = t.id], 0, TypeOf(<<>>, NoIref))

AddNum(b, t) ==
  Emit(b, [Instr("LOADI", t.types, <<>>, <<>>) EXCEPT !.words = t.words], 0, TypeOf(t.types, NoIref))

CloseTuple(b) ==
  IF Failed(b) THEN b ELSE SetTop(b, 0, [Top(b, 0) EXCEPT !.closed = TRUE])

(* The number of elements of a tuple's type when all are of type inner, from
   the i-th basic type on; MISMATCH when one is not. *)
MISMATCH == -4

CountElements(types, inner) ==
  LET count[i \in 1..(Len(types) + Len(inner))] ==
        IF i > Len(types) THEN UNDEFINED
        ELSE IF types[i] = END THEN 0
        ELSE IF InnerType(types, i) # inner THEN MISMATCH
        ELSE Both(1, count[i + Len(inner)])
  IN  count[2]

(* RSQUARE: the elements of a tuple become the array's, whether the tuple is
   open or closed; anything else is an array's one element. *)
SetArray(b, t, inner, count) ==
  IF inner = <<INTERNAL>> THEN Fail(b, "internal")
  ELSE IF count = MISMATCH THEN Fail(b, "ARRAY_ELM_TYPE_MISMATCH")
  ELSE IF count < 0 THEN Fail(b, "undefined")
  ELSE SetTop(b, 0, [t EXCEPT !.types = <<ARRAY>> \o inner \o <<count, END>>])

Elements(b, t, inner) == SetArray(b, t, inner, CountElements(t.types, inner))

ArrayOf(b) ==
  IF Failed(b) THEN b
  ELSE IF Top(b, 0).types = <<>> THEN Fail(b, "undefined")
  ELSE IF First(Top(b, 0)) = TUPLE THEN Elements(b, Top(b, 0), InnerType(Top(b, 0).types, 2))
  ELSE SetArray(b, Top(b, 0), Top(b, 0).types, 1)

(* OP_PLUS, OP_MINUS and OP_STAR between two operands: the result is of the
   right one's type. *)
Arithmetic(b, op) ==
  IF Failed(b) THEN b
  ELSE Emit(b, Instr(op, Top(b, 0).types, Top(b, 1).types, Top(b, 0).types), 2, Top(b, 0))

Negate(b) ==
  IF Failed(b) THEN b
  ELSE Emit(b, Instr("NEG", Top(b, 0).types, Top(b, 0).types, <<>>), 1, Top(b, 0))

(* frame_def::add. *)
FrameEnd(frame, size) == frame + (frame % size) + size

(* OP_COLON_EQ: binds the name of the last but one instruction, and leaves the
   name's own entry below the value's on the stack. *)
DefineAs(b, res, size) ==
  LET n == Len(b.instrs) IN
  IF size < 0 THEN Fail(b, SizeError(size))
  ELSE IF size = 0 THEN Fail(b, "undefined")
  ELSE IF n < 2 \/ b.instrs[n - 1].op # "ID" THEN Fail(b, "UNDEFINED_ID")
  ELSE Emit([b EXCEPT !.frame = FrameEnd(@, size),
                      !.ids = Append(@, ValRef(b.instrs[n - 1].id, "STACK", res, b.frame, <<>>))],
            [Instr("COPY", res.types, <<>>, res.types) EXCEPT !.ix = b.frame], 1, res)

Define(b) == IF Failed(b) THEN b ELSE DefineAs(b, Top(b, 0), TypeSize(Top(b, 0).types))

(* CALL: with a piped argument, that and the top are the argument together. *)
JoinAs(b, t) ==
  IF t.off < 0 THEN Fail(b, SizeError(t.off))
  ELSE ResolveLs([b EXCEPT !.ts = Append(SubSeq(@, 1, Len(@) - 2), t)])

JoinPiped(b) ==
  IF Failed(b) \/ ~Top(b, 1).pipe THEN b ELSE JoinAs(b, BuildTuple(Top(b, 1), Top(b, 0)))

(* Mutant: the argument's type is not compared. *)
CallAs_any(b, res, arg) == Emit(b, Instr("CALL", res, Top(b, 1).types, arg), 2, TypeOf(res, NoIref))

CallAs(b, res, arg) ==
  IF arg # Top(b, 0).types THEN Fail(b, "UNDEFINED_ID")
  ELSE Emit(b, Instr("CALL", res, Top(b, 1).types, arg), 2, TypeOf(res, NoIref))

CallFunc(b) ==
  LET f == Top(b, 1).types
      Result(res) == CallAs(b, res, InnerType(f, 2 + Len(res)))
  IN  IF Failed(b) THEN b
      ELSE IF First(Top(b, 1)) # FUNC THEN Fail(b, "CALLING_NO_FUNC")
      ELSE Result(InnerType(f, 2))

(* OP_DOT: a tuple knows the name of its last element only.  Its size is taken
   here too. *)
MemberAs(b, t, name, res, size) ==
  IF t.elm = 0 \/ b.instrs[name.iref].id # "_" \o ToString(t.elm) THEN Fail(b, "UNKNOWN_MEMBER_NAME")
  ELSE IF res = <<INTERNAL>> THEN Fail(b, "internal")
  ELSE IF size < 0 THEN Fail(b, SizeError(size))
  ELSE Emit(b, [Instr("TUPLE_ELM", res, t.types, name.types) EXCEPT !.ix = size - t.off],
            2, TypeOf(res, NoIref))

Member(b) ==
  IF Failed(b) THEN b
  ELSE IF First(Top(b, 1)) # TUPLE THEN Fail(b, "MEMBER_ACCESS_ON_NO_TUPLE")
  ELSE IF Top(b, 0).iref = NoIref THEN Fail(b, "undefined")
  ELSE MemberAs(b, Top(b, 1), Top(b, 0), InnerType(Top(b, 1).types, Top(b, 1).ix + 1),
                TypeSize(Top(b, 1).types))

(* OP_OR_GREATER: room for a pointer goes below the argument, and the function
   is to be written there; the two change places on the stack. *)
Room == 2

PipeAs(b, arg, func, size) ==
  IF NoIref \in {arg.iref, func.iref} THEN Fail(b, "undefined")
  ELSE IF size < 0 THEN Fail(b, SizeError(size))
  ELSE [b EXCEPT !.instrs[arg.iref].offset = Room,
                 !.instrs[func.iref].offset = -(size + Room),
                 !.ts = SubSeq(@, 1, Len(@) - 2) \o <<func, [arg EXCEPT !.pipe = TRUE]>>]

Pipe(b) ==
  IF Failed(b) THEN b ELSE PipeAs(b, Top(b, 1), Top(b, 0), TypeSize(Top(b, 1).types))

(* END: the value on top is the program's. *)
Finish(b) ==
  IF Failed(b) THEN b
  ELSE Emit(b, Instr("END", Top(b, 0).types, <<>>, <<>>), 0, Top(b, 0))

-----------------------------------------------------------------------------
Reading(types) ==
  /\ status = "analyzing"
  /\ program.post[at + 1].type \in types

Block == blocks[Len(blocks)]
Input == program.post[at + 1]

(* The innermost block becomes b, unless add threw. *)
Into(b) ==
  /\ at' = at + 1
  /\ blocks' = IF ~Failed(b) THEN [blocks EXCEPT ![Len(blocks)] = b] ELSE blocks
  /\ status' = IF ~Failed(b) THEN status ELSE b.err
  /\ UNCHANGED program

Name       == Reading({"NAME"}) /\ Into(AddName(Block, Input))
Num        == Reading({"NUM"}) /\ Into(AddNum(Block, Input))
OpenGroup  == Reading({"LPAR", "LSQUARE"}) /\ Into(Block)
ClosePar   == Reading({"RPAR"}) /\ Into(CloseTuple(Need(Block, 1)))
CloseArray == Reading({"RSQUARE"}) /\ Into(ArrayOf(Need(Block, 1)))
Plus       == Reading({"OP_PLUS"}) /\ Into(Arithmetic(ResolveVar(Block), "ADD"))
Minus      == Reading({"OP_MINUS"})
              /\ Into(IF Input.arity = "LUNARY" THEN Negate(ResolveRs(Block)) ELSE Arithmetic(ResolveVar(Block), "SUB"))
Star       == Reading({"OP_STAR"}) /\ Into(Arithmetic(ResolveVar(Block), "MUL"))
Assign     == Reading({"OP_COLON_EQ"}) /\ Into(Define(ResolveRs(Block)))
Comma      == Reading({"OP_COMMA"}) /\ Into(Tuple(ResolveVar(Block)))
Call       == Reading({"CALL"}) /\ Into(CallFunc(JoinPiped(ResolveCall(Block))))
Dot        == Reading({"OP_DOT"}) /\ Into(Member(ResolveLs(Block)))
PipeTo     == Reading({"OP_OR_GREATER"}) /\ Into(Pipe(ResolveLs(Block)))

(* Everything else throws not_implemented_exception. *)
Implemented == {"NAME", "NUM", "LPAR", "LSQUARE", "LCURLY", "RPAR", "RSQUARE", "RCURLY", "END",
                "OP_PLUS", "OP_MINUS", "OP_STAR", "OP_COLON_EQ", "OP_COMMA", "CALL", "OP_DOT",
                "OP_OR_GREATER"}

Other == /\ status = "analyzing"
         /\ Input.type \notin Implemented
         /\ Into(Fail(Block, "not implemented"))

(* Braces: an inner block starts empty and without a parent; its end drops it. *)
OpenBlock ==
  /\ Reading({"LCURLY"})
  /\ blocks' = Append(blocks, EmptyBlock)
  /\ at' = at + 1
  /\ UNCHANGED <<program, status>>

CloseBlock ==
  /\ Reading({"RCURLY"})
  /\ blocks' = IF Len(blocks) = 1 THEN blocks ELSE SubSeq(blocks, 1, Len(blocks) - 1)
  /\ at' = at + 1
  /\ UNCHANGED <<program, status>>

(* END comes last.  Behind braces that were never closed it ends the block
   inside, and the main block has no END. *)
EndWith(b) ==
  /\ blocks' = IF Failed(b) THEN blocks
               ELSE IF Len(blocks) = 1 THEN <<b>> ELSE SubSeq(blocks, 1, Len(blocks) - 1)
  /\ status' = IF Failed(b) THEN b.err ELSE "evaluating"

EndOfProgram ==
  /\ Reading({"END"})
  /\ EndWith(Finish(ResolveRs(Block)))
  /\ at' = at + 1
  /\ UNCHANGED program

Analyze ==
  \/ Name \/ Num \/ OpenGroup \/ ClosePar \/ CloseArray \/ OpenBlock \/ CloseBlock
  \/ Plus \/ Minus \/ Star \/ Assign \/ Comma \/ Call \/ Dot \/ PipeTo \/ Other \/ EndOfProgram

AnalyzerInit ==
  /\ program \in Programs
  /\ at = 0
  /\ blocks = <<EmptyBlock>>
  /\ status = "analyzing"
=============================================================================
