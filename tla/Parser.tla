------------------------------- MODULE Parser -------------------------------
(***************************************************************************)
(* hill::parser, src/src/parser.hh: a shunting yard that turns a stream of *)
(* tokens into reverse Polish notation, which the analyzer and the         *)
(* evaluator then run like a program.                                      *)
(*                                                                         *)
(* One step is one iteration of the loop of parse, CALL insertion          *)
(* included.  Tokens come without whitespace and comments (token_queue     *)
(* drops them) and are told apart by their position in the input; a CALL   *)
(* has the position of its argument.                                       *)
(***************************************************************************)
EXTENDS LangSpec, Sequences, FiniteSets

CONSTANT Inputs   \* the token streams, sequences of Types without START and END

ASSUME InputsAssumption == Inputs \subseteq Seq(Types \ Markers)

VARIABLES input,   \* the stream
          pos,     \* how many of its tokens were read
          prev,    \* the type of the token before (prev_t)
          stack,   \* op_stack, top last
          rpn,     \* the output
          status   \* "parsing", "done", "error" (error_token exits the
                   \* process) or "undefined" (op_stack.pop() of an empty stack)

vars == <<input, pos, prev, stack, rpn, status>>

(* An item of the stack or of the output: a token with its selected use. *)
Item(type, ix, arity) == [type |-> type, ix |-> ix, arity |-> arity]

IsGroup(item) == item.type \in LGroups
UseOf(item)   == TheUse(item.type, item.arity)

(* The type of the next token, which peek_token shows. *)
Peek == IF pos + 1 < Len(input) THEN input[pos + 2] ELSE "END"

Reversed(s) == [i \in 1..Len(s) |-> s[Len(s) + 1 - i]]

-----------------------------------------------------------------------------
(* parse_token, from a stack and an output to a stack and an output.         *)

State(st, out) == [stack |-> st, rpn |-> out]

(* The loops pop until the top is an item that stays: what is left is the
   stack up to the highest such place. *)
Keep(staying) == CHOOSE k \in staying \cup {0} : \A j \in staying : j <= k

Popped(s, keep) ==
  State(SubSeq(s.stack, 1, keep),
        s.rpn \o Reversed(SubSeq(s.stack, keep + 1, Len(s.stack))))

(* Mutant: equal precedences stay for left associative operators too. *)
Outlasts_equal(item, op) ==
  \/ IsGroup(item)
  \/ UseOf(item).prec >= UseOf(op).prec

(* An operator that stays on the stack when op comes: op binds tighter, or,  *)
(* if op is right associative, as tight.                                     *)
Outlasts(item, op) ==
  \/ IsGroup(item)
  \/ UseOf(item).prec > UseOf(op).prec
  \/ UseOf(item).prec = UseOf(op).prec /\ UseOf(op).assoc = "RIGHT"

Outlasting(st, op) == {k \in 1..Len(st) : Outlasts(st[k], op)}
Groups(st) == {k \in 1..Len(st) : IsGroup(st[k])}

(* Mutant: a postfix operator goes to both places. *)
PutOperator_both(s, op) ==
  LET p == Popped(s, Keep(Outlasting(s.stack, op))) IN
  State(Append(p.stack, op), IF op.arity = "RUNARY" THEN Append(p.rpn, op) ELSE p.rpn)

PutOperator(s, op) ==
  LET p == Popped(s, Keep(Outlasting(s.stack, op))) IN
  IF op.arity = "RUNARY" THEN State(p.stack, Append(p.rpn, op))
                         ELSE State(Append(p.stack, op), p.rpn)

PutValue(s, item) == State(s.stack, Append(s.rpn, item))

PutLGroup(s, item) == State(Append(s.stack, item), Append(s.rpn, item))

(* Mutant: a closing token closes every group. *)
PutRGroup_closesAll(s, item) == State(<<>>, Append(Popped(s, 0).rpn, item))

(* Down to the group's opening token, which goes as well. *)
PutRGroup(s, item) ==
  LET p == Popped(s, Keep(Groups(s.stack))) IN
  State(SubSeq(p.stack, 1, Len(p.stack) - 1), Append(p.rpn, item))

PutEnd(s) == PutValue(Popped(s, 0), Item("END", Len(input) + 1, "NULLARY"))

-----------------------------------------------------------------------------
Init ==
  /\ input \in Inputs
  /\ pos = 0
  /\ prev = "START"
  /\ stack = <<>> /\ rpn = <<>>
  /\ status = "parsing"

(* Mutant: a name before a group is no call. *)
WithCall_valuesOnly(t) ==
  LET s == State(stack, rpn) IN
  IF VEnd(prev) /\ t \in Values THEN PutOperator(s, Item("CALL", pos + 1, "BINARY")) ELSE s

(* Mutant: the operator's use is not selected. *)
WithCall_noUse(t) ==
  LET s == State(stack, rpn) IN
  IF VEnd(prev) /\ VBegin(t) THEN PutOperator(s, Item("CALL", pos + 1, "NULLARY")) ELSE s

(* Two values side by side are a call: the operator is put in between. *)
WithCall(t) ==
  LET s == State(stack, rpn) IN
  IF VEnd(prev) /\ VBegin(t) THEN PutOperator(s, Item("CALL", pos + 1, "BINARY")) ELSE s

(* Which use of an operator is meant; "NONE" is an error. *)
Arity(t, before, after) ==
  IF VEnd(before)
  THEN IF (VBegin(after) \/ HasArity(after, "LUNARY")) /\ HasArity(t, "BINARY")
       THEN "BINARY"
       ELSE IF HasArity(t, "RUNARY") THEN "RUNARY" ELSE "NONE"
  ELSE IF HasArity(t, "LUNARY") THEN "LUNARY" ELSE "NONE"

(* Every branch sets prev_t and reads one token. *)
Reading(t) ==
  /\ status = "parsing"
  /\ pos < Len(input) /\ t = input[pos + 1]
  /\ pos' = pos + 1 /\ prev' = t
  /\ UNCHANGED input

Becomes(s) == stack' = s.stack /\ rpn' = s.rpn

Operand(t) ==
  /\ Reading(t)
  /\ \/ t \in Values /\ Becomes(PutValue(WithCall(t), Item(t, pos + 1, "NULLARY")))
     \/ t \in LGroups /\ Becomes(PutLGroup(WithCall(t), Item(t, pos + 1, "NULLARY")))
  /\ UNCHANGED status

CloseGroup(t) ==
  /\ Reading(t)
  /\ t \in RGroups
  /\ Groups(stack) # {}
  /\ Becomes(PutRGroup(State(stack, rpn), Item(t, pos + 1, "NULLARY")))
  /\ UNCHANGED status

(* Nothing checks that there is a group to close. *)
CloseNothing(t) ==
  /\ Reading(t)
  /\ t \in RGroups
  /\ Groups(stack) = {}
  /\ status' = "undefined"
  /\ UNCHANGED <<stack, rpn>>

Operator(t) ==
  /\ Reading(t)
  /\ t \in Operators
  /\ Arity(t, prev, Peek) # "NONE"
  /\ Becomes(PutOperator(State(stack, rpn), Item(t, pos + 1, Arity(t, prev, Peek))))
  /\ UNCHANGED status

Misplaced(t) ==
  /\ Reading(t)
  /\ t \in Operators
  /\ Arity(t, prev, Peek) = "NONE"
  /\ status' = "error"
  /\ UNCHANGED <<stack, rpn>>

End ==
  /\ status = "parsing"
  /\ pos = Len(input)
  /\ Becomes(PutEnd(State(stack, rpn)))
  /\ status' = "done"
  /\ UNCHANGED <<input, pos, prev>>

Next ==
  \/ \E t \in Types : \/ Operand(t) \/ CloseGroup(t) \/ CloseNothing(t)
                      \/ Operator(t) \/ Misplaced(t)
  \/ End

Spec == Init /\ [][Next]_vars

-----------------------------------------------------------------------------
Items == [type : Types, ix : Nat, arity : {"NULLARY", "LUNARY", "RUNARY", "BINARY"}]

TypeOK ==
  /\ input \in Inputs
  /\ pos \in 0..Len(input)
  /\ prev \in Types
  /\ stack \in Seq(Items) /\ rpn \in Seq(Items)
  /\ \A k \in 1..Len(stack) :
       IsGroup(stack[k]) \/ HasArity(stack[k].type, stack[k].arity)
  /\ status \in {"parsing", "done", "error", "undefined"}

(* What makes the shunting yard right: between two group openings the        *)
(* operators on the stack bind tighter and tighter towards the top, equal    *)
(* ones only where the upper one is right associative.  Popping "while the   *)
(* top binds as tight" then pops exactly the operators whose operands are    *)
(* complete.                                                                 *)
StackSorted ==
  \A k \in 2..Len(stack) :
    ~IsGroup(stack[k]) /\ ~IsGroup(stack[k-1]) =>
      LET below == UseOf(stack[k-1])  above == UseOf(stack[k]) IN
      above.prec < below.prec \/ (above.prec = below.prec /\ above.assoc = "RIGHT")

(* Two values side by side: there is a CALL between them. *)
Calls == {i \in 2..pos : /\ input[i - 1] \in Values \cup RGroups
                        /\ input[i] \in Values \cup LGroups}

Count(set, n) == Cardinality({i \in 1..n : input[i] \in set})

CopiesIn(s, t, i) == Cardinality({k \in 1..Len(s) : s[k].type = t /\ s[k].ix = i})
Copies(t, i)      == CopiesIn(rpn, t, i) + CopiesIn(stack, t, i)

Belongs(x) == x.ix \in 1..pos /\ (x.type = input[x.ix] \/ (x.type = "CALL" /\ x.ix \in Calls))

(* Nothing gets lost, nothing comes twice and nothing is made up, up to the  *)
(* end of the output: each token that was read and the CALL between each two *)
(* values is in one place, output or stack; an opening token is in the       *)
(* output, and on the stack as long as its group is open; and nothing else   *)
(* is in either but END, last in the output.                                 *)
NothingLost ==
  status \in {"parsing", "done"} =>
    /\ \A i \in 1..pos : Copies(input[i], i) \in IF input[i] \in LGroups THEN {1, 2} ELSE {1}
    /\ \A i \in Calls : Copies("CALL", i) = 1
    /\ \A k \in 1..Len(stack) : Belongs(stack[k])
    /\ \A k \in 1..Len(rpn) :
         Belongs(rpn[k]) \/ (status = "done" /\ k = Len(rpn) /\ rpn[k].type = "END")
    /\ status = "parsing" =>
         Cardinality(Groups(stack)) = Count(LGroups, pos) - Count(RGroups, pos)

(* The parser runs into undefined behaviour for an unmatched closing token   *)
(* only.                                                                     *)
UndefinedOnlyUnmatched ==
  status = "undefined" =>
    \E n \in 1..pos : Count(RGroups, n) > Count(LGroups, n)
=============================================================================
