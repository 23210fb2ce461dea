------------------------------ MODULE Meaning ------------------------------
(***************************************************************************)
(* What a program means, by its tree: the reference Evaluator is checked   *)
(* against.  A program is a record: the parser's output for it (post), the *)
(* use of the operator on top, its value, the types of its parts if it is  *)
(* a list still open, the pipe it starts, the name it is, and the known    *)
(* weaknesses of the implementation it meets (marks).                      *)
(***************************************************************************)
EXTENDS Evaluator

G == INSTANCE Grammar

Value(types, words) == [types |-> types, words |-> words]
NoValue == Value(<<>>, <<>>)

Expr(post, top, value, marks) ==
  [post |-> post, top |-> top, value |-> value, parts |-> <<value.types>>,
   piped |-> <<>>, name |-> "", defines |-> FALSE, marks |-> marks]

Op(type, arity) == Token(type, arity, "", <<>>, <<>>)
(* The types of pow and div have no END of their own. *)
Unclosed(e)     == e.value.types # <<>> /\ InnerEnd(e.value.types, 1, Len(e.value.types)) = 0
Makes(token)    == token.type \notin {"LPAR", "RPAR"}
Has(e)          == e.value # NoValue
IsNumber(e)     == e.value.types \in {<<I32>>, <<F64>>}
ValueOf(b, n)   == IF n = NaN THEN NoValue ELSE Value(<<b>>, Written(b, n))
NumberOf(e)     == Number(e.value.types[1], e.value.words)
If(mark, cond)  == IF cond THEN {mark} ELSE {}

Num32(n) == Expr(<<Token("NUM", "NULLARY", "", <<I32>>, IntWord(n))>>, G!Atom, Value(<<I32>>, IntWord(n)), {})
Num64(n) == Expr(<<Token("NUM", "NULLARY", "", <<F64>>, Double(n))>>, G!Atom, Value(<<F64>>, Double(n)), {})

Known(id) == LET Is(v) == v.id = id IN SelectSeq(Library, Is)

(* A name that has several values means the first, except where it is called. *)
Ident(id) ==
  [Expr(<<Token("NAME", "NULLARY", id, <<>>, <<>>)>>, G!Atom,
        IF Known(id) = <<>> THEN NoValue ELSE Value(Known(id)[1].type.types, Known(id)[1].words), {})
   EXCEPT !.name = id]

(* A name that was given the value of e. *)
Variable(id, e) == [Ident(id) EXCEPT !.value = e.value, !.marks = {"reads a variable"}]

Grouped(e) ==
  [e EXCEPT !.post = <<Op("LPAR", "NULLARY")>> \o e.post \o <<Op("RPAR", "NULLARY")>>,
            !.top = G!Atom, !.parts = <<e.value.types>>]

(* The marks of an operand.  A pipe has a meaning on the left of a call only,
   and block::add takes it for its argument everywhere else. *)
Used(e) == e.marks \cup If("pipe without a call", e.piped # <<>>)

(* A block has no value yet. *)
Braced(e) ==
  Expr(<<Op("LCURLY", "NULLARY")>> \o e.post \o <<Op("RCURLY", "NULLARY")>>, G!Atom, NoValue,
       Used(e) \cup {"braces"})

OnRight(r)  == Used(r) \cup If("definition on the right", r.defines)
Sides(l, r) == Used(l) \cup OnRight(r)

Joined(l, op, r) == l.post \o r.post \o <<Op(op, "BINARY")>>
Use(op) == G!TheUse(op, "BINARY")

Opcode(op) == CASE op = "OP_PLUS" -> "ADD" [] op = "OP_MINUS" -> "SUB" [] op = "OP_STAR" -> "MUL"

(* Numbers of one type; a name on the left is never resolved. *)
Arith(l, op, r) ==
  LET same == IsNumber(l) /\ l.value.types = r.value.types
      n    == Compute(Opcode(op), NumberOf(l), NumberOf(r))
  IN  Expr(Joined(l, op, r), Use(op),
           IF same THEN ValueOf(l.value.types[1], n) ELSE NoValue,
           Sides(l, r) \cup If("left name", l.name # "") \cup If("no numbers of one type", ~same))

Minus1(e) ==
  Expr(Append(e.post, Op("OP_MINUS", "LUNARY")), G!TheUse("OP_MINUS", "LUNARY"),
       IF IsNumber(e) THEN ValueOf(e.value.types[1], -NumberOf(e)) ELSE NoValue,
       Used(e) \cup If("no numbers of one type", ~IsNumber(e)))

(* block::add takes every + for the binary one. *)
Plus1(e) ==
  Expr(Append(e.post, Op("OP_PLUS", "LUNARY")), G!TheUse("OP_PLUS", "LUNARY"), e.value,
       Used(e) \cup {"unary plus"})

IsList(e) == e.top = Use("OP_COMMA")

(* l , r: a list gets one more part; in groups it is a part itself. *)
List(l, r) ==
  LET parts == (IF IsList(l) THEN l.parts ELSE <<l.value.types>>) \o <<r.value.types>>
      inner == IF IsList(l) THEN SubSeq(l.value.types, 2, Len(l.value.types) - 1) ELSE l.value.types
      value == Value(<<TUPLE>> \o inner \o r.value.types \o <<END>>, l.value.words \o r.value.words)
  IN  [Expr(Joined(l, "OP_COMMA", r), Use("OP_COMMA"),
            IF Has(l) /\ Has(r) THEN value ELSE NoValue,
            Sides(l, r) \cup If("left name", l.name # "")
              \cup If("type without END", Unclosed(l) \/ Unclosed(r)))
       EXCEPT !.parts = parts]

(* [ e ]: the length stands where a basic type would. *)
Array(e) ==
  LET n == Len(e.parts) IN
  Expr(<<Op("LSQUARE", "NULLARY")>> \o e.post \o <<Op("RSQUARE", "NULLARY")>>, G!Atom,
       IF Has(e) /\ \A i \in 1..n : e.parts[i] = e.parts[1]
       THEN Value(<<ARRAY>> \o e.parts[1] \o <<n, END>>, e.value.words) ELSE NoValue,
       Used(e) \cup If("array of a name", e.name # "") \cup If("type without END", Unclosed(e))
         \cup If("array of one tuple", ~IsList(e) /\ e.value.types # <<>> /\ e.value.types[1] = TUPLE)
         \cup If("length read as a type", n \in {FUNC, ARRAY, TUPLE, END}))

(* a := e: the name has to be the last instruction but one.  What the name
   leaves on the type stack comes between the value and what is left of it. *)
Definition(id, e) ==
  [Expr(Ident(id).post \o e.post \o <<Op("OP_COLON_EQ", "BINARY")>>, Use("OP_COLON_EQ"), e.value,
        Used(e) \cup If("definition of what is computed", Len(SelectSeq(e.post, Makes)) # 1))
   EXCEPT !.defines = TRUE]

(* f applied to a value: the overload whose argument is of its type. *)
Overloads(f) == {i \in 1..Len(Library) : Library[i].id = f.name}

ArgType(v) == LET t == v.type.types IN InnerType(t, 2 + Len(InnerType(t, 2)))

Fitting(f, arg) == {i \in Overloads(f) : arg # NoValue /\ ArgType(Library[i]) = arg.types}

Applied(f, arg) ==
  LET v  == Library[CHOOSE i \in Fitting(f, arg) : TRUE]
      ws == Apply(v.words[1][2], arg.words)
  IN  IF Fitting(f, arg) = {} \/ ws = <<>> \/ \E i \in 1..Len(ws) : ws[i] = Junk THEN NoValue
      ELSE Value(InnerType(v.type.types, 2), ws)

(* x |> f y is f (x, y). *)
PipeInto(x, f) ==
  [Expr(Joined(x, "OP_OR_GREATER", f), Use("OP_OR_GREATER"), NoValue,
        Sides(x, f) \cup If("pipe from a name", x.name # "")
          \cup If("pipe from a definition", x.defines)
          \cup If("pipe from a tuple or an array",
                  x.value.types # <<>> /\ x.value.types[1] \in {TUPLE, ARRAY}))
   EXCEPT !.piped = <<x.value, f>>]

Apply2(f, x) ==
  LET piped == f.piped # <<>>
      l     == f.piped[1]
      arg   == IF piped THEN IF l = NoValue \/ ~Has(x) THEN NoValue
                             ELSE Value(<<TUPLE>> \o l.types \o x.value.types \o <<END>>, l.words \o x.value.words)
               ELSE x.value
      g     == IF piped THEN f.piped[2] ELSE f
      value == Applied(g, arg)
      first == CHOOSE i \in Overloads(g) : \A j \in Overloads(g) : i <= j
  IN  Expr(Joined(f, "CALL", x), Use("CALL"), value,
           f.marks \cup OnRight(x)
             \cup If("no number", value = NoValue /\ Fitting(g, arg) # {})
             \cup If("pipe into an overload", piped /\ value # NoValue /\ first \notin Fitting(g, arg)))

MemberOf(e, name) ==
  Expr(Joined(e, "OP_DOT", name), Use("OP_DOT"), NoValue, Used(e) \cup {"member"})

Whole(e) == [e EXCEPT !.post = Append(@, Op("END", "NULLARY")), !.marks = Used(e)]

-----------------------------------------------------------------------------
Ended == status \notin {"analyzing", "evaluating", "running"}
Plain == program.value # NoValue /\ program.marks = {}

(* A program that meets none of the marked weaknesses gives the value of its
   tree, in type and bytes: names, overloads, tuples, arrays and pipes mean to
   block::add and to evaluate what they mean in the expression. *)
ValueOfTheTree == Ended /\ Plain => status = "done" /\ result = program.value

(* It leaves nothing behind but its frame and its value: all that block::add
   says an instruction takes and leaves is what evaluate takes and leaves.  So
   does a program that copies a definition's value from where the stack was
   before it grew: the value may be junk, but it has its place. *)
OnlyTheValueIsLeft ==
  status = "done" /\ Has(program) /\ program.marks \subseteq {"pipe from a definition"}
    => Len(mem) = blocks[1].frame + Len(result.words)

(* What is no program of sense ends with one of the errors the language has
   for it: "done" with no value of its tree, undefined behaviour, a loop without
   end and an internal error need a weakness that leads there. *)
Refusals == Errors \ {"internal"}

Fates(mark) ==
  CASE mark = "left name" -> {"done", "undefined"}
    [] mark = "no numbers of one type" -> {"done", "undefined", "internal"}
    [] mark = "pipe without a call" -> {"done"}
    [] mark = "length read as a type" -> {"undefined", "hangs", "internal"}
    [] mark \in {"member", "braces", "unary plus"} -> {"internal"}
    [] mark \in {"pipe from a name", "pipe from a tuple or an array", "array of a name",
                 "type without END", "no number"} -> {"undefined"}
    [] OTHER -> {}

RefusedInOrder ==
  Ended => \/ status = "done" /\ Has(program)
           \/ status \in Refusals \cup UNION {Fates(mark) : mark \in program.marks}
=============================================================================
