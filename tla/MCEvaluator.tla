---------------------------- MODULE MCEvaluator ----------------------------
(* Analyzer and Evaluator for TLC: all expressions of two operators over a few
   atoms, and chains of pipes and long arrays. *)
EXTENDS Meaning

Ints  == {Num32(2), Num32(3)}
Atoms == Ints \cup {Num64(2), Ident("pow"), Ident("abs"), Ident("the_answer"), Ident("a")}
Args  == {Grouped(List(x, y)) : x \in Ints, y \in Ints \cup {Num64(2)}} \cup {Grouped(List(Num64(2), Num64(2)))}

Fits(l, op, r) == G!Fits(l, Use(op), r)

Pairs(L, R) ==
  LET P(op) == {p \in L \X R : Fits(p[1], op, p[2])} IN
  UNION {{Arith(p[1], op, p[2]) : p \in P(op)} : op \in {"OP_PLUS", "OP_MINUS", "OP_STAR"}}
    \cup {List(p[1], p[2]) : p \in P("OP_COMMA")}
    \cup {PipeInto(p[1], p[2]) : p \in P("OP_OR_GREATER")}
    \cup {Apply2(p[1], p[2]) : p \in {q \in P("CALL") : q[2].top = G!Atom}}

Singles(E) ==
  {Grouped(e) : e \in E} \cup {Array(e) : e \in E} \cup {Braced(e) : e \in E}
    \cup {Definition("a", e) : e \in {x \in E : x.top.prec <= 17}}
    \cup {Minus1(e) : e \in {x \in E : x.top.prec <= 3}}
    \cup {Plus1(e) : e \in {x \in E : x.top.prec <= 3}}
    \cup {MemberOf(Grouped(e), Ident("_1")) : e \in E}

E1 == Atoms \cup Args \cup Pairs(Atoms, Atoms \cup Args) \cup Singles(Atoms)
E2 == E1 \cup Singles(E1) \cup Pairs(E1, {Num32(3)}) \cup Pairs({Num32(2)}, E1)

(* A chain of pipes, as the tests have them. *)
Chain(x, f, y, g, z) == Apply2(PipeInto(Apply2(PipeInto(x, f), y), g), z)
Functions2 == {Ident("pow"), Ident("div")}
Chains == {Chain(x, f, y, g, z) : x \in Ints, f \in Functions2, y \in Ints, g \in Functions2, z \in {Num32(0), Num32(2)}}

(* The value of a definition, piped: it is copied with room below it. *)
PipedDefinitions ==
  {Apply2(PipeInto(Grouped(Definition("a", x)), f), y) :
     x \in {Num32(2), Num64(2)}, f \in Functions2, y \in {Num32(3), Num64(3)}}

(* Arrays of n numbers, alone, as one of two elements, and as both. *)
Longs == LET row[n \in 1..21] == IF n = 1 THEN Num32(1) ELSE List(row[n - 1], Num32(1))
         IN  {Array(row[n]) : n \in {2, 14, 15, 16, 17, 20, 21}}
Nested == Longs \cup {Grouped(List(a, Num32(2))) : a \in Longs} \cup {Array(List(a, a)) : a \in Longs}
            \cup {Array(a) : a \in Longs}
            \cup {Array(List(Grouped(List(Num64(1), Num32(2))), Grouped(List(Num64(3), x)))) : x \in {Num32(4), Num64(4)}}

(* A value that is read under its new name. *)
Reads == {List(Definition("a", x), v) : x \in Ints, v \in {Variable("a", Num32(2)), Minus1(Variable("a", Num32(2)))}}

(* Braces that nothing closes: the parser puts them out a second time. *)
Unended == {[e EXCEPT !.post = <<Op("LCURLY", "NULLARY")>> \o @ \o <<Op("LCURLY", "NULLARY")>>,
                      !.value = NoValue, !.marks = {"braces"}] : e \in Atoms}

(* An operator block::add has no case for. *)
Slashes == {Expr(Joined(x, "OP_SLASH", y), Use("OP_SLASH"), NoValue, {}) : x \in Ints, y \in Ints}

MCPrograms == {Whole(e) : e \in E2 \cup Chains \cup PipedDefinitions \cup Nested \cup Reads \cup Unended \cup Slashes}
=============================================================================
