------------------------------ MODULE Grammar ------------------------------
(***************************************************************************)
(* What the table of LangSpec means: the expressions of the language, each *)
(* with its tokens and with the reverse Polish notation of its tree.  It   *)
(* is the reference Parser is checked against; it does not look at a token *)
(* stream from left to right and has no stack.                             *)
(*                                                                         *)
(* An expression is a record: its tokens, the postfix order of its tree    *)
(* (each entry with its type, place and arity), and the use of the         *)
(* operator on top, Atom when there is none.                               *)
(***************************************************************************)
EXTENDS LangSpec, Sequences

Entry(type, ix, arity) == [type |-> type, ix |-> ix, arity |-> arity]

Moved(post, by) == [i \in 1..Len(post) |-> [post[i] EXCEPT !.ix = @ + by]]

Expr(toks, post, top) == [toks |-> toks, post |-> post, top |-> top]

Atom == Use(0, "NONE", "NULLARY")

Leaf == Expr(<<"NAME">>, <<Entry("NAME", 1, "NULLARY")>>, Atom)

(* ( e ) *)
Group(e) ==
  Expr(<<"LPAR">> \o e.toks \o <<"RPAR">>,
       <<Entry("LPAR", 1, "NULLARY")>> \o Moved(e.post, 1)
         \o <<Entry("RPAR", Len(e.toks) + 2, "NULLARY")>>,
       Atom)

(* l op r: each side has to bind tighter than op; the side op associates to
   may bind as tight, if its operator associates the same way.  (a := b = c,
   with one operator right and one not associative, means nothing.) *)
Beside(side, e, u) ==
  \/ e.top.prec < u.prec
  \/ e.top.prec = u.prec /\ e.top.assoc = side /\ u.assoc = side

Fits(l, u, r) == Beside("LEFT", l, u) /\ Beside("RIGHT", r, u)

Infix(l, op, r) ==
  LET n == Len(l.toks) IN
  Expr(l.toks \o <<op>> \o r.toks,
       l.post \o Moved(r.post, n + 1) \o <<Entry(op, n + 1, "BINARY")>>,
       TheUse(op, "BINARY"))

(* f x *)
Call(f, x) ==
  LET n == Len(f.toks) IN
  Expr(f.toks \o x.toks,
       f.post \o Moved(x.post, n) \o <<Entry("CALL", n + 1, "BINARY")>>,
       TheUse("CALL", "BINARY"))

(* op e, for a prefix operator: e may start with a prefix operator too. *)
Prefix(op, e) ==
  Expr(<<op>> \o e.toks, Moved(e.post, 1) \o <<Entry(op, 1, "LUNARY")>>,
       TheUse(op, "LUNARY"))

(* e op, for a postfix operator. *)
Postfix(e, op) ==
  LET n == Len(e.toks) IN
  Expr(e.toks \o <<op>>, e.post \o <<Entry(op, n + 1, "RUNARY")>>,
       TheUse(op, "RUNARY"))

(* s ; e *)
Then(s, e) ==
  LET n == Len(s.toks) IN
  Expr(s.toks \o <<"OP_SEMICOLON">> \o e.toks,
       s.post \o <<Entry("OP_SEMICOLON", n + 1, "RUNARY")>> \o Moved(e.post, n + 1),
       TheUse("OP_SEMICOLON", "RUNARY"))

(* The expressions one operator larger, made of those in L and R. *)
Infixes(L, ops, R) ==
  {Infix(t[1], t[2], t[3]) : t \in
     {x \in L \X ops \X R : Fits(x[1], TheUse(x[2], "BINARY"), x[3])}}

CallsOf(L, R) ==
  {Call(t[1], t[2]) : t \in {x \in L \X R : Beside("LEFT", x[1], TheUse("CALL", "BINARY")) /\ x[2].top = Atom}}

Prefixes(ops, E) ==
  {Prefix(t[1], t[2]) : t \in
     {x \in ops \X E : x[2].top.prec <= TheUse(x[1], "LUNARY").prec}}

Postfixes(E, ops) ==
  {Postfix(t[1], t[2]) : t \in
     {x \in E \X ops : x[1].top.prec <= TheUse(x[2], "RUNARY").prec}}

Parentheses(E) == {Group(e) : e \in E}

Thens(E) == {Then(t[1], t[2]) : t \in E \X E}

Larger(binary, unary, E) ==
  Infixes(E, binary, E) \cup CallsOf(E, E) \cup Prefixes(unary, E) \cup Parentheses(E) \cup Thens(E)

(* Those whose trees are at most depth operators high. *)
Expressions(binary, unary, depth) ==
  LET level[n \in 0..depth] ==
        IF n = 0 THEN {Leaf} ELSE level[n - 1] \cup Larger(binary, unary, level[n - 1])
  IN level[depth]
=============================================================================
