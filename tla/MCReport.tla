------------------------------ MODULE MCReport ------------------------------
(* Report for TLC: nested suites of equal names; a source file's test, and
   tests with markup, newlines and quotes in their names and outcomes; times
   whose sums round otherwise than they do. *)
EXTENDS ReadBack

Test(name, expected, actual, ticks) ==
  [name |-> name, expected |-> expected, actual |-> actual, time |-> ticks]

MCTests ==
  {Test(<<":", "f">>, <<"x">>, <<"x">>, 4),
   Test(<<"\n", "\"">>, <<"\n">>, <<"<", "\"">>, 1),
   Test(<<"f">>, <<>>, <<"&">>, 2),
   Test(<<"&">>, <<"x">>, <<"x">>, 0)}

MCSuiteNames == {<<"s">>}

MCCalls ==
  {Push("a"), Pop, SelfClosing, Call("set_self_closing", "false", <<>>),
   Attribute("k", <<"v", "\"">>), Attribute("k", <<"&">>),
   Call("add_text", "", <<" ", "t", "\n">>), Call("add_text", "", <<"<">>)}
=============================================================================
