------------------------------- MODULE Report -------------------------------
(***************************************************************************)
(* The test report: the tests of src/src/test/ enter their cases in a      *)
(* hill::utils::junit_session (src/src/utils/junit.hh), whose destructor   *)
(* writes all of it, one call of the XML writer after the other.           *)
(*                                                                         *)
(* A writer may have another caller than the session: `caller' is          *)
(* "session", or "any" for one that makes whatever calls it likes.         *)
(***************************************************************************)
EXTENDS XmlWriter, FiniteSetsExt

CONSTANTS
  Tests,       \* [name, expected, actual, time]: tests that may be run
  SuiteNames,
  Calls,       \* what a caller of the writer may call
  MaxSuites, MaxCases, MaxCalls   \* bounds

VARIABLES caller,
          test_suites,   \* [name, of]: all suites, each of a suite before it, or of the session (0)
          test_cases,    \* [name, of, time, failure]: all cases, in the order of their vectors
          ok,            \* the tests' verdict, main's exit status
          unread,        \* the sources that get_src found empty or could not read
          refused,       \* main knows no tests of the name it was given
          phase,         \* "tests", "report", "ended"
          calls,         \* the calls the destructor has left to make
          made           \* the calls that any other caller has made

report == <<caller, test_suites, test_cases, ok, unread, refused, phase>>
vars   == <<writer, report, calls, made>>

NONE == <<>>   \* junit_test_failure_type::NONE

(* string.hh's function, which the console and the messages go through. *)
escape_string(s) ==
  [i \in DOMAIN s |-> CASE s[i] = "\"" -> "\\\"" [] s[i] = "\n" -> "\\n" [] OTHER -> s[i]]

Failure(expected, actual) ==
  IF expected = actual THEN NONE
  ELSE <<"Expected: ">> \o escape_string(expected) \o <<" - Actual: ">> \o escape_string(actual)

(* A name that begins with a colon is a file's. *)
TestName(name) == IF name # <<>> /\ Head(name) = ":" THEN Tail(name) ELSE name

-----------------------------------------------------------------------------
(* junit_session::add_suite and junit_test_suite::add_suite. *)
add_suite(of, name) ==
  /\ phase = "tests" /\ Len(test_suites) < MaxSuites
  /\ test_suites' = Append(test_suites, [name |-> name, of |-> of])
  /\ UNCHANGED <<caller, test_cases, ok, unread, refused, phase, calls, made, writer>>

(* support.hh's test. *)
test(of, t) ==
  /\ phase = "tests" /\ Len(test_cases) < MaxCases
  /\ test_cases' = Append(test_cases, [name |-> TestName(t.name), of |-> of, time |-> t.time,
                                       failure |-> Failure(t.expected, t.actual)])
  /\ ok' = (ok /\ t.expected = t.actual)
  /\ UNCHANGED <<caller, test_suites, unread, refused, phase, calls, made, writer>>

(* The loops of the tests pass over a source they cannot read: no case. *)
SkipTest ==
  /\ phase = "tests" /\ unread = 0
  /\ ok' = FALSE /\ unread' = unread + 1
  /\ UNCHANGED <<caller, test_suites, test_cases, refused, phase, calls, made, writer>>

-----------------------------------------------------------------------------
(* The sums.  Suite 0 is the session, whose own case there is none. *)
SuitesOf(s) == SelectSeq([i \in DOMAIN test_suites |-> i], LAMBDA i : test_suites[i].of = s)
CasesOf(s)  == SelectSeq([i \in DOMAIN test_cases |-> i], LAMBDA i : test_cases[i].of = s)

(* Mutant: a suite counts its own cases alone. *)
Total_flat(own) == own

(* From what each suite has of its own to what it has with all that it holds. *)
Total(own) ==
  LET total[s \in 0..Len(test_suites)] ==
        own[s] + MapThenSumSet(LAMBDA i : total[i], ToSet(SuitesOf(s)))
  IN  total

Own(s, n) == MapThenSumSet(LAMBDA c : n[c], ToSet(CasesOf(s)))

test_count      == Total([s \in 0..Len(test_suites) |-> Len(CasesOf(s))])
assertion_count == Total([s \in 0..Len(test_suites) |-> Own(s, [c \in DOMAIN test_cases |-> 1])])
failed_count    == Total([s \in 0..Len(test_suites) |->
                            Own(s, [c \in DOMAIN test_cases |-> IF test_cases[c].failure = NONE THEN 0 ELSE 1])])
time            == Total([s \in 0..Len(test_suites) |-> Own(s, [c \in DOMAIN test_cases |-> test_cases[c].time])])

-----------------------------------------------------------------------------
(* The destructor's calls. *)
Push(tag)            == Call("push_section", tag, <<>>)
Pop                  == Call("pop_section", "", <<>>)
SelfClosing          == Call("set_self_closing", "true", <<>>)
Attribute(key, text) == Call("set_attribute", key, text)

to_string(n) == <<ToString(n)>>

(* Times are counted in Ticks to a microsecond, the last decimal that to_string
   gives a double: it rounds.  An odd number, so that none is half way. *)
Ticks == 3
to_string_double(t) == to_string((2 * t + Ticks) \div (2 * Ticks))

Summary(tag, name, s) ==
  <<Push(tag),
    Attribute("name", name),
    Attribute("tests", to_string(test_count[s])),
    Attribute("assertions", to_string(assertion_count[s])),
    Attribute("failures", to_string(failed_count[s])),
    Attribute("errors", <<"0">>),
    Attribute("skipped", <<"0">>),
    Attribute("time", to_string_double(time[s])),
    Attribute("timestamp", <<"some time">>)>>

WriteFailure(case) ==
  IF case.failure = NONE THEN <<SelfClosing>>
  ELSE <<Push("failure"),
         Attribute("message", case.failure),
         Attribute("type", <<"AssertionError">>),
         SelfClosing,
         Pop>>

write_case(case) ==
  <<Push("testcase"),
    Attribute("name", case.name),
    Attribute("classname", test_suites[case.of].name),
    Attribute("time", to_string_double(case.time)),
    Attribute("assertions", <<"1">>)>>
  \o WriteFailure(case) \o <<Pop>>

(* write and write_suite: the suites inside come before the cases. *)
write ==
  LET write_suite[s \in 0..Len(test_suites)] ==
        (IF s = 0 THEN Summary("testsuites", <<"session">>, 0)
                  ELSE Summary("testsuite", test_suites[s].name, s))
        \o FlattenSeq([i \in DOMAIN SuitesOf(s) |-> write_suite[SuitesOf(s)[i]]])
        \o FlattenSeq([i \in DOMAIN CasesOf(s) |-> write_case(test_cases[CasesOf(s)[i]])])
        \o <<Pop>>
  IN  write_suite[0]

(* The session goes out of scope. *)
EndOfSession ==
  /\ phase = "tests" /\ caller = "session"
  /\ phase' = "report" /\ calls' = write
  /\ UNCHANGED <<caller, test_suites, test_cases, ok, unread, refused, made, writer>>

(* main does not know the tests it is asked for: the usage, a failure and, as the
   session goes out of scope here too, a report of no tests. *)
UnknownTests ==
  /\ phase = "tests" /\ caller = "session"
  /\ test_suites = <<>> /\ unread = 0
  /\ ok' = FALSE /\ refused' = TRUE
  /\ phase' = "report" /\ calls' = write
  /\ UNCHANGED <<caller, test_suites, test_cases, unread, made, writer>>

Write ==
  /\ phase = "report" /\ calls # <<>>
  /\ Perform(Head(calls))
  /\ calls' = Tail(calls)
  /\ UNCHANGED <<report, made>>

(* Any caller's call of the writer. *)
Use ==
  /\ phase = "report" /\ caller = "any" /\ Len(made) < MaxCalls
  /\ \E call \in Calls : Perform(call) /\ made' = Append(made, call)
  /\ UNCHANGED <<report, calls>>

(* The writer goes with its last owner. *)
Close ==
  /\ phase = "report" /\ calls = <<>>
  /\ close
  /\ phase' = "ended"
  /\ UNCHANGED <<caller, test_suites, test_cases, ok, unread, refused, calls, made>>

Init ==
  /\ XmlWriterInit
  /\ caller \in {"session", "any"}
  /\ phase = (IF caller = "session" THEN "tests" ELSE "report")
  /\ test_suites = <<>> /\ test_cases = <<>> /\ ok = TRUE /\ unread = 0 /\ refused = FALSE
  /\ calls = <<>> /\ made = <<>>

Next ==
  \/ \E of \in 0..Len(test_suites), name \in SuiteNames : add_suite(of, name)
  \/ \E of \in DOMAIN test_suites, t \in Tests : test(of, t)
  \/ SkipTest \/ UnknownTests \/ EndOfSession \/ Write \/ Use \/ Close

Spec == Init /\ [][Next]_vars
=============================================================================
