# TLA+ models of Hill

This directory holds TLA+ specifications of [Hill](../src/README.md), a small
programming language with an interpreter, a language server and a formatter, written
in C++. The specifications are translated from the code under `src/src`; every
definition is listed with the lines it stands for in `PROJECT.json` ("map").

Contents: [the system](#the-system) · [the modules](#the-modules) ·
[what the runs check](#what-the-runs-check) · [what is proved](#what-is-proved) ·
[disagreements](#disagreements-between-the-code-and-its-words) ·
[what is not modelled](#what-is-not-modelled) · [plan](#plan)

## The system

One program, `hill`, with sub-commands (`main.cc`): `fmt` runs the formatter, `lsp`
the language server, `test` the unit tests; `run` and `repl` are still to be written.

| component | state it keeps | operations | it is correct if |
|---|---|---|---|
| **thread pool** `utils/thread_pool.hh` | threads, queue of jobs, stop flag; a mutex and a condition variable | `start`, `queue_job`, `stop`, `join`; `thread_loop` in each thread | no job is lost, reordered or run twice; no wake-up is lost; `stop` and `join` end; after `join` no job runs |
| **language server** `lsp/server.hh`, `request_handler.hh`, `router.hh`, `server_state.hh`, `document_store.hh`, `methods/*` | `running`, `initialized`, the ids of requests in flight and of cancelled ones, the documents; a mutex each | the main thread reads messages and queues a job for each; a job handles its message and may write a response | every request gets one answer, a cancellation hits its own request only, nothing is left behind, stopping drops nothing that was answered for, documents are what the client last sent |
| **listener** `lsp/listener.hh` | the position in the byte stream on stdin | `next`: headers, body, JSON | it gives the messages that were sent, and after a broken frame finds the next whole one |
| **protocol types** `lsp/models.hh` | structs | `from_json`, `json` of each | a method gets what the client meant or is told that there is nothing; a result is on stdout whole |
| **formatter** `fmt/formatter.hh`, `main.cc` | files on disk, the pool | walk arguments and directories, queue a job per file; the destructor stops and joins | no file is lost, every file is formatted, the command ends |
| **token table** `lang_spec.hh`, `token.hh` | constant | kind, precedence, associativity, arity of each token type | - |
| **lexer** `lexer.hh` | position in the text, line and column | `get_token` | tokens are the text, cut into the longest lexemes, with their places |
| **parser** `parser.hh` | operator stack, output, previous token | `parse`, `parse_token` | the output is the postfix order of the tree that the table defines |
| **analyzer** `analyzer.hh`, `block.hh`, `type.hh`, `val_ref.hh`, `instr.hh` | type stack, scope, instructions | `block::add`, one token of the output at a time | names are resolved, types match, one instruction per operator |
| **evaluator** `evaluator.hh` | a byte stack | runs the instructions | the stack is balanced, the value has its type |
| **JSON** `utils/json.hh`, `utils/json_parser.hh` | values | parse, stringify | what is written can be read back |
| **XML/JUnit report** `utils/xml_writer.hh`, `utils/junit.hh`, `test/support.hh` | open sections; suites and cases | push, pop, set, close; add a suite, run a test, write the session | the document read back is what was built; the report says what was run |
| **logger**, string/console/timer helpers, **LLVM** stub, tests | - | - | - |

How they interact. The language server and the formatter each own a thread pool and
hand it closures; the closures share the `server_state` singleton, stdout (under a
mutex) and the file system. The main thread of the server talks to its workers only
through the queue and the atomic `running`; workers never queue jobs. Lexer, parser,
analyzer and evaluator are a sequential pipeline: what one of them gets wrong, the next
takes for granted - the evaluator's stack holds bytes without types, and only the
analyzer's instructions say what they mean. The tests enter their results in a session
whose destructor calls the XML writer.

What is hard: the pool releases its mutex before it notifies; messages that the
client sent in one order are handled by several threads; a cancellation races with
its request at five places; the pool is stopped while jobs are queued; files are
truncated and rewritten in place; and the parser chooses between the uses of an
operator by its neighbours while it inserts calls that have no token. Types are flat
vectors walked by counting; definitions, pipes and calls patch instructions that were
emitted earlier; a broken frame leaves its body in the stream; `from_json` functions
check most fields but not all; the report is written by a destructor. `PROJECT.json`
("hazards") lists these and others at their lines.

## The modules

    JobPool                what the pool promises                (abstract)
      JobPool_proofs       theorems, and a lemma for each step
      ^ refines
    ThreadPool             mutex, condition variable, threads    (detailed)
      MCThreadPool         instance for TLC
      ThreadPool_proofs    theorems
    LspServer              main loop, workers, client;    Pool == INSTANCE JobPool
      MCLspServer
      LspServer_proofs     theorems;                      Queue == INSTANCE JobPool_proofs
    Formatter              walk, workers, files;          Pool == INSTANCE JobPool
      MCFormatter
      Formatter_proofs     theorems;                      Queue == INSTANCE JobPool_proofs
    LangSpec               the table of token types
      Parser               the shunting yard
      Grammar              what the table means           (reference)
        Syntax             Parser against Grammar
          MCParser
          Parser_proofs    theorems
    Types                  type vectors: inner_type, type_size, matches, build_tuple
      Analyzer             block::add, scopes, instructions
        Evaluator          the stack machine
          Evaluator_proofs theorems
          Meaning          what a program's tree means     (reference; G == INSTANCE Grammar)
            MCEvaluator    Analyzer and Evaluator against Meaning
    Lexer                  get_token
      MCLexer
      Lexer_proofs         theorems
    Extrema                least and greatest of finite sets, recursive functions: for the proofs of five of them
    Json                   json_parser and stringify
      Protocol             the structs, from_json, json()
        Wire               listener, methods' params, results
          Client           JSON's texts, what arrives       (reference)
            MCWire
    XmlWriter              the writer's operations
      Report               suites, cases, the session's calls of the writer
        ReadBack           what a reader of XML sees        (reference)
          MCReport

**JobPool** is a queue of numbered jobs, a set of workers and a flag: `Submit`, `Open`,
`Enrol`, `Begin`, `End`, `Close`, `Dissolve`. A closed pool begins no job. LspServer and
Formatter take their pool steps from it (`Pool!Submit` and so on) and add what their
jobs do, so that their models stay small and rest on what ThreadPool is shown to keep.

**ThreadPool** has the critical sections of `thread_pool.hh` as its steps. The notify
calls come after the mutex is released and are steps of their own (`NotifyOne`,
`NotifyAll`), the condition variable is the set of workers whose `pc` is `"waiting"`,
waking up means going back for the mutex, and a worker may wake up for no reason.
`Exit`, `Take` and `Wait` are the three ways through `wait` with its predicate and the
test of `should_terminate` after it. The owner calls the operations in any order,
restarts included; `start` of a running pool and `join` of an unstopped one return
`false` and change nothing, so they are no steps.

**LspServer** has the main thread (`main`: `check` the flag, `recv` in `listener::next`,
`join`, `stopped`), and for each worker the place in `request_handler::handle` (`at`):
`OnRecv`, `NoRoute`, `Call`, `CheckCancelled`, `Write`, `OnComplete` for a request, one
step for a notification, whose effect is a single critical section. Messages are
records with what the handler looks at: kind, id, method, target of a cancellation,
document and text. `WireNumber` is how a number comes out of `stringify`. `raced` is a
history variable: two document notifications were handled at once.

**Formatter** has the main thread's walk (`walk`: for each directory being iterated the
entries that are left, in any order) and for every thread, main included, the steps of
`format(path)`: read all, truncate, write. A file's text is `whole` or a `prefix`. The
throwing overloads of `std::filesystem` may throw wherever they are called: `Throw` in the
main thread, where nobody catches it and the process is terminated with its workers where they
are, `GiveUp` in a worker, where the pool swallows it (a file that is gone by then is given up
in the same way). `Write` may fall short, which the code does not notice.
History variables: `collided`, the files two threads were at at the same time, `torn`, those a
write of which fell short, `missed`, those given up.

**Parser** takes one step per iteration of `parse`, with the `CALL` it inserts.
`status = "undefined"` is `op_stack.pop()` of an empty stack, `"error"` is
`error_token`, which exits. **Grammar** builds expressions bottom up, each with its
tokens and its postfix order, from precedences and associativities alone; it has no
stack and does not look at neighbours. **Syntax** has the two side by side: `Sentences` are
the grammar's expressions with the operators `Binary` and `Unary`, at most `Depth` operators
high, and `FollowsTheTable` says that `parse` puts out their trees.

**Types** has the functions of `type.hh` over vectors of basic types, outcomes included
that no value has: an internal error, a loop without end, undefined behaviour. A basic
type is its number in the enumeration, because an array's length is stored among them.
**Analyzer** is `block::add`: one step per token of the parser's output, with the type
stack (`ts`), the scopes and the instructions of each block; `Need` is what every access
to the type stack does when there is too little on it. **Evaluator** runs the main
block's instructions over a stack of words (4 bytes each); a word says what was written
there, so that reading it as something else gives junk. Memory below or above the stack
is `Broken`. **Meaning** evaluates the same programs by their trees, and marks those that
meet a weakness the code is known to have (see below).

**Lexer** takes one token per step: each kind is an action with the end of its lexeme,
as `get_token`'s loops find it, `LineAfter` and `ColumnAfter` are what `get` counts.

**Json** runs the recursive descent as one symbol per step of a fold, with the place in
the document instead of a call stack. **Protocol** is a table: for each struct its fields
in the order of `from_json`, and whether they are required, optional or taken unasked
(`*obj_get` without `obj_has`). **Wire** reads frames line by line, parses bodies, lets
the method read its params, and writes results. **Client** says what the client meant,
by counting what a broken frame leaves unread, not by reading it.

**XmlWriter** has the operations on the stack of sections; a start tag is written late.
**Report** lets tests run in any order in nested suites, computes the sums, and makes the
calls the destructor makes one by one; a time is a number of ticks, finer than what
`std::to_string` prints, and is rounded where it is printed, after the sum. `UnknownTests` is the
way out of `main` for a name of no tests, past every test but not past the destructor. In half its initial states the writer has another
caller, who may call anything. **ReadBack** reads the lines as an XML reader does and
builds the elements the calls stand for.

## What the runs check

| run | instance | shows |
|---|---|---|
| `thread_pool` | 3 workers, 4 jobs, 3 929 states | the pool's invariants, `QueuedJobsRun`, `JoinReturns`, and that it implements JobPool: its steps (`KeepsPromise`) and its fairness (`KeepsFairness`) |
| `lsp_live` | every kind of message, 3 messages, 2 workers, about 144 000 states | `RequestsAnswered`, `StopsAtNextMessage` |
| `lsp_safety` | 4 messages of the kinds that interfere, 2 workers, about 812 000 states | `OneAnswerEach`, `InFlightExact`, `CancelledByClient`, `DrainedAtStop`, `DocsFollowTheClient` |
| `lsp_exit` | 2 messages | violated, see below |
| `formatter` | 6 arguments, two directories, 5 files, 2 workers, exceptions and short writes anywhere, about 458 000 states | `NoTextLost`, `OnlyTheTailIsSkipped`, `Ends` |
| `formatter_all` | the same | violated, see below |
| `parser` | about 8 000 inputs, 26 700 states | `StackSorted`, `NothingLost`, `UndefinedOnlyUnmatched`, `FollowsTheTable` |
| `parser_increments` | about 2 200 inputs | violated, see below |
| `evaluator` | expressions of up to two operators over 7 atoms, chains of two pipes, arrays of 2 to 21 elements; about 90 000 states | `ValueOfTheTree`, `OnlyTheValueIsLeft`, `RefusedInOrder` |
| `lexer` | 16 characters of each kind, all streams of 3; up to 6 of what comments are made of; about 60 000 states | `LongestLexemes`, `PositionsPoint` |
| `wire` | three frames, two of them broken in 9 ways; 37 types with each optional field left out, damaged at each place, written; about 10 000 states | `DeliveredAsSent`, `UnderstoodAsMeant`, `AnswersSayAll` |
| `report` | 3 suites, 2 cases, 4 tests; 5 calls of 8; about 204 000 states | `AsBuilt`, `ReportSaysAll` |

Every property of a passing run has a mutant (a variant of an action, marked "Mutant"
in its module) under which TLC finds it violated.

**Bounds.** *Pool:* three workers are two to race for a job and one asleep; four jobs
are one more than workers, so that the queue grows while all run, and jobs are left
over when the pool is stopped and started again. *Server:* two workers are enough for
every race of two handlers, and a request with its cancellation, another request and
an exit make four messages. `MaxUnread = 1` keeps one message in the pipe: the main
thread is the only reader, so more of them only delay sending. The greatest id is 999 999, the
last one that the server writes exactly (see `OneAnswerEach` below). *Formatter:* files that cannot be read, that
cannot be written, of another kind, and reached by name and through a directory or through
two; `MaxFound = 4` is the number of files the walk finds, so that the bound never holds back
a step.
*Parser:* three operators are the fewest in which an operator pops two others or stops
in the middle of the stack; the operators cover each arity, each associativity and the
precedences 2, 3, 4, 6, 9, 17 and 18. Short streams of any tokens cover the errors.
*Evaluator:* two operators are the fewest in which one's result is another's operand,
and a second pipe is the first that finds a patched instruction; the array lengths
are those around the numbers of FUNC, ARRAY, TUPLE and END. `MaxNumber = 40000` keeps
results in 32 bits; above it the model has junk, and the properties say nothing.
*Lexer:* three characters reach every change from one kind to another; a comment needs
four to begin and end, an operator with `=` up to four. *Wire:*
`MAX_HTTP_HEADER_LENGTH = 9` (512 in the code) because a symbol stands for a word or a
line: unread bodies are longer than it, and one of them is a multiple of it. Two broken
frames are the fewest in which one meets what another left. *Report:* three suites are
two levels of nesting or two neighbours; five calls are a section, one inside, and three
changes. `MaxCalls` bounds the writer's other caller, `MaxSuites` and `MaxCases` the tests.
`Ticks = 3` of the clock's ticks (1000 in the code) make a microsecond, the last decimal that is
printed: an odd number, so that no time is half way, and more than one, so that times are rounded
both up and down.

**Fairness.** The scheduler runs every thread: a worker that wants the mutex gets it, a
handler or a file's formatting goes on, the main thread goes on, a job returns. It is
weak fairness of each thread, no more. Nothing makes the client send a message, the
owner of the pool call `stop`, or a sleeping worker wake up by itself. LspServer and
Formatter assume that an open pool with an idle worker hands over a queued job; this
is `JobPool!Fairness`, and `KeepsFairness` shows that the pool provides it however its
wake-ups fall, from the fairness of its threads alone.

**Deadlock** is checked for the pool, which can always be called again. It is not for
the others, which are meant to stop: the server stops or its client falls silent, the
formatter's process ends, the parser is done, the program has its value, the text is
read, the stream is at its end, the report is written.

**Conditions in properties.** `DocsFollowTheClient` excludes runs in which two document
notifications were handled at once: there the code does lose the order. `NoTextLost`
excludes a file at which two threads met if the command line leads to it twice, one whose own
write fell short, and one that cannot be read: these the code does lose; it is about the others, in the same runs. A
terminated process may leave a file cut short that one of its threads was writing, and
`OnlyTheTailIsSkipped` excuses a file that was given up. Nothing is said of the arguments
behind one at which the main thread was terminated: they are left out. `OneAnswerEach` asks for the
same id for ids below a million only. `RequestsAnswered` excludes requests without a
route, which the code does not answer, and a server that is told to exit.

**Weaknesses the properties step around.** Where the code is known to fall short, a
property says exactly where, and the run has those cases too:

- `ValueOfTheTree` and `OnlyTheValueIsLeft` leave out programs with a mark
  of Meaning: a name as the left operand of `+ - * ,` (never resolved, `block.hh:184`);
  operands that are no numbers of one type; a pipe from a name (`instrs[SIZE_MAX]`) or
  from a tuple or an array (moves the function below the stack); a pipe from a definition
  (its value is copied from where the stack may have been before it grew, `evaluator.hh:151`;
  `OnlyTheValueIsLeft` is about those as well); a pipe that no call follows (its argument passes
  for a value: `2 |> pow` is 2); a pipe into an overload
  that is not the first; `[name]`; `[(1,2)]`, which is flattened; an array whose length
  is the number of a composite type; the types of `pow` and `div`, which lack an END;
  `:=` with anything but a literal, or on the right of an operator, and reading a variable, for which nothing is
  pushed; unary plus; braces; members, which the evaluator does not implement; a
  division by zero and a power out of range.
- `RefusedInOrder` is about all programs. Without a mark, one that has no value ends with an
  error of the language: a call of what is no function or has no overload for
  its argument, an array of two types, a name nobody defined, an operator without a case. `Fates`
  says for each mark what else it may lead to, and most of them lead to one thing
  only.
- `LongestLexemes`: a STRING is its quote (`lexer.hh:82` reads the opening quote again), `|`
  and `:` alone are taken for `|>` and `:=`, an open comment runs to the end, and a
  character no operator begins with ends the stream.
- `DeliveredAsSent`: what is lost after a frame that is given up, a length that is no
  number, bodies with exponents or `\u` escapes.
- `UnderstoodAsMeant`: a range's end, `hover_params`, a formatting request's token and
  numbers out of range are taken unasked; a document that is no object throws.
- `AnswersSayAll`: control characters and numbers of more than six digits; a
  `change_annotation` with one of its two optional fields; a diagnostic's location.
- `AsBuilt` and `ReportSaysAll`: `&` (`string.hh:36`), and uses of the writer listed there. The
  times of a suite's cases add up to its own only as far as the rounding of each lets them
  (half of the last digit each). The exit status follows the failures of the report except where
  a test's file could not be read or the name of the tests is unknown: those fail
  without a trace in the report.

## What is proved

`ThreadPool_proofs.tla` proves, for any finite set of workers (the empty set included)
and any bound on the number of jobs:

| theorem | statement |
|---|---|
| `TypeCorrect` | `Spec => []TypeOK` |
| `FirstInFirstOut` | `Spec => []Fifo` |
| `EachJobOnce` | `Spec => []OneWorkerPerJob` |
| `NoLostWakeup` | `Spec => []AwakeForEveryJob` |
| `StopWakesAll` | `Spec => []NobodySleepsAfterStop` |
| `JoinWaitsForJobs` | `Spec => []JoinedMeansQuiet` |
| `StopIsFinal` | `Spec => NothingBegunWhileStopped` |
| `Implements` | `Spec => KeepsPromise`, the safety part of the refinement |

They rest on `WorkersAssumption` (finitely many workers) and `MaxJobsAssumption` only.

The invariant is `IInv`. Most of its parts are not inductive alone. `AwakeForEveryJob`
counts: with a worker asleep in an open pool there are at least as many workers on
their way to the mutex as there are jobs, the one about to be announced not counted.
Taking a job removes one of each, `notify_one` turns a sleeper into one on its way, and
a worker falls asleep only when the queue is empty. For it to survive `start` and `join`
one has to know that nobody sleeps in a stopped pool (`NobodySleepsAfterStop`), that
threads are created in an open pool and joined in a stopped one (`OwnerConsistent`),
and that a worker has a thread exactly while it is not `"off"` (`WorkersConsistent`).
`OneWorkerPerJob` needs that job numbers in hand are among those begun
(`BegunAccounted`) and that the front of the queue is the number after them (`Fifo`).
`JoinedMeansQuiet` is not in `IInv`; it follows from it. The refinement maps every
variable to itself and shows, action by action, a step of JobPool or a stutter; `Join`
returning is `Dissolve`, for which the workers have to be idle.

`JobPool_proofs.tla` proves `PoolKeepsOrder`, `SafeSpec => []PoolInv`, for any set of workers:
the jobs begun, followed by those queued, are the numbers of all jobs in order
(`InOrder`), and no two workers are in the same job (`OneWorkerEach`). There is a lemma for
each of JobPool's steps (`PoolSubmit`, `PoolBegin`, ...), which says nothing of what else a
step does. LspServer and Formatter take their pool steps from JobPool; their proofs
take these lemmas from JobPool_proofs by INSTANCE in the same way.

`LspServer_proofs.tla` proves, for any set of well-formed messages, any number of them,
any documents and any workers:

| theorem | statement |
|---|---|
| `ServerTypes` | `Spec => []TypeOK` |
| `EveryRequestAnsweredOnce` | `Spec => []OneAnswerEach` |
| `NothingLeftInFlight` | `Spec => []InFlightExact` |
| `OnlyTheClientCancels` | `Spec => []CancelledByClient` |
| `NothingBeforeExitIsLost` | `Spec => []DrainedAtStop` |
| `DocumentsFollow` | `Spec => []DocsFollowTheClient` |

They rest on `MaxMessagesAssumption` and `MessagesAssumption`: a message has a kind, an id
that fits into an `int`, and the members its method needs. The invariant `IInv`
(`ServerInv`) has seven parts, of which TLC checked the conjunction on the instance of
`lsp_safety` and, with three messages, on the vocabulary of `lsp_live`:

- `TypeInv`: `TypeOK`, the pool's `PoolInv`, `MainInv` (what `main` says of the pool: all workers
  enrolled before it stops, none after) and `AtWork` (a worker is past `on_recv` only with a
  request, and past the router only with a route). It carries all others.
- `ClientInv` is about the client alone: no id is used twice, and what is cancelled was
  sent before. It speaks of what was sent, read or not (`Sent`), because `Recv` moves a
  message between the two.
- `AnswersInv` ties each response to its job: one for a job that is done or at
  `on_complete`, none for any other. `OneAnswerEach` follows with `ShortIdKept`, which
  needs the arithmetic of `WireNumber`: a number of at most six digits leaves unrounded,
  and any `int` leaves as a number (`WireNumberType`).
- `FlightInv` is `InFlightExact` one id at a time. That an id leaves the set only when its
  own request is complete needs `ClientInv`: with two requests of one id it is false.
- `CancelInv`: an id that is marked, or whose worker goes on to the error response, was
  cancelled by a job that is done. The cancellation came later than the request
  because of `ClientInv`.
- `ExitInv`: only an exit stops the loop. With the order of the pool (what is done was begun,
  and what was begun is all that is before the end of the queue) and `MainInv` (nobody has a
  job after `join`) this is `DrainedAtStop`.
- `DocsInv`: without a race, a worker at a document has the last document notification that
  was begun, and a document nobody is at holds its last text. The property says
  this only for states in which no worker is at any document, which is not inductive.

Each part has a lemma for its initial state, one for a step (`TypeStep`, `FlightStep`, ...), which
rests on lemmas for the actions that disturb it (`FlightRecv`, `AnswersWrite`, ...), and one that
the property follows from it (`FlightSuffices`);
`ServerStep` puts them together.

`Lexer_proofs.tla` proves, for any set of streams:

| theorem | statement |
|---|---|
| `TypeCorrect` | `Spec => []TypeOK` |
| `NothingBetweenTokens` | `Spec => []Consecutive`: no character is lost or read twice |
| `PositionsCorrect` | `Spec => []PositionsPoint` |
| `TokensAreLongest` | `Spec => []LongestLexemes` |

They rest on `TextsAssumption` (streams are sequences of strings) only. The invariant,
`IInv` of that module, adds where `get` stands to what the tokens say: `pos` is where the
last token ended, and `lix` and `cix` are the line and column of `pos` (`CountsExact`).
The column is only exact before the end of the stream, since a read that meets the end
counts a column too many; no token starts there, so no token shows it. `ReadKeeps` shows
that any read of a token that ends behind its beginning keeps the invariant, by splitting
the newlines before the new place into those before the old one and those read; the
actions then only have to show where their tokens end (`RunEndBounds`,
`CommentEndBounds`, `OperatorEndBounds`) and that an operator that was begun is one of
the table (`OperatorTypeKnown`). `LeastPlace` says what `Least` gives.

That a token is the longest lexeme has nothing to do with the tokens before it
(`TokenLongest`: one that was read stays it). The character it begins with belongs to
one kind only (`CharactersApart`), which leaves the lexemes of one or two kinds to
compare it with (`LexemeKinds`, `LexemeStarts`). `RunEndExact` and `CommentEndExact` say
that a run ends before the first character that is not in it, and a comment where
it is closed for the first time. For operators `OperatorRead` shows that what `get_token`
has read when no spelling continues it is the longest spelling there is: from the
table only the forms the spellings have (`PatternTable`) are needed - one or two
characters that are operators by themselves, and `<=>`, `|>` and `:=`.

`Parser_proofs.tla` proves, for any set of token streams and the whole table of operators:

| theorem | statement |
|---|---|
| `TypeCorrect` | `Spec => []TypeOK` |
| `StackStaysSorted` | `Spec => []StackSorted` |
| `EachTokenOnce` | `Spec => []NothingLost` |
| `UndefinedNeedsUnmatched` | `Spec => []UndefinedOnlyUnmatched` |
| `ParserFollowsTheTable` | `Spec => []FollowsTheTable` |

The first four rest on `InputsAssumption` only. `TypeOK`, `StackSorted` and
`UndefinedOnlyUnmatched` are joined in `IInv` by two facts:
`prev` is the token before (`ReadSoFar`, for the CALLs), and the openings on the stack are
the openings read less the closings (`Balanced`, which makes an empty stack at a closing
mean one closing too many). The lemmas on `parse_token` (`PoppedKeeps`, `PushKeeps`,
`PutOperatorKeeps`, `PutLGroupKeeps`, `PutRGroupKeeps`) say for any stack what each branch
does to its order and its openings; `Advance` adds the openings up for an
action.

`EachTokenOnce` goes token by token. `NothingLost` says that each token that was read, and
the CALL between each two values, is in one place of stack and output, an opening in one
or two, and that nothing else is in either but the END of a finished output. Its invariant
`Once` counts the places of every item (`Held`): one if it is `Due` and none if it is not;
for an opening at least one in the output and at most two in all. `PoppedHolds` shows that
what is popped is held as before (two sequences together, and one turned around, hold the
same items: `CopiesTogether`, `CopiesReversed`), the lemmas `PutOperatorPuts` to
`PutRGroupPuts` that each branch of `parse_token` adds its item and takes away an opening
at most, and `ReadingInPlace` and `EndInPlace` that what a step adds is what becomes due.

Of the table only that the kinds of tokens are apart and that CALL is binary is
needed (`KindsApart`): the order of the stack does not depend on the precedences.

`ParserFollowsTheTable` is the correctness of the shunting yard: whatever the operators and
however high the tree, the parser puts out the postfix order of every expression of the
grammar. It rests on `SyntaxAssumption` as well, which says of which operators the
expressions are made: any binary ones, and any prefix ones that associate to the right.
That leaves out the increments and nothing else, and they have to be left out: `parser_increments`
shows that the parser does not do with them what the table says. The argument:

- *Runs.* What the parser does at a token depends on the stream and on the state before,
  so a stream has a run: a function `r` from places to states (`IsRun`, `RunExists`).
  `Followed`, the invariant, says that the parser is at the run's state for its place, until the first place
  where the run fails (`NextFollows`).
- *Sound expressions.* A run meets an expression `e` in a `Context`: the tokens of `e` are in the
  stream from `p` on, and the operator that waits on the stack, if there is one, stays there when
  the operator on top of `e` comes (`Accepts`). `Comes` says what the run has done at the end of `e`: no token failed, `emit` was
  put out and `pend` lies on the stack, `emit` followed by `pend` turned around is the postfix
  order of `e`, and no operator in `pend` binds weaker than the one on top of `e`. `Sound`
  are the expressions for which this is so in every context, and that begin and end as
  `vbegin` and `vend` suppose (`Form`).
- *Operators.* An operator that may have `e` on its left pops all of `pend` (`Completed`); one
  that has `e` on its right is popped with it or stays under it (`Joined`). From these come
  `InfixSound`, `CallSound`, `PrefixSound` and `ThenSound`, and without them `LeafSound` and
  `GroupSound`: an expression made of sound ones is sound. Where a CALL is put between two tokens is part of each of them.
- *Heights.* `SentencesSound` goes from one height to the next. It is induction, done with
  Extrema's `Minimum`; that `Expressions`, a recursive function, is what its
  definition says comes from `RecursiveFunction`.
- *The end.* An expression that is the whole stream leaves `pend` on an empty stack, and `END`
  pops it (`EndFollows`).

`Formatter_proofs.tla` proves, for any workers, command line and tree of directories, with
exceptions and short writes anywhere:

| theorem | statement |
|---|---|
| `TypeCorrect` | `Spec => []TypeOK` |
| `TailSkipped` | `Spec => []OnlyTheTailIsSkipped` |
| `SharedOnly` | `Spec => []OnlySharedFilesCollide`: two threads were at a file only if the command line leads to it twice |
| `TextKept` | `Spec => []NoTextLost` |

They rest on `TreeAssumption` (a directory is no file, its entries are directories or
files, and a file has one extension), `ArgsAssumption` (the command line has a length) and `WorkersAssumption` (the main
thread is no worker). The invariant has a part about files (`FileInv`): no two threads are at a
file that has not `collided` (`Apart`), so that what a thread reads of it is whole unless a write
fell short before, and what it holds to write back is whole too (`HoldsAll`); and a part about
the end (`Working`, `Ending`): a worker is in `format` exactly while it has a job, so that a pool
that could be joined leaves no file half written, and an exception meets the main thread at no
file. `TailSkipped` has an invariant of its own over it, `TailInv`: the pool's `PoolInv`; that a
worker with job `n` is at the `n`-th file that was found (`AtItsFile`); that what a job was done
for is written back or given up (`DoneIsWritten`), and every named file the walk has passed is
written back (`NamedAreWritten`). A job before one that is done was begun before it, so that it
is done as well, or a worker is in it, which at a regular end is none. `SharedOnly` adds that
main is only at files it was given (`MainAtNamed`): two threads at a file have come by two ways,
since no two workers are in one job. `TextKept` follows from `FileInv` and `SharedOnly`: a file that
two threads were at is one the property leaves out.

`Evaluator_proofs.tla` proves `TypeCorrect`, `Spec => []TypeOK`, of analyzer and evaluator
together, for any set of programs that the parser may put out (`ProgramsAssumption`: a
sequence of tokens that ends with END). What it says is that `iref`, the index by which a
type finds its instruction again, never leads out of the block's instructions - not
even where an operator fails half way, a name is bound to a value of the library, a
definition leaves its name's entry behind, or braces are not closed. The invariant,
`TypeInv` (checked by TLC on the instance of `evaluator`), adds that the same holds of the
names a block knows, which is where types come back from (`Sound`), that every token has
its parts, and that the reading stops at END. There is a lemma for every case of
`block::add` (`DefineSound`, `PipeSound`, ...), which rests on lemmas for the steps they are made of:
`EmitReady`, `BindReady`, `ResolveCallReady` and so on. `Ready(b, n)` is what a check of the
stack's depth leaves: `n` entries, or an error.

The sizes and counts in those types are recursive (`TypeSize`, `CountElements`). That they
give numbers at all is induction over data, which the provers cannot do with the
library's theorems. It is done here without: were there a place with no number, there
would be one of least measure (Extrema's `Minimum`), and its value is made of values at
places of a smaller one (`ValuesIn`). That the recursion has a solution is shown in the
same way (`RecursiveFunction`: the rounds of it settle one place after the other), and
`ElementsShorter`, `TupleShorter`, `ArrayShorter` and `CountBehind` say what is smaller: the
recursion of `type_size` is over stretches of the vector, and a call is for a shorter one, or for
one as long but of a type instead of a tuple's elements.

`Extrema.tla` has the facts about least and greatest elements of finite sets of numbers that
the `CHOOSE`s of Lexer, Parser, LspServer and Types need, and the lemmas on recursive functions
(`RecursiveFunction`, `ValuesIn`) that Evaluator's and Parser's proofs use.

Only model-checked:

- liveness (`QueuedJobsRun`, `JoinReturns`, `KeepsFairness`, `Ends`, `RequestsAnswered`,
  `StopsAtNextMessage`), which is out of the prover's reach, as all that needs ENABLED;
- `ValueOfTheTree`, `OnlyTheValueIsLeft`, `RefusedInOrder`: they compare a run of the code with a
  value that Meaning computes by recursion over a tree, as `FollowsTheTable` does. The same
  argument would do, but what analyzer and evaluator have done in the middle of a tree (the
  type stack, the blocks, the instructions that will still be patched) is not stated;
- `DeliveredAsSent`, `UnderstoodAsMeant`, `AnswersSayAll`, `AsBuilt` and `ReportSaysAll`: they compare
  with what is read back from a text by a fold over it, which is the same over the text;
- the types of Wire, whose steps are made of such folds.

## Disagreements between the code and its words

- **exit does not stop the server** (`lsp_exit`). "The server should exit" is the comment
  on `methods::exit` (`lifecycle.hh:62`); it only clears `running`, and the main thread,
  already in `listener::next`, notices after one more message. `StopsAtNextMessage` is
  what does hold.
- **fmt leaves files out** (`formatter_all`). The destructor of `formatter` stops the pool
  at once, and a stopped pool drops its queue. What does hold is
  `OnlyTheTailIsSkipped`.
- **an operator after ++ or --** (`parser_increments`). The table has postfix increment
  with precedence 2, but `vend()` does not hold after it, so that the next operator is
  taken for a prefix operator: `a++ ** b` is an error.

## What is not modelled

A file system that changes under the formatter for other reasons than the formatter's own
writes, but for a file that is gone when its job begins; memory that runs out anywhere. Layout
and wording: log lines, the formatter's output, indentation, time stamps, the
order of attributes and of an object's members. Completion, hover and formatting
replies are constants. LspServer takes ids to be natural numbers that fit into
an `int`, id 0 to stand for "no id", and its messages to be well-formed; Wire has what happens to those that are
not, up to what `from_json` gives, but no concurrency. In Wire a header line is one
symbol: a line that is split by `fgets` because it is too long is there only as an unread
body. Characters beyond ASCII, and numbers that are no short decimals, are in no model.

Analyzer and Evaluator: numbers have the types I32 and F64, the only ones a literal gets
(`block.hh:292-333`: F64 with a point in it, I32 without); the cases `add` and the others
have for further types are never reached. `loadl` and `pcall` are emitted by nothing. A power
of doubles with a negative exponent is a fraction, which the model has no numbers for.
Whether `copy` reads memory that `push_alloc` has moved depends on the vector's capacity;
the model takes either, in runs where a definition is piped. The structs of `models.hh` without `from_json` and
without `json`, and enumerations' numbers, are left out. The logger, the console helpers and
the LLVM stub keep no state worth it.

## Plan

Every component that keeps state is modelled. What is left:

1. **Proofs** about Evaluator beyond its types: that memory is broken only where the
   marked weaknesses are, for any program; and `ValueOfTheTree` along the trees, as
   `ParserFollowsTheTable` is proved.
2. **Composition** of Wire with LspServer: `Recv` as the summary of `listener::next`, so that a
   broken frame, the end of the stream and a crash of the main thread meet requests in
   flight.
3. **Numbers** of all widths in Evaluator, with their overflow.
