# A TLA+ model of SymCC

SymCC compiles a program so that it executes itself symbolically: a compiler
pass adds, next to every computation, calls that build the symbolic expression
of the result; a run-time library keeps those expressions for memory, function
calls and inputs; a solver backend turns branch conditions into new inputs; and
a helper process feeds these to AFL. This directory models the parts of that
system whose correctness is not visible in any single function.

## 1. Inventory

| Component | State | Operations | Talks to |
|---|---|---|---|
| Shadow memory (`runtime/Shadow.{h,cpp}`) | `g_shadow_pages`: page start → one expression per byte, pages on demand | read, non-null read and write iterators, `isConcrete` | everything that touches memory |
| Common run-time library (`runtime/RuntimeCommon.cpp`) | `g_return_value`, `g_function_arguments[256]`, `__cached_switch_case_constraints` | `_sym_read_memory`, `_sym_write_memory`, `_sym_memcpy/memset/memmove`, `_sym_build_bswap/extract/insert`, parameter and return slots, `_sym_push_switch_constraint` | called by injected code and wrappers, calls a backend |
| Compiler pass (`compiler/Symbolizer.cpp`, `Pass.cpp`) | none at run time; a companion register per register | injects code for every instruction, short-circuits on concrete operands | calls the run-time library |
| Libc wrappers (`runtime/LibcWrappers.cpp`) | `inputFileDescriptor`, `inputOffset` | open/read/seek/push back, copy and compare functions, allocators | libc, shadow memory, slots, backend |
| Simple backend (`runtime/simple_backend`) | `g_solver`, allocated expressions | expression builders, `_sym_push_path_constraint`, concretization, input generation | Z3 |
| QSYM and Rust backends (`runtime/qsym_backend`, `runtime/rust_backend`) | allocated expressions (QSYM: with a shared pointer; Rust: identifiers packed with their width); the rest in external code | adapters for every builder, collection | external solvers |
| Garbage collection (`runtime/GarbageCollection.cpp`) | registered expression regions | register region, collect reachable expressions | shadow memory, backends |
| Configuration (`runtime/Config.cpp`) | `g_config` | parse environment | wrappers, backends |
| Fuzzing helper (`util/symcc_fuzzing_helper`) | coverage map, processed files, three test-case directories, counters | select, run SymCC, measure, enqueue | AFL's directory, SymCC, afl-showmap |
| Pure concolic script (`util/pure_concolic_execution.sh`) | directories `next`, `cur`, `symcc_out`, the list `analyzed_inputs` | import, run one generation, export | SymCC, whoever adds inputs |
| Libc harness (`libc_harness`) | none; a stack of partitions during a call | instrumented `qsort`, `bsearch` | the program's comparison functions |

The behaviours that are hard here:

* *two copies of the state* (concrete and symbolic) that every operation must
  change together, while early returns skip the symbolic half whenever they can;
* *cached pointers into a page table that grows* during the walk;
* *global slots* used as a calling convention between functions that may or may
  not be instrumented, with exceptions and callbacks in between;
* *a stateful solver* that may give up at any query;
* *an offset tracked in parallel* to the real position of a descriptor, through
  a libc that does not report what it consumed;
* *compiler state that is complete only at the end*: code is emitted for uses of
  PHI nodes that are erased later, and for values not visited yet;
* *raw pointers to reference-counted expressions*, freed by a collection that sees
  some of the places where they are kept;
* *a second process* (AFL) that changes the queue, and file operations that fail
  between two updates of the helper's own state.

`PROJECT.json` lists the individual hazards at their lines.

What makes each component correct, in a sentence: an expression evaluates to the
value it stands for, and what depends on the input has one (shadow memory,
pass, run-time library, slots); the solver holds the path condition and no
alternative is missed (backend); what is reachable stays alive (collection); a
label names the byte it was read from
(wrappers); no coverage, test case or input is lost (helper, script); arrays are
sorted and searched within their bounds (harness).

## 2. Modules

| Module | Models |
|---|---|
| `ShadowPages` | the page table as operators on a page map: look-up, write walk, `isConcrete` |
| `ShadowMemory` (+ `MCShadowMemory`) | one thread's memory and registers with their expressions; one action per instruction or wrapper |
| `FlatShadow` | abstract specification: shadow memory is a flat array and a bulk operation one assignment |
| `ShadowCopy` | the same operations byte by byte through the iterators; implements `FlatShadow` |
| `Instrumentation` | the three phases of the compiler pass on an arbitrary function, and the run of the result |
| `ExpressionLifetime` | expressions of the three backends, their widths, roots and collection |
| `PathConstraints` (+ `MCPathConstraints`) | branches, switches, concretization, the solver |
| `CallProtocol` | argument and result slots over a call stack |
| `CallbackProtocol` | the same with callbacks from uninstrumented code |
| `LibcInput` | input descriptor and offset under the wrapped calls |
| `CompareWrappers` | the constraints that `memcmp`, `strcmp`, `strchr` and their relatives push |
| `FuzzingHelper` (+ `MCFuzzingHelper`) | the helper's main loop beside AFL |
| `PureConcolic` (+ `MCPureConcolic`) | the loop of the pure concolic script beside someone who adds files |
| `LibcHarness` | `qsort` and `bsearch`, one comparison per step |
| `X_proofs` for X = `ShadowMemory`, `ShadowCopy`, `CallProtocol`, `FuzzingHelper`, `Instrumentation`, `LibcHarness` | theorems about module X, see section 4 |
| `Backends_proofs` | theorems about `PathConstraints` and `ExpressionLifetime` |
| `LibcWrappers_proofs` | theorems about `LibcInput` and `CompareWrappers` |

Definitions whose comment begins with *Faulty variant* are deliberately wrong
versions of the definition below them (a dropped guard, a wrong order). No
specification uses them; substituting one for the correct definition breaks the
property it is paired with under `mutants` in `PROJECT.json`, which shows that
the property depends on that piece of code.

### ShadowMemory

`mem` and `val` are the program's memory and registers, `g_shadow_pages` and
`expr` their expressions. A byte is a member of `Value`; the values in
`ConstValue` do not depend on the input. An expression is identified with the
value it evaluates to on the current input, so "the expression is right" is
equality, and "the value may be treated as concrete" is membership in
`ConstValue`. Words are functions from byte significance to bytes;
`Ordinal` is the byte order in memory. A register's expression is null as a
whole or has every byte, as in the code, where it is one pointer.

`Load` and `Store` are `visitLoadInst`/`visitStoreInst` with the run-time
functions they call; `BinaryOperator`, `IntegerCast`, `Bswap` and `Constant` the
register instructions with the short-circuiting of `shortCircuitExpressionUses`;
`Phi`, `Select` and `ZeroElementPtr` pass an expression on, `GetElementPtr` is
address arithmetic with a sign-extended index, `Ntoh` the byte-order wrappers;
`Memcpy`, `Memmove`, `Memset` the intrinsics and wrappers; `Strncpy` and the reads
the wrappers with a shadow treatment of their own. Each keeps its early return.
`Op` is an arbitrary operator of the program, of which only this is assumed:
constants yield constants. `Sign` gives the padding of a sign extension.

Some wrappers leave the shadow wrong, and the model does what they do:

* The wrapper of `memset` stores the expression of its `int` argument in every
  byte slot (`Memset` with a register of more than one byte; the intrinsic has a
  one-byte register). Such a slot holds `Wide`.
* `fgets` treats `strlen(str)` bytes: the terminator it wrote keeps the shadow of
  the byte before, and so does what follows an embedded null byte (`FgetsInput`,
  `ReadOther`). If it fails at the end of the file, the old string is treated
  once more (`FgetsInputAtEnd`, `FgetsOtherAtEnd`).
* `fread` treats whole items only (`ReadInput` and `ReadOther` with `m < n`).

The history variables `staleMem` and `staleReg` follow these bytes through copies,
stores, loads and computations; overwriting ends it. The properties are about
everything else. `ReadShadowIterator` asserts that what it yields has eight bits
(`Shadow.h:85`): a walk that meets a `Wide` slot is not taken (`Readable` for walks
over the whole region; `Checkable` for `isConcrete`, which ends at the first
expression). This is the build with assertions, as CMake makes it by default; in
a build without them (the Dockerfile's `RelWithDebInfo`) the program would go on with
expressions of the wrong width, which is not modelled.

### ShadowCopy and FlatShadow

An iterator is an address and a cached pointer (page, slot) or nil. The actions
are the phases of a call: the check that may return early, the construction of
the iterators in any order, one action per step of `std::copy`,
`std::copy_backward` and the filling loops, the return. Where C++ leaves the
order of evaluation open, the model does too. `FlatShadow` has two actions, the
start of a call and its effect. The refinement mapping shows the shadow as it
was before the call while a call is running.

### Instrumentation

First the pass runs: `Visit` chooses an arbitrary instruction and does what the
visit method does with it (`ResultRegister`: which register, if any, is registered
as its expression; `EmittedUses`: which registers the emitted call reads),
`finalizePHINodes` and `shortCircuitExpressionUses` follow. Operands may refer to
values that are visited later, as happens when a block is laid out before one
that dominates it, and PHI nodes may refer to any value. Instructions are grouped
into the classes that the pass treats differently; the comment on `Instruction`
lists them.

Then the function runs. Any instruction may execute whose operands are
available, again and again; what was computed from an older value of a
re-executed instruction becomes unavailable, except through a PHI node. This
covers all control flow, loops included, without modelling it. A value is a
function from inputs to bits, and so is an expression: the run on the actual
input decides which path is taken, and the function says what would be computed
on each other input. What the pass loses is recorded in `lost`: the results of
opaque instructions on a symbolic operand (inline assembly, bit counts, unknown
intrinsics and instructions, about which the pass prints a warning), bit casts from
floating point to integer, whose expression is built but not registered, whatever
uses an operand that is laid out later and is therefore taken for concrete, and
what is computed from any of these. An opaque result does depend on its operand;
it only has no expression. Of a lost value the model asks that its expression, if
it has one, is right about this run.

A decision on a value that is not lost cuts `samePath` down to the inputs that
decide alike. For a decision on a lost value the code pushes nothing, or a
constraint that is right about this run only; what it pushes is collected in
`guessed`. `PathConditionIsPath` says that the path condition is the intersection
of the two, and that the actual input satisfies it. Inputs in it may therefore
decide differently where the value is lost.
`BuildersGetExpressions` is about the calls that are short-circuited; the
builders for the bits of floats accept null on purpose and are called
unconditionally elsewhere.

### ExpressionLifetime

`heap` is the solver library: a node is an operation and the addresses of its
arguments; equal nodes share an address (as in Z3; elsewhere it is the harder case),
a node is freed when nobody refers to it, and its address is used again. `references` are
references that are owned for good, `allocatedExpressions` is the backend's set or
map. The client moves expressions between registers (`held`), shadow memory and
registered regions (`root`); `meaning` remembers what a slot stood for when it was
written. A collection happens when the program has no expressions in registers.
The slots for arguments and results and the switch cache are no roots either, so
that the same contract applies to them.

The builders are represented by one operation for each way in which a width is
computed: constants of 128 bits (the widest that one call makes), bytes, unary and
binary operations, comparisons (width 0), extension, truncation, concatenation.

### PathConstraints

A constraint is the set of inputs that satisfy it, hence the state of the
solver (`g_solver`) is a set too and `Z3_solver_check` is non-emptiness, or
"undef" for a timeout. The program is any sequence of branches, switches and
concretizations over arbitrary functions of the input. A call of
`_sym_push_path_constraint` (arguments in `call`) is `Trivial`, or
`SolveAlternative` and `AssertActual`; `pc` says whether the call has tried the
alternative. `_sym_push_switch_constraint` is `CacheCase` for every case and
then its loop over the cache, one iteration (`PushNotTaken`) per step, the
push of the taken case (`PushTaken`) and the final `clear`. The model is of a
build with assertions enabled: a failed assertion stops the program.

### CallProtocol

A stack of frames of instrumented functions, uninstrumented ones and libc
wrappers. `Call` is the code injected before a call, `Enter` the one at the
beginning of a function, `Return` the one before `ret`, `TakeResult` the one
after the call; `Unwind` is an exception caught behind an invoke. One register
per frame carries a value and its expression. One thread: the slots are not
thread-local, and the code says so.

A wrapper returns one of its arguments with the argument's expression
(`ReturnArgument`: `memcpy`, `memset`, `memmove`, `fgets`, `ungetc`, and `lseek64` with
`SEEK_SET`, whose result is its second argument), a byte of the input
(`ReturnInput`: `getc` and its relatives), or a concrete value (`ReturnConcrete`: the
others, and `lseek64` when it fails, before it gets to the argument's expression).
`fgets` and `ungetc` set the expression also when they fail (`ReturnFailure`). The
value `Failure` is what such a call returns; `Describes` asks nothing of it.

### LibcInput

`open` are the descriptors with file and position; `inputFileDescriptor` and
`inputOffset` are the wrappers' variables. A file is a sequence of bytes of
which newline and NUL can be told apart, because `fgets` and `strlen` do. The C
library is external and modelled by what it consumes and returns: short reads,
partial items, lines, failures at the end of the file. `marks` are the labels
that the last call gave out together with the true offsets. `lost` remembers
that a call consumed another number of bytes than the wrapper counted.
`inputOffset` wraps at `OffsetRange`, which stands for 2^64.

`Ungetc` pushes back the byte that was just read, or a foreign byte (`foreign` counts
them), at any place of the file. As with `ftell`, the position after it is one
less, and may be negative; the offset of the wrapper, being unsigned, wraps there.
A file whose path contains the name of the input (`"namesake"`) is taken for the
input, as `strstr` does.

### CompareWrappers

A byte of a string is a constant or a byte of the input, so that both libc's
result and the pushed constraint can be evaluated on every input. The module
states what `PathConstraints` takes for granted of the callers of
`_sym_push_path_constraint`: `taken` says whether the current input satisfies the
constraint. `slot` is the expression that the third argument slot holds, which
`strcmp` reads by way of `strncmp` without its caller having set it.

Two wrappers build expressions of the wrong sort: `strncasecmp` joins conditions with
the bit-vector operations `_sym_build_or` and `_sym_build_and` from the second character
on (`IllSorted`; `LibcWrappers.cpp:569` and `:592`), and `strchr` compares the 32 bits of
a symbolic character with a constant of 64 (`LibcWrappers.cpp:439`). In the simple
backend these go to Z3, whose error handler fails an assertion: the call ends the
program (`SortError`, `stopped`), with the constraints that it has pushed before. The
builders behind QSYM and Rust are not in the repository; for them (backend
`"external"`) the model has both outcomes, the end of the program and the
expression's obvious meaning.

`InputAgreesWithPush` excuses exactly two cases in which the code is known to
disagree: `StaleSize` (that slot holds an expression of an earlier call) and
`CaseMistaken` (letters whose case `strncasecmp` does not ignore).

### FuzzingHelper

`pc` is the place in the main loop. The listing of the queue and the scoring of
the files are separate actions, because AFL may add or remove files in between.
A directory maps (ID, parent) to a content; `copy_testcase` is the set of its
possible outcomes: nothing happened, a partial file was left, or success.
`process_new_testcase` is one action for each verdict of afl-showmap. Errors
that the code returns from `main` lead to `pc = "stopped"`.

### PureConcolic

A file is a name and a content; names given by `copy_with_unique_name` are the
hash of the content. `Imported` is `maybe_import`, with its substring search in
the list of analyzed names; `InitializeGeneration` the move of `next` to `cur`;
`Run` one execution with what follows it. The program's test cases are numbered
from zero in each run and replace those of earlier runs in `symcc_out`, which is
never emptied. A run may be killed after any number of test cases.

### LibcHarness

A pointer is the index of an element; variables are those of `_quicksort` and
`bsearch`. Every comparison is a step, as it calls back into the program. The
byte-wise swap and the byte-wise rotation move whole elements. Distances are
converted to `size_t` where the code does so, which matters when a partition is
empty: a negative distance is not small.

## 3. Runs

| Run | Shows | Size |
|---|---|---|
| `shadow_memory` | `TypeOK`, `ShadowDescribesMemory`, `ExprDescribesRegister`, `ConcreteRunHasNoShadow` | 27 thousand states |
| `shadow_copy` | `PointersInPage`, `ReadsOldExpression`, `ImplementsFlatShadow` (with liveness) | 124 thousand |
| `path_constraints` | `InputSatisfiesPath`, `SolverHoldsPathCondition`, `EveryAlternativeGenerated`, `GeneratedInputsDiverge`, `InternalAssertionsHold` | 324 thousand |
| `call_protocol` | `ParametersDescribeArguments`, `ResultsDescribeValues`, `OpaqueResultIsConcrete` | 177 thousand |
| `libc_input` | `OffsetTracksPosition`, `LabelsAreOffsets` | 326 thousand |
| `compare_wrappers` | `InputAgreesWithPush`, `ConstraintIsOutcome` | 82 thousand |
| `fuzzing_helper` | seven properties, `EveryInputAnalyzed` being liveness | 304 thousand |
| `instrumentation` | `ExpressionsDenoteValues`, `BuildersGetExpressions`, `PathConditionIsPath` | 183 thousand |
| `expression_lifetime` | `ExpressionsStayUsable`, `RootsKeepMeaning`, `WidthsAreMaintained`, `CollectionFrees` | 720 thousand |
| `harness` | `SortedPermutation`, `AccessesInBounds`, `StackIsLogarithmic`, `SearchFindsKey`, `Terminates` (liveness) | 350 thousand |
| `pure_concolic` | `EveryInputIsRun`, `GeneratedInputsAreRun` (both liveness) | 8 thousand |
| `callback_result` | `OpaqueResultIsConcrete` fails | |

### Bounds

* `shadow_memory`: pages of two bytes and three bytes of memory, so that words
  and copies straddle a boundary, end exactly at one, and reach the page one past
  the end; a byte register and a word register, so that all casts, partly symbolic
  words and both kinds of `memset` occur; one constant value and one that depends on
  the input, and an input of one such byte and a null byte, so that bytes that get
  out of place are noticed and lines end early. At most one byte and one register
  may be wrong at a time (`MaxStale`), which leaves out some of the longer
  consequences of a wrapper's mistake and none of its occurrence. Little-endian: the
  theorems cover both byte orders, every input and every `MaxStale`.
* `shadow_copy`: two pages and regions of up to three bytes, that is, overlaps in
  both directions that cross the boundary, with all 3-valued contents.
* `path_constraints`: four inputs and three decisions. A decision partitions the
  inputs; with four inputs three consecutive proper splits are possible, the last
  of which is on a singleton. A switch has three cases and a default.
* `call_protocol`: stacks of three frames: a caller, a callee and its callee,
  with arbitrarily many calls one after the other. Two parameters; two concrete
  values, two input values and the failure of a wrapper.
* `libc_input`: inputs of up to two bytes, arguments up to two, one foreign byte
  pushed back, which is enough for a position before the beginning; two
  descriptors: the input and one other file, or one number reused. The offset
  counts modulo five, above the largest position.
* `compare_wrappers`: all pairs of strings in buffers of three bytes over NUL, an
  upper-case letter, a lower-case one at the boundary of the alphabet and an input
  byte, which is NUL or one of two letters in either case; so that strings end
  early, are followed by other bytes, and share the input byte; lengths up to one
  more than the buffer.
* `instrumentation`: three values, one of which comes from outside, and two
  inputs: PHI nodes that are erased, kept, and refer to each other or themselves,
  uses of them, shared registers, and operands laid out later all fit.
* `expression_lifetime`: three addresses, so that one is reused while two are
  alive; one shadow slot and one region; expressions of height two, which is what
  it takes to get a freed operand of a live node and 256 bits.
* `harness`: eight elements of three keys. `MAX_THRESH` is 1 instead of 4: with 4, a
  partition is pushed only for more than ten elements; the algorithm is the same.
* `pure_concolic`: four contents and a program that generates two, one, one and no
  test cases for them, with overlap and a cycle; names that occur in each other
  and one that is a hash.
* `fuzzing_helper`: two files that differ in every field of the score, two
  coverage bits, up to two test cases per execution. It stops when all is done, so
  deadlock is not checked; neither is it in `path_constraints`, where executions
  end after `MaxDecisions`, in `compare_wrappers`, where a sort error ends the
  program, and in `harness`, which ends when `bsearch` returns.

### Fairness

* `ShadowCopy`: weak fairness of the steps of a running call. Library code runs
  to completion on the thread that called it. Nothing makes the program call.
* `FuzzingHelper`: weak fairness of the helper as a whole. Its loop runs on its
  own, and whatever it waits for ends: SymCC runs under `timeout -k 5 90`,
  afl-showmap under `-t 5000`. AFL has no fairness. `EveryInputAnalyzed` makes an
  exception for inputs that AFL removes and for a helper that stopped. It rests on
  finitely many inputs: endlessly many better ones would starve a poor one, as
  the code's choice of the best score implies.
* `PureConcolic`: weak fairness of the script, which is a loop of commands that end
  (`timeout -k 5 90` for the program). The user who adds files has no fairness.
* `LibcHarness`: weak fairness of the next step: library code runs to completion if
  the comparison function returns.

### Where the code and its documents differ

The failing run `callback_result` states what a comment says and finds a behaviour
of the code that does otherwise (`PROJECT.json` quotes the lines): the result of an
uninstrumented function that calls back (`qsort`, `bsearch` of a plain libc) gets
the callback's expression.

Other differences are part of the models, as exceptions that the properties name:

* `ShadowDescribesMemory` and `ExprDescribesRegister` excuse the bytes that the
  wrappers of `memset` (`LibcWrappers.cpp:388`; the slot gets an expression of 32 bits,
  although "Shadow memory always represents bytes", `Shadow.h:87`), `fgets` (`:249`) and
  `fread` (`:230`) leave wrong, and what is computed from them.
* `ParametersDescribeArguments` and `ResultsDescribeValues` excuse the result of a
  failed `fgets` or `ungetc` (`LibcWrappers.cpp:245`, `:359`).
* `InternalAssertionsHold` excuses solver timeouts: the assertion "Asserting
  infeasible path constraint" (`simple_backend/Runtime.cpp:468`) takes one for an
  infeasible path.
* `OffsetTracksPosition` excuses `fgets` at the end of the file or over a NUL byte,
  and `fread` of a partial item, which let `inputOffset` drift until the next seek.
  A position before the beginning is known by its value modulo the range only.
* `LabelsAreOffsets` excuses foreign bytes that the program has pushed back: when
  they are read again they are made symbolic as if they were input.
* `InputAgreesWithPush` excuses `strcmp` and `strcasecmp` after a call that left an
  expression in the slot of a third argument (`LibcWrappers.cpp:611`), and
  `strncasecmp`, whose constraint compares the first characters exactly and leaves
  out the letters at the ends of the alphabet (`LibcWrappers.cpp:564-591`). Of a call
  that ends with a sort error it covers what was pushed before.
* `ExpressionsDenoteValues` excuses the values that the pass loses: those whose
  operands are laid out later (`Symbolizer.h:199`), bit casts from floats
  (`Symbolizer.cpp:627`), opaque instructions on symbolic operands
  (`Symbolizer.cpp:266-276`, `:310`, `:859`), and what is computed from them.
* `PathConditionIsPath` excuses decisions on such values: what is pushed for them
  only narrows the path condition down.
* `WidthsAreMaintained` excuses values of 256 bits and more: the Rust wrapper adds
  widths in 8 bits, whereas `rust_backend/README.md` promises the correct ones.
  Within its scope fall 128-bit constants and their extensions.
* `CollectionFrees` is about the QSYM and Rust backends: the simple backend forgets
  expressions without giving its reference to Z3 back.
* `EveryInputIsRun` excuses a file whose name is part of an analyzed one
  (`pure_concolic_execution.sh:91`).

Outside of the models: the comment "until we don't generate new inputs anymore"
(`pure_concolic_execution.sh:110`) introduces an endless loop that waits for files;
the unordered float comparisons of the simple backend build three alternatives and
pass two of them to `Z3_mk_or` (`simple_backend/Runtime.cpp:308` ff.); on a
little-endian target a load of an aggregate keeps the bytes in memory order
(`Symbolizer.cpp:488`), but a store writes them in the order of an integer
(`Symbolizer.cpp:518`), which is why aggregates are the first item of the plan.

Two more differences were noticed and are not runs: the helper ignores new test
cases that time out, although the comment on `process_new_testcase` says that they
are copied; and a stream without a descriptor (`fileno` is -1) matches the "no
input file" value of `inputFileDescriptor`.

## 4. Proofs

Every theorem is proved for all values of the constants that satisfy the
assumptions stated in the modules. Each proof has the same outline: an inductive
invariant (checked with TLC on the run's instance before it was proved), one lemma
for each action, `NextInv` to combine them, the theorem `Spec => []Invariant`, and
one theorem for each property that follows. Two proof modules are about two
specifications each, of which one has prefixed names (`LifetimeSpec`, `CompareSpec`).

| Module | Invariant | Properties that follow |
|---|---|---|
| `ShadowMemory_proofs` | `IInv` | `TypeOK`, `ShadowDescribesMemory`, `ExprDescribesRegister`; with an invariant of its own `ConcreteRunHasNoShadow` |
| `ShadowCopy_proofs` | `CopyInv` | `PointersInPage`, `ReadsOldExpression`, and `Abstract!Safety`, the safety half of `ImplementsFlatShadow` |
| `CallProtocol_proofs` | `CallInv` | `ParametersDescribeArguments`, `ResultsDescribeValues`, `OpaqueResultIsConcrete` |
| `Backends_proofs` | `PathInv` | `InputSatisfiesPath`, `SolverHoldsPathCondition`, `EveryAlternativeGenerated`, `GeneratedInputsDiverge`, `InternalAssertionsHold` |
| | `LifetimeInv` | `ExpressionsStayUsable`, `RootsKeepMeaning`, `WidthsAreMaintained`, `CollectionFrees` |
| `LibcWrappers_proofs` | `LibcInv` | `OffsetTracksPosition`, `LabelsAreOffsets` |
| | `CompareInv` | `InputAgreesWithPush`, `ConstraintIsOutcome` |
| `FuzzingHelper_proofs` | `HelperInv` | `CoverageIsQueued`, `QueuedTestcasesAreNew`, `CrashesAreQueued`, `EachInputCountedOnce`, `NewCoverageFirst`, `TestcasesAreKept` |
| `Instrumentation_proofs` | `InstrumentationInv` | `ExpressionsDenoteValues`, `BuildersGetExpressions`, `PathConditionIsPath` |
| `LibcHarness_proofs` | `HarnessInv` | `SortedPermutation`, `AccessesInBounds`, `StackIsLogarithmic`, `SearchFindsKey` |

### ShadowMemory

`IInv == TypeOK /\ ShadowDescribesMemory /\ ExprDescribesRegister`. The parts are
inductive only together: a load makes a register right because the shadow was
right, a store the other way round, and both need the types to know that null is
not a word. `ConcreteRunHasNoShadow` has an invariant of its own: as long as no
input was read there is no page at all, so every `isConcrete` succeeds and every
early return is taken. `SamePage` (addresses between two addresses of a page are
on it) gives `ConcreteRegion` (the fast path of `isConcrete` is right);
`ShadowAfterWrite` says which expression every byte has after a write walk, and
with `RegionStep` reduces every bulk operation to "the new expressions of the
region describe its new bytes, but for those that are marked stale"; `RegisterStep`
does the same for registers. That a register's expression is null or complete holds
for stale ones too, because no walk yields a `Wide` slot (`Readable`).
Assumed: pages have at least one byte, null is not a value, `Wide` is neither, and
zero is a constant; sign extension and the operators map constants to constants.

### ShadowCopy

`CopyInv` says where the iterators are (`Ready` while they are constructed,
`Together` in the loop) and that the shadow is the old one but for the bytes
written so far (`ShadowIsPartial`). What makes it inductive is `ReadAt`: a read
iterator may be nil although its page has a shadow by now, if the page had none
when the call was made; then null is still the old expression. That a byte is
read before it is overwritten follows from the direction of the loop and, for
`memcpy`, from the disjointness of the regions. The refinement uses `CopyInv` for the
states in which an operation ends: the written bytes are all, so the flat array
has become what `FlatShadow` says in one step; all other steps stutter.

### CallProtocol

The properties speak of the last frame; `CallInv` adds who owns the slots. The
argument slots belong to a callee until it has fetched them, or to a wrapper as
long as it runs (`SlotsDescribeArguments`); the result slot is null while an
uninstrumented function runs for a caller that will fetch from it (`OpaqueSlot`), and
describes the result between return and fetch. `StackShape` is why that is
enough: only instrumented functions wait for callees. This is where callbacks
from uninstrumented code break the argument (run `callback_result`). All wrappers are
one lemma: what a wrapper leaves in the slot describes what it returns, or it
returns `Failure`. Assumed: `Failure` is not a constant, null is not a value.

### PathConstraints

`PathInv` describes the inside of a decision: the cache holds the cases in order,
the negations of those before the loop's index are asserted (`Excluded`), the path
condition is what the solver holds cut down to the current side
(`PathInProgress`), and what is wanted is generated or among the alternatives
still open (`WantedState`). The default of a switch is found because the last push
negates the taken case after all others have been excluded. Assumed: there is an
input and a switch has at least one case.

### ExpressionLifetime

What an expression means, how high and how wide it is are functions that are
recursive over the height of expressions, so their properties need induction.
The library's induction theorems take an operator as parameter, which the provers
cannot instantiate; instead `LeastNat` (a set of numbers has a least element, from
the well-foundedness of `<`) gives `LeastMissing`: a set of numbers that contains `n`
whenever it contains all below `n` is all of `Nat`. `LayersExist` constructs the
three functions with it, layer by layer (`Layer` has the name of the function as a
parameter, for the same reason). `SameTerms`, `SameHeights` and `SameWidths` are the
heart of the matter: two heaps that agree on a set of addresses which refer to
each other only give them the same expressions. `WidthsSettle` says that widths no
longer change above the height of an expression.

`LifetimeInv` is: every operand of a node is a node, and no node is higher than
`MaxHeight` (`HeapInv`); what the program can reach is remembered by the
backend (`Remembered`: in `allocatedExpressions`, or for the simple backend by a
reference that is never given back); what is stored is stored where a collection
looks (`StoredWhereSearched`); widths and meanings are right. `SettleStep` and
`GiveStep` are the two ways in which the heap changes: nodes nobody owns are freed,
and before that one may be added; what remains is closed under operands and hence
means what it meant. A collection is harmless because the registers hold no
expression then, so that all that is in use is in the shadow or in a region.
Assumed: offsets of input bytes are numbers, and the backends are the three.

### LibcInput

`OffsetTracksPosition` is nearly inductive. It needs the positions in the file to be
below `OffsetRange`, or an offset would wrap where it should not
(`PositionsInRange`; the assumption is that a file is shorter than 2^64 bytes), and
that nothing is tracked unless the configuration has an input file (`Tracking`).
Reads advance offset and position by the same number and push-backs take one from
both, so that they stay equal modulo the range (`ModAdd`). For `LabelsAreOffsets`,
the bytes that were not pushed back have positions of zero and above, where offsets
are equal and not only congruent (`NoWrap`).

### CompareWrappers

Every call explains itself, so that `CompareInv` is the properties and the types of
what no call changes. `CallExplained` moves the question to the state before the
call, and `OneConstraint` reduces it to two facts about the constraint that a
wrapper pushes: the input satisfies it iff it is pushed as taken, and on inputs of
the same lengths it is the outcome. `RealLen` is the reason for the string
functions: the bytes that `real_len` counts are those that libc looks at, because
it includes the terminator of the shorter string. `ConcreteBytes` justifies the early
returns. `CaseIsRight` compares the bit operations of `strncasecmp` with `tolower` for
all pairs of byte values: they differ for A and Z only (that first characters are
compared exactly is the other excuse). For `strchr`, every position
before the result differs from the character. A call that ends with a sort error
has pushed nothing or the stale size alone (`SizeAlone`). Assumed: byte values are
below 256, NUL is one, and buffers are not empty.

### FuzzingHelper

The properties of the directories rest on one fact about `copy_testcase`
(`CopyFacts`): whatever fails half-way, complete files stay and the only new one has
the next ID. `Dir` keeps complete files below the next ID, so that a partial file
may be overwritten and nothing else. `QueueIsMerged` connects the queue with the
coverage map in the direction that `QueuedTestcasesAreNew` needs, `UnseenInput` lets
the statistics count sets. Assumed: finitely many files, and a partial file is
none of the complete ones.

### Instrumentation

The invariant has a static half. `RegisterRule` and `LateUses` give, for each
instruction of the finished function, its register and the registers its code
reads in terms of the layout alone; the three phases of the pass establish them.
The dynamic half is `ExpressionsDenoteValues` with `ErasedAreNull` (an erased PHI
node holds null, so replacing its uses by null is harmless) and `Ordered`: values
that are available were computed in some order, PHI nodes excepted. `Ordered` is
what shows that a re-executed instruction does not depend on what it makes
outdated (`ArgsAreFresh`), and with `SharersAreOutdated` that a shared register is
overwritten only when all copies that share it become outdated as well. That a
slow path may omit the check of a single unknown input is `SingleUnknown`: if not
all inputs are concrete, it is the one that is not. For lost values the invariant
keeps `RightHere`, that an expression agrees with the value on the actual input.
It is preserved because the builders work input by input (`ApplyPointwise`) and
because constants are made from the values of this run. `PathInv` needs it, too:
without it the current input could be excluded by a decision on a lost value.

### LibcHarness

`HarnessInv` describes each phase. While a partition is being sorted its ends are on
the right side of the pivot, which is why the pointers, that test for no end, stop
in it (`Partitioned`; `MedianOfThree` establishes it), and the distances that the
code converts to `size_t` are never negative. The hard part is the first loop of
the insertion sort, which looks for the smallest element among the first
`MAX_THRESH + 1` only. A place is a *cut* if no element before it is larger than one
from there on; `Front` says that the array begins with a block that ends in a cut and
that is short, or is the current partition, or is on the stack. When the stack is
empty, the block is short. From then on the first element stops every search
(`Inserting`), and the sorted part grows by rotations (`RotateSorts`). `CountPermuted`
(a bijection of the places keeps the number of occurrences) gives that nothing is
lost. `StillLogarithmic` reduces the bound on the stack to the inclusion of what
lies above an entry. Assumed: keys are integers and `MAX_THRESH` is at least 1; 4
elements in the code.

### What is only model-checked

Liveness and `ENABLED` are out of the prover's reach: `EveryInputAnalyzed`,
`Terminates`, `EveryInputIsRun`, `GeneratedInputsAreRun`, and the fair half of
`ImplementsFlatShadow`.

Every other property of the passing runs is also proved.

## 5. Not modelled

* The builders of the backends beyond one of each kind; floating point; the
  solvers behind the QSYM and Rust backends, and the Rust runtime's memory hooks.
* `insertvalue` and `extractvalue` on aggregates, and the widths of instructions in
  `Instrumentation` (memory and casts have widths in `ShadowMemory`).
* The IR that represents the rewritten code (split blocks, inserted PHI nodes), the
  driver scripts, the parsing of environment variables, the developer tools.
* Threads: the run-time library supports one.
* More than 256 arguments per call, and the content of AFL's files.
* Builds without assertions, where an expression that is too wide or ill-sorted does
  not end the program; symbolic length arguments (`fgets` concretizes its `int` length
  as `strchr` does its character); `read` and stdio mixed on one descriptor.

## 6. Plan

1. *Aggregates and byte order*: `_sym_build_extract`, `_sym_build_insert`,
   aggregate loads and stores, in both byte orders.
2. *HeapReuse*: allocators and stack frames that hand out memory with old shadow.
