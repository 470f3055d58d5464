--------------------------- MODULE PathConstraints --------------------------
(***************************************************************************)
(* How one execution of an instrumented program collects path constraints  *)
(* and asks for inputs that diverge from it: _sym_push_path_constraint of  *)
(* the simple backend with the Z3 solver it drives, the concretizations    *)
(* that libc wrappers and memory accesses request, and the cache that      *)
(* _sym_push_switch_constraint keeps for the cases of a switch.            *)
(*                                                                         *)
(* A constraint is the set of program inputs that satisfy it, and a set of *)
(* assertions is the set of inputs that satisfy all of them.  The program  *)
(* is any sequence of decisions; what a decision is about is an arbitrary  *)
(* function of the input.                                                  *)
(***************************************************************************)
EXTENDS Integers, Sequences

CONSTANTS
  InputSpace,    \* all inputs of the length of the current one
  NumCases,      \* cases of a switch, without its default
  MaxDecisions,  \* bound: decisions in an execution
  NoSwitch       \* no switch is being executed

ASSUME PathAssumption ==
  /\ InputSpace # {}
  /\ NumCases \in Nat \ {0}
  /\ MaxDecisions \in Nat
  /\ NoSwitch \notin [InputSpace -> 0..NumCases]

\* What a switch selects as a function of the input; 0 is the default.
Switches == [InputSpace -> 0..NumCases]

VARIABLES
  input,            \* the input that the program runs on
  solver,           \* g_solver: inputs that satisfy the asserted constraints
  cache,            \* __cached_switch_case_constraints
  taken_constraint, \* position in cache of the taken case, or 0 (NULL)
  index,            \* next case of the switch, then of the loop over cache
  switch,           \* the switch being executed, or NoSwitch
  call,             \* the arguments of _sym_push_path_constraint
  pc,               \* where control is, see below
  generated,        \* diverging inputs found
  failed,           \* the assertion that stopped the program, or "none"
  decisions,        \* decisions so far
  path,             \* history: inputs that make all the decisions made so far
  wanted,           \* history: alternatives that existed at some decision
  timedOut          \* history: did the solver give up on a query?

switchVars == <<cache, taken_constraint, index, switch>>
history == <<decisions, path, wanted>>
vars == <<input, solver, switchVars, call, pc, generated, failed, history, timedOut>>

(***************************************************************************)
(* pc is "program" when the program runs, "case" when it is about to push  *)
(* the next case of a switch, "loop" in the loop over the cached cases,    *)
(* and "solve" and "assert" in _sym_push_path_constraint before and after  *)
(* it has tried to solve the alternative.                                  *)
(***************************************************************************)
At(place) == pc = place /\ failed = "none"

\* The run-time library has returned to the program.
Returned == At("program")

\* Where _sym_push_path_constraint returns to.
Caller == IF switch = NoSwitch THEN "program" ELSE "loop"

(***************************************************************************)
(* The solver.                                                             *)
(***************************************************************************)

\* Z3_solver_check on the assertions s: it may run into its timeout.
CheckResults(s) == {IF s # {} THEN "true" ELSE "false", "undef"}

\* Faulty variant: the outcome of the branch is ignored.
ActualIfTaken(p) == p.constraint

\* What the path constraint asserts once it is taken or not.
Actual(p) == IF p.taken THEN p.constraint ELSE InputSpace \ p.constraint

\* Faulty variant: the path itself is solved for again.
NoAlternative(p) == Actual(p)

\* What is solved for a diverging input.
Alternative(p) == IF p.taken THEN InputSpace \ p.constraint ELSE p.constraint

\* Z3_simplify reduced the constraint to true or false: nothing is solved or
\* asserted.  (Whether it recognises such a constraint is up to Z3.)
Trivial ==
  /\ At("solve")
  /\ call.constraint \in {{}, InputSpace}
  /\ IF call.taken = (call.constraint = InputSpace)
     THEN pc' = Caller /\ UNCHANGED failed
     ELSE failed' = "We have taken an impossible branch" /\ UNCHANGED pc
  /\ UNCHANGED <<input, solver, switchVars, call, generated, history, timedOut>>

\* push, assert the alternative, check, pop.
SolveAlternative ==
  /\ At("solve")
  /\ LET s == solver \cap Alternative(call) IN
     \E result \in CheckResults(s) :
       /\ IF result = "true"
          THEN \E model \in s : generated' = generated \cup {model}
          ELSE UNCHANGED generated
       /\ timedOut' = (timedOut \/ result = "undef")
  /\ pc' = "assert"
  /\ UNCHANGED <<input, solver, switchVars, call, failed, history>>

\* Assert the actual constraint, and check that the path is feasible.
AssertActual ==
  /\ At("assert")
  /\ solver' = solver \cap Actual(call)
  /\ \E result \in CheckResults(solver') :
       /\ failed' = IF result = "true"
                    THEN "none"
                    ELSE "Asserting infeasible path constraint"
       /\ timedOut' = (timedOut \/ result = "undef")
  /\ pc' = Caller
  /\ UNCHANGED <<input, switchVars, call, generated, history>>

_sym_push_path_constraint == Trivial \/ SolveAlternative \/ AssertActual

(***************************************************************************)
(* The program.                                                            *)
(***************************************************************************)

\* The program decides something of which alts are the possible outcomes and
\* takes the one that contains its input.
Decide(alts) ==
  /\ decisions < MaxDecisions
  /\ decisions' = decisions + 1
  /\ path' = {i \in path : \A c \in alts : i \in c <=> input \in c}
  /\ wanted' = wanted \cup ({path \cap c : c \in {d \in alts : input \notin d}}
                              \ {{}})

\* A conditional branch or a select on a symbolic condition.
Branch(condition) ==
  /\ Returned
  /\ Decide({condition, InputSpace \ condition})
  /\ call' = [constraint |-> condition, taken |-> input \in condition]
  /\ pc' = "solve"
  /\ UNCHANGED <<input, solver, switchVars, generated, failed, timedOut>>

\* A symbolic pointer, size or value is pinned to its concrete value; same are
\* the inputs that give it that value.
Concretize(same) ==
  /\ Returned
  /\ input \in same
  /\ Decide({same, InputSpace \ same})
  /\ call' = [constraint |-> same, taken |-> TRUE]
  /\ pc' = "solve"
  /\ UNCHANGED <<input, solver, switchVars, generated, failed, timedOut>>

\* Faulty variant: the condition of a case includes the cases before it.
CasesUpTo(s, k) == {i \in InputSpace : s[i] \in 1..k}

CaseSet(s, k) == {i \in InputSpace : s[i] = k}

\* A switch on a symbolic value begins: one call per case follows.
Switch(s) ==
  /\ Returned
  /\ Decide({CaseSet(s, k) : k \in 0..NumCases})
  /\ switch' = s
  /\ index' = 0
  /\ pc' = "case"
  /\ UNCHANGED <<input, solver, cache, taken_constraint, call, generated, failed,
                 timedOut>>

\* _sym_push_switch_constraint for the next case: it is cached, and after the
\* last one the loop over the cache begins.
CacheCase ==
  /\ At("case")
  /\ IF index = 0 /\ cache # <<>>
     THEN /\ failed' = "Cached constraints not empty"
          /\ UNCHANGED <<cache, index, pc>>
     ELSE LET case == CaseSet(switch, index + 1) IN
          /\ cache' = Append(cache, [constraint |-> case, taken |-> input \in case])
          /\ IF index = NumCases - 1
             THEN index' = 0 /\ pc' = "loop"
             ELSE index' = index + 1 /\ UNCHANGED pc
          /\ UNCHANGED failed
  /\ UNCHANGED <<input, solver, switch, taken_constraint, call, generated, history,
                 timedOut>>

\* Faulty variants: the cases are pushed in their order; and those that were
\* not taken are not pushed.
PushInOrder ==
  /\ At("loop") /\ index < Len(cache)
  /\ call' = cache[index + 1] /\ pc' = "solve" /\ index' = index + 1
  /\ UNCHANGED <<taken_constraint, failed, input, solver, cache, switch, generated,
                 history, timedOut>>
PushNothing ==
  /\ At("loop") /\ index < Len(cache)
  /\ taken_constraint' = IF cache[index + 1].taken THEN index + 1 ELSE taken_constraint
  /\ index' = index + 1
  /\ UNCHANGED <<call, pc, failed, input, solver, cache, switch, generated, history,
                 timedOut>>

\* An iteration of the loop: a case that was not taken is pushed at once, "so
\* they aren't blocked by the taken one", which is remembered.
PushNotTaken ==
  /\ At("loop") /\ index < Len(cache)
  /\ IF ~cache[index + 1].taken
     THEN /\ call' = cache[index + 1] /\ pc' = "solve" /\ index' = index + 1
          /\ UNCHANGED <<taken_constraint, failed>>
     ELSE /\ IF taken_constraint = 0
             THEN taken_constraint' = index + 1 /\ index' = index + 1 /\ UNCHANGED failed
             ELSE failed' = "Multiple taken constraints"
                  /\ UNCHANGED <<taken_constraint, index>>
          /\ UNCHANGED <<call, pc>>
  /\ UNCHANGED <<input, solver, cache, switch, generated, history, timedOut>>

\* After the loop the taken case is pushed.
PushTaken ==
  /\ At("loop") /\ index = Len(cache) /\ taken_constraint # 0
  /\ call' = cache[taken_constraint] /\ pc' = "solve" /\ index' = index + 1
  /\ UNCHANGED <<input, solver, cache, taken_constraint, switch, generated, failed,
                 history, timedOut>>

\* The cache is cleared and the program goes on behind the switch.
ClearCache ==
  /\ At("loop")
  /\ index = Len(cache) + (IF taken_constraint = 0 THEN 0 ELSE 1)
  /\ cache' = <<>> /\ taken_constraint' = 0 /\ index' = 0
  /\ switch' = NoSwitch /\ pc' = "program"
  /\ UNCHANGED <<input, solver, call, generated, failed, history, timedOut>>

_sym_push_switch_constraint == CacheCase \/ PushNotTaken \/ PushTaken \/ ClearCache

Init ==
  /\ input \in InputSpace
  /\ solver = InputSpace
  /\ cache = <<>> /\ taken_constraint = 0 /\ index = 0 /\ switch = NoSwitch
  /\ call = [constraint |-> {}, taken |-> FALSE] /\ pc = "program"
  /\ generated = {}
  /\ failed = "none"
  /\ decisions = 0 /\ path = InputSpace /\ wanted = {}
  /\ timedOut = FALSE

Next ==
  \/ \E c \in SUBSET InputSpace : Branch(c) \/ Concretize(c)
  \/ \E s \in Switches : Switch(s)
  \/ _sym_push_switch_constraint
  \/ _sym_push_path_constraint

Spec == Init /\ [][Next]_vars

-----------------------------------------------------------------------------

\* The current input satisfies every constraint that has been asserted, also
\* in the middle of the cases of a switch: the path is feasible.
InputSatisfiesPath == input \in solver

\* Whenever the program runs, the solver holds exactly the path condition: the
\* inputs that make the same decisions.  Nothing is lost when a switch is
\* pushed case by case and nothing of an alternative is left behind.
SolverHoldsPathCondition == Returned => solver = path

\* No alternative is missed: if some input agreed with the execution up to a
\* decision and then went another way (another case or the default of a
\* switch, too), such an input has been generated, unless the solver gave up.
EveryAlternativeGenerated ==
  Returned /\ ~timedOut => \A w \in wanted : w \cap generated # {}

\* Every generated input follows the execution up to some decision and takes
\* another way there.
GeneratedInputsDiverge == generated \subseteq UNION wanted

\* The assertions of _sym_push_switch_constraint and the two about impossible
\* branches never fail.  "Asserting infeasible path constraint" fails only when
\* the solver has run out of time (simple_backend/Runtime.cpp:468): then the
\* path is feasible all the same.
InternalAssertionsHold ==
  /\ failed \in {"none", "Asserting infeasible path constraint"}
  /\ failed # "none" => timedOut /\ solver # {}
=============================================================================
