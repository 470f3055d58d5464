--------------------------- MODULE Instrumentation ---------------------------
(***************************************************************************)
(* The compiler pass on one function, and the code it leaves (Pass.cpp,    *)
(* Symbolizer.cpp, Symbolizer.h).  The pass visits the instructions in the *)
(* order in which they are laid out and gives each value an expression     *)
(* register, or none; it then fills in the PHI nodes and erases those that *)
(* are known to be concrete, and finally makes every computation of        *)
(* expressions conditional on having a symbolic input.                     *)
(*                                                                         *)
(* The function is arbitrary: each instruction is chosen when the pass     *)
(* visits it.  Value 1 comes from outside (an argument, a load or a call), *)
(* value 0 is a constant.  Once instrumented the function runs: any whose  *)
(* operands are available may execute next, which covers every control     *)
(* flow, loops included.  A run on one input stands for a run on each      *)
(* input: a value, and an expression, is a function from inputs to bits.   *)
(***************************************************************************)
EXTENDS Integers, Sequences, FiniteSets

CONSTANTS
  NumValues,  \* number of SSA values of the function
  Input,      \* the inputs of the program
  Actual,     \* the input of this run
  Null,       \* the null expression
  Undef       \* a value that has not been computed

ASSUME InstrumentationAssumption ==
  /\ NumValues \in Nat \ {0}
  /\ Actual \in Input
  /\ Null \notin [Input -> {0, 1}]
  /\ Undef \notin [Input -> {0, 1}]

Values == 1..NumValues
Operand == 0..NumValues
Bit == {0, 1}

Denotation == [Input -> Bit]
Constant(b) == [x \in Input |-> b]
IsConstant(d) == \A x, y \in Input : d[x] = d[y]

VARIABLES
  phase,      \* "visit", "finalize", "shortcircuit" or "run"
  function,   \* the instructions visited so far: [op, args]
  symbolicExpressions,  \* per value, the register of its expression; 0: none
  uses,       \* per instruction, the registers its new code reads; 0: null
  plan,       \* per instruction, how each input of its computation is obtained
  den,        \* per value, what it is on each input; Undef before its execution
  expr,       \* per register, the expression it holds
  pathCondition,  \* the inputs that satisfy every pushed constraint
  samePath,   \* the inputs on which every decision was the same as on Actual,
              \* as far as it was taken on a value that was not lost
  guessed,    \* the inputs that satisfy what was pushed for the other decisions
  lost,       \* values whose dependence on the input the pass has lost
  nullPassed  \* a builder was called with a null expression

passVars == <<phase, function, symbolicExpressions, uses, plan>>
runVars == <<den, expr, pathCondition, samePath, guessed, lost, nullPassed>>
vars == <<passVars, runVars>>

(***************************************************************************)
(* Instructions.                                                           *)
(***************************************************************************)

\* The classes of instructions the pass tells apart, with their operands:
\* source   a load, or a call whose result is used;
\* binary   an operation or comparison, built by one call;
\* gep      base and index, a chain of calls that is one computation;
\* cast     a conversion, built by one call;
\* boolcast the extension of an i1, a chain of calls that is always emitted;
\* copy     a value passed on as it is (pointer casts, expect, GEP of zeros,
\*          and what a store, a return or a call hands over);
\* floatbits  the bit cast from a floating-point number to an integer;
\* opaque   inline assembly, bit counts and other intrinsics and instructions
\*          that the pass warns about: the result is taken to be concrete;
\* select, phi, branch, switch.
Instruction ==
       [op : {"source"}, args : {<<>>}]
  \cup [op : {"cast", "boolcast", "copy", "floatbits", "opaque", "branch",
              "switch"}, args : {<<a>> : a \in Operand}]
  \cup [op : {"binary", "phi"},
        args : {s \in Operand \X Operand : s[1] <= s[2]}]
  \cup [op : {"gep"}, args : Operand \X Operand]
  \cup [op : {"select"}, args : Operand \X Operand \X Operand]

NoValue == {"branch", "switch"}

Args(i) == function[i].args
Op(i) == function[i].op

(***************************************************************************)
(* First phase: visit the instructions in layout order.                    *)
(***************************************************************************)

\* getSymbolicExpression: constants and values not visited yet have none.
getSymbolicExpression(v) == IF v = 0 THEN 0 ELSE symbolicExpressions[v]

\* getSymbolicExpressionOrNull of each argument.
Registers(args) == [k \in DOMAIN args |-> getSymbolicExpression(args[k])]

SomeExpression(args) == \E k \in DOMAIN args : getSymbolicExpression(args[k]) # 0

\* The operands whose expressions are inputs of the call or calls emitted for
\* an instruction: a GEP multiplies its index by a constant and adds the base;
\* a branch and a select push their condition.
Inputs(I) ==
  CASE I.op = "gep" -> <<I.args[2], 0, I.args[1]>>
    [] I.op \in {"select", "branch"} -> <<I.args[1]>>
    [] I.op \in {"binary", "cast", "boolcast", "floatbits"} -> I.args
    [] OTHER -> <<>>

\* What the visit methods register as the expression of the i-th value.
\* Computations get a register of their own unless all inputs are known to be
\* concrete; a copy shares the register of its operand.
ResultRegister(i, I) ==
  CASE I.op \in {"source", "phi", "boolcast"} -> i
    [] I.op \in {"binary", "gep", "cast"} -> IF SomeExpression(I.args) THEN i ELSE 0
    [] I.op = "select" -> IF SomeExpression(Tail(I.args)) THEN i ELSE 0
    [] I.op = "copy" -> getSymbolicExpression(I.args[1])
    [] I.op \in {"floatbits", "opaque"} \cup NoValue -> 0

\* The registers the emitted code reads.  The incoming expressions of a PHI
\* node are null for now.
EmittedUses(I) ==
  CASE I.op = "phi" -> <<0, 0>>
    [] I.op = "switch" -> Registers(I.args)
    [] I.op = "select" -> Registers(I.args)
    [] OTHER -> Registers(Inputs(I))

\* symbolizeFunctionArguments, then instrumentFunction's first loop.
Visit(I) ==
  /\ phase = "visit"
  /\ LET i == Len(function) + 1 IN
     /\ i = 1 => I.op = "source"
     /\ \A k \in DOMAIN I.args : I.args[k] \in 1..Len(function) =>
          Op(I.args[k]) \notin NoValue
     /\ I.op # "phi" => \A k \in DOMAIN I.args : I.args[k] # i
     /\ I.op \in NoValue => \A j \in 1..Len(function) :
          \A k \in DOMAIN Args(j) : Args(j)[k] # i
     /\ function' = Append(function, I)
     /\ symbolicExpressions' =
          [symbolicExpressions EXCEPT ![i] = ResultRegister(i, I)]
     /\ uses' = Append(uses, EmittedUses(I))
     /\ phase' = IF i = NumValues THEN "finalize" ELSE "visit"
  /\ UNCHANGED <<plan, runVars>>

(***************************************************************************)
(* Second phase: PHI nodes.                                                *)
(***************************************************************************)

\* PHI nodes that receive only values without an expression are erased.
nodesToErase ==
  {i \in Values : Op(i) = "phi" /\ ~SomeExpression(Args(i))}

\* Faulty variant: the incoming expressions are not filled in.
FinalUsesKeepNull(i) ==
  [k \in DOMAIN uses[i] |-> IF uses[i][k] \in nodesToErase THEN 0 ELSE uses[i][k]]

\* The incoming expressions are filled in, and uses of erased nodes replaced
\* by null (an erased node itself stays as a null expression).
FinalUses(i) ==
  LET filled == IF Op(i) = "phi" THEN Registers(Args(i)) ELSE uses[i]
  IN  [k \in DOMAIN filled |-> IF filled[k] \in nodesToErase THEN 0 ELSE filled[k]]

finalizePHINodes ==
  /\ phase = "finalize"
  /\ uses' = [i \in Values |-> FinalUses(i)]
  /\ phase' = "shortcircuit"
  /\ UNCHANGED <<function, symbolicExpressions, plan, runVars>>

(***************************************************************************)
(* Third phase: short-circuiting.                                          *)
(***************************************************************************)

\* The registers of the recorded inputs of the i-th computation.
InputRegisters(i) ==
  IF Op(i) \in {"select", "branch"} THEN SubSeq(uses[i], 1, 1)
  ELSE IF Op(i) \in {"phi", "copy", "source", "opaque", "switch"} THEN <<>>
  ELSE uses[i]

numUnknownConcreteness(i) ==
  Cardinality({k \in DOMAIN InputRegisters(i) : InputRegisters(i)[k] # 0})

\* Faulty variant: the check is omitted for two inputs as well.
PlanTwoUnchecked(i) ==
  [k \in DOMAIN InputRegisters(i) |->
     CASE InputRegisters(i)[k] = 0 -> "create"
       [] InputRegisters(i)[k] # 0 /\ numUnknownConcreteness(i) <= 2 -> "keep"
       [] OTHER -> "check"]

\* How the slow path obtains the expression of each input: inputs known to be
\* concrete get a new expression; the others are checked at run time, unless
\* there is only one of them.
Plan(i) ==
  [k \in DOMAIN InputRegisters(i) |->
     CASE InputRegisters(i)[k] = 0 -> "create"
       [] InputRegisters(i)[k] # 0 /\ numUnknownConcreteness(i) = 1 -> "keep"
       [] OTHER -> "check"]

shortCircuitExpressionUses ==
  /\ phase = "shortcircuit"
  /\ plan' = [i \in Values |-> Plan(i)]
  /\ phase' = "run"
  /\ UNCHANGED <<function, symbolicExpressions, uses, runVars>>

(***************************************************************************)
(* The instrumented function runs.                                         *)
(***************************************************************************)

Den(v) == IF v = 0 THEN Constant(1) ELSE den[v]
Val(v) == Den(v)[Actual]
Register(r) == IF r = 0 THEN Null ELSE expr[r]

Available(i) == \A k \in DOMAIN Args(i) : Den(Args(i)[k]) # Undef

\* Executing a value again starts a new iteration: what was computed from the
\* old one is computed again before it is used (the value dominates its users).
\* PHI nodes carry old values over.
Outdated(i) ==
  LET Closed(S) == \A j \in Values \ S :
        Op(j) # "phi" => \A k \in DOMAIN Args(j) : Args(j)[k] \notin S
  IN  {j \in Values \ {i} : \A S \in SUBSET Values : i \in S /\ Closed(S) => j \in S}

\* What an operation computes, of values or of expressions, in the order of
\* Inputs.
Apply(op, d) ==
  [x \in Input |-> CASE op = "binary" -> 1 - d[1][x] * d[2][x]
                     [] op = "gep" -> (d[1][x] * d[2][x] + d[3][x]) % 2
                     [] OTHER -> 1 - d[1][x]]

InputDens(i) == LET in == Inputs(function[i]) IN [k \in DOMAIN in |-> Den(in[k])]

\* The fast path is taken: no input of the computation is symbolic.
AllConcrete(i) ==
  \A k \in DOMAIN InputRegisters(i) : Register(InputRegisters(i)[k]) = Null

\* The expressions that the slow path passes to the builder.
\* createValueExpression describes the concrete value.
BuilderArgs(i) ==
  LET in == Inputs(function[i])
  IN  [k \in DOMAIN in |->
         LET e == Register(InputRegisters(i)[k])
         IN  IF plan[i][k] = "create" \/ (plan[i][k] = "check" /\ e = Null)
             THEN Constant(Val(in[k]))
             ELSE e]

PassesNull(i) ==
  ~AllConcrete(i) /\ \E k \in DOMAIN BuilderArgs(i) : BuilderArgs(i)[k] = Null

\* The result of a computation of expressions: null on the fast path.
Computed(i) ==
  IF AllConcrete(i) \/ PassesNull(i) THEN Null ELSE Apply(Op(i), BuilderArgs(i))

\* The operand is symbolic, but was visited after the instruction that uses it,
\* which therefore takes it for concrete.
VisitedTooLate(v, i) ==
  v > i /\ Op(i) # "phi" /\ Register(symbolicExpressions[v]) # Null

Loses(v, i) == v # 0 /\ (v \in lost \/ VisitedTooLate(v, i))

\* The operand of the i-th value is symbolic, but the pass gives the value no
\* expression.
DropsExpression(i) ==
  \/ Op(i) = "floatbits" /\ ~AllConcrete(i)
  \/ Op(i) = "opaque" /\ Register(getSymbolicExpression(Args(i)[1])) # Null

\* The i-th value becomes d, its register (if it has its own) e; used are the
\* operands it is computed from.
SetValue(i, d, e, used) ==
  /\ den' = [j \in Values |->
       IF j = i THEN d ELSE IF j \in Outdated(i) THEN Undef ELSE den[j]]
  /\ expr' = [j \in Values |->
       IF j = i /\ symbolicExpressions[i] = i THEN e
       ELSE IF j \in Outdated(i) THEN Null ELSE expr[j]]
  /\ lost' = (lost \ ({i} \cup Outdated(i)))
       \cup (IF (\E v \in used : Loses(v, i)) \/ DropsExpression(i) THEN {i} ELSE {})
  /\ nullPassed' = (nullPassed \/ PassesNull(i))

\* A decision on operand v, and the constraint e (null: none) pushed for it.
Decide(i, v, e) ==
  LET Satisfies(x) == e # Null => e[x] = Val(v) IN
  /\ pathCondition' = {x \in pathCondition : Satisfies(x)}
  /\ IF Loses(v, i)
     THEN guessed' = {x \in guessed : Satisfies(x)} /\ UNCHANGED samePath
     ELSE samePath' = {x \in samePath : Den(v)[x] = Val(v)} /\ UNCHANGED guessed

Executes(i, ops) == phase = "run" /\ Op(i) \in ops /\ Available(i)

NoDecision == UNCHANGED <<passVars, samePath, guessed, pathCondition>>

\* A load or a call: a null expression stands for a concrete value.
ExecuteSource(i) ==
  /\ Executes(i, {"source"})
  /\ \E d \in Denotation : \E e \in {d} \cup (IF IsConstant(d) THEN {Null} ELSE {}) :
       SetValue(i, d, e, {})
  /\ NoDecision

ExecuteComputation(i) ==
  /\ Executes(i, {"binary", "gep", "cast", "boolcast"})
  /\ SetValue(i, Apply(Op(i), InputDens(i)), Computed(i),
              {Args(i)[k] : k \in DOMAIN Args(i)})
  /\ NoDecision

\* The bits of a floating-point number: the expression is built, but not
\* registered as that of the result.
ExecuteFloatBits(i) ==
  /\ Executes(i, {"floatbits"})
  /\ SetValue(i, Apply(Op(i), InputDens(i)), Computed(i), {Args(i)[1]})
  /\ NoDecision

\* The expression of a copy is that of its operand.
ExecuteCopy(i) ==
  /\ Executes(i, {"copy"})
  /\ SetValue(i, Den(Args(i)[1]), Null, {Args(i)[1]})
  /\ NoDecision

\* The result depends on the operand, of which the pass loses track.
ExecuteOpaque(i) ==
  /\ Executes(i, {"opaque"})
  /\ SetValue(i, Apply("opaque", <<Den(Args(i)[1])>>), Null, {Args(i)[1]})
  /\ NoDecision

\* Control comes from a block whose value is available.
ExecutePHI(i) ==
  /\ phase = "run" /\ Op(i) = "phi"
  /\ \E k \in DOMAIN Args(i) :
       /\ Den(Args(i)[k]) # Undef
       /\ SetValue(i, Den(Args(i)[k]), Register(uses[i][k]), {Args(i)[k]})
  /\ NoDecision

PushedCondition(i) ==
  IF AllConcrete(i) \/ PassesNull(i) THEN Null ELSE BuilderArgs(i)[1]

\* Faulty variant: no constraint for the choice.
ExecuteSelectSilently(i) ==
  /\ Executes(i, {"select"})
  /\ LET chosen == IF Val(Args(i)[1]) = 1 THEN 2 ELSE 3 IN
     SetValue(i, Den(Args(i)[chosen]), Register(uses[i][chosen]), {Args(i)[chosen]})
  /\ Decide(i, Args(i)[1], Null)
  /\ UNCHANGED passVars

\* A select pushes its condition and passes on the chosen expression.
ExecuteSelect(i) ==
  /\ Executes(i, {"select"})
  /\ LET chosen == IF Val(Args(i)[1]) = 1 THEN 2 ELSE 3 IN
     SetValue(i, Den(Args(i)[chosen]), Register(uses[i][chosen]), {Args(i)[chosen]})
  /\ Decide(i, Args(i)[1], PushedCondition(i))
  /\ UNCHANGED passVars

ExecuteBranch(i) ==
  /\ Executes(i, {"branch"})
  /\ Decide(i, Args(i)[1], PushedCondition(i))
  /\ nullPassed' = (nullPassed \/ PassesNull(i))
  /\ UNCHANGED <<passVars, den, expr, lost>>

\* One constraint per case, if the condition is symbolic; together they say
\* which case is taken.
ExecuteSwitch(i) ==
  /\ Executes(i, {"switch"})
  /\ Decide(i, Args(i)[1], Register(uses[i][1]))
  /\ UNCHANGED <<passVars, den, expr, lost, nullPassed>>

(***************************************************************************)
(* Specification.                                                          *)
(***************************************************************************)

Init ==
  /\ phase = "visit"
  /\ function = <<>>
  /\ symbolicExpressions = [i \in Values |-> 0]
  /\ uses = <<>>
  /\ plan = <<>>
  /\ den = [i \in Values |-> Undef]
  /\ expr = [i \in Values |-> Null]
  /\ pathCondition = Input
  /\ samePath = Input
  /\ guessed = Input
  /\ lost = {}
  /\ nullPassed = FALSE

Next ==
  \/ \E I \in Instruction : Visit(I)
  \/ finalizePHINodes
  \/ shortCircuitExpressionUses
  \/ \E i \in Values :
       \/ ExecuteSource(i)
       \/ ExecuteComputation(i)
       \/ ExecuteFloatBits(i)
       \/ ExecuteCopy(i)
       \/ ExecuteOpaque(i)
       \/ ExecutePHI(i)
       \/ ExecuteSelect(i)
       \/ ExecuteBranch(i)
       \/ ExecuteSwitch(i)

Spec == Init /\ [][Next]_vars

(***************************************************************************)
(* Properties.                                                             *)
(***************************************************************************)

\* Whenever a value is available, its expression says what the value is on
\* every input that takes the same path, and a null expression means that the
\* value does not depend on the input: erased and filled-in PHI nodes, shared
\* registers, skipped checks and the fast path lose and confuse nothing.  Only
\* values that the pass has lost are excused: the results of opaque instructions
\* on symbolic operands (inline assembly, bit counts, unknown instructions), bit
\* casts from floating point, those that use a value that is laid out later,
\* and whatever is computed from any of them.  Their expressions, if they have
\* any, are right about this run.
ExpressionsDenoteValues ==
  \A i \in Values :
    den[i] # Undef =>
      LET e == Register(symbolicExpressions[i])
      IN  IF i \in lost THEN e = Null \/ e[Actual] = den[i][Actual]
          ELSE IF e = Null THEN IsConstant(den[i]) ELSE e = den[i]

\* No builder that is called conditionally ever gets a null expression: the
\* checks that shortCircuitExpressionUses omits are not needed.
BuildersGetExpressions == ~nullPassed

\* The path constraints pushed by branches, selects and switches hold for
\* exactly those inputs on which the function makes the same decisions, this
\* one among them.  A decision on a lost value is not described: what is pushed
\* for it, possibly nothing, only narrows the inputs down further, and the
\* inputs that are left may decide differently there.
PathConditionIsPath ==
  pathCondition = samePath \cap guessed /\ Actual \in pathCondition
=============================================================================
