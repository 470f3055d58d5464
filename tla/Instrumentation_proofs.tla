----------------------- MODULE Instrumentation_proofs -----------------------
(***************************************************************************)
(* Proofs about Instrumentation, for functions of every length and for     *)
(* every set of inputs.                                                    *)
(***************************************************************************)
EXTENDS Instrumentation, FiniteSetTheorems, WellFoundedInduction, TLAPS

(***************************************************************************)
(* The inductive invariant: what the pass leaves.                          *)
(***************************************************************************)

Ops == {"source", "cast", "boolcast", "copy", "floatbits", "opaque", "branch", "switch",
        "binary", "phi", "gep", "select"}

PassType ==
  /\ phase \in {"visit", "finalize", "shortcircuit", "run"}
  /\ function \in Seq(Instruction)
  /\ Len(function) \in 0..NumValues
  /\ Len(function) = NumValues <=> phase # "visit"
  /\ symbolicExpressions \in [Values -> Operand]
  /\ \A v \in Values : v > Len(function) => symbolicExpressions[v] = 0

\* The register of operand a that the visit of instruction i finds.
Early(a, i) == IF a = 0 \/ a >= i THEN 0 ELSE symbolicExpressions[a]

\* The register that the visit of instruction i gives to its value.
RegisterRule(i) ==
  LET r == symbolicExpressions[i] IN
  /\ Op(i) \in {"source", "phi", "boolcast"} => r = i
  /\ Op(i) \in {"binary", "gep", "cast"} =>
       r = IF \E k \in DOMAIN Args(i) : Early(Args(i)[k], i) # 0 THEN i ELSE 0
  /\ Op(i) = "select" =>
       r = IF Early(Args(i)[2], i) # 0 \/ Early(Args(i)[3], i) # 0 THEN i ELSE 0
  /\ Op(i) = "copy" => r = Early(Args(i)[1], i)
  /\ Op(i) \in {"floatbits", "opaque", "branch", "switch"} => r = 0

\* The operands whose registers the code of an instruction reads.
UseArgs(I) == IF I.op \in {"phi", "switch", "select"} THEN I.args ELSE Inputs(I)

\* The registers that it reads after the visit, and finally.
EarlyUses(i) == [k \in DOMAIN UseArgs(function[i]) |-> Early(UseArgs(function[i])[k], i)]

Late(a, i) == IF Op(i) = "phi" THEN getSymbolicExpression(a) ELSE Early(a, i)
Kept(r) == IF r \in nodesToErase THEN 0 ELSE r
LateUses(i) ==
  [k \in DOMAIN UseArgs(function[i]) |-> Kept(Late(UseArgs(function[i])[k], i))]

PassInv ==
  /\ PassType
  /\ \A i \in 1..Len(function) :
       /\ RegisterRule(i)
       /\ Op(i) # "phi" => \A k \in DOMAIN Args(i) : Args(i)[k] # i
  /\ phase \in {"visit", "finalize"} =>
       /\ uses \in Seq(Seq(Operand)) /\ Len(uses) = Len(function)
       /\ \A i \in 1..Len(function) : Op(i) # "phi" => uses[i] = EarlyUses(i)
  /\ phase \in {"shortcircuit", "run"} => \A i \in Values : uses[i] = LateUses(i)
  /\ phase = "run" => \A i \in Values : plan[i] = Plan(i)

(***************************************************************************)
(* The run of the instrumented function.                                   *)
(***************************************************************************)

RunType ==
  /\ den \in [Values -> Denotation \cup {Undef}]
  /\ expr \in [Values -> Denotation \cup {Null}]
  /\ lost \subseteq Values
  /\ samePath \subseteq Input /\ guessed \subseteq Input
  /\ nullPassed \in BOOLEAN
  /\ phase # "run" => /\ den = [i \in Values |-> Undef]
                      /\ expr = [i \in Values |-> Null]
                      /\ lost = {}

Present == {i \in Values : den[i] # Undef}

\* A value is there only if the values it was computed from are, and they were
\* there before it.
Ordered ==
  phase = "run" =>
    /\ \A j \in Present : Op(j) # "phi" =>
         \A k \in DOMAIN Args(j) : Args(j)[k] = 0 \/ Args(j)[k] \in Present
    /\ \A T \in SUBSET Present : T # {} =>
         \E j \in T : Op(j) = "phi" \/ \A k \in DOMAIN Args(j) : Args(j)[k] \notin T

\* An erased PHI node has no expression.
ErasedAreNull == phase = "run" => \A i \in nodesToErase : expr[i] = Null

RunInv ==
  /\ RunType /\ Ordered /\ ErasedAreNull
  /\ ExpressionsDenoteValues /\ BuildersGetExpressions /\ PathConditionIsPath

InstrumentationInv == PassInv /\ RunInv

(***************************************************************************)
(* Instructions.                                                           *)
(***************************************************************************)

\* The operands of each class of instructions.
LEMMA InstructionFacts ==
  ASSUME NEW I \in Instruction
  PROVE  /\ I.op \in Ops
         /\ I.op = "source" => DOMAIN I.args = {}
         /\ I.op \in {"cast", "boolcast", "copy", "floatbits", "opaque", "branch", "switch"} =>
              DOMAIN I.args = {1}
         /\ I.op \in {"binary", "phi", "gep"} => DOMAIN I.args = {1, 2}
         /\ I.op = "select" => DOMAIN I.args = {1, 2, 3}
         /\ \A k \in DOMAIN I.args : I.args[k] \in Operand
  <1>1. CASE I \in [op : {"source"}, args : {<<>>}]
    BY <1>1 DEF Ops
  <1>2. CASE I \in [op : {"cast", "boolcast", "copy", "floatbits", "opaque", "branch",
                          "switch"}, args : {<<a>> : a \in Operand}]
    <2>1. PICK a \in Operand : I.args = <<a>>
      BY <1>2
    <2> QED BY <1>2, <2>1 DEF Ops
  <1>3. CASE I \in [op : {"binary", "phi"},
                    args : {s \in Operand \X Operand : s[1] <= s[2]}]
    <2>1. I.args \in Operand \X Operand /\ I.op \in {"binary", "phi"}
      BY <1>3
    <2> QED BY <2>1 DEF Ops
  <1>4. CASE I \in [op : {"gep"}, args : Operand \X Operand]
    <2>1. I.args \in Operand \X Operand /\ I.op = "gep"
      BY <1>4
    <2> QED BY <2>1 DEF Ops
  <1>5. CASE I \in [op : {"select"}, args : Operand \X Operand \X Operand]
    <2>1. I.args \in Operand \X Operand \X Operand /\ I.op = "select"
      BY <1>5
    <2> QED BY <2>1 DEF Ops
  <1> QED BY <1>1, <1>2, <1>3, <1>4, <1>5 DEF Instruction

\* The arguments are a sequence of operands.
LEMMA ArgsAreOperands ==
  ASSUME NEW I \in Instruction
  PROVE  I.args \in Seq(Operand)
  <1>1. CASE I.args = <<>>
    BY <1>1
  <1>2. CASE I.args \in {<<a>> : a \in Operand}
    <2>1. PICK a \in Operand : I.args = <<a>>
      BY <1>2
    <2>2. <<a>> \in Seq(Operand)
      OBVIOUS
    <2> QED BY <2>1, <2>2
  <1>3. CASE I.args \in Operand \X Operand
    <2>1. PICK x \in Operand, y \in Operand : I.args = <<x, y>>
      BY <1>3
    <2>2. <<x, y>> \in Seq(Operand)
      OBVIOUS
    <2> QED BY <2>1, <2>2
  <1>4. CASE I.args \in Operand \X Operand \X Operand
    <2>1. PICK x \in Operand, y \in Operand, z \in Operand : I.args = <<x, y, z>>
      BY <1>4
    <2>2. <<x, y, z>> \in Seq(Operand)
      OBVIOUS
    <2> QED BY <2>1, <2>2
  <1> QED BY <1>1, <1>2, <1>3, <1>4 DEF Instruction

\* The inputs of the call emitted for each class.
LEMMA InputFacts ==
  ASSUME NEW I \in Instruction
  PROVE  /\ I.op = "gep" => Inputs(I) = <<I.args[2], 0, I.args[1]>>
         /\ I.op \in {"select", "branch"} => Inputs(I) = <<I.args[1]>>
         /\ I.op \in {"binary", "cast", "boolcast", "floatbits"} => Inputs(I) = I.args
         /\ I.op \in {"source", "copy", "opaque", "switch", "phi"} => Inputs(I) = <<>>
  BY DEF Inputs

\* The code of an instruction reads registers of its operands only.
LEMMA UseFacts ==
  ASSUME NEW I \in Instruction
  PROVE  \A k \in DOMAIN UseArgs(I) :
           /\ UseArgs(I)[k] \in Operand
           /\ UseArgs(I)[k] = 0 \/ \E m \in DOMAIN I.args : UseArgs(I)[k] = I.args[m]
  <1>1. 0 \in Operand
    BY InstrumentationAssumption DEF Operand
  <1>2. CASE I.op \in {"phi", "switch", "select"}
    BY <1>2, InstructionFacts DEF UseArgs
  <1>3. CASE I.op = "gep"
    <2>1. UseArgs(I) = <<I.args[2], 0, I.args[1]>>
      BY <1>3, InputFacts DEF UseArgs
    <2>2. DOMAIN I.args = {1, 2} /\ I.args[1] \in Operand /\ I.args[2] \in Operand
      BY <1>3, InstructionFacts
    <2> QED BY <1>1, <2>1, <2>2
  <1>4. CASE I.op = "branch"
    <2>1. UseArgs(I) = <<I.args[1]>>
      BY <1>4, InputFacts DEF UseArgs
    <2>2. DOMAIN I.args = {1} /\ I.args[1] \in Operand
      BY <1>4, InstructionFacts
    <2> QED BY <2>1, <2>2
  <1>5. CASE I.op \in {"binary", "cast", "boolcast", "floatbits"}
    <2>1. UseArgs(I) = I.args
      BY <1>5, InputFacts DEF UseArgs
    <2> QED BY <2>1, InstructionFacts
  <1>6. CASE I.op \in {"source", "copy", "opaque"}
    <2>1. UseArgs(I) = <<>>
      BY <1>6, InputFacts DEF UseArgs
    <2> QED BY <2>1
  <1> QED BY <1>2, <1>3, <1>4, <1>5, <1>6, InstructionFacts DEF Ops

(***************************************************************************)
(* The phases of the pass.                                                 *)
(***************************************************************************)

\* The invariant holds before the pass.
LEMMA InitInv == Init => InstrumentationInv
  <1> SUFFICES ASSUME Init PROVE InstrumentationInv
    OBVIOUS
  <1> USE DEF Init
  <1>1. NumValues \in Nat \ {0} /\ 0 \in Operand
    BY InstrumentationAssumption DEF Operand
  <1>2. PassInv
    BY <1>1 DEF PassInv, PassType
  <1>3. RunType
    BY DEF RunType
  <1>4. ExpressionsDenoteValues
    BY DEF ExpressionsDenoteValues
  <1>5. Ordered /\ ErasedAreNull /\ BuildersGetExpressions /\ PathConditionIsPath
    BY InstrumentationAssumption
       DEF Ordered, ErasedAreNull, BuildersGetExpressions, PathConditionIsPath
  <1> QED BY <1>2, <1>3, <1>4, <1>5 DEF InstrumentationInv, RunInv

\* Nothing has run before the pass is finished.
LEMMA NotRunning ==
  ASSUME RunInv, phase # "run", UNCHANGED runVars,
         nodesToErase' \subseteq Values
  PROVE  RunInv'
  <1>1. /\ UNCHANGED <<den, expr, pathCondition, samePath, guessed, lost, nullPassed>>
        /\ den = [i \in Values |-> Undef] /\ expr = [i \in Values |-> Null] /\ lost = {}
    BY DEF RunInv, RunType, runVars
  <1>2. RunType'
    BY <1>1 DEF RunInv, RunType
  <1>3. Present' = {}
    BY <1>1 DEF Present
  <1>4. Ordered'
    BY <1>3 DEF Ordered
  <1>5. ErasedAreNull'
    BY <1>1 DEF ErasedAreNull
  <1>6. ExpressionsDenoteValues'
    BY <1>1 DEF ExpressionsDenoteValues
  <1>7. BuildersGetExpressions' /\ PathConditionIsPath'
    BY <1>1 DEF RunInv, BuildersGetExpressions, PathConditionIsPath
  <1> QED BY <1>2, <1>4, <1>5, <1>6, <1>7 DEF RunInv

\* The visit of I finds the registers that RegisterRule speaks of.
LEMMA VisitFinds ==
  ASSUME PassInv, phase = "visit", NEW a \in Operand
  PROVE  getSymbolicExpression(a) = Early(a, Len(function) + 1)
  <1>1. a = 0 \/ a \in Values
    BY InstrumentationAssumption DEF Operand, Values
  <1>2. a \in Values /\ a >= Len(function) + 1 => symbolicExpressions[a] = 0
    BY DEF PassInv, PassType, Values
  <1> QED BY <1>1, <1>2 DEF getSymbolicExpression, Early

\* The visit of an instruction obeys the rule for its register and its uses.
LEMMA VisitPassInv ==
  ASSUME PassInv, NEW I \in Instruction, Visit(I)
  PROVE  PassInv'
  <1>a. Len(function) \in Nat
    BY DEF PassInv, PassType
  <1>0. PICK n \in Nat, i \in Nat : n = Len(function) /\ i = n + 1
    BY <1>a
  <1>1. /\ phase = "visit" /\ function' = Append(function, I)
        /\ symbolicExpressions' = [symbolicExpressions EXCEPT ![i] = ResultRegister(i, I)]
        /\ uses' = Append(uses, EmittedUses(I))
        /\ phase' = IF i = NumValues THEN "finalize" ELSE "visit"
        /\ I.op # "phi" => \A k \in DOMAIN I.args : I.args[k] # i
    BY <1>0 DEF Visit
  <1>2. /\ function \in Seq(Instruction) /\ n \in 0..NumValues /\ n # NumValues
        /\ symbolicExpressions \in [Values -> Operand]
        /\ \A v \in Values : v > n => symbolicExpressions[v] = 0
    BY <1>0, <1>1 DEF PassInv, PassType
  <1>3. uses \in Seq(Seq(Operand)) /\ Len(uses) = n
    BY <1>0, <1>1 DEF PassInv
  <1>4. NumValues \in Nat /\ n \in Nat /\ n < NumValues /\ i \in Values /\ i \in Operand
        /\ 0 \in Operand
    BY <1>0, <1>2, InstrumentationAssumption DEF Values, Operand
  <1>5. /\ function' \in Seq(Instruction) /\ Len(function') = i
        /\ function'[i] = I /\ \A j \in 1..n : function'[j] = function[j]
    BY <1>0, <1>1, <1>2
  <1>6. /\ Len(uses') = i
        /\ uses'[i] = EmittedUses(I) /\ \A j \in 1..n : uses'[j] = uses[j]
    BY <1>0, <1>1, <1>3
  <1>r. PICK r : r = ResultRegister(i, I)
    OBVIOUS
  <1>7. /\ symbolicExpressions'[i] = r
        /\ \A v \in Values : v # i => symbolicExpressions'[v] = symbolicExpressions[v]
    BY <1>1, <1>2, <1>4, <1>r
  <1>8. \A a \in Operand : getSymbolicExpression(a) \in Operand
    BY <1>2, <1>4 DEF getSymbolicExpression, Operand, Values
  <1>9. \A a \in Operand : getSymbolicExpression(a) = Early(a, i)
    BY <1>1, <1>0, VisitFinds
  <1>10. \A j \in 1..i : \A a \in Operand : Early(a, j)' = Early(a, j)
    <2> SUFFICES ASSUME NEW j \in 1..i, NEW a \in Operand, a # 0, a < j
                 PROVE  symbolicExpressions'[a] = symbolicExpressions[a]
      BY <1>4 DEF Early, Operand
    <2>1. a \in Values /\ a # i
      BY <1>4 DEF Operand, Values
    <2> QED BY <1>7, <2>1
  <1>b. \A a \in Operand : getSymbolicExpression(a) = Early(a, i)'
    <2> TAKE a \in Operand
    <2>1. i \in 1..i
      BY <1>4 DEF Values
    <2> QED BY <1>9, <1>10, <2>1
  <1>11. /\ I.op \in {"source", "phi", "boolcast"} => r = i
         /\ I.op \in {"binary", "gep", "cast"} => r = IF SomeExpression(I.args) THEN i ELSE 0
         /\ I.op = "select" => r = IF SomeExpression(Tail(I.args)) THEN i ELSE 0
         /\ I.op = "copy" => r = getSymbolicExpression(I.args[1])
         /\ I.op \in {"floatbits", "opaque", "branch", "switch"} => r = 0
    BY <1>r DEF ResultRegister, NoValue
  <1>12. r \in Operand
    <2>1. I.op = "copy" => I.args[1] \in Operand
      BY InstructionFacts
    <2> QED BY <1>4, <1>8, <1>11, <2>1, InstructionFacts DEF Ops
  <1>13. symbolicExpressions' \in [Values -> Operand]
    BY <1>1, <1>2, <1>12, <1>r
  <1>14. PassType'
    <2>1. \A v \in Values : v > i => symbolicExpressions'[v] = 0
      BY <1>0, <1>2, <1>4, <1>7 DEF Values
    <2>2. phase' \in {"visit", "finalize"} /\ (i = NumValues <=> phase' # "visit")
      BY <1>0, <1>1, <1>4
    <2>3. i \in 0..NumValues
      BY <1>4 DEF Values
    <2> QED BY <1>5, <1>13, <2>1, <2>2, <2>3 DEF PassType
  <1>15. ASSUME NEW j \in 1..n
         PROVE  /\ RegisterRule(j)'
                /\ Op(j)' # "phi" => \A k \in DOMAIN Args(j)' : Args(j)'[k] # j
                /\ Op(j)' # "phi" => uses'[j] = EarlyUses(j)'
    <2>1. /\ RegisterRule(j)
          /\ Op(j) # "phi" => \A k \in DOMAIN Args(j) : Args(j)[k] # j
          /\ Op(j) # "phi" => uses[j] = EarlyUses(j)
      BY <1>0, <1>1, <1>15 DEF PassInv
    <2>2. /\ Op(j)' = Op(j) /\ Args(j)' = Args(j) /\ function'[j] = function[j]
          /\ function[j] \in Instruction
      BY <1>0, <1>2, <1>5, <1>15 DEF Op, Args
    <2>3. j \in Values /\ j # i /\ j \in 1..i
      BY <1>0, <1>4, <1>15 DEF Values
    <2>4. symbolicExpressions'[j] = symbolicExpressions[j] /\ uses'[j] = uses[j]
      BY <1>6, <1>7, <2>3
    <2>5. \A k \in DOMAIN Args(j) : Early(Args(j)[k], j)' = Early(Args(j)[k], j)
      BY <1>10, <2>2, <2>3, InstructionFacts DEF Args
    <2>6. RegisterRule(j)'
      <3>1. Op(j) = "select" => 2 \in DOMAIN Args(j) /\ 3 \in DOMAIN Args(j)
        BY <2>2, InstructionFacts DEF Op, Args
      <3>2. Op(j) = "copy" => 1 \in DOMAIN Args(j)
        BY <2>2, InstructionFacts DEF Op, Args
      <3> QED BY <2>1, <2>2, <2>4, <2>5, <3>1, <3>2 DEF RegisterRule
    <2>7. EarlyUses(j)' = EarlyUses(j)
      <3>1. \A k \in DOMAIN UseArgs(function[j]) :
              Early(UseArgs(function[j])[k], j)' = Early(UseArgs(function[j])[k], j)
        BY <1>10, <2>2, <2>3, UseFacts
      <3> QED BY <2>2, <3>1 DEF EarlyUses
    <2> QED BY <2>1, <2>2, <2>4, <2>6, <2>7
  <1>16. Op(i)' = I.op /\ Args(i)' = I.args
    BY <1>5 DEF Op, Args
  <1>17. RegisterRule(i)'
    <2>1. \A k \in DOMAIN I.args : getSymbolicExpression(I.args[k]) = Early(I.args[k], i)'
      BY <1>b, InstructionFacts
    <2>2. I.op = "select" =>
            (SomeExpression(Tail(I.args)) <=>
               Early(I.args[2], i)' # 0 \/ Early(I.args[3], i)' # 0)
      <3> SUFFICES ASSUME I.op = "select"
                   PROVE  SomeExpression(Tail(I.args)) <=>
                            Early(I.args[2], i)' # 0 \/ Early(I.args[3], i)' # 0
        OBVIOUS
      <3> DEFINE t == Tail(I.args)
      <3>1. I.args \in Operand \X Operand \X Operand /\ DOMAIN I.args = {1, 2, 3}
        <4>1. I \in [op : {"select"}, args : Operand \X Operand \X Operand]
          BY DEF Instruction
        <4> QED BY <4>1
      <3>2. PICK x \in Operand, y \in Operand, z \in Operand : I.args = <<x, y, z>>
        BY <3>1
      <3>3. t = <<y, z>>
        BY <3>2
      <3>4. DOMAIN t = {1, 2} /\ t[1] = I.args[2] /\ t[2] = I.args[3]
        BY <3>2, <3>3
      <3> HIDE DEF t
      <3>5. SomeExpression(t) <=> getSymbolicExpression(I.args[2]) # 0
                                  \/ getSymbolicExpression(I.args[3]) # 0
        BY <3>4 DEF SomeExpression
      <3> QED BY <2>1, <3>1, <3>5 DEF t
    <2>3. SomeExpression(I.args) <=> \E k \in DOMAIN I.args : Early(I.args[k], i)' # 0
      BY <2>1 DEF SomeExpression
    <2>4. I.op = "copy" => r = Early(I.args[1], i)'
      BY <1>11, <2>1, InstructionFacts
    <2> QED BY <1>7, <1>11, <1>16, <2>2, <2>3, <2>4 DEF RegisterRule
  <1>18. I.op # "phi" => uses'[i] = EarlyUses(i)'
    <2> SUFFICES ASSUME I.op # "phi" PROVE uses'[i] = EarlyUses(i)'
      OBVIOUS
    <2>1. EmittedUses(I) = Registers(UseArgs(I))
      BY DEF EmittedUses, UseArgs
    <2>2. \A k \in DOMAIN UseArgs(I) :
            getSymbolicExpression(UseArgs(I)[k]) = Early(UseArgs(I)[k], i)'
      BY <1>b, UseFacts
    <2>3. Registers(UseArgs(I)) = [k \in DOMAIN UseArgs(I) |-> Early(UseArgs(I)[k], i)']
      BY <2>2 DEF Registers
    <2>4. EarlyUses(i)' = [k \in DOMAIN UseArgs(I) |-> Early(UseArgs(I)[k], i)']
      BY <1>5 DEF EarlyUses
    <2> QED BY <1>6, <2>1, <2>3, <2>4
  <1>19. uses' \in Seq(Seq(Operand))
    <2>1. EmittedUses(I) \in Seq(Operand)
      <3>1. ASSUME NEW s \in Seq(Operand)
            PROVE  Registers(s) \in Seq(Operand)
        BY <1>8, <3>1 DEF Registers
      <3>2. I.args \in Seq(Operand)
        BY ArgsAreOperands
      <3>3. Inputs(I) \in Seq(Operand)
        <4>1. CASE I.op = "gep"
          <5>1. I.args[1] \in Operand /\ I.args[2] \in Operand
            BY <4>1, InstructionFacts
          <5>2. <<I.args[2], 0, I.args[1]>> \in Seq(Operand)
            BY <1>4, <5>1
          <5> QED BY <4>1, <5>2, InputFacts
        <4>2. CASE I.op \in {"select", "branch"}
          <5>1. I.args[1] \in Operand
            BY <4>2, InstructionFacts
          <5>2. <<I.args[1]>> \in Seq(Operand)
            BY <5>1
          <5> QED BY <4>2, <5>2, InputFacts
        <4>3. CASE I.op \in {"binary", "cast", "boolcast", "floatbits"}
          BY <4>3, <3>2, InputFacts
        <4>4. CASE I.op \in {"source", "copy", "opaque", "switch", "phi"}
          <5>1. <<>> \in Seq(Operand)
            OBVIOUS
          <5> QED BY <4>4, <5>1, InputFacts
        <4> QED BY <4>1, <4>2, <4>3, <4>4, InstructionFacts DEF Ops
      <3> QED BY <1>4, <3>1, <3>2, <3>3 DEF EmittedUses
    <2> QED BY <1>1, <1>3, <2>1
  <1>20. \A j \in 1..i : j \in 1..n \/ j = i
    BY <1>0, <1>4
  <1>21. \A j \in 1..i :
           /\ RegisterRule(j)'
           /\ Op(j)' # "phi" => \A k \in DOMAIN Args(j)' : Args(j)'[k] # j
           /\ Op(j)' # "phi" => uses'[j] = EarlyUses(j)'
    BY <1>1, <1>15, <1>16, <1>17, <1>18, <1>20
  <1>22. phase' \in {"visit", "finalize"}
    BY <1>1
  <1> QED BY <1>5, <1>6, <1>14, <1>19, <1>21, <1>22 DEF PassInv

\* What depends only on the function and the registers of its values.
LEMMA SameFunction ==
  ASSUME UNCHANGED <<function, symbolicExpressions>>
  PROVE  /\ nodesToErase' = nodesToErase
         /\ \A i \in Nat : /\ Op(i)' = Op(i) /\ Args(i)' = Args(i)
                           /\ RegisterRule(i)' = RegisterRule(i)
                           /\ EarlyUses(i)' = EarlyUses(i)
                           /\ LateUses(i)' = LateUses(i)
  <1>1. \A i : Op(i)' = Op(i) /\ Args(i)' = Args(i)
    BY DEF Op, Args
  <1>2. \A a : getSymbolicExpression(a)' = getSymbolicExpression(a)
    BY DEF getSymbolicExpression
  <1>3. nodesToErase' = nodesToErase
    BY DEF nodesToErase, Op, Args, SomeExpression, getSymbolicExpression
  <1>4. \A a, i : Early(a, i)' = Early(a, i)
    BY DEF Early
  <1>5. \A i : RegisterRule(i)' = RegisterRule(i)
    BY DEF RegisterRule, Op, Args, Early
  <1>6. \A i : EarlyUses(i)' = EarlyUses(i)
    BY DEF EarlyUses, Early
  <1>7. \A i : LateUses(i)' = LateUses(i)
    BY <1>3 DEF LateUses, Kept, Late, Op, Early, getSymbolicExpression
  <1> QED BY <1>1, <1>3, <1>5, <1>6, <1>7

\* finalizePHINodes turns the early uses into the final ones.
LEMMA FinalizePassInv ==
  ASSUME PassInv, finalizePHINodes
  PROVE  PassInv'
  <1>1. /\ phase = "finalize" /\ phase' = "shortcircuit"
        /\ uses' = [i \in Values |-> FinalUses(i)]
        /\ UNCHANGED <<function, symbolicExpressions>>
    BY DEF finalizePHINodes
  <1>2. PassType' /\ Len(function) = NumValues
    BY <1>1 DEF PassInv, PassType
  <1>3. \A i \in Values : Op(i) # "phi" => uses[i] = EarlyUses(i)
    BY <1>1, <1>2 DEF PassInv, Values
  <1>4. ASSUME NEW i \in Values
        PROVE  FinalUses(i) = LateUses(i)
    <2>1. CASE Op(i) = "phi"
      BY <2>1 DEF FinalUses, LateUses, Registers, Kept, Late, UseArgs, Op, Args
    <2>2. CASE Op(i) # "phi"
      BY <1>3, <2>2, ZenonT(30) DEF FinalUses, LateUses, Kept, Late, EarlyUses
    <2> QED BY <2>1, <2>2
  <1>5. \A i \in Values : i \in Nat
    BY InstrumentationAssumption DEF Values
  <1>6. \A i \in Values : uses'[i] = LateUses(i)'
    BY <1>1, <1>4, <1>5, SameFunction
  <1>7. \A i \in 1..Len(function) :
          /\ RegisterRule(i)'
          /\ Op(i)' # "phi" => \A k \in DOMAIN Args(i)' : Args(i)'[k] # i
    BY <1>1, <1>2, <1>5, SameFunction DEF PassInv, Values
  <1> QED BY <1>1, <1>2, <1>6, <1>7 DEF PassInv

\* shortCircuitExpressionUses plans every computation.
LEMMA ShortCircuitPassInv ==
  ASSUME PassInv, shortCircuitExpressionUses
  PROVE  PassInv'
  <1>1. /\ phase = "shortcircuit" /\ phase' = "run"
        /\ plan' = [i \in Values |-> Plan(i)]
        /\ UNCHANGED <<function, symbolicExpressions, uses>>
    BY DEF shortCircuitExpressionUses
  <1>2. PassType' /\ Len(function) = NumValues
    BY <1>1 DEF PassInv, PassType
  <1>5. \A i \in Values : i \in Nat
    BY InstrumentationAssumption DEF Values
  <1>6. \A i \in Values : uses'[i] = LateUses(i)'
    BY <1>1, <1>5, SameFunction DEF PassInv
  <1>7. \A i \in 1..Len(function) :
          /\ RegisterRule(i)'
          /\ Op(i)' # "phi" => \A k \in DOMAIN Args(i)' : Args(i)'[k] # i
    BY <1>1, <1>2, <1>5, SameFunction DEF PassInv, Values
  <1>8. \A i \in Values : plan'[i] = Plan(i)'
    BY <1>1, ZenonT(30) DEF Plan, numUnknownConcreteness, InputRegisters, Op
  <1> QED BY <1>1, <1>2, <1>6, <1>7, <1>8 DEF PassInv

(***************************************************************************)
(* The instrumented function.                                              *)
(***************************************************************************)

\* The finished function, instruction by instruction.
LEMMA FunctionFacts ==
  ASSUME PassInv, phase = "run", NEW i \in Values
  PROVE  /\ function[i] \in Instruction /\ Op(i) \in Ops
         /\ \A k \in DOMAIN Args(i) : Args(i)[k] \in Operand
         /\ Op(i) # "phi" => \A k \in DOMAIN Args(i) : Args(i)[k] # i
         /\ symbolicExpressions[i] \in Operand /\ RegisterRule(i)
         /\ uses[i] = LateUses(i) /\ plan[i] = Plan(i)
  <1>1. function \in Seq(Instruction) /\ Len(function) = NumValues
        /\ symbolicExpressions \in [Values -> Operand]
    BY DEF PassInv, PassType
  <1>2. i \in 1..Len(function) /\ function[i] \in Instruction
    BY <1>1 DEF Values
  <1>3. RegisterRule(i) /\ (Op(i) # "phi" => \A k \in DOMAIN Args(i) : Args(i)[k] # i)
    BY <1>2 DEF PassInv
  <1>4. uses[i] = LateUses(i) /\ plan[i] = Plan(i)
    BY DEF PassInv
  <1>5. Op(i) \in Ops /\ \A k \in DOMAIN Args(i) : Args(i)[k] \in Operand
    BY <1>2, InstructionFacts DEF Op, Args
  <1> QED BY <1>1, <1>2, <1>3, <1>4, <1>5

\* An operand is a value or the constant.
LEMMA OperandsAreValues ==
  /\ \A a \in Operand : a = 0 \/ a \in Values
  /\ \A v \in Values : v \in Operand /\ v \in Nat /\ v # 0
  /\ 0 \in Operand
  BY InstrumentationAssumption DEF Operand, Values

\* A set of numbers has a least member.
LEMMA Least ==
  ASSUME NEW S, S \subseteq Nat, S # {}
  PROVE  \E x \in S : \A y \in S : x <= y
  <1> DEFINE less == {p \in Nat \X Nat : p[1] < p[2]}
  <1>1. IsWellFoundedOn(less, Nat)
    BY NatLessThanWellFounded, Zenon DEF OpToRel
  <1> HIDE DEF less
  <1>2. PICK x \in S : \A y \in S : ~(<<y, x>> \in less)
    BY <1>1, WFMin
  <1>3. \A y, z \in Nat : <<y, z>> \in less <=> y < z
    BY DEF less
  <1>4. ASSUME NEW y \in S PROVE x <= y
    <2>1. x \in Nat /\ y \in Nat
      OBVIOUS
    <2>2. ~(y < x)
      BY <1>2, <1>3, <2>1
    <2> QED BY <2>1, <2>2
  <1> QED BY <1>4

\* A value has no register, its own, or that of an earlier value it copies.
LEMMA RegisterOfCopy ==
  ASSUME PassInv, phase = "run", NEW v \in Values,
         symbolicExpressions[v] # 0, symbolicExpressions[v] # v
  PROVE  /\ Op(v) = "copy" /\ 1 \in DOMAIN Args(v) /\ Args(v)[1] \in Values
         /\ Args(v)[1] < v /\ symbolicExpressions[Args(v)[1]] = symbolicExpressions[v]
  <1>1. RegisterRule(v) /\ Op(v) \in Ops /\ function[v] \in Instruction
    BY FunctionFacts
  <1>2. Op(v) = "copy" /\ symbolicExpressions[v] = Early(Args(v)[1], v)
    BY <1>1 DEF RegisterRule, Ops
  <1>3. 1 \in DOMAIN Args(v) /\ Args(v)[1] \in Operand
    BY <1>1, <1>2, InstructionFacts DEF Op, Args
  <1>4. Args(v)[1] # 0 /\ ~(Args(v)[1] >= v)
        /\ symbolicExpressions[v] = symbolicExpressions[Args(v)[1]]
    BY <1>2 DEF Early
  <1> QED BY <1>2, <1>3, <1>4, OperandsAreValues

\* A register is that of its value or of an earlier one.
LEMMA RegisterIsEarlier ==
  ASSUME PassInv, phase = "run", NEW v \in Values
  PROVE  symbolicExpressions[v] <= v
  <1> DEFINE bad == {w \in Values : ~(symbolicExpressions[w] <= w)}
  <1>1. ASSUME bad # {} PROVE FALSE
    <2>1. bad \subseteq Nat
      BY OperandsAreValues
    <2>2. PICK w \in bad : \A y \in bad : w <= y
      BY <1>1, <2>1, Least
    <2>3. w \in Values /\ w \in Nat /\ symbolicExpressions[w] \in Nat
      BY OperandsAreValues, FunctionFacts
    <2>4. symbolicExpressions[w] # 0 /\ symbolicExpressions[w] # w
      BY <2>2, <2>3
    <2>5. PICK a \in Values : a < w /\ symbolicExpressions[a] = symbolicExpressions[w]
      BY <2>3, <2>4, RegisterOfCopy
    <2>6. a \in Nat /\ a \notin bad
      BY <2>2, <2>3, <2>5, OperandsAreValues
    <2> QED BY <2>2, <2>3, <2>5, <2>6
  <1> QED BY <1>1

(***************************************************************************)
(* What a new iteration makes outdated.                                    *)
(***************************************************************************)

ClosedSet(S) ==
  \A j \in Values \ S :
    Op(j) # "phi" => \A k \in DOMAIN Args(j) : Args(j)[k] \notin S

Cone(i) == {i} \cup Outdated(i)

\* Outdated values are those in every closed set.
LEMMA OutdatedDef ==
  ASSUME NEW i \in Values
  PROVE  /\ Outdated(i) =
              {j \in Values \ {i} :
                 \A S \in SUBSET Values : i \in S /\ ClosedSet(S) => j \in S}
         /\ Cone(i) \subseteq Values
  BY DEF Outdated, ClosedSet, Cone

\* A value and what it outdates are within every closed set around it.
LEMMA ConeLeast ==
  ASSUME NEW i \in Values, NEW S \in SUBSET Values, i \in S, ClosedSet(S)
  PROVE  Cone(i) \subseteq S
  BY OutdatedDef DEF Cone

\* What uses an outdated value is outdated, PHI nodes excepted.
LEMMA ConeClosed ==
  ASSUME NEW i \in Values
  PROVE  ClosedSet(Cone(i))
  <1> SUFFICES ASSUME NEW j \in Values, j \notin Cone(i), Op(j) # "phi",
                      NEW k \in DOMAIN Args(j), Args(j)[k] \in Cone(i)
               PROVE  FALSE
    BY DEF ClosedSet
  <1>1. PICK S \in SUBSET Values : i \in S /\ ClosedSet(S) /\ j \notin S
    BY OutdatedDef DEF Cone
  <1>2. Args(j)[k] \in S
    BY <1>1, ConeLeast
  <1> QED BY <1>1, <1>2 DEF ClosedSet

\* An outdated value uses the new value or an outdated one.
LEMMA ConeMember ==
  ASSUME NEW i \in Values, NEW j \in Outdated(i)
  PROVE  Op(j) # "phi" /\ \E k \in DOMAIN Args(j) : Args(j)[k] \in Cone(i)
  <1> DEFINE S == Cone(i) \ {j}
  <1>1. S \in SUBSET Values /\ i \in S /\ j \in Values
    BY OutdatedDef DEF Cone
  <1>2. ~ClosedSet(S)
    BY <1>1, ConeLeast DEF Cone
  <1>3. PICK m \in Values \ S : Op(m) # "phi" /\ \E k \in DOMAIN Args(m) : Args(m)[k] \in S
    BY <1>2 DEF ClosedSet
  <1>4. m = j
    BY <1>3, ConeClosed DEF ClosedSet
  <1> QED BY <1>3, <1>4

\* Whoever shares the register of a value that becomes outdated does so, too.
LEMMA SharersAreOutdated ==
  ASSUME PassInv, phase = "run", NEW C \in SUBSET Values, ClosedSet(C),
         NEW r \in C, NEW v \in Values, symbolicExpressions[v] = r
  PROVE  v \in C
  <1> DEFINE bad == {w \in Values : symbolicExpressions[w] = r /\ w \notin C}
  <1>1. ASSUME bad # {} PROVE FALSE
    <2>1. bad \subseteq Nat
      BY OperandsAreValues
    <2>2. PICK w \in bad : \A y \in bad : w <= y
      BY <1>1, <2>1, Least
    <2>3. w \in Values /\ w \in Nat /\ symbolicExpressions[w] = r /\ r # 0 /\ r # w
      BY OperandsAreValues
    <2>4. /\ Op(w) = "copy" /\ 1 \in DOMAIN Args(w) /\ Args(w)[1] \in Values
          /\ Args(w)[1] < w /\ symbolicExpressions[Args(w)[1]] = r
      BY <2>3, RegisterOfCopy
    <2>5. PICK a \in Nat : a = Args(w)[1] /\ a < w
      BY <2>4, OperandsAreValues
    <2>6. ~(w <= a)
      BY <2>3, <2>5
    <2>7. a \notin bad
      BY <2>2, <2>6
    <2>8. a \in C
      BY <2>4, <2>5, <2>7
    <2> QED BY <2>3, <2>4, <2>5, <2>8 DEF ClosedSet
  <1> QED BY <1>1

(***************************************************************************)
(* The order of computation.                                               *)
(***************************************************************************)

\* An instruction that is computed anew does not depend on what it outdates.
LEMMA ArgsAreFresh ==
  ASSUME PassInv, Ordered, phase = "run", NEW i \in Values, Op(i) # "phi", Available(i),
         NEW k \in DOMAIN Args(i)
  PROVE  Args(i)[k] \notin Cone(i)
  <1> SUFFICES ASSUME Args(i)[k] \in Cone(i)
               PROVE  FALSE
    OBVIOUS
  <1>1. Args(i)[k] \in Outdated(i) /\ Args(i)[k] \in Values /\ Args(i)[k] # 0
    BY FunctionFacts, OutdatedDef, OperandsAreValues DEF Cone
  <1>2. Args(i)[k] \in Present
    BY <1>1 DEF Available, Den, Present
  <1>3. \A j \in Present : Op(j) # "phi" =>
          \A m \in DOMAIN Args(j) : Args(j)[m] = 0 \/ Args(j)[m] \in Present
    BY DEF Ordered
  <1>4. CASE i \notin Present
    <2> DEFINE S == Values \ Present
    <2>1. S \in SUBSET Values /\ i \in S
      BY <1>4
    <2>2. ClosedSet(S)
      BY <1>3, OperandsAreValues DEF ClosedSet
    <2>3. Cone(i) \subseteq S
      BY <2>1, <2>2, ConeLeast
    <2> QED BY <1>1, <1>2, <2>3 DEF Cone
  <1>5. CASE i \in Present
    <2> DEFINE T == Present \cap Cone(i)
    <2>1. T \in SUBSET Present /\ i \in T
      BY <1>5 DEF Cone
    <2>2. PICK j \in T : Op(j) = "phi" \/ \A m \in DOMAIN Args(j) : Args(j)[m] \notin T
      BY <2>1 DEF Ordered
    <2>3. CASE j = i
      BY <1>1, <1>2, <2>2, <2>3 DEF Cone
    <2>4. CASE j \in Outdated(i)
      <3>1. PICK m \in DOMAIN Args(j) : Args(j)[m] \in Cone(i)
        BY <2>4, ConeMember
      <3>2. Op(j) # "phi"
        BY <2>4, ConeMember
      <3>3. Args(j)[m] \in Present
        BY <1>3, <2>2, <3>1, <3>2, OutdatedDef, OperandsAreValues
      <3> QED BY <2>2, <3>1, <3>2, <3>3
    <2> QED BY <2>2, <2>3, <2>4 DEF Cone
  <1> QED BY <1>4, <1>5

\* The values that are available after a new one.
LEMMA PresentAfter ==
  ASSUME RunType, NEW i \in Values, NEW d \in Denotation,
         den' = [j \in Values |->
           IF j = i THEN d ELSE IF j \in Outdated(i) THEN Undef ELSE den[j]]
  PROVE  Present' = (Present \cup {i}) \ Outdated(i)
  <1>1. d # Undef
    BY InstrumentationAssumption DEF Denotation, Bit
  <1>2. i \notin Outdated(i)
    BY OutdatedDef
  <1>3. \A j \in Values : j \in Present' <=> j \in (Present \cup {i}) \ Outdated(i)
    BY <1>1, <1>2 DEF Present
  <1>4. Present' \subseteq Values /\ Present \subseteq Values
    BY DEF Present
  <1> QED BY <1>3, <1>4

\* Values remain available in the order of their computation.
LEMMA OrderedAfter ==
  ASSUME PassInv, RunType, Ordered, phase = "run", phase' = "run",
         UNCHANGED function,
         NEW i \in Values, NEW d \in Denotation, Op(i) # "phi" => Available(i),
         den' = [j \in Values |->
           IF j = i THEN d ELSE IF j \in Outdated(i) THEN Undef ELSE den[j]]
  PROVE  Ordered'
  <1>1. Present' = (Present \cup {i}) \ Outdated(i) /\ Present \subseteq Values
    BY PresentAfter DEF Present
  <1>2. \A j : Op(j)' = Op(j) /\ Args(j)' = Args(j)
    BY DEF Op, Args
  <1>3. ASSUME NEW j \in Present', j # i, Op(j) # "phi", NEW k \in DOMAIN Args(j)
        PROVE  Args(j)[k] \notin Cone(i) /\ (Args(j)[k] = 0 \/ Args(j)[k] \in Present')
    <2>1. j \in Present /\ j \in Values /\ j \notin Cone(i)
      BY <1>1, <1>3 DEF Cone
    <2>2. Args(j)[k] \notin Cone(i)
      BY <1>3, <2>1, ConeClosed DEF ClosedSet
    <2>3. Args(j)[k] = 0 \/ Args(j)[k] \in Present
      BY <1>3, <2>1 DEF Ordered
    <2> QED BY <1>1, <2>2, <2>3 DEF Cone
  <1>4. ASSUME Op(i) # "phi", NEW k \in DOMAIN Args(i)
        PROVE  Args(i)[k] # i /\ (Args(i)[k] = 0 \/ Args(i)[k] \in Present')
    <2>1. Args(i)[k] \notin Cone(i)
      BY <1>4, ArgsAreFresh
    <2>2. Args(i)[k] \in Operand /\ Den(Args(i)[k]) # Undef
      BY <1>4, FunctionFacts DEF Available
    <2>3. Args(i)[k] = 0 \/ Args(i)[k] \in Present
      BY <2>2, OperandsAreValues DEF Den, Present
    <2> QED BY <1>1, <2>1, <2>3 DEF Cone
  <1>5. ASSUME NEW T \in SUBSET Present', T # {}
        PROVE  \E j \in T : Op(j) = "phi" \/ \A k \in DOMAIN Args(j) : Args(j)[k] \notin T
    <2>1. CASE T \ {i} = {}
      <3>1. T = {i}
        BY <1>5, <2>1
      <3> QED BY <1>4, <3>1
    <2>2. CASE T \ {i} # {}
      <3>1. T \ {i} \in SUBSET Present
        BY <1>1
      <3>2. PICK j \in T \ {i} :
              Op(j) = "phi" \/ \A k \in DOMAIN Args(j) : Args(j)[k] \notin T \ {i}
        BY <2>2, <3>1 DEF Ordered
      <3>3. Op(j) # "phi" => \A k \in DOMAIN Args(j) : Args(j)[k] # i
        BY <1>3, <3>2 DEF Cone
      <3> QED BY <3>2, <3>3
    <2> QED BY <2>1, <2>2
  <1>6. \A j \in Present' : Op(j) # "phi" =>
          \A k \in DOMAIN Args(j) : Args(j)[k] = 0 \/ Args(j)[k] \in Present'
    BY <1>3, <1>4
  <1> QED BY <1>2, <1>5, <1>6 DEF Ordered

(***************************************************************************)
(* What the operands of an instruction are described by.                   *)
(***************************************************************************)

\* Expression e is as good as the value d.
Describes(e, d) == IF e = Null THEN IsConstant(d) ELSE e = d

\* Expression e is right about this run.
RightHere(e, d) == e = Null \/ e[Actual] = d[Actual]

\* Constants are values; neither null nor undefined is one.
LEMMA DenotationFacts ==
  /\ \A b \in Bit : Constant(b) \in Denotation /\ IsConstant(Constant(b))
  /\ Null \notin Denotation /\ Undef \notin Denotation
  /\ \A d \in Denotation : d[Actual] \in Bit
  /\ \A d \in Denotation : IsConstant(d) => Constant(d[Actual]) = d
  <1>1. Actual \in Input /\ Null \notin Denotation /\ Undef \notin Denotation
    BY InstrumentationAssumption DEF Denotation, Bit
  <1>2. \A b \in Bit : Constant(b) \in Denotation /\ IsConstant(Constant(b))
    BY DEF Constant, IsConstant, Denotation
  <1>3. \A d \in Denotation : d[Actual] \in Bit
    BY <1>1 DEF Denotation
  <1>4. ASSUME NEW d \in Denotation, IsConstant(d)
        PROVE  Constant(d[Actual]) = d
    <2>1. \A x \in Input : Constant(d[Actual])[x] = d[x]
      BY <1>1, <1>4 DEF Constant, IsConstant
    <2> QED BY <2>1 DEF Constant, Denotation
  <1> QED BY <1>1, <1>2, <1>3, <1>4

\* An available operand has a value.
LEMMA DenFacts ==
  ASSUME RunType, NEW a \in Operand, Den(a) # Undef
  PROVE  Den(a) \in Denotation /\ Val(a) \in Bit
  <1>1. Den(a) \in Denotation
    BY OperandsAreValues, DenotationFacts DEF Den, RunType, Bit
  <1> QED BY <1>1, DenotationFacts DEF Val

\* A register that an instruction reads holds an expression or null.
LEMMA RegisterType ==
  ASSUME PassInv, RunType, phase = "run", NEW a \in Operand, NEW i \in Values
  PROVE  /\ Kept(Late(a, i)) \in Operand
         /\ Register(Kept(Late(a, i))) \in Denotation \cup {Null}
  <1>1. Late(a, i) \in Operand
    BY OperandsAreValues, FunctionFacts DEF Late, Early, getSymbolicExpression
  <1>2. Kept(Late(a, i)) \in Operand
    BY <1>1, OperandsAreValues DEF Kept
  <1> QED BY <1>2, OperandsAreValues DEF RunType, Register

\* The register that an instruction reads for an operand is right about it.
LEMMA OperandDescribed ==
  ASSUME PassInv, RunInv, phase = "run", NEW a \in Operand, NEW i \in Values,
         Op(i) # "phi" => a # i, Den(a) # Undef, ~Loses(a, i)
  PROVE  Describes(Register(Kept(Late(a, i))), Den(a))
  <1>1. 0 \notin nodesToErase /\ \A r \in nodesToErase : r \in Values /\ expr[r] = Null
    BY OperandsAreValues DEF nodesToErase, RunInv, ErasedAreNull
  <1>2. \A r \in Operand : Register(Kept(r)) = Register(r)
    BY <1>1, OperandsAreValues DEF Register, Kept
  <1>3. Kept(0) = 0 /\ Register(0) = Null
    BY <1>1 DEF Kept, Register
  <1>4. CASE a = 0
    <2>1. Late(a, i) = 0
      BY <1>4 DEF Late, Early, getSymbolicExpression
    <2>2. IsConstant(Den(a))
      BY <1>4, DenotationFacts DEF Den, Bit
    <2> QED BY <1>3, <2>1, <2>2 DEF Describes
  <1>5. CASE a # 0
    <2>1. a \in Values /\ a \notin lost /\ den[a] # Undef /\ Den(a) = den[a]
      BY <1>5, OperandsAreValues DEF Loses, Den
    <2>2. Describes(Register(symbolicExpressions[a]), Den(a))
      BY <2>1 DEF RunInv, ExpressionsDenoteValues, Describes
    <2>3. CASE Op(i) = "phi" \/ a < i
      <3>1. Late(a, i) = symbolicExpressions[a] /\ symbolicExpressions[a] \in Operand
        BY <1>5, <2>1, <2>3, FunctionFacts, OperandsAreValues
           DEF Late, Early, getSymbolicExpression
      <3> QED BY <1>2, <2>2, <3>1
    <2>4. CASE Op(i) # "phi" /\ ~(a < i)
      <3>1. a > i
        BY <2>1, <2>4, OperandsAreValues
      <3>2. Register(symbolicExpressions[a]) = Null
        BY <1>5, <2>4, <3>1 DEF Loses, VisitedTooLate
      <3>3. Late(a, i) = 0
        BY <2>1, <2>4, <3>1, OperandsAreValues DEF Late, Early
      <3> QED BY <1>3, <2>2, <3>2, <3>3 DEF Describes
    <2> QED BY <2>3, <2>4
  <1> QED BY <1>4, <1>5

\* What ExpressionsDenoteValues says of an available value.
LEMMA DescribedNow ==
  ASSUME RunInv, NEW v \in Values, den[v] # Undef
  PROVE  /\ RightHere(Register(symbolicExpressions[v]), den[v])
         /\ v \notin lost => Describes(Register(symbolicExpressions[v]), den[v])
  <1> DEFINE e == Register(symbolicExpressions[v])
  <1>1. IF v \in lost THEN e = Null \/ e[Actual] = den[v][Actual]
        ELSE IF e = Null THEN IsConstant(den[v]) ELSE e = den[v]
    BY DEF RunInv, ExpressionsDenoteValues
  <1> HIDE DEF e
  <1>2. RightHere(e, den[v]) /\ (v \notin lost => Describes(e, den[v]))
    BY <1>1 DEF RightHere, Describes
  <1> QED BY <1>2 DEF e

\* Even for a lost operand it is right about this run.
LEMMA OperandRight ==
  ASSUME PassInv, RunInv, phase = "run", NEW a \in Operand, NEW i \in Values,
         Op(i) # "phi" => a # i, Den(a) # Undef
  PROVE  RightHere(Register(Kept(Late(a, i))), Den(a))
  <1>1. 0 \notin nodesToErase /\ \A r \in nodesToErase : r \in Values /\ expr[r] = Null
    BY OperandsAreValues DEF nodesToErase, RunInv, ErasedAreNull
  <1>2. \A r \in Operand : Register(Kept(r)) = Register(r)
    BY <1>1, OperandsAreValues DEF Register, Kept
  <1>3. CASE Late(a, i) = 0
    BY <1>1, <1>3 DEF Kept, Register, RightHere
  <1>4. CASE Late(a, i) # 0
    <2>1. a # 0 /\ Late(a, i) = symbolicExpressions[a]
      BY <1>4 DEF Late, Early, getSymbolicExpression
    <2>2. a \in Values /\ den[a] # Undef /\ Den(a) = den[a]
      BY <2>1, OperandsAreValues DEF Den
    <2>3. RightHere(Register(symbolicExpressions[a]), Den(a))
      BY <2>2, DescribedNow
    <2>4. symbolicExpressions[a] \in Operand
      BY <2>2, FunctionFacts
    <2> QED BY <1>2, <2>1, <2>3, <2>4
  <1> QED BY <1>3, <1>4

(***************************************************************************)
(* The inputs of a computation.                                            *)
(***************************************************************************)

Computing == {"binary", "gep", "cast", "boolcast", "floatbits", "select", "branch"}

\* The recorded inputs of a computation are those of its instruction.
LEMMA InputsOfComputation ==
  ASSUME PassInv, phase = "run", NEW i \in Values, Op(i) \in Computing
  PROVE  /\ IsFiniteSet(DOMAIN Inputs(function[i]))
         /\ 1 \in DOMAIN Inputs(function[i])
         /\ DOMAIN InputRegisters(i) = DOMAIN Inputs(function[i])
         /\ \A k \in DOMAIN Inputs(function[i]) :
              /\ Inputs(function[i])[k] \in Operand
              /\ \/ Inputs(function[i])[k] = 0
                 \/ \E m \in DOMAIN Args(i) : Inputs(function[i])[k] = Args(i)[m]
              /\ InputRegisters(i)[k] = Kept(Late(Inputs(function[i])[k], i))
  <1> DEFINE I == function[i]
             in == Inputs(I)
  <1>1. I \in Instruction /\ uses[i] = LateUses(i) /\ Op(i) = I.op /\ Args(i) = I.args
    BY FunctionFacts DEF Op, Args
  <1>2. uses[i] = [k \in DOMAIN UseArgs(I) |-> Kept(Late(UseArgs(I)[k], i))]
    BY <1>1 DEF LateUses
  <1> HIDE DEF I
  <1>3. CASE Op(i) \in {"binary", "cast", "boolcast", "floatbits", "gep"}
    <2>1. UseArgs(I) = in
      BY <1>1, <1>3 DEF UseArgs
    <2>2. InputRegisters(i) = uses[i]
      BY <1>3 DEF InputRegisters
    <2>3. IsFiniteSet(DOMAIN in) /\ 1 \in DOMAIN in
      <3>1. IsFiniteSet({1}) /\ IsFiniteSet({1, 2}) /\ IsFiniteSet({1, 2, 3})
        <4>1. 1..1 = {1} /\ 1..2 = {1, 2} /\ 1..3 = {1, 2, 3}
          OBVIOUS
        <4>2. ASSUME NEW b \in Int PROVE IsFiniteSet(1..b)
          <5>1. 1 \in Int
            OBVIOUS
          <5> QED BY <5>1, FS_Interval, Zenon
        <4>3. 1 \in Int /\ 2 \in Int /\ 3 \in Int
          OBVIOUS
        <4>4. IsFiniteSet(1..1) /\ IsFiniteSet(1..2) /\ IsFiniteSet(1..3)
          BY <4>2, <4>3, Zenon
        <4> QED BY <4>1, <4>4
      <3>2. CASE Op(i) = "gep"
        <4>1. in = <<I.args[2], 0, I.args[1]>>
          BY <1>1, <3>2, InputFacts
        <4>2. DOMAIN in = {1, 2, 3}
          BY <4>1
        <4> QED BY <3>1, <4>2
      <3>3. CASE Op(i) = "binary"
        <4>1. in = I.args
          BY <1>1, <3>3, InputFacts
        <4>2. DOMAIN I.args = {1, 2}
          BY <1>1, <3>3, InstructionFacts
        <4> QED BY <3>1, <4>1, <4>2
      <3>4. CASE Op(i) \in {"cast", "boolcast", "floatbits"}
        <4>1. in = I.args
          BY <1>1, <3>4, InputFacts
        <4>2. DOMAIN I.args = {1}
          BY <1>1, <3>4, InstructionFacts
        <4> QED BY <3>1, <4>1, <4>2
      <3> QED BY <1>3, <3>2, <3>3, <3>4
    <2> HIDE DEF in
    <2> QED BY <1>1, <1>2, <2>1, <2>2, <2>3, UseFacts DEF I, in
  <1>4. CASE Op(i) \in {"select", "branch"}
    <2>1. in = <<I.args[1]>> /\ DOMAIN in = {1} /\ in[1] = I.args[1]
      BY <1>1, <1>4, InputFacts
    <2>2. 1 \in DOMAIN I.args /\ I.args[1] \in Operand
      BY <1>1, <1>4, InstructionFacts
    <2>3. 1 \in DOMAIN UseArgs(I) /\ UseArgs(I)[1] = I.args[1]
      BY <1>1, <1>4, <2>1, <2>2 DEF UseArgs
    <2>4. InputRegisters(i) = SubSeq(uses[i], 1, 1)
      BY <1>4 DEF InputRegisters
    <2>5. SubSeq(uses[i], 1, 1) = [k \in 1..1 |-> uses[i][k]]
      <3>1. SubSeq(uses[i], 1, 1) = [k \in 1..(1 - 1 + 1) |-> uses[i][k + 1 - 1]]
        OBVIOUS
      <3> QED BY <3>1
    <2>6. 1..1 = {1}
      OBVIOUS
    <2>7. DOMAIN InputRegisters(i) = {1} /\ InputRegisters(i)[1] = uses[i][1]
      BY <2>4, <2>5, <2>6
    <2>8. IsFiniteSet({1})
      BY FS_Singleton
    <2> HIDE DEF in
    <2> QED BY <1>1, <1>2, <2>1, <2>2, <2>3, <2>7, <2>8 DEF I, in
  <1> QED BY <1>3, <1>4 DEF Computing

\* How the slow path obtains its inputs.
LEMMA PlanFacts ==
  ASSUME PassInv, phase = "run", NEW i \in Values, Op(i) \in Computing,
         NEW k \in DOMAIN Inputs(function[i])
  PROVE  LET r == InputRegisters(i)[k] IN
         /\ r = 0 => plan[i][k] = "create"
         /\ r # 0 /\ numUnknownConcreteness(i) = 1 => plan[i][k] = "keep"
         /\ r # 0 /\ numUnknownConcreteness(i) # 1 => plan[i][k] = "check"
  <1>1. plan[i] = Plan(i) /\ k \in DOMAIN InputRegisters(i)
    BY FunctionFacts, InputsOfComputation
  <1> DEFINE r == InputRegisters(i)[k]
  <1>2. plan[i][k] = CASE r = 0 -> "create"
                       [] r # 0 /\ numUnknownConcreteness(i) = 1 -> "keep"
                       [] OTHER -> "check"
    BY <1>1 DEF Plan
  <1> HIDE DEF r
  <1>3. /\ r = 0 => plan[i][k] = "create"
        /\ r # 0 /\ numUnknownConcreteness(i) = 1 => plan[i][k] = "keep"
        /\ r # 0 /\ numUnknownConcreteness(i) # 1 => plan[i][k] = "check"
    BY <1>2, Zenon
  <1> QED BY <1>3 DEF r

\* The only input whose concreteness is unknown is the one that is symbolic.
LEMMA SingleUnknown ==
  ASSUME PassInv, phase = "run", NEW i \in Values, Op(i) \in Computing,
         numUnknownConcreteness(i) = 1, ~AllConcrete(i),
         NEW k \in DOMAIN Inputs(function[i]), InputRegisters(i)[k] # 0
  PROVE  Register(InputRegisters(i)[k]) # Null
  <1> DEFINE U == {m \in DOMAIN InputRegisters(i) : InputRegisters(i)[m] # 0}
  <1>1. DOMAIN InputRegisters(i) = DOMAIN Inputs(function[i])
        /\ IsFiniteSet(DOMAIN InputRegisters(i))
    BY InputsOfComputation
  <1>2. U \in SUBSET DOMAIN InputRegisters(i) /\ k \in U
    BY <1>1
  <1>3. Cardinality(U) = 1
    BY DEF numUnknownConcreteness
  <1>4. PICK m \in DOMAIN InputRegisters(i) : Register(InputRegisters(i)[m]) # Null
    BY DEF AllConcrete
  <1>5. m \in U
    BY <1>4 DEF Register
  <1> HIDE DEF U
  <1>6. IsFiniteSet(U)
    BY <1>1, <1>2, FS_Subset
  <1>7. PICK x : U = {x}
    BY <1>3, <1>6, FS_Singleton
  <1> QED BY <1>2, <1>4, <1>5, <1>7

\* A builder argument is an expression that is right about this run, and that of
\* the input unless the pass has lost it.
LEMMA BuilderArgument ==
  ASSUME PassInv, RunInv, phase = "run", NEW i \in Values, Op(i) \in Computing,
         Available(i), ~AllConcrete(i), NEW k \in DOMAIN Inputs(function[i])
  PROVE  /\ BuilderArgs(i)[k] \in Denotation
         /\ BuilderArgs(i)[k][Actual] = InputDens(i)[k][Actual]
         /\ ~Loses(Inputs(function[i])[k], i) => BuilderArgs(i)[k] = InputDens(i)[k]
  <1> DEFINE r == InputRegisters(i)[k]
             e == Register(r)
             a == Inputs(function[i])[k]
             x == BuilderArgs(i)[k]
  <1>1. /\ x = IF plan[i][k] = "create" \/ (plan[i][k] = "check" /\ e = Null)
               THEN Constant(Val(a)) ELSE e
        /\ InputDens(i)[k] = Den(a)
    BY Zenon DEF BuilderArgs, InputDens
  <1>2. /\ a \in Operand /\ r = Kept(Late(a, i))
        /\ a = 0 \/ \E m \in DOMAIN Args(i) : a = Args(i)[m]
    BY InputsOfComputation
  <1>3. Den(a) # Undef
    BY <1>2, DenotationFacts DEF Available, Den, Bit
  <1>4. Den(a) \in Denotation /\ Val(a) \in Bit /\ Val(a) = Den(a)[Actual]
    BY <1>2, <1>3, DenFacts DEF RunInv, Val
  <1>5. /\ r = 0 => plan[i][k] = "create"
        /\ r # 0 /\ numUnknownConcreteness(i) = 1 => plan[i][k] = "keep"
        /\ r # 0 /\ numUnknownConcreteness(i) # 1 => plan[i][k] = "check"
    BY PlanFacts
  <1>6. r = 0 => e = Null
    BY DEF Register
  <1>7. r # 0 /\ numUnknownConcreteness(i) = 1 => e # Null
    BY SingleUnknown
  <1>8. ~Loses(a, i) => Describes(e, Den(a))
    <2>1. Op(i) # "phi" => a # i
      BY <1>2, FunctionFacts, OperandsAreValues
    <2> QED BY <1>2, <1>3, <2>1, OperandDescribed
  <1>13. RightHere(e, Den(a))
    <2>1. Op(i) # "phi" => a # i
      BY <1>2, FunctionFacts, OperandsAreValues
    <2> QED BY <1>2, <1>3, <2>1, OperandRight
  <1>14. Constant(Val(a))[Actual] = Val(a)
    BY InstrumentationAssumption DEF Constant
  <1>12. e \in Denotation \cup {Null}
    BY <1>2, RegisterType DEF RunInv
  <1> HIDE DEF r, e, a, x
  <1>9. x = IF e = Null THEN Constant(Val(a)) ELSE e
    BY <1>1, <1>5, <1>6, <1>7
  <1>10. x \in Denotation
    BY <1>4, <1>9, <1>12, DenotationFacts
  <1>11. ~Loses(a, i) => x = Den(a)
    BY <1>4, <1>8, <1>9, DenotationFacts DEF Describes
  <1>15. x[Actual] = Den(a)[Actual]
    BY <1>4, <1>9, <1>13, <1>14 DEF RightHere
  <1> QED BY <1>1, <1>10, <1>11, <1>15 DEF a, x

\* Slow paths have no null argument, whatever the pass has lost.
LEMMA NullNotPassed ==
  ASSUME PassInv, RunInv, phase = "run", NEW i \in Values,
         Op(i) \in Computing => Available(i)
  PROVE  ~PassesNull(i)
  <1>1. CASE Op(i) \in Computing
    <2>1. DOMAIN BuilderArgs(i) = DOMAIN Inputs(function[i])
      BY DEF BuilderArgs
    <2> QED BY <1>1, <2>1, BuilderArgument, DenotationFacts DEF PassesNull
  <1>2. CASE Op(i) \notin Computing
    <2>1. Op(i) \in {"phi", "copy", "source", "opaque", "switch"}
      BY <1>2, FunctionFacts DEF Computing, Ops
    <2>2. DOMAIN InputRegisters(i) = {}
      BY <2>1 DEF InputRegisters
    <2> QED BY <2>2 DEF PassesNull, AllConcrete
  <1> QED BY <1>1, <1>2

\* What an operation makes of values, and of constant values.
LEMMA ApplyFacts ==
  ASSUME NEW op, NEW d,
         d[1] \in Denotation, op \in {"binary", "gep"} => d[2] \in Denotation,
         op = "gep" => d[3] \in Denotation
  PROVE  /\ Apply(op, d) \in Denotation
         /\ (/\ IsConstant(d[1])
             /\ op \in {"binary", "gep"} => IsConstant(d[2])
             /\ op = "gep" => IsConstant(d[3])) => IsConstant(Apply(op, d))
  <1>1. CASE op = "binary"
    <2>1. Apply(op, d) = [x \in Input |-> 1 - d[1][x] * d[2][x]]
      BY <1>1, Zenon DEF Apply
    <2>2. \A x \in Input : d[1][x] \in {0, 1} /\ d[2][x] \in {0, 1}
      BY <1>1 DEF Denotation, Bit
    <2>3. \A p, q \in {0, 1} : 1 - p * q \in {0, 1}
      OBVIOUS
    <2>4. Apply(op, d) \in Denotation
      BY <2>1, <2>2, <2>3, Zenon DEF Denotation, Bit
    <2>5. IsConstant(d[1]) /\ IsConstant(d[2]) => IsConstant(Apply(op, d))
      BY <2>1 DEF IsConstant
    <2> QED BY <1>1, <2>4, <2>5
  <1>2. CASE op = "gep"
    <2>1. Apply(op, d) = [x \in Input |-> (d[1][x] * d[2][x] + d[3][x]) % 2]
      BY <1>2, Zenon DEF Apply
    <2>2. \A x \in Input : d[1][x] \in {0, 1} /\ d[2][x] \in {0, 1} /\ d[3][x] \in {0, 1}
      BY <1>2 DEF Denotation, Bit
    <2>3. \A p, q, r \in {0, 1} : (p * q + r) % 2 \in {0, 1}
      <3>1. \A p, q, r \in {0, 1} : p * q + r \in {0, 1, 2}
        OBVIOUS
      <3>2. \A n \in {0, 1, 2} : n % 2 \in {0, 1}
        <4>1. 0 % 2 = 0 /\ 1 % 2 = 1 /\ 2 % 2 = 0
          OBVIOUS
        <4> QED BY <4>1
      <3> QED BY <3>1, <3>2, Zenon
    <2>4. Apply(op, d) \in Denotation
      BY <2>1, <2>2, <2>3, Zenon DEF Denotation, Bit
    <2>5. IsConstant(d[1]) /\ IsConstant(d[2]) /\ IsConstant(d[3]) => IsConstant(Apply(op, d))
      BY <2>1 DEF IsConstant
    <2> QED BY <1>2, <2>4, <2>5
  <1>3. CASE op \notin {"binary", "gep"}
    <2>0. op # "binary" /\ op # "gep"
      BY <1>3
    <2>1. Apply(op, d) = [x \in Input |-> 1 - d[1][x]]
      BY <2>0, Zenon DEF Apply
    <2>2. \A x \in Input : d[1][x] \in {0, 1}
      BY DEF Denotation, Bit
    <2>3. \A p \in {0, 1} : 1 - p \in {0, 1}
      OBVIOUS
    <2>4. Apply(op, d) \in Denotation
      BY <2>1, <2>2, <2>3, Zenon DEF Denotation, Bit
    <2>5. IsConstant(d[1]) => IsConstant(Apply(op, d))
      BY <2>1 DEF IsConstant
    <2> QED BY <2>4, <2>5
  <1> QED BY <1>1, <1>2, <1>3

\* On one input, an operation sees only what its arguments are on that input.
LEMMA ApplyPointwise ==
  ASSUME NEW op, NEW b, NEW d,
         b[1][Actual] = d[1][Actual],
         op \in {"binary", "gep"} => b[2][Actual] = d[2][Actual],
         op = "gep" => b[3][Actual] = d[3][Actual]
  PROVE  Apply(op, b)[Actual] = Apply(op, d)[Actual]
  <1>0. Actual \in Input
    BY InstrumentationAssumption
  <1>1. CASE op = "binary"
    <2>1. /\ Apply(op, b) = [x \in Input |-> 1 - b[1][x] * b[2][x]]
          /\ Apply(op, d) = [x \in Input |-> 1 - d[1][x] * d[2][x]]
      BY <1>1, Zenon DEF Apply
    <2>2. /\ Apply(op, b)[Actual] = 1 - b[1][Actual] * b[2][Actual]
          /\ Apply(op, d)[Actual] = 1 - d[1][Actual] * d[2][Actual]
      BY <1>0, <2>1
    <2> QED BY <1>1, <2>2
  <1>2. CASE op = "gep"
    <2>1. /\ Apply(op, b) = [x \in Input |-> (b[1][x] * b[2][x] + b[3][x]) % 2]
          /\ Apply(op, d) = [x \in Input |-> (d[1][x] * d[2][x] + d[3][x]) % 2]
      BY <1>2, Zenon DEF Apply
    <2>2. /\ Apply(op, b)[Actual] = (b[1][Actual] * b[2][Actual] + b[3][Actual]) % 2
          /\ Apply(op, d)[Actual] = (d[1][Actual] * d[2][Actual] + d[3][Actual]) % 2
      BY <1>0, <2>1, Zenon
    <2> QED BY <1>2, <2>2
  <1>3. CASE op # "binary" /\ op # "gep"
    <2>1. /\ Apply(op, b) = [x \in Input |-> 1 - b[1][x]]
          /\ Apply(op, d) = [x \in Input |-> 1 - d[1][x]]
      BY <1>3, Zenon DEF Apply
    <2> QED BY <1>0, <2>1
  <1> QED BY <1>1, <1>2, <1>3

Building == {"binary", "gep", "cast", "boolcast", "floatbits"}

\* How many inputs each operation has.
LEMMA InputPositions ==
  ASSUME PassInv, phase = "run", NEW i \in Values, Op(i) \in Building
  PROVE  /\ 1 \in DOMAIN Inputs(function[i])
         /\ Op(i) \in {"binary", "gep"} => 2 \in DOMAIN Inputs(function[i])
         /\ Op(i) = "gep" => 3 \in DOMAIN Inputs(function[i])
         /\ \A k \in DOMAIN Inputs(function[i]) :
              k = 1 \/ (k = 2 /\ Op(i) \in {"binary", "gep"}) \/ (k = 3 /\ Op(i) = "gep")
  <1> DEFINE I == function[i]
  <1>1. I \in Instruction /\ Op(i) = I.op
    BY FunctionFacts DEF Op
  <1> HIDE DEF I
  <1>2. CASE Op(i) = "gep"
    <2>1. Inputs(I) = <<I.args[2], 0, I.args[1]>>
      BY <1>1, <1>2, InputFacts
    <2>2. DOMAIN Inputs(I) = {1, 2, 3}
      BY <2>1
    <2> QED BY <1>2, <2>2 DEF I
  <1>3. CASE Op(i) = "binary"
    <2>1. DOMAIN Inputs(I) = {1, 2}
      BY <1>1, <1>3, InputFacts, InstructionFacts
    <2> QED BY <1>3, <2>1 DEF I
  <1>4. CASE Op(i) \in {"cast", "boolcast", "floatbits"}
    <2>1. DOMAIN Inputs(I) = {1}
      BY <1>1, <1>4, InputFacts, InstructionFacts
    <2> QED BY <1>4, <2>1 DEF I
  <1> QED BY <1>2, <1>3, <1>4 DEF Building

\* A computation of expressions describes that of the values.
LEMMA ComputationCorrect ==
  ASSUME PassInv, RunInv, phase = "run", NEW i \in Values, Op(i) \in Building, Available(i)
  PROVE  /\ Apply(Op(i), InputDens(i)) \in Denotation
         /\ Computed(i) \in Denotation \cup {Null}
         /\ RightHere(Computed(i), Apply(Op(i), InputDens(i)))
         /\ (\A k \in DOMAIN Args(i) : ~Loses(Args(i)[k], i)) =>
              /\ Describes(Computed(i), Apply(Op(i), InputDens(i)))
              /\ AllConcrete(i) => IsConstant(Apply(Op(i), InputDens(i)))
  <1> DEFINE in == Inputs(function[i])
             D == InputDens(i)
             B == BuilderArgs(i)
             noLoss == \A k \in DOMAIN Args(i) : ~Loses(Args(i)[k], i)
  <1>1. Op(i) \in Computing
    BY DEF Building, Computing
  <1>2. \A k \in DOMAIN in : /\ in[k] \in Operand
                             /\ in[k] = 0 \/ \E m \in DOMAIN Args(i) : in[k] = Args(i)[m]
                             /\ InputRegisters(i)[k] = Kept(Late(in[k], i))
    BY <1>1, InputsOfComputation
  <1>3. \A k \in DOMAIN in : D[k] = Den(in[k])
    BY DEF InputDens
  <1>4. \A k \in DOMAIN in : Den(in[k]) # Undef /\ Den(in[k]) \in Denotation
    <2> TAKE k \in DOMAIN in
    <2>1. Den(in[k]) # Undef
      BY <1>2, DenotationFacts DEF Available, Den, Bit
    <2>a. in[k] \in Operand
      BY <1>2
    <2>2. PICK a : a = in[k] /\ a \in Operand
      BY <2>a
    <2>3. Den(a) \in Denotation
      BY <2>1, <2>2, DenFacts DEF RunInv
    <2> QED BY <2>1, <2>2, <2>3
  <1>5. \A k \in DOMAIN in : noLoss => ~Loses(in[k], i)
    BY <1>2 DEF Loses
  <1>6. /\ 1 \in DOMAIN in /\ (Op(i) \in {"binary", "gep"} => 2 \in DOMAIN in)
        /\ (Op(i) = "gep" => 3 \in DOMAIN in)
    BY InputPositions
  <1>7. \A k \in DOMAIN in : ~AllConcrete(i) => B[k] \in Denotation /\ (noLoss => B[k] = D[k])
    BY <1>1, <1>5, BuilderArgument
  <1>18. \A k \in DOMAIN in : ~AllConcrete(i) => B[k][Actual] = D[k][Actual]
    BY <1>1, BuilderArgument
  <1>8. DOMAIN B = DOMAIN in /\ DOMAIN D = DOMAIN in
    BY DEF BuilderArgs, InputDens
  <1>9. ~AllConcrete(i) /\ noLoss => B = D
    <2>1. B = [k \in DOMAIN B |-> B[k]] /\ D = [k \in DOMAIN D |-> D[k]]
      BY DEF BuilderArgs, InputDens
    <2> HIDE DEF B, D, in, noLoss
    <2> QED BY <1>7, <1>8, <2>1
  <1>10. AllConcrete(i) /\ noLoss => \A k \in DOMAIN in : IsConstant(D[k])
    <2> SUFFICES ASSUME AllConcrete(i), noLoss, NEW k \in DOMAIN in
                 PROVE  IsConstant(Den(in[k]))
      BY <1>3
    <2>1. Register(Kept(Late(in[k], i))) = Null
      BY <1>1, <1>2, InputsOfComputation DEF AllConcrete
    <2>2. Op(i) # "phi" => in[k] # i
      BY <1>2, FunctionFacts, OperandsAreValues
    <2>a. in[k] \in Operand
      BY <1>2
    <2>3. PICK a : a = in[k] /\ a \in Operand
      BY <2>a
    <2>4. (Op(i) # "phi" => a # i) /\ Den(a) # Undef /\ ~Loses(a, i)
      BY <1>4, <1>5, <2>2, <2>3
    <2>5. Describes(Register(Kept(Late(a, i))), Den(a))
      BY <2>3, <2>4, OperandDescribed
    <2> QED BY <2>1, <2>3, <2>5 DEF Describes
  <1>11. ~PassesNull(i)
    BY NullNotPassed
  <1>12. Computed(i) = IF AllConcrete(i) THEN Null ELSE Apply(Op(i), B)
    BY <1>11 DEF Computed
  <1> HIDE DEF in, D, B, noLoss
  <1>13. Apply(Op(i), D) \in Denotation
    BY <1>3, <1>4, <1>6, ApplyFacts
  <1>14. ~AllConcrete(i) => Apply(Op(i), B) \in Denotation
    BY <1>6, <1>7, ApplyFacts
  <1>15. AllConcrete(i) /\ noLoss => IsConstant(Apply(Op(i), D))
    BY <1>3, <1>4, <1>6, <1>10, ApplyFacts
  <1>16. Computed(i) \in Denotation \cup {Null}
    BY <1>12, <1>14
  <1>17. noLoss => Describes(Computed(i), Apply(Op(i), D))
    BY <1>9, <1>12, <1>13, <1>15, DenotationFacts DEF Describes
  <1>19. RightHere(Computed(i), Apply(Op(i), D))
    <2>1. ~AllConcrete(i) => Apply(Op(i), B)[Actual] = Apply(Op(i), D)[Actual]
      BY <1>6, <1>18, ApplyPointwise
    <2> QED BY <1>12, <2>1 DEF RightHere
  <1> QED BY <1>13, <1>15, <1>16, <1>17, <1>19 DEF D, noLoss

(***************************************************************************)
(* Steps of the instrumented function.                                     *)
(***************************************************************************)

\* What the invariant says of decisions.
PathInv ==
  PathConditionIsPath /\ samePath \subseteq Input /\ guessed \subseteq Input

\* The run leaves alone what the pass has made.
LEMMA PassUnchanged ==
  ASSUME PassInv, UNCHANGED passVars
  PROVE  /\ PassInv' /\ UNCHANGED <<phase, function, symbolicExpressions, uses, plan>>
         /\ nodesToErase' = nodesToErase
  <1>1. UNCHANGED <<phase, function, symbolicExpressions, uses, plan>>
    BY DEF passVars
  <1>2. PassType'
    BY <1>1 DEF PassInv, PassType
  <1>3. \A i \in Values : i \in Nat
    BY OperandsAreValues
  <1>4. \A i \in 1..Len(function) : i \in Nat
    OBVIOUS
  <1>5. \A i \in Values : Plan(i)' = Plan(i)
    <2>1. function' = function /\ uses' = uses
      BY <1>1
    <2> TAKE i \in Values
    <2>2. InputRegisters(i)' = InputRegisters(i)
      BY <2>1 DEF InputRegisters, Op
    <2>3. numUnknownConcreteness(i)' = numUnknownConcreteness(i)
      BY <2>2 DEF numUnknownConcreteness
    <2> QED BY <2>2, <2>3, Zenon DEF Plan
  <1>6. \A i \in 1..Len(function) :
          /\ RegisterRule(i)'
          /\ Op(i)' # "phi" => \A k \in DOMAIN Args(i)' : Args(i)'[k] # i
    BY <1>1, <1>4, SameFunction DEF PassInv
  <1>7. phase \in {"visit", "finalize"} =>
          \A i \in 1..Len(function) : Op(i)' # "phi" => uses'[i] = EarlyUses(i)'
    BY <1>1, <1>4, SameFunction DEF PassInv
  <1>8. phase \in {"shortcircuit", "run"} => \A i \in Values : uses'[i] = LateUses(i)'
    BY <1>1, <1>3, SameFunction DEF PassInv
  <1>9. phase = "run" => \A i \in Values : plan'[i] = Plan(i)'
    BY <1>1, <1>5 DEF PassInv
  <1>10. phase \in {"visit", "finalize"} =>
           uses \in Seq(Seq(Operand)) /\ Len(uses) = Len(function)
    BY DEF PassInv
  <1>11. PassInv'
    BY <1>1, <1>2, <1>6, <1>7, <1>8, <1>9, <1>10 DEF PassInv
  <1> QED BY <1>1, <1>11, SameFunction

\* The registers of values that are not outdated stay as they are.
LEMMA RegisterKept ==
  ASSUME PassInv, RunInv, phase = "run", UNCHANGED passVars,
         NEW i \in Values, NEW d, NEW e, NEW used, SetValue(i, d, e, used),
         Op(i) # "phi" => Available(i), NEW v \in Values,
         v \notin Cone(i) \/ (v = i /\ symbolicExpressions[i] # i)
  PROVE  Register(symbolicExpressions[v])' = Register(symbolicExpressions[v])
  <1> DEFINE r == symbolicExpressions[v]
  <1>1. symbolicExpressions' = symbolicExpressions /\ r \in Operand
    BY PassUnchanged, FunctionFacts
  <1>2. expr' = [j \in Values |-> IF j = i /\ symbolicExpressions[i] = i THEN e
                                   ELSE IF j \in Outdated(i) THEN Null ELSE expr[j]]
    BY DEF SetValue
  <1>3. CASE r = 0
    BY <1>1, <1>3 DEF Register
  <1>4. CASE r # 0
    <2>1. r \in Values
      BY <1>1, <1>4, OperandsAreValues
    <2>2. r \notin Cone(i)
      <3>1. CASE v \notin Cone(i)
        BY <3>1, <2>1, ConeClosed, SharersAreOutdated, OutdatedDef
      <3>2. CASE v = i /\ symbolicExpressions[i] # i
        <4>1. /\ Op(i) = "copy" /\ 1 \in DOMAIN Args(i) /\ Args(i)[1] \in Values
              /\ symbolicExpressions[Args(i)[1]] = r
          BY <1>4, <3>2, RegisterOfCopy
        <4>2. Args(i)[1] \notin Cone(i)
          BY <4>1, ArgsAreFresh DEF RunInv
        <4> QED BY <2>1, <4>1, <4>2, ConeClosed, SharersAreOutdated, OutdatedDef
      <3> QED BY <3>1, <3>2
    <2>3. expr'[r] = expr[r]
      BY <1>2, <2>1, <2>2 DEF Cone
    <2> QED BY <1>1, <1>4, <2>3 DEF Register
  <1> QED BY <1>3, <1>4

\* The expression that the i-th value has after its execution.
LEMMA SetValueInv ==
  ASSUME PassInv, RunInv, phase = "run", UNCHANGED passVars,
         NEW i \in Values, NEW d \in Denotation, NEW e \in Denotation \cup {Null},
         NEW used, SetValue(i, d, e, used),
         Op(i) # "phi" => Available(i),
         i \in nodesToErase => e = Null,
         RightHere(IF symbolicExpressions[i] = i THEN e
                   ELSE Register(symbolicExpressions[i]), d),
         i \notin lost' =>
           Describes(IF symbolicExpressions[i] = i THEN e
                     ELSE Register(symbolicExpressions[i]), d),
         PathInv'
  PROVE  InstrumentationInv'
  <1>1. /\ PassInv' /\ phase' = "run" /\ function' = function
        /\ symbolicExpressions' = symbolicExpressions /\ nodesToErase' = nodesToErase
    BY PassUnchanged
  <1>2. /\ den' = [j \in Values |->
             IF j = i THEN d ELSE IF j \in Outdated(i) THEN Undef ELSE den[j]]
        /\ expr' = [j \in Values |->
             IF j = i /\ symbolicExpressions[i] = i THEN e
             ELSE IF j \in Outdated(i) THEN Null ELSE expr[j]]
        /\ \A j : j \in lost' => j = i \/ j \in lost
        /\ \A j : j \in lost /\ j \notin Cone(i) => j \in lost'
        /\ nullPassed' = (nullPassed \/ PassesNull(i))
    BY DEF SetValue, Cone
  <1>3. RunType /\ Ordered /\ ErasedAreNull
    BY DEF RunInv
  <1>4. ~nullPassed'
    <2>1. ~PassesNull(i) /\ ~nullPassed
      BY NullNotPassed DEF Computing, RunInv, BuildersGetExpressions
    <2> QED BY <1>2, <2>1
  <1>5. RunType'
    <2>1. den' \in [Values -> Denotation \cup {Undef}]
      BY <1>2, <1>3 DEF RunType
    <2>2. expr' \in [Values -> Denotation \cup {Null}]
      BY <1>2, <1>3 DEF RunType
    <2>3. lost' \subseteq Values
      BY <1>2, <1>3 DEF RunType
    <2>4. nullPassed' \in BOOLEAN
      BY <1>2
    <2> QED BY <1>1, <2>1, <2>2, <2>3, <2>4 DEF RunType, PathInv
  <1>6. Ordered'
    BY <1>1, <1>2, <1>3, OrderedAfter
  <1>7. ErasedAreNull'
    <2>1. \A j \in nodesToErase : j \in Values /\ expr[j] = Null
      BY <1>3 DEF ErasedAreNull, nodesToErase
    <2> QED BY <1>1, <1>2, <2>1 DEF ErasedAreNull
  <1>8. ASSUME NEW v \in Values, den'[v] # Undef
        PROVE  /\ RightHere(Register(symbolicExpressions[v])', den'[v])
               /\ v \notin lost' => Describes(Register(symbolicExpressions[v])', den'[v])
    <2>1. v \notin Outdated(i) \/ v = i
      BY <1>2, <1>8
    <2>2. CASE v # i
      <3>1. v \notin Cone(i) /\ den'[v] = den[v] /\ (v \in lost' <=> v \in lost)
        BY <1>2, <1>8, <2>1, <2>2 DEF Cone
      <3>2. Register(symbolicExpressions[v])' = Register(symbolicExpressions[v])
        BY <3>1, RegisterKept
      <3>3. /\ RightHere(Register(symbolicExpressions[v]), den[v])
            /\ v \notin lost => Describes(Register(symbolicExpressions[v]), den[v])
        BY <1>8, <3>1, DescribedNow
      <3> QED BY <3>1, <3>2, <3>3
    <2>3. CASE v = i /\ symbolicExpressions[i] # i
      <3>1. Register(symbolicExpressions[i])' = Register(symbolicExpressions[i])
        BY <2>3, RegisterKept
      <3>2. den'[i] = d
        BY <1>2
      <3> QED BY <1>8, <2>3, <3>1, <3>2
    <2>4. CASE v = i /\ symbolicExpressions[i] = i
      <3>1. Register(symbolicExpressions[i])' = e /\ den'[i] = d
        BY <1>1, <1>2, <2>4, OperandsAreValues DEF Register
      <3> QED BY <1>8, <2>4, <3>1
    <2> QED BY <2>2, <2>3, <2>4
  <1>9. ExpressionsDenoteValues'
    BY <1>8 DEF ExpressionsDenoteValues, Describes, RightHere
  <1>10. BuildersGetExpressions' /\ PathConditionIsPath'
    BY <1>4 DEF BuildersGetExpressions, PathInv
  <1> QED BY <1>1, <1>5, <1>6, <1>7, <1>9, <1>10 DEF InstrumentationInv, RunInv

(***************************************************************************)
(* Path constraints.                                                       *)
(***************************************************************************)

\* A constraint that describes the decision keeps the path condition exact, and
\* one that is right about this run keeps this run among the inputs it allows.
LEMMA DecideInv ==
  ASSUME RunInv, NEW i \in Values, NEW v \in Operand, NEW e, Decide(i, v, e),
         RightHere(e, Den(v)), ~Loses(v, i) => Describes(e, Den(v))
  PROVE  PathInv'
  <1> DEFINE Satisfies(x) == e # Null => e[x] = Val(v)
  <1>1. /\ pathCondition = samePath \cap guessed /\ Actual \in pathCondition
        /\ samePath \subseteq Input /\ guessed \subseteq Input
    BY DEF RunInv, PathConditionIsPath, RunType
  <1>2. Satisfies(Actual)
    BY DEF RightHere, Val
  <1>3. pathCondition' = {x \in pathCondition : Satisfies(x)}
    BY DEF Decide
  <1>4. Actual \in pathCondition'
    BY <1>1, <1>2, <1>3
  <1>5. CASE Loses(v, i)
    <2>1. guessed' = {x \in guessed : Satisfies(x)} /\ samePath' = samePath
      BY <1>5 DEF Decide
    <2> HIDE DEF Satisfies
    <2>2. pathCondition' = samePath' \cap guessed'
      BY <1>1, <1>3, <2>1
    <2>3. samePath' \subseteq Input /\ guessed' \subseteq Input
      BY <1>1, <2>1
    <2> QED BY <1>4, <2>2, <2>3 DEF PathInv, PathConditionIsPath
  <1>6. CASE ~Loses(v, i)
    <2>1. samePath' = {x \in samePath : Den(v)[x] = Val(v)} /\ guessed' = guessed
      BY <1>6 DEF Decide
    <2>2. ASSUME NEW x \in samePath
          PROVE  Den(v)[x] = Val(v) <=> Satisfies(x)
      <3>1. x \in Input /\ Actual \in Input
        BY <1>1, InstrumentationAssumption
      <3>2. CASE e = Null
        <4>1. IsConstant(Den(v))
          BY <1>6, <3>2 DEF Describes
        <4> QED BY <3>1, <3>2, <4>1 DEF IsConstant, Val
      <3>3. CASE e # Null
        BY <1>6, <3>3 DEF Describes
      <3> QED BY <3>2, <3>3
    <2> HIDE DEF Satisfies
    <2>3. pathCondition' = samePath' \cap guessed'
      BY <1>1, <1>3, <2>1, <2>2
    <2>4. samePath' \subseteq Input /\ guessed' \subseteq Input
      BY <1>1, <2>1
    <2> QED BY <1>4, <2>3, <2>4 DEF PathInv, PathConditionIsPath
  <1> QED BY <1>5, <1>6

\* Branches and selects push their condition.
LEMMA PushedConditionCorrect ==
  ASSUME PassInv, RunInv, phase = "run", NEW i \in Values, Op(i) \in {"select", "branch"},
         Available(i)
  PROVE  /\ 1 \in DOMAIN Args(i) /\ Args(i)[1] \in Operand
         /\ RightHere(PushedCondition(i), Den(Args(i)[1]))
         /\ ~Loses(Args(i)[1], i) => Describes(PushedCondition(i), Den(Args(i)[1]))
  <1> DEFINE in == Inputs(function[i])
  <1>1. Op(i) \in Computing /\ function[i] \in Instruction
        /\ Op(i) = function[i].op /\ Args(i) = function[i].args
    BY FunctionFacts DEF Computing, Op, Args
  <1>2. in = <<Args(i)[1]>> /\ 1 \in DOMAIN Args(i) /\ Args(i)[1] \in Operand
    BY <1>1, InputFacts, InstructionFacts
  <1>3. DOMAIN in = {1} /\ in[1] = Args(i)[1]
    BY <1>2
  <1> HIDE DEF in
  <1>4. /\ DOMAIN InputRegisters(i) = {1}
        /\ InputRegisters(i)[1] = Kept(Late(Args(i)[1], i))
    BY <1>1, <1>3, InputsOfComputation DEF in
  <1>5. ~PassesNull(i)
    BY NullNotPassed
  <1>6. PICK a \in Operand : a = Args(i)[1] /\ Den(a) # Undef /\ a # i
    BY <1>1, <1>2, FunctionFacts DEF Available
  <1>7. CASE AllConcrete(i)
    <2>1. Register(Kept(Late(a, i))) = Null
      BY <1>4, <1>6, <1>7 DEF AllConcrete
    <2>2. ~Loses(a, i) => Describes(Register(Kept(Late(a, i))), Den(a))
      BY <1>6, OperandDescribed
    <2>3. PushedCondition(i) = Null
      BY <1>7 DEF PushedCondition
    <2> QED BY <1>2, <1>6, <2>1, <2>2, <2>3 DEF RightHere
  <1>8. CASE ~AllConcrete(i)
    <2>1. PushedCondition(i) = BuilderArgs(i)[1]
      BY <1>5, <1>8 DEF PushedCondition
    <2>2. /\ BuilderArgs(i)[1] \in Denotation
          /\ BuilderArgs(i)[1][Actual] = InputDens(i)[1][Actual]
          /\ ~Loses(a, i) => BuilderArgs(i)[1] = InputDens(i)[1]
      BY <1>1, <1>3, <1>6, <1>8, BuilderArgument DEF in
    <2>3. InputDens(i)[1] = Den(a)
      BY <1>3, <1>6 DEF InputDens, in
    <2>4. BuilderArgs(i)[1] # Null
      BY <2>2, DenotationFacts
    <2> QED BY <1>2, <1>6, <2>1, <2>2, <2>3, <2>4 DEF Describes, RightHere
  <1> QED BY <1>7, <1>8

\* A decision alone changes no value.
LEMMA OnlyDecides ==
  ASSUME PassInv, RunInv, phase = "run", UNCHANGED <<passVars, den, expr, lost>>,
         nullPassed' = nullPassed, PathInv'
  PROVE  InstrumentationInv'
  <1>1. /\ PassInv' /\ UNCHANGED <<phase, function, symbolicExpressions, uses, plan>>
        /\ nodesToErase' = nodesToErase
    BY PassUnchanged
  <1>2. UNCHANGED <<den, expr, lost, nullPassed>>
    OBVIOUS
  <1>3. RunType'
    BY <1>1, <1>2 DEF RunInv, RunType, PathInv
  <1>4. Ordered'
    BY <1>1, <1>2 DEF RunInv, Ordered, Present, Op, Args
  <1>5. ErasedAreNull'
    BY <1>1, <1>2 DEF RunInv, ErasedAreNull
  <1>6. ExpressionsDenoteValues'
    BY <1>1, <1>2 DEF RunInv, ExpressionsDenoteValues, Register
  <1>7. BuildersGetExpressions' /\ PathConditionIsPath'
    BY <1>2 DEF RunInv, BuildersGetExpressions, PathInv
  <1> QED BY <1>1, <1>3, <1>4, <1>5, <1>6, <1>7 DEF InstrumentationInv, RunInv

(***************************************************************************)
(* Each instruction.                                                       *)
(***************************************************************************)

\* Instructions that make no decision leave the path condition exact.
LEMMA NoDecisionInv ==
  ASSUME RunInv, NoDecision
  PROVE  UNCHANGED passVars /\ PathInv'
  BY DEF RunInv, NoDecision, PathInv, PathConditionIsPath, RunType

\* What SetValue says about values that are not lost.
LEMMA NotLost ==
  ASSUME NEW i, NEW d, NEW e, NEW used, SetValue(i, d, e, used), i \notin lost'
  PROVE  /\ \A v \in used : ~Loses(v, i)
         /\ Op(i) = "floatbits" => AllConcrete(i)
         /\ Op(i) = "opaque" => Register(getSymbolicExpression(Args(i)[1])) = Null
  BY DEF SetValue, DropsExpression

\* Only PHI nodes are erased.
LEMMA ErasedIsPHI ==
  ASSUME NEW i \in nodesToErase
  PROVE  Op(i) = "phi"
  BY DEF nodesToErase

\* Loads and calls keep the invariant.
LEMMA SourceInv ==
  ASSUME PassInv, RunInv, NEW i \in Values, ExecuteSource(i)
  PROVE  InstrumentationInv'
  <1>1. phase = "run" /\ Op(i) = "source" /\ Available(i)
    BY DEF ExecuteSource, Executes
  <1>a. PICK d \in Denotation :
          \E e \in {d} \cup (IF IsConstant(d) THEN {Null} ELSE {}) : SetValue(i, d, e, {})
    BY DEF ExecuteSource
  <1>2. PICK e \in {d} \cup (IF IsConstant(d) THEN {Null} ELSE {}) : SetValue(i, d, e, {})
    BY <1>a
  <1>3. symbolicExpressions[i] = i
    BY <1>1, FunctionFacts DEF RegisterRule
  <1>4. e \in Denotation \cup {Null} /\ Describes(e, d)
    BY <1>2, DenotationFacts DEF Describes
  <1>5. i \notin nodesToErase
    BY <1>1, ErasedIsPHI
  <1>6. UNCHANGED passVars /\ PathInv'
    BY NoDecisionInv DEF ExecuteSource
  <1>7. /\ Describes(IF symbolicExpressions[i] = i THEN e
                     ELSE Register(symbolicExpressions[i]), d)
        /\ RightHere(IF symbolicExpressions[i] = i THEN e
                     ELSE Register(symbolicExpressions[i]), d)
    BY <1>3, <1>4 DEF Describes, RightHere
  <1> QED BY <1>1, <1>2, <1>4, <1>5, <1>6, <1>7, SetValueInv

\* Computations keep the invariant.
LEMMA ComputationInv ==
  ASSUME PassInv, RunInv, NEW i \in Values, ExecuteComputation(i)
  PROVE  InstrumentationInv'
  <1> DEFINE used == {Args(i)[k] : k \in DOMAIN Args(i)}
  <1>1. /\ phase = "run" /\ Op(i) \in {"binary", "gep", "cast", "boolcast"} /\ Available(i)
        /\ SetValue(i, Apply(Op(i), InputDens(i)), Computed(i), used)
    BY DEF ExecuteComputation, Executes
  <1>2. PICK d, e : d = Apply(Op(i), InputDens(i)) /\ e = Computed(i)
    OBVIOUS
  <1>3. /\ d \in Denotation /\ e \in Denotation \cup {Null} /\ RightHere(e, d)
        /\ (\A k \in DOMAIN Args(i) : ~Loses(Args(i)[k], i)) =>
             Describes(e, d) /\ (AllConcrete(i) => IsConstant(d))
    BY <1>1, <1>2, ComputationCorrect DEF Building
  <1>4. SetValue(i, d, e, used)
    BY <1>1, <1>2
  <1>5. i \notin lost' => \A k \in DOMAIN Args(i) : ~Loses(Args(i)[k], i)
    BY <1>4, NotLost
  <1> HIDE DEF used
  <1>6. CASE symbolicExpressions[i] = i
    <2>1. i \notin lost' =>
            Describes(IF symbolicExpressions[i] = i THEN e
                      ELSE Register(symbolicExpressions[i]), d)
      BY <1>3, <1>5, <1>6
    <2>2. i \notin nodesToErase
      BY <1>1, ErasedIsPHI
    <2>3. UNCHANGED passVars /\ PathInv'
      BY NoDecisionInv DEF ExecuteComputation
    <2>4. RightHere(IF symbolicExpressions[i] = i THEN e
                    ELSE Register(symbolicExpressions[i]), d)
      BY <1>3, <1>6
    <2> QED BY <1>1, <1>3, <1>4, <2>1, <2>2, <2>3, <2>4, SetValueInv
  <1>7. CASE symbolicExpressions[i] # i
    <2>1. /\ symbolicExpressions[i] = 0
          /\ \A k \in DOMAIN Args(i) : Early(Args(i)[k], i) = 0
      BY <1>1, <1>7, FunctionFacts DEF RegisterRule
    <2>2. AllConcrete(i)
      <3>1. Op(i) \in Computing
        BY <1>1 DEF Computing
      <3>2. 0 \notin nodesToErase
        BY OperandsAreValues DEF nodesToErase
      <3>3. \A k \in DOMAIN Inputs(function[i]) : Late(Inputs(function[i])[k], i) = 0
        <4> TAKE k \in DOMAIN Inputs(function[i])
        <4>1. \/ Inputs(function[i])[k] = 0
              \/ \E m \in DOMAIN Args(i) : Inputs(function[i])[k] = Args(i)[m]
          BY <1>1, <3>1, InputsOfComputation
        <4>2. Early(0, i) = 0
          BY DEF Early
        <4> QED BY <1>1, <2>1, <4>1, <4>2 DEF Late
      <3>4. \A k \in DOMAIN InputRegisters(i) : InputRegisters(i)[k] = 0
        BY <1>1, <3>1, <3>2, <3>3, InputsOfComputation DEF Kept
      <3> QED BY <3>4 DEF AllConcrete, Register
    <2>3. i \notin lost' =>
            Describes(IF symbolicExpressions[i] = i THEN e
                      ELSE Register(symbolicExpressions[i]), d)
      BY <1>3, <1>5, <1>7, <2>1, <2>2 DEF Register, Describes
    <2>4. i \notin nodesToErase
      BY <1>1, ErasedIsPHI
    <2>5. UNCHANGED passVars /\ PathInv'
      BY NoDecisionInv DEF ExecuteComputation
    <2>6. RightHere(IF symbolicExpressions[i] = i THEN e
                    ELSE Register(symbolicExpressions[i]), d)
      BY <1>7, <2>1 DEF Register, RightHere
    <2> QED BY <1>1, <1>3, <1>4, <2>3, <2>4, <2>5, <2>6, SetValueInv
  <1> QED BY <1>6, <1>7

\* A bit cast from floating point keeps the invariant.
LEMMA FloatBitsInv ==
  ASSUME PassInv, RunInv, NEW i \in Values, ExecuteFloatBits(i)
  PROVE  InstrumentationInv'
  <1>1. /\ phase = "run" /\ Op(i) = "floatbits" /\ Available(i)
        /\ SetValue(i, Apply(Op(i), InputDens(i)), Computed(i), {Args(i)[1]})
    BY DEF ExecuteFloatBits, Executes
  <1>2. PICK d, e : d = Apply(Op(i), InputDens(i)) /\ e = Computed(i)
    OBVIOUS
  <1>3. /\ d \in Denotation /\ e \in Denotation \cup {Null} /\ RightHere(e, d)
        /\ (\A k \in DOMAIN Args(i) : ~Loses(Args(i)[k], i)) =>
             (AllConcrete(i) => IsConstant(d))
    BY <1>1, <1>2, ComputationCorrect DEF Building
  <1>4. SetValue(i, d, e, {Args(i)[1]})
    BY <1>1, <1>2
  <1>5. DOMAIN Args(i) = {1} /\ symbolicExpressions[i] = 0 /\ i # 0
    BY <1>1, FunctionFacts, InstructionFacts, OperandsAreValues DEF RegisterRule, Op, Args
  <1>6. i \notin lost' =>
          Describes(IF symbolicExpressions[i] = i THEN e
                    ELSE Register(symbolicExpressions[i]), d)
    <2> SUFFICES ASSUME i \notin lost' PROVE IsConstant(d)
      BY <1>5 DEF Describes, Register
    <2>1. ~Loses(Args(i)[1], i) /\ AllConcrete(i)
      BY <1>1, <1>4, NotLost
    <2> QED BY <1>3, <1>5, <2>1
  <1>7. i \notin nodesToErase
    BY <1>1, ErasedIsPHI
  <1>8. UNCHANGED passVars /\ PathInv'
    BY NoDecisionInv DEF ExecuteFloatBits
  <1>9. RightHere(IF symbolicExpressions[i] = i THEN e
                  ELSE Register(symbolicExpressions[i]), d)
    BY <1>5 DEF RightHere, Register
  <1> QED BY <1>1, <1>3, <1>4, <1>6, <1>7, <1>8, <1>9, SetValueInv

\* A copy keeps the invariant: it finds the register of its operand up to date.
LEMMA CopyInv ==
  ASSUME PassInv, RunInv, NEW i \in Values, ExecuteCopy(i)
  PROVE  InstrumentationInv'
  <1>1. /\ phase = "run" /\ Op(i) = "copy" /\ Available(i)
        /\ SetValue(i, Den(Args(i)[1]), Null, {Args(i)[1]})
    BY DEF ExecuteCopy, Executes
  <1>2. 1 \in DOMAIN Args(i) /\ function[i] \in Instruction
    BY <1>1, FunctionFacts, InstructionFacts DEF Op, Args
  <1>3. PICK a \in Operand : a = Args(i)[1] /\ a # i
    BY <1>1, <1>2, FunctionFacts
  <1>4. Den(a) # Undef
    BY <1>1, <1>2, <1>3 DEF Available
  <1>5. PICK d : d = Den(a)
    OBVIOUS
  <1>6. d \in Denotation
    BY <1>4, <1>5, DenFacts DEF RunInv
  <1>7. SetValue(i, d, Null, {a})
    BY <1>1, <1>3, <1>5
  <1>8. symbolicExpressions[i] = Early(a, i) /\ Early(a, i) = Late(a, i)
    BY <1>1, <1>3, FunctionFacts DEF RegisterRule, Late
  <1>9. symbolicExpressions[i] # i
    <2>1. CASE Early(a, i) = 0
      BY <1>8, <2>1, OperandsAreValues
    <2>2. CASE Early(a, i) # 0
      <3>1. a # 0 /\ ~(a >= i) /\ Early(a, i) = symbolicExpressions[a]
        BY <2>2 DEF Early
      <3>2. a \in Values /\ a \in Nat /\ i \in Nat
        BY <3>1, OperandsAreValues
      <3>3. symbolicExpressions[a] <= a
        BY <1>1, <3>2, RegisterIsEarlier
      <3>4. symbolicExpressions[a] \in Operand
        BY <1>1, <3>2, FunctionFacts
      <3>5. symbolicExpressions[a] \in Nat
        BY <3>4, OperandsAreValues
      <3> QED BY <1>8, <3>1, <3>2, <3>3, <3>5
    <2> QED BY <2>1, <2>2
  <1>13. Register(Kept(Late(a, i))) = Register(symbolicExpressions[i])
    <2>1. \A r \in nodesToErase : r # 0 /\ expr[r] = Null
      BY <1>1, OperandsAreValues DEF nodesToErase, RunInv, ErasedAreNull
    <2> QED BY <1>8, <2>1 DEF Register, Kept
  <1>14. i \notin lost' =>
           Describes(IF symbolicExpressions[i] = i THEN Null
                     ELSE Register(symbolicExpressions[i]), d)
    <2> SUFFICES ASSUME i \notin lost' PROVE Describes(Register(symbolicExpressions[i]), d)
      BY <1>9
    <2>1. ~Loses(a, i)
      BY <1>7, NotLost
    <2>2. Describes(Register(Kept(Late(a, i))), d)
      BY <1>1, <1>3, <1>4, <1>5, <2>1, OperandDescribed
    <2> QED BY <1>13, <2>2
  <1>15. RightHere(IF symbolicExpressions[i] = i THEN Null
                   ELSE Register(symbolicExpressions[i]), d)
    <2>1. RightHere(Register(Kept(Late(a, i))), d)
      BY <1>1, <1>3, <1>4, <1>5, OperandRight
    <2> QED BY <1>9, <1>13, <2>1
  <1>10. i \notin nodesToErase
    BY <1>1, ErasedIsPHI
  <1>11. UNCHANGED passVars /\ PathInv'
    BY NoDecisionInv DEF ExecuteCopy
  <1>12. Null \in Denotation \cup {Null}
    OBVIOUS
  <1> QED BY <1>1, <1>6, <1>7, <1>10, <1>11, <1>12, <1>14, <1>15, SetValueInv

\* Unknown instructions keep the invariant: if the operand has no expression
\* and is not lost, the result depends on no input.
LEMMA OpaqueInv ==
  ASSUME PassInv, RunInv, NEW i \in Values, ExecuteOpaque(i)
  PROVE  InstrumentationInv'
  <1>1. /\ phase = "run" /\ Op(i) = "opaque" /\ Available(i)
        /\ SetValue(i, Apply("opaque", <<Den(Args(i)[1])>>), Null, {Args(i)[1]})
    BY DEF ExecuteOpaque, Executes
  <1>2. 1 \in DOMAIN Args(i) /\ symbolicExpressions[i] = 0 /\ i # 0
    BY <1>1, FunctionFacts, InstructionFacts, OperandsAreValues DEF Op, Args, RegisterRule
  <1>3. PICK a \in Operand : a = Args(i)[1] /\ Den(a) # Undef
    BY <1>1, <1>2, FunctionFacts DEF Available
  <1>4. Den(a) \in Denotation
    BY <1>3, DenFacts DEF RunInv
  <1>5. PICK t : t = <<Den(a)>>
    OBVIOUS
  <1>14. t[1] = Den(a)
    BY <1>5
  <1>6. PICK d : d = Apply("opaque", t)
    OBVIOUS
  <1>7. d \in Denotation /\ (IsConstant(Den(a)) => IsConstant(d))
    <2>1. "opaque" \notin {"binary", "gep"} /\ "opaque" # "gep"
      OBVIOUS
    <2>2. t[1] \in Denotation
      BY <1>4, <1>14
    <2> QED BY <1>6, <1>14, <2>1, <2>2, ApplyFacts
  <1>8. SetValue(i, d, Null, {a})
    BY <1>1, <1>3, <1>5, <1>6
  <1>9. i \notin lost' => IsConstant(Den(a))
    <2> SUFFICES ASSUME i \notin lost' PROVE IsConstant(Den(a))
      OBVIOUS
    <2>1. ~Loses(a, i) /\ Register(getSymbolicExpression(a)) = Null
      BY <1>1, <1>3, <1>8, NotLost
    <2>2. CASE a = 0
      BY <2>2, DenotationFacts DEF Den, Bit
    <2>3. CASE a # 0
      <3>1. a \in Values /\ a \notin lost /\ Den(a) = den[a] /\ den[a] # Undef
        BY <1>3, <2>1, <2>3, OperandsAreValues DEF Loses, Den
      <3>2. Describes(Register(symbolicExpressions[a]), den[a])
        BY <3>1, DescribedNow
      <3> QED BY <2>1, <2>3, <3>1, <3>2 DEF Describes, getSymbolicExpression
    <2> QED BY <2>2, <2>3
  <1>10. /\ i \notin lost' =>
              Describes(IF symbolicExpressions[i] = i THEN Null
                        ELSE Register(symbolicExpressions[i]), d)
         /\ RightHere(IF symbolicExpressions[i] = i THEN Null
                      ELSE Register(symbolicExpressions[i]), d)
    BY <1>2, <1>7, <1>9 DEF Describes, RightHere, Register
  <1>11. i \notin nodesToErase
    BY <1>1, ErasedIsPHI
  <1>12. UNCHANGED passVars /\ PathInv'
    BY NoDecisionInv DEF ExecuteOpaque
  <1>13. Null \in Denotation \cup {Null}
    OBVIOUS
  <1> QED BY <1>1, <1>7, <1>8, <1>10, <1>11, <1>12, <1>13, SetValueInv

\* The registers read by PHI nodes, selects and switches.
LEMMA UsesOfOperands ==
  ASSUME PassInv, phase = "run", NEW i \in Values, Op(i) \in {"phi", "select", "switch"},
         NEW k \in DOMAIN Args(i)
  PROVE  uses[i][k] = Kept(Late(Args(i)[k], i))
  <1>1. uses[i] = LateUses(i)
    BY FunctionFacts
  <1>2. UseArgs(function[i]) = Args(i)
    BY Zenon DEF UseArgs, Op, Args
  <1>3. LateUses(i) = [j \in DOMAIN Args(i) |-> Kept(Late(Args(i)[j], i))]
    BY <1>2, Zenon DEF LateUses
  <1> QED BY <1>1, <1>3, Zenon

\* PHI nodes keep the invariant, erased ones included.
LEMMA PHIInv ==
  ASSUME PassInv, RunInv, NEW i \in Values, ExecutePHI(i)
  PROVE  InstrumentationInv'
  <1>1. phase = "run" /\ Op(i) = "phi"
    BY DEF ExecutePHI
  <1>2. PICK k \in DOMAIN Args(i) :
          /\ Den(Args(i)[k]) # Undef
          /\ SetValue(i, Den(Args(i)[k]), Register(uses[i][k]), {Args(i)[k]})
    BY DEF ExecutePHI
  <1>3. PICK a \in Operand : a = Args(i)[k]
    BY <1>1, FunctionFacts
  <1>4. PICK d, e : d = Den(a) /\ e = Register(uses[i][k])
    OBVIOUS
  <1>5. e = Register(Kept(Late(a, i)))
    BY <1>1, <1>3, <1>4, UsesOfOperands
  <1>6. d \in Denotation /\ e \in Denotation \cup {Null}
    BY <1>1, <1>2, <1>3, <1>4, <1>5, DenFacts, RegisterType DEF RunInv
  <1>7. SetValue(i, d, e, {a})
    BY <1>2, <1>3, <1>4
  <1>8. symbolicExpressions[i] = i
    BY <1>1, FunctionFacts DEF RegisterRule
  <1>9. i \notin lost' => Describes(e, d)
    <2>1. i \notin lost' => ~Loses(a, i)
      BY <1>7, NotLost
    <2> QED BY <1>1, <1>2, <1>3, <1>4, <1>5, <2>1, OperandDescribed
  <1>13. RightHere(e, d)
    BY <1>1, <1>2, <1>3, <1>4, <1>5, OperandRight
  <1>10. /\ i \notin lost' =>
              Describes(IF symbolicExpressions[i] = i THEN e
                        ELSE Register(symbolicExpressions[i]), d)
         /\ RightHere(IF symbolicExpressions[i] = i THEN e
                      ELSE Register(symbolicExpressions[i]), d)
    BY <1>8, <1>9, <1>13
  <1>11. i \in nodesToErase => e = Null
    <2> SUFFICES ASSUME i \in nodesToErase PROVE e = Null
      OBVIOUS
    <2>1. getSymbolicExpression(a) = 0
      BY <1>3 DEF nodesToErase, SomeExpression
    <2>2. Late(a, i) = 0 /\ 0 \notin nodesToErase
      BY <1>1, <2>1, OperandsAreValues DEF Late, nodesToErase
    <2> QED BY <1>5, <2>2 DEF Kept, Register
  <1>12. UNCHANGED passVars /\ PathInv'
    BY NoDecisionInv DEF ExecutePHI
  <1> QED BY <1>1, <1>6, <1>7, <1>10, <1>11, <1>12, SetValueInv

\* A select keeps the invariant.
LEMMA SelectInv ==
  ASSUME PassInv, RunInv, NEW i \in Values, ExecuteSelect(i)
  PROVE  InstrumentationInv'
  <1>1. /\ phase = "run" /\ Op(i) = "select" /\ Available(i)
        /\ Decide(i, Args(i)[1], PushedCondition(i)) /\ UNCHANGED passVars
    BY DEF ExecuteSelect, Executes
  <1>2. PICK c \in {2, 3} :
          SetValue(i, Den(Args(i)[c]), Register(uses[i][c]), {Args(i)[c]})
    BY DEF ExecuteSelect
  <1>3. c \in DOMAIN Args(i) /\ (c = 2 \/ c = 3)
    BY <1>1, <1>2, FunctionFacts, InstructionFacts DEF Op, Args
  <1>4. PICK a \in Operand : a = Args(i)[c] /\ a # i /\ Den(a) # Undef
    BY <1>1, <1>3, FunctionFacts DEF Available
  <1>5. PICK d, e : d = Den(a) /\ e = Register(uses[i][c])
    OBVIOUS
  <1>6. e = Register(Kept(Late(a, i)))
    BY <1>1, <1>3, <1>4, <1>5, UsesOfOperands
  <1>7. d \in Denotation /\ e \in Denotation \cup {Null}
    BY <1>1, <1>4, <1>5, <1>6, DenFacts, RegisterType DEF RunInv
  <1>8. SetValue(i, d, e, {a})
    BY <1>2, <1>4, <1>5
  <1>9. i \notin lost' => Describes(e, d)
    <2>1. i \notin lost' => ~Loses(a, i)
      BY <1>8, NotLost
    <2> QED BY <1>1, <1>4, <1>5, <1>6, <2>1, OperandDescribed
  <1>10. symbolicExpressions[i] # i => symbolicExpressions[i] = 0 /\ e = Null
    <2> SUFFICES ASSUME symbolicExpressions[i] # i
                 PROVE  symbolicExpressions[i] = 0 /\ e = Null
      OBVIOUS
    <2>1. symbolicExpressions[i] = 0 /\ Early(a, i) = 0
      BY <1>1, <1>3, <1>4, FunctionFacts DEF RegisterRule
    <2>2. Late(a, i) = 0 /\ 0 \notin nodesToErase
      BY <1>1, <2>1, OperandsAreValues DEF Late, nodesToErase
    <2> QED BY <1>6, <2>1, <2>2 DEF Kept, Register
  <1>14. RightHere(e, d)
    BY <1>1, <1>4, <1>5, <1>6, OperandRight
  <1>11. /\ i \notin lost' =>
              Describes(IF symbolicExpressions[i] = i THEN e
                        ELSE Register(symbolicExpressions[i]), d)
         /\ RightHere(IF symbolicExpressions[i] = i THEN e
                      ELSE Register(symbolicExpressions[i]), d)
    BY <1>9, <1>10, <1>14 DEF Register
  <1>12. i \notin nodesToErase
    BY <1>1, ErasedIsPHI
  <1>13. PathInv'
    BY <1>1, PushedConditionCorrect, DecideInv
  <1> QED BY <1>1, <1>7, <1>8, <1>11, <1>12, <1>13, SetValueInv

\* A branch keeps the invariant.
LEMMA BranchInv ==
  ASSUME PassInv, RunInv, NEW i \in Values, ExecuteBranch(i)
  PROVE  InstrumentationInv'
  <1>1. /\ phase = "run" /\ Op(i) = "branch" /\ Available(i)
        /\ Decide(i, Args(i)[1], PushedCondition(i))
        /\ nullPassed' = (nullPassed \/ PassesNull(i))
        /\ UNCHANGED <<passVars, den, expr, lost>>
    BY DEF ExecuteBranch, Executes
  <1>2. PathInv'
    BY <1>1, PushedConditionCorrect, DecideInv
  <1>3. ~PassesNull(i)
    BY <1>1, NullNotPassed
  <1>4. nullPassed' = nullPassed
    <2>1. nullPassed \in BOOLEAN
      BY DEF RunInv, RunType
    <2> QED BY <1>1, <1>3, <2>1
  <1> QED BY <1>1, <1>2, <1>4, OnlyDecides

\* A switch keeps the invariant.
LEMMA SwitchInv ==
  ASSUME PassInv, RunInv, NEW i \in Values, ExecuteSwitch(i)
  PROVE  InstrumentationInv'
  <1>1. /\ phase = "run" /\ Op(i) = "switch" /\ Available(i)
        /\ Decide(i, Args(i)[1], Register(uses[i][1]))
        /\ UNCHANGED <<passVars, den, expr, lost>> /\ nullPassed' = nullPassed
    BY DEF ExecuteSwitch, Executes
  <1>2. 1 \in DOMAIN Args(i)
    BY <1>1, FunctionFacts, InstructionFacts DEF Op, Args
  <1>3. PICK a \in Operand : a = Args(i)[1] /\ a # i /\ Den(a) # Undef
    BY <1>1, <1>2, FunctionFacts DEF Available
  <1>4. uses[i][1] = Kept(Late(a, i))
    BY <1>1, <1>2, <1>3, UsesOfOperands
  <1>5. /\ ~Loses(a, i) => Describes(Register(uses[i][1]), Den(a))
        /\ RightHere(Register(uses[i][1]), Den(a))
    BY <1>1, <1>3, <1>4, OperandDescribed, OperandRight
  <1>6. PathInv'
    BY <1>1, <1>3, <1>5, DecideInv
  <1> QED BY <1>1, <1>6, OnlyDecides

(***************************************************************************)
(* Theorems.                                                               *)
(***************************************************************************)

\* Every step keeps the invariant.
LEMMA NextInv ==
  ASSUME InstrumentationInv, [Next]_vars
  PROVE  InstrumentationInv'
  <1>0. PassInv /\ RunInv
    BY DEF InstrumentationInv
  <1>1. CASE \E I \in Instruction : Visit(I)
    <2>1. PICK I \in Instruction : Visit(I)
      BY <1>1
    <2>2. PassInv'
      BY <1>0, <2>1, VisitPassInv
    <2>3. phase # "run" /\ UNCHANGED runVars
      BY <2>1 DEF Visit
    <2>4. nodesToErase' \subseteq Values
      BY DEF nodesToErase
    <2> QED BY <1>0, <2>2, <2>3, <2>4, NotRunning DEF InstrumentationInv
  <1>2. CASE finalizePHINodes
    <2>1. PassInv'
      BY <1>0, <1>2, FinalizePassInv
    <2>2. phase # "run" /\ UNCHANGED runVars
      BY <1>2 DEF finalizePHINodes
    <2>3. nodesToErase' \subseteq Values
      BY DEF nodesToErase
    <2> QED BY <1>0, <2>1, <2>2, <2>3, NotRunning DEF InstrumentationInv
  <1>3. CASE shortCircuitExpressionUses
    <2>1. PassInv'
      BY <1>0, <1>3, ShortCircuitPassInv
    <2>2. phase # "run" /\ UNCHANGED runVars
      BY <1>3 DEF shortCircuitExpressionUses
    <2>3. nodesToErase' \subseteq Values
      BY DEF nodesToErase
    <2> QED BY <1>0, <2>1, <2>2, <2>3, NotRunning DEF InstrumentationInv
  <1>4. ASSUME NEW i \in Values,
               \/ ExecuteSource(i) \/ ExecuteComputation(i) \/ ExecuteFloatBits(i)
               \/ ExecuteCopy(i) \/ ExecuteOpaque(i) \/ ExecutePHI(i)
               \/ ExecuteSelect(i) \/ ExecuteBranch(i) \/ ExecuteSwitch(i)
        PROVE  InstrumentationInv'
    BY <1>0, <1>4, SourceInv, ComputationInv, FloatBitsInv, CopyInv, OpaqueInv, PHIInv,
       SelectInv, BranchInv, SwitchInv
  <1>5. CASE UNCHANGED vars
    <2>1. UNCHANGED passVars /\ UNCHANGED runVars
      BY <1>5 DEF vars
    <2>2. UNCHANGED <<den, expr, pathCondition, samePath, guessed, lost, nullPassed>>
      BY <2>1 DEF runVars
    <2>3. CASE phase = "run"
      <3>1. PathInv'
        BY <1>0, <2>2 DEF RunInv, PathInv, PathConditionIsPath, RunType
      <3> QED BY <1>0, <2>1, <2>2, <2>3, <3>1, OnlyDecides
    <2>4. CASE phase # "run"
      <3>1. PassInv' /\ nodesToErase' \subseteq Values
        BY <1>0, <2>1, PassUnchanged DEF nodesToErase
      <3> QED BY <1>0, <2>1, <2>4, <3>1, NotRunning DEF InstrumentationInv
    <2> QED BY <2>3, <2>4
  <1> QED BY <1>1, <1>2, <1>3, <1>4, <1>5 DEF Next

\* The pass and the code it leaves keep the invariant, for a function of any
\* length and any input.
THEOREM InstrumentationInvariance == Spec => []InstrumentationInv
  <1>1. Init => InstrumentationInv
    BY InitInv
  <1>2. InstrumentationInv /\ [Next]_vars => InstrumentationInv'
    BY NextInv
  <1> QED BY <1>1, <1>2, PTL DEF Spec

\* Every available value that the pass has not lost (to an opaque instruction, a
\* cast from floating point or an operand laid out later) is described by its
\* expression register, across erased PHI nodes, shared registers, omitted
\* checks, fast paths and new iterations of loops; the expression of a lost one,
\* if there is any, is right about this run.
THEOREM ExpressionsCorrect == Spec => []ExpressionsDenoteValues
  <1>1. InstrumentationInv => ExpressionsDenoteValues
    BY DEF InstrumentationInv, RunInv
  <1> QED BY <1>1, InstrumentationInvariance, PTL

\* No expression builder is called with a null expression.
THEOREM BuildersCorrect == Spec => []BuildersGetExpressions
  <1>1. InstrumentationInv => BuildersGetExpressions
    BY DEF InstrumentationInv, RunInv
  <1> QED BY <1>1, InstrumentationInvariance, PTL

\* The pushed constraints hold for this input, and, of the inputs that satisfy
\* what is pushed for decisions on lost values, for exactly those that make the
\* other decisions in the same way.
THEOREM PathConditionCorrect == Spec => []PathConditionIsPath
  <1>1. InstrumentationInv => PathConditionIsPath
    BY DEF InstrumentationInv, RunInv
  <1> QED BY <1>1, InstrumentationInvariance, PTL
=============================================================================
