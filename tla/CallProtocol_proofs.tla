------------------------ MODULE CallProtocol_proofs -------------------------
(***************************************************************************)
(* Proofs about CallProtocol, for every set of values and of parameters    *)
(* and every depth of the call stack.                                      *)
(***************************************************************************)
EXTENDS CallProtocol, TLAPS

(***************************************************************************)
(* The inductive invariant.                                                *)
(***************************************************************************)

FrameType ==
  [kind : {"instrumented", "uninstrumented", "wrapper"},
   phase : {"entry", "body", "calling", "returned"},
   args : [Params -> Value], params : [Params -> SymExpr],
   val : Value, expr : SymExpr, used : BOOLEAN]

TypeInv ==
  /\ stack \in Seq(FrameType) /\ Len(stack) >= 1
  /\ g_function_arguments \in [Params -> SymExpr]
  /\ g_return_value \in SymExpr
  /\ result \in Value

\* Every frame but the last waits for its callee, so it is instrumented: only
\* instrumented code calls.  The last frame does not wait.
StackShape ==
  /\ \A n \in 1..Len(stack)-1 :
       stack[n].kind = "instrumented" /\ stack[n].phase = "calling"
  /\ top.phase # "calling"
  /\ top.phase = "returned" => top.kind = "instrumented"
  /\ Len(stack) = 1 => top.kind = "instrumented"

\* The argument slots belong to the last frame until it has fetched them; a
\* wrapper reads them as long as it runs, and calls nothing.
SlotsDescribeArguments ==
  Len(stack) > 1 /\ (top.phase = "entry" \/ top.kind = "wrapper") =>
    \A p \in Params : Describes(g_function_arguments[p], top.args[p])

\* An uninstrumented function runs with the result slot cleared if its caller
\* is going to fetch from it.
OpaqueSlot ==
  Len(stack) > 1 /\ caller.used /\ top.kind = "uninstrumented" =>
    g_return_value = Null

\* Between the return and the fetch, the slot describes the result.
SlotDescribesResult ==
  top.phase = "returned" /\ top.used => Describes(g_return_value, result)

\* A register has a fitting expression in every frame.
RegistersDescribeValues ==
  \A n \in 1..Len(stack) : Describes(stack[n].expr, stack[n].val)

CallInv ==
  /\ TypeInv
  /\ StackShape
  /\ SlotsDescribeArguments
  /\ OpaqueSlot
  /\ SlotDescribesResult
  /\ RegistersDescribeValues
  /\ ParametersDescribeArguments

(***************************************************************************)
(* What the three ways to change the stack leave behind.                   *)
(***************************************************************************)

\* Replacing one element of a sequence.
LEMMA ReplaceFacts ==
  ASSUME NEW S, NEW s \in Seq(S), NEW i \in 1..Len(s), NEW f \in S
  PROVE  LET t == [s EXCEPT ![i] = f]
         IN  /\ t \in Seq(S) /\ Len(t) = Len(s) /\ t[i] = f
             /\ \A m \in 1..Len(s) : m # i => t[m] = s[m]
  OBVIOUS

\* Replacing the last frame leaves the frames below it alone.
LEMMA SetTopFacts ==
  ASSUME stack \in Seq(FrameType), Len(stack) >= 1, NEW f \in FrameType
  PROVE  /\ SetTop(f) \in Seq(FrameType)
         /\ Len(SetTop(f)) = Len(stack)
         /\ \A n \in 1..Len(stack)-1 : SetTop(f)[n] = stack[n]
         /\ SetTop(f)[Len(stack)] = f
  BY ReplaceFacts DEF SetTop

\* The last frame is a frame.
LEMMA TopFacts ==
  ASSUME stack \in Seq(FrameType), Len(stack) >= 1
  PROVE  top \in FrameType
  BY DEF top

\* Going back to frame n leaves the frames below it alone.
LEMMA PopToFacts ==
  ASSUME stack \in Seq(FrameType), NEW n \in 1..Len(stack), NEW f \in FrameType
  PROVE  /\ PopTo(n, f) \in Seq(FrameType)
         /\ Len(PopTo(n, f)) = n
         /\ \A m \in 1..n-1 : PopTo(n, f)[m] = stack[m]
         /\ PopTo(n, f)[n] = f
  <1> DEFINE s == SubSeq(stack, 1, n-1)
  <1>1. s \in Seq(FrameType) /\ Len(s) = n-1 /\ \A m \in 1..n-1 : s[m] = stack[m]
    OBVIOUS
  <1> HIDE DEF s
  <1>2. /\ Append(s, f) \in Seq(FrameType) /\ Len(Append(s, f)) = n
        /\ \A m \in 1..n-1 : Append(s, f)[m] = s[m]
        /\ Append(s, f)[n] = f
    BY <1>1
  <1> QED BY <1>1, <1>2 DEF PopTo, s

\* A return (visitReturnInst) drops the last frame and resumes its caller.
LEMMA BackToCallerFacts ==
  ASSUME stack \in Seq(FrameType), Len(stack) > 1
  PROVE  /\ BackToCaller \in Seq(FrameType)
         /\ Len(BackToCaller) = Len(stack) - 1
         /\ \A n \in 1..Len(stack)-2 : BackToCaller[n] = stack[n]
         /\ BackToCaller[Len(stack)-1] = [caller EXCEPT !.phase = "returned"]
  <1>1. caller \in FrameType
    BY DEF caller
  <1>2. [caller EXCEPT !.phase = "returned"] \in FrameType
    BY <1>1 DEF FrameType
  <1> DEFINE f == [caller EXCEPT !.phase = "returned"]
  <1> HIDE DEF f
  <1>3. f \in FrameType /\ BackToCaller = PopTo(Len(stack) - 1, f)
    BY <1>2, Zenon DEF f, BackToCaller
  <1>4. /\ BackToCaller \in Seq(FrameType)
        /\ Len(BackToCaller) = Len(stack) - 1
        /\ \A n \in 1..Len(stack)-2 : BackToCaller[n] = stack[n]
        /\ BackToCaller[Len(stack)-1] = f
    <2> DEFINE m == Len(stack) - 1
    <2>1. m \in 1..Len(stack) /\ m - 1 = Len(stack) - 2
      OBVIOUS
    <2> HIDE DEF m
    <2>2. /\ PopTo(m, f) \in Seq(FrameType) /\ Len(PopTo(m, f)) = m
          /\ \A n \in 1..m-1 : PopTo(m, f)[n] = stack[n]
          /\ PopTo(m, f)[m] = f
      BY <1>3, <2>1, PopToFacts
    <2> QED BY <1>3, <2>1, <2>2 DEF m
  <1> QED BY <1>4, Zenon DEF f

(***************************************************************************)
(* The steps.                                                              *)
(***************************************************************************)

\* The program starts in main with empty slots.
LEMMA CallInit == Init => CallInv
  <1> SUFFICES ASSUME Init PROVE CallInv
    OBVIOUS
  <1> DEFINE f == Frame("instrumented", [p \in Params |-> Opaque])
  <1>1. /\ f \in FrameType /\ f.kind = "instrumented" /\ f.phase = "entry"
        /\ f.expr = Null /\ f.val = Opaque
    BY CallAssumption DEF Frame, FrameType, SymExpr
  <1>2. stack = <<f>>
    BY DEF Init
  <1> HIDE DEF f
  <1>3. stack \in Seq(FrameType) /\ Len(stack) = 1 /\ stack[1] = f
    BY <1>1, <1>2
  <1>4. TypeInv
    BY <1>3, CallAssumption DEF TypeInv, Init, SymExpr
  <1>5. StackShape /\ SlotsDescribeArguments /\ OpaqueSlot /\ SlotDescribesResult
    BY <1>1, <1>3 DEF StackShape, SlotsDescribeArguments, OpaqueSlot,
                      SlotDescribesResult, top
  <1>6. RegistersDescribeValues /\ ParametersDescribeArguments
    BY <1>1, <1>3, CallAssumption
       DEF RegistersDescribeValues, ParametersDescribeArguments, Describes
  <1> QED BY <1>4, <1>5, <1>6 DEF CallInv

\* The last frame is replaced by one that runs, with fitting parameters and
\* register; the argument slots and the result stay.
LEMMA TopStep ==
  ASSUME CallInv, NEW f \in FrameType, stack' = SetTop(f),
         f.phase = "body", f.kind = top.kind, f.args = top.args,
         top.kind = "wrapper" => top.phase \in {"entry", "body"},
         Describes(f.expr, f.val),
         Len(stack) > 1 /\ f.kind = "instrumented" =>
           \A p \in Params : Describes(f.params[p], f.args[p]),
         g_return_value' \in {g_return_value, Null},
         UNCHANGED <<g_function_arguments, result>>
  PROVE  CallInv'
  <1>1. /\ stack' \in Seq(FrameType) /\ Len(stack') = Len(stack)
        /\ \A n \in 1..Len(stack)-1 : stack'[n] = stack[n]
        /\ stack'[Len(stack)] = f
        /\ Len(stack) \in Nat /\ Len(stack) >= 1
    BY SetTopFacts, SMTT(30) DEF CallInv, TypeInv
  <1>2. top' = f /\ (Len(stack) > 1 => caller' = caller)
    BY <1>1 DEF top, caller
  <1>3. TypeInv'
    BY <1>1 DEF CallInv, TypeInv, SymExpr
  <1>4. StackShape'
    BY <1>1, <1>2 DEF CallInv, StackShape
  <1>5. SlotsDescribeArguments'
    BY <1>1, <1>2 DEF CallInv, SlotsDescribeArguments, Describes
  <1>6. OpaqueSlot' /\ SlotDescribesResult'
    BY <1>1, <1>2 DEF CallInv, OpaqueSlot, SlotDescribesResult
  <1>7. RegistersDescribeValues'
    <2> SUFFICES ASSUME NEW n \in 1..Len(stack)
                 PROVE  Describes(stack'[n].expr, stack'[n].val)
      BY <1>1 DEF RegistersDescribeValues, Describes
    <2>1. CASE n = Len(stack)
      BY <1>1, <2>1
    <2>2. CASE n # Len(stack)
      <3>1. stack'[n] = stack[n]
        BY <1>1, <2>2
      <3> QED BY <3>1 DEF CallInv, RegistersDescribeValues
    <2> QED BY <2>1, <2>2
  <1>8. ParametersDescribeArguments'
    <2> SUFFICES ASSUME NEW n \in 2..Len(stack), stack'[n].kind = "instrumented",
                        stack'[n].phase # "entry", NEW p \in Params
                 PROVE  Describes(stack'[n].params[p], stack'[n].args[p])
      BY <1>1 DEF ParametersDescribeArguments, Describes
    <2>1. CASE n = Len(stack)
      BY <1>1, <2>1
    <2>2. CASE n # Len(stack)
      <3>1. stack'[n] = stack[n]
        BY <1>1, <2>2
      <3> QED BY <3>1 DEF CallInv, ParametersDescribeArguments
    <2> QED BY <2>1, <2>2
  <1> QED BY <1>3, <1>4, <1>5, <1>6, <1>7, <1>8 DEF CallInv

\* The callee returns: the caller's frame is the last one again.
LEMMA ReturnStep ==
  ASSUME CallInv, Len(stack) > 1, stack' = BackToCaller,
         g_return_value' \in SymExpr, result' \in Value,
         caller.used => Describes(g_return_value', result'),
         UNCHANGED g_function_arguments
  PROVE  CallInv'
  <1> DEFINE f == [caller EXCEPT !.phase = "returned"]
  <1>1. caller \in FrameType
    BY DEF caller, CallInv, TypeInv
  <1>2. /\ f.kind = caller.kind /\ f.phase = "returned" /\ f.used = caller.used
        /\ f.expr = caller.expr /\ f.val = caller.val
        /\ f.params = caller.params /\ f.args = caller.args
    BY <1>1 DEF FrameType
  <1>3. /\ stack' \in Seq(FrameType) /\ Len(stack') = Len(stack) - 1
        /\ \A n \in 1..Len(stack)-2 : stack'[n] = stack[n]
        /\ stack'[Len(stack)-1] = f
        /\ Len(stack) \in Nat
    BY BackToCallerFacts DEF CallInv, TypeInv
  <1> HIDE DEF f
  <1>4. top' = f
    BY <1>3 DEF top
  <1>5. caller = stack[Len(stack)-1] /\ Len(stack) - 1 \in 1..Len(stack)-1
    BY <1>3 DEF caller
  <1>6. TypeInv'
    BY <1>3 DEF CallInv, TypeInv
  <1>7. StackShape'
    BY <1>2, <1>3, <1>4, <1>5 DEF CallInv, StackShape
  <1>8. SlotsDescribeArguments' /\ OpaqueSlot' /\ SlotDescribesResult'
    <2>1. caller.kind = "instrumented"
      BY <1>5 DEF CallInv, StackShape
    <2> QED BY <1>2, <1>4, <2>1
         DEF SlotsDescribeArguments, OpaqueSlot, SlotDescribesResult, Describes
  <1>9. RegistersDescribeValues'
    <2> SUFFICES ASSUME NEW n \in 1..Len(stack)-1
                 PROVE  Describes(stack'[n].expr, stack'[n].val)
      BY <1>3 DEF RegistersDescribeValues, Describes
    <2>1. Describes(stack[n].expr, stack[n].val)
      BY <1>3 DEF CallInv, RegistersDescribeValues
    <2>2. stack'[n].expr = stack[n].expr /\ stack'[n].val = stack[n].val
      BY <1>2, <1>3, <1>5
    <2> QED BY <2>1, <2>2
  <1>10. ParametersDescribeArguments'
    <2> SUFFICES ASSUME NEW n \in 2..Len(stack)-1, stack'[n].kind = "instrumented",
                        NEW p \in Params
                 PROVE  Describes(stack'[n].params[p], stack'[n].args[p])
      BY <1>3 DEF ParametersDescribeArguments, Describes
    <2>1. stack'[n].params = stack[n].params /\ stack'[n].args = stack[n].args
      BY <1>2, <1>3, <1>5
    <2>2. n \in 1..Len(stack)-1 /\ n \in 2..Len(stack)
      BY <1>3
    <2>3. stack[n].kind = "instrumented" /\ stack[n].phase = "calling"
      BY <2>2 DEF CallInv, StackShape
    <2> QED BY <2>1, <2>2, <2>3 DEF CallInv, ParametersDescribeArguments
  <1> QED BY <1>6, <1>7, <1>8, <1>9, <1>10 DEF CallInv

\* Enter.
LEMMA EnterStep == CallInv /\ Enter => CallInv'
  <1> SUFFICES ASSUME CallInv, Enter PROVE CallInv'
    OBVIOUS
  <1> DEFINE f == [top EXCEPT
                     !.phase = "body",
                     !.params = IF top.kind = "instrumented" /\ Len(stack) > 1
                                THEN g_function_arguments
                                ELSE @]
  <1>1. top \in FrameType /\ g_function_arguments \in [Params -> SymExpr]
    BY TopFacts DEF CallInv, TypeInv
  <1>2. /\ f \in FrameType /\ f.phase = "body" /\ f.kind = top.kind
        /\ f.args = top.args /\ f.expr = top.expr /\ f.val = top.val
        /\ top.kind = "instrumented" /\ Len(stack) > 1 =>
             f.params = g_function_arguments
    BY <1>1 DEF FrameType
  <1>3. stack' = SetTop(f) /\ top.phase = "entry"
    BY Zenon DEF Enter
  <1>4. UNCHANGED <<g_function_arguments, g_return_value, result>>
    BY DEF Enter
  <1> HIDE DEF f
  <1>5. Describes(f.expr, f.val)
    BY <1>2 DEF CallInv, TypeInv, RegistersDescribeValues, top
  <1>6. Len(stack) > 1 /\ f.kind = "instrumented" =>
          \A p \in Params : Describes(f.params[p], f.args[p])
    BY <1>2, <1>3 DEF CallInv, SlotsDescribeArguments
  <1> QED BY <1>2, <1>3, <1>4, <1>5, <1>6, TopStep

\* Compute.
LEMMA ComputeStep ==
  ASSUME CallInv, NEW v \in Value, NEW e \in SymExpr, Compute(v, e)
  PROVE  CallInv'
  <1> DEFINE f == [top EXCEPT !.val = v, !.expr = e]
  <1>1. top \in FrameType
    BY TopFacts DEF CallInv, TypeInv
  <1>2. top.kind = "instrumented" /\ top.phase = "body"
    BY DEF Compute, Running
  <1>3. /\ f \in FrameType /\ f.phase = "body" /\ f.kind = top.kind
        /\ f.args = top.args /\ f.params = top.params /\ f.val = v /\ f.expr = e
    BY <1>1, <1>2 DEF FrameType
  <1>4. stack' = SetTop(f)
    BY Zenon DEF Compute
  <1>5. UNCHANGED <<g_function_arguments, g_return_value, result>>
    BY DEF Compute
  <1> HIDE DEF f
  <1>6. Len(stack) > 1 => \A p \in Params : Describes(top.params[p], top.args[p])
    BY <1>2 DEF CallInv, TypeInv, ParametersDescribeArguments, top
  <1>7. Describes(e, v)
    BY <1>6, CallAssumption DEF Compute, Describes, InputValue
  <1> QED BY <1>2, <1>3, <1>4, <1>5, <1>6, <1>7, TopStep

\* _sym_get_return_expression.
LEMMA TakeResultStep == CallInv /\ TakeResult => CallInv'
  <1> SUFFICES ASSUME CallInv, TakeResult PROVE CallInv'
    OBVIOUS
  <1>1. /\ top \in FrameType /\ result \in Value /\ g_return_value \in SymExpr
        /\ top.kind = "instrumented" /\ top.phase = "returned"
    BY TopFacts DEF CallInv, TypeInv, TakeResult
  <1>2. Len(stack) > 1 => \A p \in Params : Describes(top.params[p], top.args[p])
    BY <1>1 DEF CallInv, TypeInv, ParametersDescribeArguments, top
  <1>3. UNCHANGED <<g_function_arguments, result>>
    BY DEF TakeResult
  <1>4. CASE top.used
    <2> DEFINE f == [top EXCEPT !.phase = "body", !.used = FALSE,
                                !.val = result, !.expr = g_return_value]
    <2>1. /\ f \in FrameType /\ f.phase = "body" /\ f.kind = top.kind
          /\ f.args = top.args /\ f.params = top.params
          /\ f.val = result /\ f.expr = g_return_value
      BY <1>1 DEF FrameType
    <2>2. stack' = SetTop(f) /\ g_return_value' = Null
      BY <1>4, Zenon DEF TakeResult
    <2> HIDE DEF f
    <2>3. Describes(f.expr, f.val)
      BY <1>1, <1>4, <2>1 DEF CallInv, SlotDescribesResult
    <2> QED BY <1>1, <1>2, <1>3, <2>1, <2>2, <2>3, TopStep
  <1>5. CASE ~top.used
    <2> DEFINE f == [top EXCEPT !.phase = "body"]
    <2>1. /\ f \in FrameType /\ f.phase = "body" /\ f.kind = top.kind
          /\ f.args = top.args /\ f.params = top.params
          /\ f.val = top.val /\ f.expr = top.expr
      BY <1>1 DEF FrameType
    <2>2. stack' = SetTop(f) /\ g_return_value' = g_return_value
      BY <1>5, Zenon DEF TakeResult
    <2> HIDE DEF f
    <2>3. Describes(f.expr, f.val)
      BY <2>1 DEF CallInv, TypeInv, RegistersDescribeValues, top
    <2> QED BY <1>1, <1>2, <1>3, <2>1, <2>2, <2>3, TopStep
  <1> QED BY <1>4, <1>5

\* visitReturnInst.
LEMMA InstrumentedReturnStep ==
  ASSUME CallInv, NEW void \in BOOLEAN, Return(void)
  PROVE  CallInv'
  <1>1. /\ Len(stack) > 1 /\ top \in FrameType /\ Len(stack) \in 1..Len(stack)
        /\ g_return_value \in SymExpr
    BY TopFacts DEF CallInv, TypeInv, Return
  <1>2. Describes(top.expr, top.val)
    BY <1>1 DEF CallInv, RegistersDescribeValues, top
  <1>3. top.expr \in SymExpr /\ top.val \in Value
    BY <1>1 DEF FrameType
  <1>4. /\ g_return_value' \in SymExpr /\ result' \in Value
        /\ caller.used => Describes(g_return_value', result')
    BY <1>1, <1>2, <1>3, CallAssumption DEF Return
  <1>5. stack' = BackToCaller /\ UNCHANGED g_function_arguments
    BY DEF Return
  <1> QED BY <1>1, <1>4, <1>5, ReturnStep

\* Only instrumented code is without a caller.
LEMMA HasCaller ==
  ASSUME CallInv, top.kind # "instrumented"
  PROVE  Len(stack) > 1
  <1>1. Len(stack) # 1
    BY DEF CallInv, StackShape
  <1>2. stack \in Seq(FrameType) /\ Len(stack) >= 1
    BY DEF CallInv, TypeInv
  <1> DEFINE k == Len(stack)
  <1>3. k \in Nat /\ k >= 1 /\ k # 1
    BY <1>1, <1>2
  <1> HIDE DEF k
  <1>4. k > 1
    BY <1>3
  <1> QED BY <1>4, Zenon DEF k

\* The return of uninstrumented code.
LEMMA UninstrumentedReturnStep == CallInv /\ ReturnUninstrumented => CallInv'
  <1> SUFFICES ASSUME CallInv, ReturnUninstrumented PROVE CallInv'
    OBVIOUS
  <1>1. top.kind = "uninstrumented" /\ Len(stack) > 1
    BY HasCaller DEF ReturnUninstrumented, Running
  <1>2. caller.used => g_return_value = Null
    BY <1>1 DEF CallInv, OpaqueSlot
  <1>3. /\ stack' = BackToCaller /\ result' = Opaque
        /\ UNCHANGED <<g_function_arguments, g_return_value>>
    BY DEF ReturnUninstrumented
  <1>4. /\ g_return_value' \in SymExpr /\ result' \in Value
        /\ caller.used => Describes(g_return_value', result')
    BY <1>2, <1>3, CallAssumption DEF CallInv, TypeInv, Describes
  <1> QED BY <1>1, <1>3, <1>4, ReturnStep

\* The return of a libc wrapper.
LEMMA WrapperReturnStep ==
  CallInv /\ (ReturnArgument \/ ReturnFailure \/ ReturnInput \/ ReturnConcrete) => CallInv'
  <1> SUFFICES ASSUME CallInv, ReturnArgument \/ ReturnFailure \/ ReturnInput \/ ReturnConcrete PROVE CallInv'
    OBVIOUS
  <1>1. /\ top.kind = "wrapper" /\ Len(stack) > 1 /\ top \in FrameType
        /\ stack' = BackToCaller /\ UNCHANGED g_function_arguments
    BY HasCaller, TopFacts
       DEF ReturnArgument, ReturnFailure, ReturnInput, ReturnConcrete,
           WrapperReturns, InputValue, Running, CallInv, TypeInv
  <1>2. \A p \in Params : /\ Describes(g_function_arguments[p], top.args[p])
                          /\ g_function_arguments[p] \in SymExpr
                          /\ top.args[p] \in Value
    BY <1>1 DEF CallInv, TypeInv, SlotsDescribeArguments, FrameType
  <1>3. /\ g_return_value' \in SymExpr /\ result' \in Value
        /\ Describes(g_return_value', result')
    BY <1>2, CallAssumption
       DEF ReturnArgument, ReturnFailure, ReturnInput, ReturnConcrete,
           WrapperReturns, InputValue, Describes, SymExpr
  <1> QED BY <1>1, <1>3, ReturnStep

\* handleFunctionCall: the caller's frame waits and the callee's is new.
LEMMA CallStep ==
  ASSUME CallInv, NEW kind \in {"instrumented", "uninstrumented", "wrapper"},
         NEW passed \in SUBSET Params, NEW used \in BOOLEAN, Call(kind, passed, used)
  PROVE  CallInv'
  <1> DEFINE f == [top EXCEPT !.phase = "calling", !.used = used]
             as == [p \in Params |-> IF p \in passed THEN top.val ELSE Opaque]
             g == Frame(kind, as)
             s == SetTop(f)
  <1>1. /\ top \in FrameType /\ Len(stack) \in Nat /\ Len(stack) >= 1
        /\ stack \in Seq(FrameType)
    BY TopFacts DEF CallInv, TypeInv
  <1>2. /\ f \in FrameType /\ f.phase = "calling" /\ f.kind = top.kind
        /\ f.args = top.args /\ f.params = top.params /\ f.used = used
        /\ f.val = top.val /\ f.expr = top.expr
    BY <1>1 DEF FrameType
  <1>3. as \in [Params -> Value]
    BY <1>1, CallAssumption DEF FrameType
  <1> HIDE DEF as
  <1>4. /\ g \in FrameType /\ g.phase = "entry" /\ g.kind = kind /\ g.args = as
        /\ g.expr = Null /\ g.val = Opaque /\ g.used = FALSE
    BY <1>3, CallAssumption DEF Frame, FrameType, SymExpr
  <1>5. stack' = Append(s, g)
    BY Zenon DEF Call, as
  <1>6. top.kind = "instrumented" /\ top.phase = "body"
    BY DEF Call, Running
  <1> HIDE DEF f, g
  <1>7. /\ s \in Seq(FrameType) /\ Len(s) = Len(stack)
        /\ \A n \in 1..Len(stack)-1 : s[n] = stack[n]
        /\ s[Len(stack)] = f
    BY <1>1, <1>2, SetTopFacts
  <1> HIDE DEF s
  <1>8. /\ stack' \in Seq(FrameType) /\ Len(stack') = Len(stack) + 1
        /\ \A n \in 1..Len(stack)-1 : stack'[n] = stack[n]
        /\ stack'[Len(stack)] = f /\ stack'[Len(stack)+1] = g
    BY <1>1, <1>4, <1>5, <1>7
  <1>9. top' = g /\ caller' = f
    BY <1>1, <1>8 DEF top, caller
  <1>10. Describes(top.expr, top.val)
    BY <1>1 DEF CallInv, RegistersDescribeValues, top
  <1>11. /\ g_function_arguments' = ArgumentSlots(passed)
         /\ g_return_value' = ResultSlot(used) /\ result' = result
    BY DEF Call
  <1>12. TypeInv'
    <2>1. top.expr \in SymExpr /\ Null \in SymExpr
      BY <1>1 DEF FrameType, SymExpr
    <2>2. g_function_arguments' \in [Params -> SymExpr]
      BY <1>11, <2>1 DEF ArgumentSlots
    <2>3. g_return_value' \in SymExpr /\ result' \in Value
      BY <1>11, <2>1 DEF ResultSlot, CallInv, TypeInv
    <2> QED BY <1>1, <1>8, <2>2, <2>3 DEF TypeInv
  <1>13. StackShape'
    <2>1. \A n \in 1..Len(stack) :
            stack'[n].kind = "instrumented" /\ stack'[n].phase = "calling"
      BY <1>1, <1>2, <1>6, <1>8 DEF CallInv, StackShape
    <2> QED BY <1>1, <1>4, <1>8, <1>9, <2>1 DEF StackShape
  <1>14. SlotsDescribeArguments'
    <2>1. \A p \in Params : Describes(ArgumentSlots(passed)[p], as[p])
      BY <1>10, CallAssumption DEF ArgumentSlots, Describes, as
    <2> QED BY <1>4, <1>9, <1>11, <2>1 DEF SlotsDescribeArguments, Describes
  <1>15. OpaqueSlot' /\ SlotDescribesResult'
    BY <1>2, <1>4, <1>9, <1>11 DEF OpaqueSlot, SlotDescribesResult, ResultSlot
  <1>16. RegistersDescribeValues'
    <2> SUFFICES ASSUME NEW n \in 1..Len(stack)+1
                 PROVE  Describes(stack'[n].expr, stack'[n].val)
      BY <1>8 DEF RegistersDescribeValues, Describes
    <2>1. CASE n = Len(stack)+1
      BY <1>4, <1>8, <2>1, CallAssumption DEF Describes
    <2>2. CASE n = Len(stack)
      BY <1>2, <1>8, <1>10, <2>2
    <2>3. CASE n \in 1..Len(stack)-1
      BY <1>1, <1>8, <2>3 DEF CallInv, RegistersDescribeValues
    <2> QED BY <1>1, <2>1, <2>2, <2>3
  <1>17. ParametersDescribeArguments'
    <2> SUFFICES ASSUME NEW n \in 2..Len(stack)+1, stack'[n].kind = "instrumented",
                        stack'[n].phase # "entry", NEW p \in Params
                 PROVE  Describes(stack'[n].params[p], stack'[n].args[p])
      BY <1>8 DEF ParametersDescribeArguments, Describes
    <2>1. n # Len(stack)+1
      BY <1>4, <1>8
    <2>2. CASE n = Len(stack)
      <3>1. Describes(top.params[p], top.args[p])
        BY <1>1, <1>6, <2>2 DEF CallInv, ParametersDescribeArguments, top
      <3> QED BY <1>2, <1>8, <2>2, <3>1
    <2>3. CASE n \in 2..Len(stack)-1
      BY <1>1, <1>8, <2>3 DEF CallInv, ParametersDescribeArguments
    <2> QED BY <1>1, <2>1, <2>2, <2>3
  <1> QED BY <1>12, <1>13, <1>14, <1>15, <1>16, <1>17 DEF CallInv

\* visitInvokeInst: the frame that catches goes on with its own register, and
\* no longer waits for a result.
LEMMA UnwindStep ==
  ASSUME CallInv, NEW n \in 1..MaxDepth, Unwind(n)
  PROVE  CallInv'
  <1> DEFINE f == [stack[n] EXCEPT !.phase = "body", !.used = FALSE]
  <1>1. /\ stack \in Seq(FrameType) /\ Len(stack) \in Nat
        /\ n \in 1..Len(stack)-1 /\ n \in Nat
    BY DEF CallInv, TypeInv, Unwind
  <1>2. stack[n] \in FrameType /\ n \in 1..Len(stack)
    BY <1>1
  <1>3. /\ f \in FrameType /\ f.phase = "body" /\ f.kind = stack[n].kind
        /\ f.args = stack[n].args /\ f.params = stack[n].params /\ f.used = FALSE
        /\ f.val = stack[n].val /\ f.expr = stack[n].expr
    BY <1>2 DEF FrameType
  <1>4. stack' = PopTo(n, f)
    BY Zenon DEF Unwind
  <1>5. UNCHANGED <<g_function_arguments, g_return_value, result>>
    BY DEF Unwind
  <1> HIDE DEF f
  <1>6. /\ stack' \in Seq(FrameType) /\ Len(stack') = n
        /\ \A m \in 1..n-1 : stack'[m] = stack[m]
        /\ stack'[n] = f
    BY <1>1, <1>2, <1>3, <1>4, PopToFacts
  <1>7. top' = f
    BY <1>6 DEF top
  <1>8. stack[n].kind = "instrumented" /\ stack[n].phase = "calling"
    BY <1>1 DEF CallInv, StackShape
  <1>9. TypeInv'
    BY <1>1, <1>5, <1>6 DEF CallInv, TypeInv
  <1>10. StackShape'
    <2>1. \A m \in 1..n-1 :
            stack'[m].kind = "instrumented" /\ stack'[m].phase = "calling"
      BY <1>1, <1>6 DEF CallInv, StackShape
    <2> QED BY <1>3, <1>6, <1>7, <1>8, <2>1 DEF StackShape
  <1>11. SlotsDescribeArguments' /\ OpaqueSlot' /\ SlotDescribesResult'
    BY <1>3, <1>7, <1>8 DEF SlotsDescribeArguments, OpaqueSlot, SlotDescribesResult
  <1>12. RegistersDescribeValues'
    <2> SUFFICES ASSUME NEW m \in 1..n
                 PROVE  Describes(stack'[m].expr, stack'[m].val)
      BY <1>6 DEF RegistersDescribeValues, Describes
    <2>1. Describes(stack[m].expr, stack[m].val)
      BY <1>1 DEF CallInv, RegistersDescribeValues
    <2> QED BY <1>1, <1>3, <1>6, <2>1
  <1>13. ParametersDescribeArguments'
    <2> SUFFICES ASSUME NEW m \in 2..n, stack'[m].kind = "instrumented", NEW p \in Params
                 PROVE  Describes(stack'[m].params[p], stack'[m].args[p])
      BY <1>6 DEF ParametersDescribeArguments, Describes
    <2>1. m \in 1..Len(stack)-1 /\ m \in 2..Len(stack)
      BY <1>1
    <2>2. stack[m].kind = "instrumented" /\ stack[m].phase = "calling"
      BY <2>1 DEF CallInv, StackShape
    <2>3. Describes(stack[m].params[p], stack[m].args[p])
      BY <2>1, <2>2 DEF CallInv, ParametersDescribeArguments
    <2> QED BY <1>1, <1>3, <1>6, <2>3
  <1> QED BY <1>9, <1>10, <1>11, <1>12, <1>13 DEF CallInv

\* A step that changes nothing.
LEMMA CallStutter == CallInv /\ UNCHANGED vars => CallInv'
  BY DEF CallInv, vars, TypeInv, StackShape, SlotsDescribeArguments, OpaqueSlot,
         SlotDescribesResult, RegistersDescribeValues,
         ParametersDescribeArguments, Describes, top, caller

\* The call protocol keeps its invariant, whatever is called, returned from or
\* thrown (Symbolizer.cpp, RuntimeCommon.cpp).
THEOREM CallInvariance == Spec => []CallInv
  <1>1. CallInv /\ [Next]_vars => CallInv'
    <2> SUFFICES ASSUME CallInv, [Next]_vars PROVE CallInv'
      OBVIOUS
    <2>1. CASE Enter
      BY <2>1, EnterStep
    <2>2. CASE \E v \in Value, e \in SymExpr : Compute(v, e)
      BY <2>2, ComputeStep
    <2>3. CASE \E kind \in {"instrumented", "uninstrumented", "wrapper"},
                  passed \in SUBSET Params, used \in BOOLEAN :
                    Call(kind, passed, used)
      BY <2>3, CallStep
    <2>4. CASE \E void \in BOOLEAN : Return(void)
      BY <2>4, InstrumentedReturnStep
    <2>5. CASE ReturnUninstrumented
      BY <2>5, UninstrumentedReturnStep
    <2>6. CASE ReturnArgument \/ ReturnFailure \/ ReturnInput \/ ReturnConcrete
      BY <2>6, WrapperReturnStep
    <2>7. CASE TakeResult
      BY <2>7, TakeResultStep
    <2>8. CASE \E n \in 1..MaxDepth : Unwind(n)
      BY <2>8, UnwindStep
    <2>9. CASE UNCHANGED vars
      BY <2>9, CallStutter
    <2> QED BY <2>1, <2>2, <2>3, <2>4, <2>5, <2>6, <2>7, <2>8, <2>9 DEF Next
  <1> QED BY <1>1, CallInit, PTL DEF Spec

\* The expressions a function fetches on entry are those of the arguments it
\* received (_sym_get_parameter_expression), at every depth of the stack.
THEOREM ParametersCorrect == Spec => []ParametersDescribeArguments
  <1>1. CallInv => ParametersDescribeArguments
    BY DEF CallInv
  <1> QED BY <1>1, CallInvariance, PTL

\* No expression left behind by an earlier call, an ignored result or an
\* exception is taken for a result's (_sym_get_return_expression).
THEOREM ResultsCorrect == Spec => []ResultsDescribeValues
  <1>1. CallInv => ResultsDescribeValues
    BY DEF CallInv, RegistersDescribeValues, ResultsDescribeValues
  <1> QED BY <1>1, CallInvariance, PTL

\* What an uninstrumented function returns to a caller that uses it is concrete
\* (Symbolizer.cpp:334).
THEOREM OpaqueResults == Spec => OpaqueResultIsConcrete
  <1>1. CallInv /\ [Next]_vars =>
          [ReturnUninstrumented /\ caller.used => g_return_value' = Null]_vars
    <2> SUFFICES ASSUME CallInv, ReturnUninstrumented, caller.used
                 PROVE  g_return_value' = Null
      OBVIOUS
    <2>1. top.kind = "uninstrumented" /\ Len(stack) > 1
      BY HasCaller DEF ReturnUninstrumented, Running
    <2> QED BY <2>1 DEF CallInv, OpaqueSlot, ReturnUninstrumented
  <1> QED BY <1>1, CallInvariance, PTL DEF Spec, OpaqueResultIsConcrete
=============================================================================
