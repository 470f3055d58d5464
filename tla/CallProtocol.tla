---------------------------- MODULE CallProtocol ----------------------------
(***************************************************************************)
(* How symbolic expressions cross function boundaries.  The compiler pass  *)
(* makes a caller leave the expressions of the arguments in global slots,  *)
(* makes an instrumented callee fetch them on entry and leave the          *)
(* expression of its result in a global slot on return, and makes the      *)
(* caller fetch that (Symbolizer.cpp, RuntimeCommon.cpp).  A function that *)
(* is not instrumented does none of this, and nobody knows at compile time *)
(* whether a callee is.  Exceptions leave frames without a return.         *)
(*                                                                         *)
(* Values and expressions are those of ShadowMemory, at the granularity of *)
(* a register: an expression describes a value if it evaluates to it, and  *)
(* a value outside of ConstValue depends on the program's input.  What     *)
(* uninstrumented code computes is opaque: SymCC takes it for concrete.    *)
(* The result of a wrapper that fails is a value of its own, because some  *)
(* wrappers give it the expression of an argument.                         *)
(***************************************************************************)
EXTENDS Integers, Sequences

CONSTANTS
  Value,       \* abstract values
  ConstValue,  \* those that are taken for concrete
  Opaque,      \* a value computed by uninstrumented code
  Failure,     \* what fgets or ungetc returns when it fails
  Null,        \* the null expression
  Params,      \* parameter positions
  MaxDepth     \* bound on the depth of the call stack

ASSUME CallAssumption ==
  /\ ConstValue \subseteq Value
  /\ Opaque \in ConstValue
  /\ Failure \in Value \ ConstValue
  /\ Null \notin Value
  /\ MaxDepth \in Nat \ {0}

SymExpr == Value \cup {Null}

\* The values that depend on the input.
InputValue == Value \ (ConstValue \cup {Failure})

VARIABLES
  stack,                 \* frames, the running function last
  g_function_arguments,  \* parameter position -> expression
  g_return_value,        \* expression of the last result
  result                 \* the result in the machine's return register

vars == <<stack, g_function_arguments, g_return_value, result>>

\* A frame: val and expr are a register of the function and its expression;
\* used says whether the result of the call it waits for is used.
Frame(kind, args) ==
  [kind |-> kind, phase |-> "entry", args |-> args,
   params |-> [p \in Params |-> Null], val |-> Opaque, expr |-> Null,
   used |-> FALSE]

top == stack[Len(stack)]
caller == stack[Len(stack) - 1]
SetTop(f) == [stack EXCEPT ![Len(stack)] = f]

\* The stack when control goes back to frame n, which becomes f, and to the
\* caller after a call.
PopTo(n, f) == Append(SubSeq(stack, 1, n - 1), f)
BackToCaller == PopTo(Len(stack) - 1, [caller EXCEPT !.phase = "returned"])

Running(kind) == top.kind = kind /\ top.phase = "body"

(***************************************************************************)
(* Inside of a function.                                                   *)
(***************************************************************************)

\* symbolizeFunctionArguments: an instrumented function fetches the
\* expressions of its parameters before anything else; main does not.
Enter ==
  /\ top.phase = "entry"
  /\ stack' = SetTop([top EXCEPT
       !.phase = "body",
       !.params = IF top.kind = "instrumented" /\ Len(stack) > 1
                  THEN g_function_arguments
                  ELSE @])
  /\ UNCHANGED <<g_function_arguments, g_return_value, result>>

\* The function's register receives one of its parameters, a constant, or
\* input read by main.
Compute(v, e) ==
  /\ Running("instrumented")
  /\ \/ \E p \in Params : v = top.args[p] /\ e = top.params[p] /\ Len(stack) > 1
     \/ v \in ConstValue /\ e = Null
     \/ v \in InputValue /\ e = v /\ Len(stack) = 1
  /\ stack' = SetTop([top EXCEPT !.val = v, !.expr = e])
  /\ UNCHANGED <<g_function_arguments, g_return_value, result>>

(***************************************************************************)
(* Calls and returns.                                                      *)
(***************************************************************************)

\* Faulty variant: only the register is set, constants keep an old expression.
SomeSlots(passed) ==
  [p \in Params |-> IF p \in passed THEN top.expr ELSE g_function_arguments[p]]

\* The slots after the caller has set every argument, of which those in passed
\* are the register and the others constants.
ArgumentSlots(passed) == [p \in Params |-> IF p \in passed THEN top.expr ELSE Null]

\* Faulty variant: the slot is not cleared.
OldResultSlot(used) == g_return_value

\* If the result is used its slot is cleared, in case the callee is not
\* instrumented.
ResultSlot(used) == IF used THEN Null ELSE g_return_value

\* handleFunctionCall.
Call(kind, passed, used) ==
  /\ Running("instrumented")
  /\ Len(stack) < MaxDepth
  /\ g_function_arguments' = ArgumentSlots(passed)
  /\ g_return_value' = ResultSlot(used)
  /\ stack' =
       Append(SetTop([top EXCEPT !.phase = "calling", !.used = used]),
              Frame(kind, [p \in Params |->
                             IF p \in passed THEN top.val ELSE Opaque]))
  /\ UNCHANGED result

\* Faulty variant: a null expression is not worth setting.
ReturnSymbolicOnly(void) ==
  /\ Running("instrumented") /\ Len(stack) > 1
  /\ caller.used => ~void
  /\ g_return_value' = IF void \/ top.expr = Null THEN g_return_value ELSE top.expr
  /\ result' = IF void THEN Opaque ELSE top.val
  /\ stack' = BackToCaller
  /\ UNCHANGED g_function_arguments

\* visitReturnInst: a function without a result leaves the slot alone.
Return(void) ==
  /\ Running("instrumented") /\ Len(stack) > 1
  /\ caller.used => ~void
  /\ g_return_value' = IF void THEN g_return_value ELSE top.expr
  /\ result' = IF void THEN Opaque ELSE top.val
  /\ stack' = BackToCaller
  /\ UNCHANGED g_function_arguments

ReturnUninstrumented ==
  /\ Running("uninstrumented")
  /\ result' = Opaque
  /\ stack' = BackToCaller
  /\ UNCHANGED <<g_function_arguments, g_return_value>>

\* A wrapper returns r with expression e.
WrapperReturns(e, r) ==
  /\ Running("wrapper")
  /\ g_return_value' = e
  /\ result' = r
  /\ stack' = BackToCaller
  /\ UNCHANGED g_function_arguments

\* memcpy, memset, memmove, fgets and ungetc (of a byte) return their first
\* argument, lseek64 from the start of the file its second; in a byte-order
\* conversion result and expression correspond in the same way.
ReturnArgument == \E p \in Params : WrapperReturns(g_function_arguments[p], top.args[p])

\* fgets and ungetc set the expression before they look at the result, also if
\* they fail.
ReturnFailure == \E p \in Params : WrapperReturns(g_function_arguments[p], Failure)

\* getc, fgetc and getchar return a byte of the input.
ReturnInput == \E v \in InputValue : WrapperReturns(v, v)

\* The other wrappers, such as the allocators, declare their result concrete, as
\* do getc at the end of the file and lseek64 when it fails or does not count
\* from the start.
ReturnConcrete == WrapperReturns(Null, Opaque)

\* After the call: _sym_get_return_expression fetches and clears the slot.
TakeResult ==
  /\ top.kind = "instrumented" /\ top.phase = "returned"
  /\ IF top.used
     THEN /\ stack' = SetTop([top EXCEPT !.phase = "body", !.used = FALSE,
                                         !.val = result, !.expr = g_return_value])
          /\ g_return_value' = Null
     ELSE /\ stack' = SetTop([top EXCEPT !.phase = "body"])
          /\ UNCHANGED g_return_value
  /\ UNCHANGED <<g_function_arguments, result>>

\* An exception leaves the frames above frame n, which catches it behind an
\* invoke: no return expression is set or fetched (visitInvokeInst).
Unwind(n) ==
  /\ top.phase = "body" /\ top.kind # "wrapper"
  /\ n \in 1..Len(stack)-1
  /\ stack[n].kind = "instrumented"
  /\ stack' = PopTo(n, [stack[n] EXCEPT !.phase = "body", !.used = FALSE])
  /\ UNCHANGED <<g_function_arguments, g_return_value, result>>

Init ==
  /\ stack = <<Frame("instrumented", [p \in Params |-> Opaque])>>
  /\ g_function_arguments = [p \in Params |-> Null]
  /\ g_return_value = Null
  /\ result = Opaque

Next ==
  \/ Enter
  \/ \E v \in Value, e \in SymExpr : Compute(v, e)
  \/ \E kind \in {"instrumented", "uninstrumented", "wrapper"},
        passed \in SUBSET Params, used \in BOOLEAN : Call(kind, passed, used)
  \/ \E void \in BOOLEAN : Return(void)
  \/ ReturnUninstrumented
  \/ ReturnArgument \/ ReturnFailure \/ ReturnInput \/ ReturnConcrete
  \/ TakeResult
  \/ \E n \in 1..MaxDepth : Unwind(n)

Spec == Init /\ [][Next]_vars

-----------------------------------------------------------------------------

\* Expression e says what value v is; of the result of a failed wrapper, and
\* wherever it is passed on, nothing is asked.
Describes(e, v) ==
  v # Failure => IF e = Null THEN v \in ConstValue ELSE e = v

\* In every frame the fetched expressions describe the arguments that the
\* function really received, position by position, whatever was called,
\* returned or thrown before (_sym_get_parameter_expression).  Only an argument
\* that is the result of a failed fgets or ungetc is excused.
ParametersDescribeArguments ==
  \A n \in 2..Len(stack) :
    stack[n].kind = "instrumented" /\ stack[n].phase # "entry" =>
      \A p \in Params : Describes(stack[n].params[p], stack[n].args[p])

\* In every frame the register's expression describes its value, also when the
\* value is the result of a call: no expression left behind by an earlier call,
\* an ignored result or an exception is taken for the result's
\* (_sym_get_return_expression).  Only the result of a failed fgets or ungetc
\* is excused.
ResultsDescribeValues ==
  \A n \in 1..Len(stack) :
    stack[n].kind = "instrumented" => Describes(stack[n].expr, stack[n].val)

\* "In that case, we'll have to treat the result as an opaque concrete value":
\* a result that an uninstrumented function computed never gets an expression
\* (Symbolizer.cpp:334).
OpaqueResultIsConcrete ==
  [][ReturnUninstrumented /\ caller.used => g_return_value' = Null]_vars
=============================================================================
