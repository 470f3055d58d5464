-------------------------- MODULE CallbackProtocol --------------------------
(***************************************************************************)
(* CallProtocol with uninstrumented functions that call instrumented ones, *)
(* as a libc that was not built with SymCC does in qsort and bsearch (see  *)
(* libc_harness/README.md, which replaces those two for this reason).      *)
(***************************************************************************)
EXTENDS CallProtocol

\* Uninstrumented code calls an instrumented function: no argument expressions
\* are set, no return expression is cleared or fetched.
CallBack ==
  /\ Running("uninstrumented")
  /\ Len(stack) < MaxDepth
  /\ stack' = Append(SetTop([top EXCEPT !.phase = "calling"]),
                     Frame("instrumented", [p \in Params |-> Opaque]))
  /\ UNCHANGED <<g_function_arguments, g_return_value, result>>

\* Uninstrumented code goes on after a callback.
ResumeUninstrumented ==
  /\ top.kind = "uninstrumented" /\ top.phase = "returned"
  /\ stack' = SetTop([top EXCEPT !.phase = "body"])
  /\ UNCHANGED <<g_function_arguments, g_return_value, result>>

CallbackNext == Next \/ CallBack \/ ResumeUninstrumented

CallbackSpec == Init /\ [][CallbackNext]_vars
=============================================================================
