----------------------------- MODULE FlatShadow -----------------------------
(***************************************************************************)
(* What the bulk operations of the run-time library promise: shadow memory *)
(* is one flat array with an expression per byte, and a call replaces a    *)
(* region of it in one step, by given expressions or by those another      *)
(* region had when the call was made.                                      *)
(***************************************************************************)
EXTENDS Integers

CONSTANTS
  Addr,     \* addresses
  SymExpr,  \* expressions of bytes, the null one included
  Calls,    \* calls that a program may make, see ShadowCopy
  Idle      \* no call is running

VARIABLES
  shadow,   \* the expression of every byte
  call      \* the running call, or Idle

\* The expression that the call c leaves for byte x.
Result(c, x) ==
  IF x \notin c.dest .. c.dest + c.length - 1 THEN shadow[x]
  ELSE IF c.kind = "fill" THEN c.exprs[x - c.dest]
  ELSE shadow[c.src + (x - c.dest)]

Init == shadow \in [Addr -> SymExpr] /\ call = Idle

Start(c) ==
  /\ call = Idle
  /\ call' = c
  /\ UNCHANGED shadow

Finish ==
  /\ call # Idle
  /\ shadow' = [x \in Addr |-> Result(call, x)]
  /\ call' = Idle

Next == Finish \/ \E c \in Calls : Start(c)

vars == <<shadow, call>>

\* Calls do to the array what they say, and nothing else changes it.
Safety == Init /\ [][Next]_vars

\* A call that was made returns.
Spec == Safety /\ WF_vars(Finish)
=============================================================================
