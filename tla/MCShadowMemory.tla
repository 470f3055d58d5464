--------------------------- MODULE MCShadowMemory ---------------------------
(***************************************************************************)
(* Instance of ShadowMemory for TLC.  Byte 0 is a constant, byte 2 depends *)
(* on the input; the input is 2 followed by a null byte.  A one-byte       *)
(* register and a word; memory that spans two shadowed pages, so that      *)
(* words straddle a page boundary.                                         *)
(***************************************************************************)
EXTENDS ShadowMemory

CONSTANTS b1, w1  \* the registers

MCReg == {b1, w1}
MCWidth == [r \in MCReg |-> IF r = w1 THEN 2 ELSE 1]
MCSign == [v \in Value |-> v]
MCInput == [i \in 0..InputLen-1 |-> IF i = 0 THEN 2 ELSE 0]

\* Every byte of the result depends on every byte of the operands.
MCOp(x, y) ==
  LET bytes == {x[i] : i \in DOMAIN x} \cup {y[i] : i \in DOMAIN y}
      top == CHOOSE v \in bytes : \A u \in bytes : u <= v
  IN  [i \in DOMAIN x |-> top]
=============================================================================
