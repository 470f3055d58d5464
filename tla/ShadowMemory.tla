---------------------------- MODULE ShadowMemory ----------------------------
(***************************************************************************)
(* Concolic state of one instrumented thread: the program's memory and     *)
(* registers, and the symbolic expressions that SymCC keeps beside them.   *)
(*                                                                         *)
(* Memory bytes have their expression in shadow pages that are allocated   *)
(* on demand (runtime/Shadow.h); registers have theirs in a companion      *)
(* register that the compiler pass adds (compiler/Symbolizer.cpp).  A null *)
(* expression says "this value is concrete", and the run-time library and  *)
(* the injected code skip their work wherever they see only nulls          *)
(* (docs/Concreteness.txt).                                                *)
(*                                                                         *)
(* A byte is abstracted to a member of Value.  ConstValue are the values   *)
(* that do not depend on the program's input; any other value does.  An    *)
(* expression is identified with the value it evaluates to on the current  *)
(* input, so that an expression describes a byte iff they are equal.       *)
(*                                                                         *)
(* Some libc wrappers leave the shadow wrong.  staleMem and staleReg       *)
(* follow what they leave behind: the bytes of memory whose shadow is      *)
(* wrong, and whatever the program computes from them.                     *)
(***************************************************************************)
EXTENDS ShadowPages, FiniteSets

CONSTANTS
  Value,        \* abstract byte values
  ConstValue,   \* those that do not depend on the input
  Zero,         \* the byte 0
  ZeroValue,    \* the values whose concrete byte is 0 (some may be input)
  InputLen,     \* length of the symbolic input
  Input,        \* Input[i]: the value of input byte i
  MemSize,      \* addresses are 0 .. MemSize-1
  MaxLen,       \* longest region a bulk operation touches
  MaxStale,     \* most bytes, and most registers, that are wrong at a time
  LittleEndian, \* byte order of the target
  Reg,          \* typed virtual registers
  Width,        \* Width[r]: size of register r in bytes
  Sign,         \* Sign[v]: the byte that sign-extends an integer with top byte v
  Op(_, _),     \* a binary operator of the program, on words
  Wide          \* an expression of more than 8 bits in a slot of the shadow

Word(n) == [0..n-1 -> Value]
ConstWord(n) == [0..n-1 -> ConstValue]
SymExpr == Value \cup {Null}
Slot == SymExpr \cup {Wide}
Addr == 0..MemSize-1

ASSUME ValueAssumption ==
  /\ ConstValue \subseteq Value
  /\ Zero \in ConstValue
  /\ ZeroValue \subseteq Value
  /\ Zero \in ZeroValue
  /\ Null \notin Value
  /\ Wide \notin Value \cup {Null}

ASSUME InputAssumption ==
  /\ InputLen \in Nat
  /\ Input \in [0..InputLen-1 -> Value]

ASSUME SizeAssumption ==
  /\ MemSize \in Nat \ {0}
  /\ MaxLen \in Nat
  /\ MaxStale \in Nat
  /\ LittleEndian \in BOOLEAN
  /\ Width \in [Reg -> Nat \ {0}]

ASSUME SignAssumption ==
  /\ Sign \in [Value -> Value]
  /\ \A v \in ConstValue : Sign[v] \in ConstValue

ASSUME OpAssumption ==
  \A r \in Reg :
    /\ \A x, y \in Word(Width[r]) : Op(x, y) \in Word(Width[r])
    /\ \A x, y \in ConstWord(Width[r]) : Op(x, y) \in ConstWord(Width[r])

VARIABLES
  mem,             \* the program's memory
  g_shadow_pages,  \* page start -> the expressions of the bytes of the page
  val,             \* val[r][k]: byte of significance k of register r
  expr,            \* expr[r]: its expression, the null one is all-Null
  inputRead,       \* history: has the program read symbolic input?
  staleMem,        \* history: the bytes whose shadow a wrapper left wrong
  staleReg         \* history: the registers computed from such bytes

vars == <<mem, g_shadow_pages, val, expr, inputRead, staleMem, staleReg>>

(***************************************************************************)
(* The shadow of the program's memory.                                     *)
(***************************************************************************)

getShadow(a) == ShadowAt(g_shadow_pages, a)

isConcrete(a, n) == RegionConcrete(g_shadow_pages, a, n)

WriteShadow(a, n, exprs) == Written(g_shadow_pages, a, n, exprs)

\* ReadShadowIterator asserts that every expression it yields has 8 bits, so a
\* program that walks over a wide slot stops there.  No wide slot in a region:
Readable(a, n) == \A x \in a..a+n-1 : getShadow(x) # Wide

\* isConcrete looks no further than the first expression of the region.
Checkable(a, n) ==
  \A x \in a..a+n-1 :
    getShadow(x) = Wide => \E y \in a..x-1 : getShadow(y) # Null

\* History: register r is wrong from here on iff cond, and right otherwise.
MarkRegister(r, cond) ==
  /\ staleReg' = IF cond THEN staleReg \cup {r} ELSE staleReg \ {r}
  /\ Cardinality(staleReg') <= MaxStale

\* History: of the n bytes at a those in wrong have a wrong shadow from here on.
MarkRegion(a, n, wrong) ==
  /\ staleMem' = (staleMem \ (a..a+n-1)) \cup wrong
  /\ Cardinality(staleMem') <= MaxStale

\* NonNullReadShadowIterator: a constant expression for a concrete byte.
NonNullShadow(a) == IF getShadow(a) = Null THEN mem[a] ELSE getShadow(a)

NullExpr(n) == [k \in 0..n-1 |-> Null]

(***************************************************************************)
(* Memory instructions.  Ordinal(k, n) is the offset in memory of the byte *)
(* of significance k in an n-byte integer.                                 *)
(***************************************************************************)

Ordinal(k, n) == IF LittleEndian THEN k ELSE n - 1 - k

\* Faulty variant: the gaps of a partly symbolic word are not filled.
ReadWithGaps(a, n) ==
  IF isConcrete(a, n)
  THEN NullExpr(n)
  ELSE [k \in 0..n-1 |-> getShadow(a + Ordinal(k, n))]

_sym_read_memory(a, n) ==
  IF isConcrete(a, n)
  THEN NullExpr(n)
  ELSE [k \in 0..n-1 |-> NonNullShadow(a + Ordinal(k, n))]

_sym_write_memory(e, a, n) ==
  IF e = NullExpr(n) /\ isConcrete(a, n)
  THEN g_shadow_pages
  ELSE WriteShadow(a, n, [i \in 0..n-1 |-> e[Ordinal(i, n)]])

\* Memory after the n bytes w are written at a.
WriteMem(a, n, w) ==
  [x \in Addr |-> IF x \in a..a+n-1 THEN w[x - a] ELSE mem[x]]

Load(r, a) ==
  /\ a + Width[r] <= MemSize
  /\ Readable(a, Width[r])
  /\ val' = [val EXCEPT ![r] =
               [k \in 0..Width[r]-1 |-> mem[a + Ordinal(k, Width[r])]]]
  /\ expr' = [expr EXCEPT ![r] = _sym_read_memory(a, Width[r])]
  /\ MarkRegister(r, a..a+Width[r]-1 \cap staleMem # {})
  /\ UNCHANGED <<mem, g_shadow_pages, inputRead, staleMem>>

Store(r, a) ==
  /\ a + Width[r] <= MemSize
  /\ Checkable(a, Width[r])
  /\ g_shadow_pages' = _sym_write_memory(expr[r], a, Width[r])
  /\ mem' = WriteMem(a, Width[r],
               [i \in 0..Width[r]-1 |-> val[r][Ordinal(i, Width[r])]])
  /\ MarkRegion(a, Width[r], {x \in a..a+Width[r]-1 : r \in staleReg})
  /\ UNCHANGED <<val, expr, inputRead, staleReg>>

(***************************************************************************)
(* Instructions on registers.  The injected code short-circuits: if all    *)
(* operands are concrete the result's expression is null, otherwise a      *)
(* concrete operand is turned into a constant expression first.            *)
(***************************************************************************)

\* A constant expression for the concrete value of a register.
createValueExpression(r) == val[r]

\* shortCircuitExpressionUses: the expression of an operand on the slow path.
OperandExpr(r) ==
  IF expr[r] = NullExpr(Width[r]) THEN createValueExpression(r) ELSE expr[r]

\* A register receives a compile-time constant.
Constant(r, w) ==
  /\ val' = [val EXCEPT ![r] = w]
  /\ expr' = [expr EXCEPT ![r] = NullExpr(Width[r])]
  /\ MarkRegister(r, FALSE)
  /\ UNCHANGED <<mem, g_shadow_pages, inputRead, staleMem>>

BinaryOperator(r, s) ==
  /\ Width[r] = Width[s]
  /\ val' = [val EXCEPT ![r] = Op(val[r], val[s])]
  /\ expr' = [expr EXCEPT ![r] =
                IF /\ expr[r] = NullExpr(Width[r])
                   /\ expr[s] = NullExpr(Width[s])
                THEN NullExpr(Width[r])
                ELSE Op(OperandExpr(r), OperandExpr(s))]
  /\ MarkRegister(r, {r, s} \cap staleReg # {})
  /\ UNCHANGED <<mem, g_shadow_pages, inputRead, staleMem>>

\* Faulty variant: the width does not change.
KeepWidth(w, m, n, signed) == w

\* The low bytes of an m-byte word, extended to n bytes.
Resize(w, m, n, signed) ==
  [k \in 0..n-1 |-> IF k < m THEN w[k] ELSE IF signed THEN Sign[w[m-1]] ELSE Zero]

\* sext, zext and trunc.
IntegerCast(r, s, signed) ==
  /\ Width[r] # Width[s]
  /\ val' = [val EXCEPT ![r] = Resize(val[s], Width[s], Width[r], signed)]
  /\ expr' = [expr EXCEPT ![r] =
                IF expr[s] = NullExpr(Width[s])
                THEN NullExpr(Width[r])
                ELSE Resize(expr[s], Width[s], Width[r], signed)]
  /\ MarkRegister(r, s \in staleReg)
  /\ UNCHANGED <<mem, g_shadow_pages, inputRead, staleMem>>

\* Register r receives s together with its expression.
Receive(r, s) ==
  /\ Width[r] = Width[s]
  /\ val' = [val EXCEPT ![r] = val[s]]
  /\ expr' = [expr EXCEPT ![r] = expr[s]]
  /\ MarkRegister(r, s \in staleReg)
  /\ UNCHANGED <<mem, g_shadow_pages, inputRead, staleMem>>

\* s is the value of a PHI node that belongs to the edge taken.
Phi(r, s) == Receive(r, s)

\* s is the chosen operand; PathConstraints has the constraint.
Select(r, s) == Receive(r, s)

\* Address arithmetic on the pointer p with an index in register i.  Op stands
\* for the addition of the scaled index.
GetElementPtr(r, p, i) ==
  /\ Width[r] = Width[p] /\ Width[i] <= Width[p]
  /\ LET Index(w) == Resize(w, Width[i], Width[p], TRUE) IN
     /\ val' = [val EXCEPT ![r] = Op(Index(val[i]), val[p])]
     /\ expr' = [expr EXCEPT ![r] =
                   IF /\ expr[p] = NullExpr(Width[p])
                      /\ expr[i] = NullExpr(Width[i])
                   THEN NullExpr(Width[r])
                   ELSE Op(Index(OperandExpr(i)), OperandExpr(p))]
  /\ MarkRegister(r, {p, i} \cap staleReg # {})
  /\ UNCHANGED <<mem, g_shadow_pages, inputRead, staleMem>>

\* All indices are zero at compile time.
ZeroElementPtr(r, p) == Receive(r, p)

Swap(w, n) == [k \in 0..n-1 |-> w[n - 1 - k]]

Bswap(r) ==
  /\ Width[r] % 2 = 0
  /\ val' = [val EXCEPT ![r] = Swap(val[r], Width[r])]
  /\ expr' = [expr EXCEPT ![r] =
                IF expr[r] = NullExpr(Width[r])
                THEN NullExpr(Width[r])
                ELSE Swap(expr[r], Width[r])]
  /\ UNCHANGED <<mem, g_shadow_pages, inputRead, staleMem, staleReg>>

\* ntohl, htonl, ntohs and htons.
Ntoh(r) ==
  /\ Width[r] % 2 = 0
  /\ val' = [val EXCEPT ![r] = IF LittleEndian THEN Swap(@, Width[r]) ELSE @]
  /\ expr' = [expr EXCEPT ![r] =
                IF @ # NullExpr(Width[r]) /\ LittleEndian THEN Swap(@, Width[r]) ELSE @]
  /\ UNCHANGED <<mem, g_shadow_pages, inputRead, staleMem, staleReg>>

(***************************************************************************)
(* Bulk operations: the compiler's intrinsics and the libc wrappers.       *)
(***************************************************************************)

CopyMem(d, s, n) == WriteMem(d, n, [i \in 0..n-1 |-> mem[s + i]])

\* Faulty variant: the early return looks at the source only.
CopySymbolicOnly(d, s, n) ==
  IF isConcrete(s, n)
  THEN g_shadow_pages
  ELSE WriteShadow(d, n, [i \in 0..n-1 |-> getShadow(s + i)])

\* std::copy / std::copy_backward on the shadow; ShadowCopy has the steps.
CopyShadow(d, s, n) ==
  IF isConcrete(s, n) /\ isConcrete(d, n)
  THEN g_shadow_pages
  ELSE WriteShadow(d, n, [i \in 0..n-1 |-> getShadow(s + i)])

Disjoint(d, s, n) == d + n <= s \/ s + n <= d

\* The walks of a copy of c bytes from s that writes n bytes at d: the checks
\* stop at the first expression, and the copy reads what it copies.
Copyable(d, s, c, n) ==
  /\ Checkable(s, c)
  /\ IF isConcrete(s, c) THEN Checkable(d, n) ELSE Readable(s, c)

\* The copies of the stale bytes among c bytes at s, when they are copied to d.
StaleCopies(d, s, c) == {x \in d..d+c-1 : s + (x - d) \in staleMem}

\* The program may call memcpy on disjoint regions only.
Memcpy(d, s, n) ==
  /\ d + n <= MemSize /\ s + n <= MemSize
  /\ Disjoint(d, s, n)
  /\ Copyable(d, s, n, n)
  /\ g_shadow_pages' = CopyShadow(d, s, n)
  /\ mem' = CopyMem(d, s, n)
  /\ MarkRegion(d, n, StaleCopies(d, s, n))
  /\ UNCHANGED <<val, expr, inputRead, staleReg>>

Memmove(d, s, n) ==
  /\ d + n <= MemSize /\ s + n <= MemSize
  /\ Copyable(d, s, n, n)
  /\ g_shadow_pages' = CopyShadow(d, s, n)
  /\ mem' = CopyMem(d, s, n)
  /\ MarkRegion(d, n, StaleCopies(d, s, n))
  /\ UNCHANGED <<val, expr, inputRead, staleReg>>

\* What memset puts into each slot.  The intrinsic passes the expression of a
\* byte; the wrapper passes the one of the int c as it is, whatever its width.
MemsetSlot(r) ==
  IF expr[r] = NullExpr(Width[r]) THEN Null
  ELSE IF Width[r] = 1 THEN expr[r][0] ELSE Wide

\* memset with the value in register r: the intrinsic if it is one byte wide,
\* the wrapper otherwise.
Memset(a, n, r) ==
  /\ a + n <= MemSize
  /\ Checkable(a, n)
  /\ g_shadow_pages' =
       IF expr[r] = NullExpr(Width[r]) /\ isConcrete(a, n)
       THEN g_shadow_pages
       ELSE WriteShadow(a, n, [i \in 0..n-1 |-> MemsetSlot(r)])
  /\ mem' = WriteMem(a, n, [i \in 0..n-1 |-> val[r][0]])
  /\ MarkRegion(a, n, {x \in a..a+n-1 : r \in staleReg \/ MemsetSlot(r) = Wide})
  /\ UNCHANGED <<val, expr, inputRead, staleReg>>

\* c is strnlen(src, n).
IsStrnlen(c, s, n) ==
  /\ c \in 0..n
  /\ \A i \in 0..c-1 : mem[s + i] \notin ZeroValue
  /\ c < n => mem[s + c] \in ZeroValue

Strncpy(d, s, n) ==
  /\ d + n <= MemSize /\ s + n <= MemSize
  /\ Disjoint(d, s, n)
  /\ \E copied \in 0..n :
       /\ IsStrnlen(copied, s, n)
       /\ Copyable(d, s, copied, n)
       /\ g_shadow_pages' =
            IF isConcrete(s, copied) /\ isConcrete(d, n)
            THEN g_shadow_pages
            ELSE WriteShadow(d, n, [i \in 0..n-1 |->
                   IF i < copied THEN getShadow(s + i) ELSE Null])
       /\ mem' = WriteMem(d, n, [i \in 0..n-1 |->
                   IF i < copied THEN mem[s + i] ELSE Zero])
       /\ MarkRegion(d, n, StaleCopies(d, s, copied))
  /\ UNCHANGED <<val, expr, inputRead, staleReg>>

(***************************************************************************)
(* Reads.  libc writes n bytes of which the wrapper accounts for m: all of *)
(* them for read(2), the whole items for fread, and for fgets those before *)
(* the first null byte, so that the line's terminator keeps the shadow     *)
(* that was there before.                                                  *)
(***************************************************************************)

\* read and fread on the input, from offset off.
ReadInput(a, n, m, off) ==
  /\ a + n <= MemSize /\ off + n <= InputLen
  /\ mem' = WriteMem(a, n, [i \in 0..n-1 |-> Input[off + i]])
  /\ g_shadow_pages' = WriteShadow(a, m, [i \in 0..m-1 |-> Input[off + i]])
  /\ MarkRegion(a, n, a+m..a+n-1)
  /\ inputRead' = TRUE
  /\ UNCHANGED <<val, expr, staleReg>>

\* fgets on the input: a line of n bytes and its terminator.
FgetsInput(a, n, off) ==
  /\ a + n < MemSize /\ off + n <= InputLen
  /\ mem' = WriteMem(a, n + 1, [i \in 0..n |-> IF i < n THEN Input[off + i] ELSE Zero])
  /\ \E m \in 0..n :
       /\ \A i \in 0..m-1 : Input[off + i] \notin ZeroValue
       /\ m < n => Input[off + m] \in ZeroValue
       /\ g_shadow_pages' = WriteShadow(a, m, [i \in 0..m-1 |-> Input[off + i]])
       /\ MarkRegion(a, n + 1, {x \in a+m..a+n : x < a + n \/ getShadow(x) # Null})
  /\ inputRead' = TRUE
  /\ UNCHANGED <<val, expr, staleReg>>

\* fgets at the end of the input: the old string is taken for new input, each
\* byte for a variable that is given the byte's value.
FgetsInputAtEnd(a, m) ==
  /\ a + m < MemSize /\ IsStrnlen(m, a, m + 1)
  /\ g_shadow_pages' = WriteShadow(a, m, [i \in 0..m-1 |-> mem[a + i]])
  /\ MarkRegion(a, m, a..a+m-1)
  /\ inputRead' = TRUE
  /\ UNCHANGED <<mem, val, expr, staleReg>>

\* Faulty variant: the shadow is cleared even if there is none.
ReadOtherAndClear(a, n, m, w) ==
  /\ a + n <= MemSize
  /\ mem' = WriteMem(a, n, w)
  /\ g_shadow_pages' = WriteShadow(a, m, NullExpr(m))
  /\ MarkRegion(a, n, {})
  /\ UNCHANGED <<val, expr, inputRead, staleReg>>

\* read, fread and fgets on another file.
ReadOther(a, n, m, w) ==
  /\ a + n <= MemSize
  /\ Checkable(a, m)
  /\ mem' = WriteMem(a, n, w)
  /\ g_shadow_pages' =
       IF isConcrete(a, m)
       THEN g_shadow_pages
       ELSE WriteShadow(a, m, NullExpr(m))
  /\ MarkRegion(a, n, {x \in a+m..a+n-1 : getShadow(x) # Null})
  /\ UNCHANGED <<val, expr, inputRead, staleReg>>

\* fgets at the end of another file: the old string loses its expressions.
FgetsOtherAtEnd(a, m) ==
  /\ a + m < MemSize /\ IsStrnlen(m, a, m + 1)
  /\ Checkable(a, m)
  /\ g_shadow_pages' =
       IF isConcrete(a, m)
       THEN g_shadow_pages
       ELSE WriteShadow(a, m, NullExpr(m))
  /\ MarkRegion(a, m, {x \in a..a+m-1 : x \in staleMem \/ getShadow(x) # Null})
  /\ UNCHANGED <<mem, val, expr, inputRead, staleReg>>

Init ==
  /\ mem \in [Addr -> ConstValue]
  /\ g_shadow_pages = [p \in {} |-> EmptyPage]
  /\ val = [r \in Reg |-> [k \in 0..Width[r]-1 |-> Zero]]
  /\ expr = [r \in Reg |-> NullExpr(Width[r])]
  /\ inputRead = FALSE
  /\ staleMem = {}
  /\ staleReg = {}

Next ==
  \/ \E r \in Reg :
       \/ \E a \in Addr : Load(r, a) \/ Store(r, a)
       \/ \E w \in ConstWord(Width[r]) : Constant(r, w)
       \/ \E s \in Reg :
            \/ BinaryOperator(r, s)
            \/ Phi(r, s) \/ Select(r, s) \/ ZeroElementPtr(r, s)
            \/ \E signed \in BOOLEAN : IntegerCast(r, s, signed)
            \/ \E i \in Reg : GetElementPtr(r, s, i)
       \/ Bswap(r) \/ Ntoh(r)
  \/ \E a \in Addr, n \in 0..MaxLen :
       \/ \E s \in Addr : Memcpy(a, s, n) \/ Memmove(a, s, n) \/ Strncpy(a, s, n)
       \/ \E r \in Reg : Memset(a, n, r)
       \/ \E off \in 0..InputLen :
            \/ \E m \in 0..n : ReadInput(a, n, m, off)
            \/ FgetsInput(a, n, off)
       \/ \E m \in 0..n, w \in ConstWord(n) : ReadOther(a, n, m, w)
       \/ FgetsInputAtEnd(a, n) \/ FgetsOtherAtEnd(a, n)

Spec == Init /\ [][Next]_vars

-----------------------------------------------------------------------------
(***************************************************************************)
(* Properties.                                                             *)
(***************************************************************************)

\* Page starts the model can reach: the pages of the bytes, and the page one
\* past the end of memory.
PageStarts == {pageStart(a) : a \in 0..MemSize}

\* Every variable has its type; the shadow of a page has one slot per byte.
TypeOK ==
  /\ mem \in [Addr -> Value]
  /\ DOMAIN g_shadow_pages \subseteq PageStarts
  /\ g_shadow_pages \in
       [DOMAIN g_shadow_pages -> [0..kPageSize-1 -> Slot]]
  /\ DOMAIN val = Reg
  /\ DOMAIN expr = Reg
  /\ \A r \in Reg : val[r] \in Word(Width[r])
  /\ \A r \in Reg : expr[r] \in [0..Width[r]-1 -> SymExpr]
  /\ inputRead \in BOOLEAN
  /\ staleMem \subseteq Addr
  /\ staleReg \subseteq Reg

\* An expression agrees with a value: it evaluates to it, and only a value
\* that is independent of the input may do without.
Describes(e, v) == IF e = Null THEN v \in ConstValue ELSE e = v

\* The shadow of every byte describes the byte that the program has in memory,
\* whatever loads, stores, copies and reads led there and however the early
\* returns of the run-time library skipped the shadow (RuntimeCommon.cpp).  The
\* exceptions are the bytes that a wrapper left wrong and what was computed
\* from them: bytes set by the wrapper of memset to a symbolic int (its
\* expression is too wide for a byte), the terminator that fgets writes over a
\* symbolic byte, a line beyond an embedded null byte, the partial last item of
\* an fread, and the string that a failing fgets leaves in place.
ShadowDescribesMemory ==
  \A a \in Addr \ staleMem : Describes(getShadow(a), mem[a])

\* The expression of a register is null or complete: no byte is missing from
\* the expression of a partly concrete word (_sym_read_memory fills the gaps
\* with constants).  It describes the register's value, byte for byte and in
\* the right byte order, unless a byte that a wrapper left wrong went into it.
ExprDescribesRegister ==
  \A r \in Reg :
    \/ /\ expr[r] = NullExpr(Width[r])
       /\ r \notin staleReg => val[r] \in ConstWord(Width[r])
    \/ /\ expr[r] \in Word(Width[r])
       /\ r \notin staleReg => expr[r] = val[r]

\* Shadow pages and expressions cost nothing until the program reads symbolic
\* input: while it computes on concrete data no operation allocates a page or
\* builds an expression (RuntimeCommon.cpp:130 and docs/Concreteness.txt).
ConcreteRunHasNoShadow ==
  ~inputRead =>
    /\ DOMAIN g_shadow_pages = {}
    /\ \A r \in Reg : expr[r] = NullExpr(Width[r])
=============================================================================
