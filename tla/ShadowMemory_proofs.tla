------------------------ MODULE ShadowMemory_proofs -------------------------
(***************************************************************************)
(* Proofs about ShadowMemory, for every memory size, page size, register   *)
(* file, byte order, input and binary operator.                            *)
(***************************************************************************)
EXTENDS ShadowMemory, TLAPS

(***************************************************************************)
(* Page arithmetic.                                                        *)
(***************************************************************************)

\* An address is its page's start plus its offset in the page.
LEMMA PageSplit ==
  ASSUME NEW a \in Nat
  PROVE  /\ pageOffset(a) \in 0..kPageSize-1
         /\ pageStart(a) \in Nat
         /\ pageStart(a) + pageOffset(a) = a
  BY PageSizeAssumption DEF pageOffset, pageStart

\* Pages are multiples of the page size, so a later page is a whole page away.
LEMMA PageDistance ==
  ASSUME NEW q1 \in Nat, NEW q2 \in Nat, q1 < q2
  PROVE  kPageSize * q1 + kPageSize <= kPageSize * q2
  <1>1. PICK d \in Nat : q2 = q1 + 1 + d
    <2>1. q2 - q1 - 1 \in Nat
      OBVIOUS
    <2> QED BY <2>1
  <1>2. kPageSize * q2 = kPageSize * q1 + kPageSize + kPageSize * d
    BY <1>1, PageSizeAssumption
  <1>3. kPageSize * d \in Nat /\ kPageSize * q1 \in Nat
    BY PageSizeAssumption
  <1> QED BY <1>2, <1>3, PageSizeAssumption

\* The start of an address's page is a multiple of the page size.
LEMMA PageQuotient ==
  ASSUME NEW a \in Nat
  PROVE  a \div kPageSize \in Nat /\ pageStart(a) = kPageSize * (a \div kPageSize)
  BY PageSizeAssumption DEF pageStart, pageOffset

\* Addresses between two addresses of one page are on that page: the reason
\* the fast path of isConcrete needs to look at one page only.
LEMMA SamePage ==
  ASSUME NEW a \in Nat, NEW b \in Nat, NEW x \in Nat,
         a <= x, x <= b, pageStart(a) = pageStart(b)
  PROVE  pageStart(x) = pageStart(a)
  <1> DEFINE qa == a \div kPageSize
             qb == b \div kPageSize
             qx == x \div kPageSize
  <1>1. /\ qa \in Nat /\ pageStart(a) = kPageSize * qa
        /\ qb \in Nat /\ pageStart(b) = kPageSize * qb
        /\ qx \in Nat /\ pageStart(x) = kPageSize * qx
    BY PageQuotient
  <1>2. /\ pageStart(a) <= a /\ a < pageStart(a) + kPageSize
        /\ pageStart(b) <= b /\ b < pageStart(b) + kPageSize
        /\ pageStart(x) <= x /\ x < pageStart(x) + kPageSize
        /\ pageStart(a) \in Nat /\ pageStart(b) \in Nat /\ pageStart(x) \in Nat
    BY PageSplit, PageSizeAssumption, SMTT(30)
  <1> HIDE DEF qa, qb, qx
  <1>3. ASSUME qx < qa PROVE FALSE
    <2>1. pageStart(x) + kPageSize <= pageStart(a)
      BY <1>1, <1>3, PageDistance
    <2> QED BY <1>2, <2>1, PageSizeAssumption
  <1>4. ASSUME qb < qx PROVE FALSE
    <2>1. pageStart(b) + kPageSize <= pageStart(x)
      BY <1>1, <1>4, PageDistance
    <2> QED BY <1>2, <2>1, PageSizeAssumption
  <1>5. ASSUME qa < qb PROVE FALSE
    <2>1. pageStart(a) + kPageSize <= pageStart(b)
      BY <1>1, <1>5, PageDistance
    <2> QED BY <1>2, <2>1, PageSizeAssumption
  <1>6. qx = qa
    BY <1>1, <1>3, <1>4, <1>5
  <1> QED BY <1>1, <1>6

(***************************************************************************)
(* Reading and writing the shadow.                                         *)
(***************************************************************************)

\* A region that isConcrete accepts has no expression, on the fast path too.
LEMMA ConcreteRegion ==
  ASSUME NEW a \in Nat, NEW n \in Nat, isConcrete(a, n),
         NEW x \in a..a+n-1
  PROVE  getShadow(x) = Null
  <1>1. x \in Nat /\ a <= x /\ x <= a + n /\ a + n \in Nat
    OBVIOUS
  <1>2. CASE /\ pageStart(a) = pageStart(a + n)
             /\ pageStart(a) \notin DOMAIN g_shadow_pages
    BY <1>1, <1>2, SamePage DEF getShadow, ShadowAt
  <1>3. CASE \A y \in a..a+n-1 : getShadow(y) = Null
    BY <1>3
  <1> QED BY <1>2, <1>3 DEF isConcrete, RegionConcrete, getShadow

\* What a later read finds after a write: the new expression inside of the
\* region, the old one outside of it, on old pages and on new ones.
LEMMA ShadowAfterWrite ==
  ASSUME NEW a \in Nat, NEW n \in Nat, NEW exprs,
         g_shadow_pages' = WriteShadow(a, n, exprs),
         NEW x \in Nat
  PROVE  getShadow(x)' = IF x \in a..a+n-1 THEN exprs[x - a] ELSE getShadow(x)
  <1> DEFINE p == pageStart(x)
             o == pageOffset(x)
  <1>1. o \in 0..kPageSize-1 /\ p \in Nat /\ p + o = x
    BY PageSplit
  <1>2. getShadow(x)' =
          IF p \in DOMAIN g_shadow_pages' THEN g_shadow_pages'[p][o] ELSE Null
    BY DEF getShadow, ShadowAt, pageStart, pageOffset
  <1>3. DOMAIN g_shadow_pages' = DOMAIN g_shadow_pages \cup PagesWalked(a, n)
    BY DEF WriteShadow, Written
  <1>4. CASE x \in a..a+n-1
    <2>1. p \in PagesWalked(a, n)
      BY <1>4 DEF PagesWalked
    <2>2. g_shadow_pages'[p][o] = exprs[x - a]
      BY <1>1, <1>3, <1>4, <2>1 DEF WriteShadow, Written
    <2> QED BY <1>2, <1>3, <1>4, <2>1, <2>2
  <1>5. CASE x \notin a..a+n-1
    <2>1. CASE p \in DOMAIN g_shadow_pages
      <3>1. g_shadow_pages'[p][o] = g_shadow_pages[p][o]
        BY <1>1, <1>3, <1>5, <2>1 DEF WriteShadow, Written
      <3> QED BY <1>2, <1>3, <1>5, <2>1, <3>1 DEF getShadow, ShadowAt
    <2>2. CASE p \notin DOMAIN g_shadow_pages
      <3>1. p \in PagesWalked(a, n) => g_shadow_pages'[p][o] = Null
        BY <1>1, <1>3, <1>5, <2>2 DEF WriteShadow, Written
      <3> QED BY <1>2, <1>3, <1>5, <2>2, <3>1 DEF getShadow, ShadowAt
    <2> QED BY <2>1, <2>2
  <1> QED BY <1>4, <1>5

\* A write keeps the shadow well formed.
LEMMA WriteShadowType ==
  ASSUME TypeOK, NEW a \in Nat, NEW n \in Nat, a + n <= MemSize,
         NEW exprs \in [0..n-1 -> Slot],
         g_shadow_pages' = WriteShadow(a, n, exprs)
  PROVE  /\ DOMAIN g_shadow_pages' \subseteq PageStarts
         /\ g_shadow_pages' \in
              [DOMAIN g_shadow_pages' -> [0..kPageSize-1 -> Slot]]
  <1>1. DOMAIN g_shadow_pages' = DOMAIN g_shadow_pages \cup PagesWalked(a, n)
    BY DEF WriteShadow, Written
  <1>2. PagesWalked(a, n) \subseteq PageStarts
    BY SizeAssumption DEF PagesWalked, PageStarts
  <1>3. DOMAIN g_shadow_pages \subseteq PageStarts
    BY DEF TypeOK
  <1>4. \A p \in PageStarts : p \in Nat
    BY PageSplit, SizeAssumption DEF PageStarts
  <1>5. ASSUME NEW p \in DOMAIN g_shadow_pages', NEW o \in 0..kPageSize-1
        PROVE  g_shadow_pages'[p][o] \in Slot
    <2>1. p \in Nat /\ o \in Nat
      BY <1>1, <1>2, <1>3, <1>4
    <2>2. CASE p + o \in a..a+n-1
      <3>1. g_shadow_pages'[p][o] = exprs[p + o - a]
        BY <1>1, <2>1, <2>2 DEF WriteShadow, Written
      <3>2. p + o - a \in 0..n-1
        BY <2>1, <2>2
      <3> QED BY <3>1, <3>2
    <2>3. CASE p + o \notin a..a+n-1 /\ p \in DOMAIN g_shadow_pages
      <3>1. g_shadow_pages'[p][o] = g_shadow_pages[p][o]
        BY <1>1, <2>3 DEF WriteShadow, Written
      <3> QED BY <2>3, <3>1, ZenonT(30) DEF TypeOK
    <2>4. CASE p + o \notin a..a+n-1 /\ p \notin DOMAIN g_shadow_pages
      <3>1. g_shadow_pages'[p][o] = Null
        BY <1>1, <2>4 DEF WriteShadow, Written
      <3> QED BY <3>1 DEF Slot, SymExpr
    <2> QED BY <2>2, <2>3, <2>4
  <1>6. \A p \in DOMAIN g_shadow_pages' :
          g_shadow_pages'[p] = [o \in 0..kPageSize-1 |-> g_shadow_pages'[p][o]]
    BY <1>1 DEF WriteShadow, Written
  <1>7. g_shadow_pages' = [p \in DOMAIN g_shadow_pages' |-> g_shadow_pages'[p]]
    BY DEF WriteShadow, Written
  <1>8. \A p \in DOMAIN g_shadow_pages' :
          g_shadow_pages'[p] \in [0..kPageSize-1 -> Slot]
    BY <1>5, <1>6
  <1>9. g_shadow_pages' \in
          [DOMAIN g_shadow_pages' -> [0..kPageSize-1 -> Slot]]
    BY <1>7, <1>8
  <1> QED BY <1>1, <1>2, <1>3, <1>9

(***************************************************************************)
(* Type correctness.                                                       *)
(***************************************************************************)

ShadowType ==
  /\ DOMAIN g_shadow_pages \subseteq PageStarts
  /\ g_shadow_pages \in [DOMAIN g_shadow_pages -> [0..kPageSize-1 -> Slot]]

\* A write keeps memory well formed.
LEMMA WriteMemType ==
  ASSUME TypeOK, NEW a \in Nat, NEW n \in Nat, NEW w \in Word(n)
  PROVE  WriteMem(a, n, w) \in [Addr -> Value]
  BY DEF WriteMem, TypeOK, Word, Addr

\* A word of constants is a word.
LEMMA ConstWordIsWord ==
  ASSUME NEW n \in Nat
  PROVE  ConstWord(n) \subseteq Word(n)
  BY ValueAssumption DEF ConstWord, Word

\* The null expression is a tuple of nulls.
LEMMA NullExprType ==
  ASSUME NEW n \in Nat
  PROVE  NullExpr(n) \in [0..n-1 -> SymExpr]
  BY DEF NullExpr, SymExpr

\* The null expression is told apart from every word.
LEMMA NullIsNoWord ==
  ASSUME NEW n \in Nat \ {0}
  PROVE  NullExpr(n) \notin Word(n)
  <1>1. NullExpr(n)[0] = Null
    BY DEF NullExpr
  <1>2. \A w \in Word(n) : w[0] # Null
    BY ValueAssumption DEF Word
  <1> QED BY <1>1, <1>2

\* The byte order permutes the bytes of a word.
LEMMA OrdinalRange ==
  ASSUME NEW n \in Nat, NEW k \in 0..n-1
  PROVE  Ordinal(k, n) \in 0..n-1
  BY SizeAssumption DEF Ordinal

\* A look-up in the shadow yields a slot.
LEMMA ShadowReadType ==
  ASSUME TypeOK, NEW a \in Nat
  PROVE  getShadow(a) \in Slot
  <1>1. pageOffset(a) \in 0..kPageSize-1
    BY PageSplit
  <1>2. CASE pageStart(a) \in DOMAIN g_shadow_pages
    <2>1. g_shadow_pages[pageStart(a)] \in [0..kPageSize-1 -> Slot]
      BY <1>2 DEF TypeOK
    <2> QED BY <1>1, <1>2, <2>1 DEF getShadow, ShadowAt
  <1>3. CASE pageStart(a) \notin DOMAIN g_shadow_pages
    BY <1>3 DEF getShadow, ShadowAt, Slot, SymExpr
  <1> QED BY <1>2, <1>3

(***************************************************************************)
(* The inductive invariant.                                                *)
(***************************************************************************)

IInv == TypeOK /\ ShadowDescribesMemory /\ ExprDescribesRegister

\* A step on n bytes of memory at a, of which those in wrong become stale, with
\* a change of the shadow of the first m of them: it preserves the agreement of
\* memory and shadow if the new expressions describe the new bytes, if skipped
\* bytes had no expression and need none, and if so did those beyond m.
LEMMA RegionStep ==
  ASSUME IInv, NEW a \in Nat, NEW n \in Nat, NEW m \in 0..n, a + n <= MemSize,
         NEW w \in Word(n), NEW e \in [0..m-1 -> Slot],
         NEW wrong \in SUBSET (a..a+n-1),
         mem' = WriteMem(a, n, w), MarkRegion(a, n, wrong),
         UNCHANGED <<val, expr, staleReg>>, inputRead' \in BOOLEAN,
         \/ /\ g_shadow_pages' = WriteShadow(a, m, e)
            /\ \A i \in 0..m-1 : a + i \in wrong \/ Describes(e[i], w[i])
         \/ /\ g_shadow_pages' = g_shadow_pages
            /\ isConcrete(a, m)
            /\ \A i \in 0..m-1 : a + i \in wrong \/ w[i] \in ConstValue,
         \A i \in m..n-1 :
           a + i \in wrong \/ (getShadow(a + i) = Null /\ w[i] \in ConstValue)
  PROVE  IInv'
  <1>1. mem' \in [Addr -> Value]
    BY WriteMemType DEF IInv
  <1>2. m \in Nat /\ a + m <= MemSize
    BY SizeAssumption
  <1>3. ShadowType'
    BY <1>2, WriteShadowType
       DEF IInv, ShadowType, TypeOK, PageStarts, pageStart, pageOffset
  <1>4. staleMem' = (staleMem \ (a..a+n-1)) \cup wrong
    BY DEF MarkRegion
  <1>5. staleMem' \subseteq Addr
    BY <1>4, SizeAssumption DEF IInv, TypeOK, Addr
  <1>6. TypeOK'
    BY <1>1, <1>3, <1>5
       DEF IInv, TypeOK, ShadowType, PageStarts, pageStart, pageOffset
  <1>7. ASSUME NEW x \in Addr, x \notin staleMem'
        PROVE  Describes(getShadow(x)', mem'[x])
    <2>1. x \in Nat
      BY DEF Addr
    <2>2. mem'[x] = IF x \in a..a+n-1 THEN w[x - a] ELSE mem[x]
      BY DEF WriteMem
    <2>3. getShadow(x)' = IF /\ g_shadow_pages' = WriteShadow(a, m, e)
                             /\ x \in a..a+m-1
                          THEN e[x - a] ELSE getShadow(x)
      <3>1. CASE g_shadow_pages' = WriteShadow(a, m, e)
        BY <1>2, <2>1, <3>1, ShadowAfterWrite
      <3>2. CASE g_shadow_pages' # WriteShadow(a, m, e)
        BY <3>2 DEF getShadow, ShadowAt, pageStart, pageOffset
      <3> QED BY <3>1, <3>2
    <2>4. CASE x \notin a..a+n-1
      <3>1. Describes(getShadow(x), mem[x])
        BY <1>4, <1>7, <2>4 DEF IInv, ShadowDescribesMemory
      <3>2. x \notin a..a+m-1
        BY <2>1, <2>4, <1>2
      <3> QED BY <2>2, <2>3, <2>4, <3>1, <3>2
    <2>5. CASE x \in a..a+m-1
      <3>1. x - a \in 0..m-1 /\ a + (x - a) = x /\ x \in a..a+n-1
        BY <1>2, <2>1, <2>5
      <3>2. x \notin wrong
        BY <1>4, <1>7
      <3>3. mem'[x] = w[x - a]
        BY <2>2, <3>1
      <3>4. CASE /\ g_shadow_pages' = WriteShadow(a, m, e)
                 /\ \A i \in 0..m-1 : a + i \in wrong \/ Describes(e[i], w[i])
        <4>1. getShadow(x)' = e[x - a]
          BY <2>3, <2>5, <3>4
        <4>2. Describes(e[x - a], w[x - a])
          BY <3>1, <3>2, <3>4
        <4> QED BY <3>3, <4>1, <4>2
      <3>5. CASE /\ g_shadow_pages' = g_shadow_pages
                 /\ isConcrete(a, m)
                 /\ \A i \in 0..m-1 : a + i \in wrong \/ w[i] \in ConstValue
        <4>1. getShadow(x)' = getShadow(x)
          BY <3>5 DEF getShadow, ShadowAt, pageStart, pageOffset
        <4>2. getShadow(x) = Null
          BY <1>2, <2>5, <3>5, ConcreteRegion
        <4>3. w[x - a] \in ConstValue
          BY <3>1, <3>2, <3>5
        <4> QED BY <3>3, <4>1, <4>2, <4>3 DEF Describes
      <3> QED BY <3>4, <3>5
    <2>6. CASE x \in a..a+n-1 /\ x \notin a..a+m-1
      <3>1. x - a \in m..n-1 /\ a + (x - a) = x
        BY <1>2, <2>1, <2>6
      <3>2. x \notin wrong
        BY <1>4, <1>7
      <3>3. getShadow(x) = Null /\ w[x - a] \in ConstValue
        BY <3>1, <3>2
      <3> QED BY <2>2, <2>3, <2>6, <3>3 DEF Describes
    <2> QED BY <2>4, <2>5, <2>6
  <1>8. ShadowDescribesMemory'
    BY <1>7 DEF ShadowDescribesMemory, Addr, Describes, getShadow, ShadowAt,
                pageStart, pageOffset
  <1>9. ExprDescribesRegister'
    BY DEF IInv, ExprDescribesRegister, NullExpr, ConstWord, Word
  <1> QED BY <1>6, <1>8, <1>9 DEF IInv

\* A step that gives register r the value v and the expression e.
LEMMA RegisterStep ==
  ASSUME IInv, NEW r \in Reg, NEW v \in Word(Width[r]), NEW e,
         val' = [val EXCEPT ![r] = v],
         expr' = [expr EXCEPT ![r] = e],
         UNCHANGED <<mem, g_shadow_pages, inputRead, staleMem>>,
         staleReg' \subseteq Reg,
         \A q \in Reg : q # r /\ q \notin staleReg' => q \notin staleReg,
         \/ e = NullExpr(Width[r]) /\ (r \notin staleReg' => v \in ConstWord(Width[r]))
         \/ e \in Word(Width[r]) /\ (r \notin staleReg' => e = v)
  PROVE  IInv'
  <1>0. Width[r] \in Nat
    BY SizeAssumption
  <1>1. e \in [0..Width[r]-1 -> SymExpr]
    BY <1>0, NullExprType DEF Word, SymExpr
  <1>2. TypeOK'
    BY <1>1 DEF IInv, TypeOK, PageStarts, pageStart, pageOffset
  <1>3. ShadowDescribesMemory'
    BY DEF IInv, ShadowDescribesMemory, Describes, getShadow, ShadowAt, pageStart, pageOffset
  <1>4. ASSUME NEW q \in Reg
        PROVE  \/ /\ expr'[q] = NullExpr(Width[q])
                  /\ q \notin staleReg' => val'[q] \in ConstWord(Width[q])
               \/ /\ expr'[q] \in Word(Width[q])
                  /\ q \notin staleReg' => expr'[q] = val'[q]
    <2>1. CASE q = r
      <3>1. expr'[q] = e /\ val'[q] = v
        BY <2>1 DEF IInv, TypeOK
      <3> QED BY <2>1, <3>1
    <2>2. CASE q # r
      <3>1. expr'[q] = expr[q] /\ val'[q] = val[q]
        BY <2>2 DEF IInv, TypeOK
      <3>2. q \notin staleReg' => q \notin staleReg
        BY <2>2
      <3> QED BY <3>1, <3>2 DEF IInv, ExprDescribesRegister
    <2> QED BY <2>1, <2>2
  <1>5. ExprDescribesRegister'
    BY <1>4 DEF ExprDescribesRegister, NullExpr, ConstWord, Word
  <1> QED BY <1>2, <1>3, <1>5 DEF IInv

\* A step that changes nothing keeps the invariant.
LEMMA UnchangedInv ==
  ASSUME IInv, UNCHANGED vars
  PROVE  IInv'
  BY DEF vars, IInv, TypeOK, ShadowDescribesMemory, Describes, getShadow, ShadowAt,
         ExprDescribesRegister, PageStarts, pageStart, pageOffset

\* The invariant holds when the program starts.
LEMMA InitInv == Init => IInv
  <1> SUFFICES ASSUME Init PROVE IInv
    OBVIOUS
  <1>1. \A r \in Reg : Width[r] \in Nat
    BY SizeAssumption
  <1>2. \A r \in Reg : val[r] \in ConstWord(Width[r])
    BY ValueAssumption DEF Init, ConstWord
  <1>3. \A r \in Reg : val[r] \in Word(Width[r])
    BY <1>1, <1>2, ConstWordIsWord
  <1>4. \A r \in Reg : expr[r] \in [0..Width[r]-1 -> SymExpr]
    BY <1>1, NullExprType DEF Init
  <1>5. DOMAIN g_shadow_pages = {}
    BY DEF Init
  <1>6. g_shadow_pages \in
          [DOMAIN g_shadow_pages -> [0..kPageSize-1 -> Slot]]
    BY <1>5 DEF Init
  <1>7. TypeOK
    BY <1>3, <1>4, <1>5, <1>6, ValueAssumption DEF Init, TypeOK
  <1>8. ShadowDescribesMemory
    BY <1>5 DEF Init, ShadowDescribesMemory, getShadow, ShadowAt, Describes
  <1>9. ExprDescribesRegister
    BY <1>2 DEF Init, ExprDescribesRegister
  <1> QED BY <1>7, <1>8, <1>9 DEF IInv

(***************************************************************************)
(* Instructions on registers.                                              *)
(***************************************************************************)

\* What a register holds: a value and, on the slow path, a complete expression
\* for it, which is right unless the register is stale.
LEMMA RegisterCases ==
  ASSUME IInv, NEW r \in Reg
  PROVE  /\ val[r] \in Word(Width[r])
         /\ OperandExpr(r) \in Word(Width[r])
         /\ r \notin staleReg => OperandExpr(r) = val[r]
         /\ expr[r] = NullExpr(Width[r]) /\ r \notin staleReg
              => val[r] \in ConstWord(Width[r])
         /\ expr[r] # NullExpr(Width[r]) => expr[r] = OperandExpr(r)
  <1>1. Width[r] \in Nat \ {0}
    BY SizeAssumption
  <1>2. NullExpr(Width[r]) \notin Word(Width[r])
    BY <1>1, NullIsNoWord
  <1>3. val[r] \in Word(Width[r])
    BY DEF IInv, TypeOK
  <1> QED BY <1>2, <1>3
          DEF IInv, ExprDescribesRegister, OperandExpr, createValueExpression

\* Loading keeps the invariant (_sym_read_memory).
LEMMA LoadInv ==
  ASSUME IInv, NEW r \in Reg, NEW a \in Addr, Load(r, a)
  PROVE  IInv'
  <1> DEFINE n == Width[r]
             v == [k \in 0..n-1 |-> mem[a + Ordinal(k, n)]]
             e == _sym_read_memory(a, n)
  <1>1. n \in Nat \ {0} /\ a \in Nat /\ a + n <= MemSize
    BY SizeAssumption DEF Addr, Load
  <1>2. \A k \in 0..n-1 : a + Ordinal(k, n) \in a..a+n-1
    BY <1>1, OrdinalRange
  <1>3. \A k \in 0..n-1 : a + Ordinal(k, n) \in Addr /\ a + Ordinal(k, n) \in Nat
    BY <1>1, <1>2, SizeAssumption DEF Addr
  <1>4. v \in Word(n)
    BY <1>3 DEF IInv, TypeOK, Word
  <1>5. /\ val' = [val EXCEPT ![r] = v] /\ expr' = [expr EXCEPT ![r] = e]
        /\ UNCHANGED <<mem, g_shadow_pages, inputRead, staleMem>>
        /\ staleReg' \subseteq Reg
        /\ \A q \in Reg : q # r /\ q \notin staleReg' => q \notin staleReg
    BY DEF Load, MarkRegister, IInv, TypeOK
  <1>6. ASSUME r \notin staleReg', NEW k \in 0..n-1
        PROVE  Describes(getShadow(a + Ordinal(k, n)), v[k])
    <2>1. a..a+n-1 \cap staleMem = {}
      BY <1>6 DEF Load, MarkRegister
    <2>2. a + Ordinal(k, n) \in Addr \ staleMem
      BY <1>2, <1>3, <2>1
    <2> QED BY <2>2 DEF IInv, ShadowDescribesMemory
  <1>7. CASE isConcrete(a, n)
    <2>1. e = NullExpr(n)
      BY <1>7 DEF _sym_read_memory
    <2>2. \A k \in 0..n-1 : getShadow(a + Ordinal(k, n)) = Null
      BY <1>1, <1>2, <1>7, ConcreteRegion
    <2>3. r \notin staleReg' => v \in ConstWord(n)
      BY <1>6, <2>2 DEF Describes, ConstWord
    <2> HIDE DEF v, e
    <2> QED BY <1>4, <1>5, <2>1, <2>3, RegisterStep
  <1>8. CASE ~isConcrete(a, n)
    <2>1. e = [k \in 0..n-1 |-> NonNullShadow(a + Ordinal(k, n))]
      BY <1>8 DEF _sym_read_memory
    <2>2. ASSUME NEW k \in 0..n-1 PROVE NonNullShadow(a + Ordinal(k, n)) \in Value
      <3>1. getShadow(a + Ordinal(k, n)) # Wide
        BY <1>2 DEF Load, Readable
      <3>2. getShadow(a + Ordinal(k, n)) \in Slot
        BY <1>3, ShadowReadType DEF IInv
      <3>3. mem[a + Ordinal(k, n)] \in Value
        BY <1>3 DEF IInv, TypeOK
      <3> QED BY <3>1, <3>2, <3>3 DEF NonNullShadow, Slot, SymExpr
    <2>3. e \in Word(n)
      BY <2>1, <2>2 DEF Word
    <2>4. ASSUME r \notin staleReg' PROVE e = v
      <3>1. \A k \in 0..n-1 : NonNullShadow(a + Ordinal(k, n)) = v[k]
        BY <1>6, <2>4 DEF Describes, NonNullShadow
      <3> QED BY <2>1, <3>1
    <2> HIDE DEF v, e
    <2> QED BY <1>4, <1>5, <2>3, <2>4, RegisterStep
  <1> QED BY <1>7, <1>8

\* So does assigning a constant.
LEMMA ConstantInv ==
  ASSUME IInv, NEW r \in Reg, NEW w \in ConstWord(Width[r]), Constant(r, w)
  PROVE  IInv'
  <1>1. w \in Word(Width[r])
    BY ConstWordIsWord, SizeAssumption
  <1>2. /\ staleReg' \subseteq Reg
        /\ \A q \in Reg : q # r /\ q \notin staleReg' => q \notin staleReg
    BY DEF Constant, MarkRegister, IInv, TypeOK
  <1> QED BY <1>1, <1>2, RegisterStep DEF Constant

\* So does the short-circuited code of a binary operator.
LEMMA BinaryOperatorInv ==
  ASSUME IInv, NEW r \in Reg, NEW s \in Reg, BinaryOperator(r, s)
  PROVE  IInv'
  <1> DEFINE n == Width[r]
             v == Op(val[r], val[s])
             e == IF expr[r] = NullExpr(n) /\ expr[s] = NullExpr(n)
                  THEN NullExpr(n)
                  ELSE Op(OperandExpr(r), OperandExpr(s))
  <1>1. Width[s] = n
    BY DEF BinaryOperator
  <1>2. /\ val[r] \in Word(n) /\ OperandExpr(r) \in Word(n)
        /\ val[s] \in Word(n) /\ OperandExpr(s) \in Word(n)
    BY <1>1, RegisterCases
  <1>3. v \in Word(n) /\ Op(OperandExpr(r), OperandExpr(s)) \in Word(n)
    BY <1>2, OpAssumption
  <1>4. /\ val' = [val EXCEPT ![r] = v] /\ expr' = [expr EXCEPT ![r] = e]
        /\ UNCHANGED <<mem, g_shadow_pages, inputRead, staleMem>>
    BY <1>1 DEF BinaryOperator
  <1>5. /\ staleReg' \subseteq Reg
        /\ \A q \in Reg : q # r /\ q \notin staleReg' => q \notin staleReg
        /\ r \notin staleReg' => r \notin staleReg /\ s \notin staleReg
    BY DEF BinaryOperator, MarkRegister, IInv, TypeOK
  <1>6. CASE expr[r] = NullExpr(n) /\ expr[s] = NullExpr(n)
    <2>1. e = NullExpr(n)
      BY <1>6
    <2>2. ASSUME r \notin staleReg' PROVE v \in ConstWord(n)
      <3>1. val[r] \in ConstWord(n) /\ val[s] \in ConstWord(n)
        BY <1>1, <1>5, <1>6, <2>2, RegisterCases
      <3> QED BY <3>1, OpAssumption
    <2> HIDE DEF v, e
    <2> QED BY <1>3, <1>4, <1>5, <2>1, <2>2, RegisterStep
  <1>7. CASE ~(expr[r] = NullExpr(n) /\ expr[s] = NullExpr(n))
    <2>1. e \in Word(n)
      BY <1>3, <1>7
    <2>2. ASSUME r \notin staleReg' PROVE e = v
      BY <1>5, <1>7, <2>2, RegisterCases
    <2> HIDE DEF v, e
    <2> QED BY <1>3, <1>4, <1>5, <2>1, <2>2, RegisterStep
  <1> QED BY <1>6, <1>7

\* A resized word is a word, and constant if the original is.
LEMMA ResizeType ==
  ASSUME NEW m \in Nat \ {0}, NEW n \in Nat \ {0}, NEW signed \in BOOLEAN,
         NEW w \in Word(m)
  PROVE  /\ Resize(w, m, n, signed) \in Word(n)
         /\ w \in ConstWord(m) => Resize(w, m, n, signed) \in ConstWord(n)
  <1>1. m - 1 \in 0..m-1 /\ \A k \in 0..n-1 : k < m => k \in 0..m-1
    OBVIOUS
  <1>2. \A k \in 0..m-1 : w[k] \in Value /\ Sign[w[k]] \in Value
    BY SignAssumption DEF Word
  <1>3. Resize(w, m, n, signed) \in Word(n)
    BY <1>1, <1>2, ValueAssumption DEF Word, Resize
  <1>4. ASSUME w \in ConstWord(m) PROVE Resize(w, m, n, signed) \in ConstWord(n)
    <2>1. \A k \in 0..m-1 : w[k] \in ConstValue /\ Sign[w[k]] \in ConstValue
      BY <1>4, SignAssumption DEF ConstWord
    <2> QED BY <1>1, <2>1, ValueAssumption DEF ConstWord, Resize
  <1> QED BY <1>3, <1>4

\* So do sext, zext and trunc.
LEMMA IntegerCastInv ==
  ASSUME IInv, NEW r \in Reg, NEW s \in Reg, NEW signed \in BOOLEAN,
         IntegerCast(r, s, signed)
  PROVE  IInv'
  <1> DEFINE m == Width[s]
             n == Width[r]
             v == Resize(val[s], m, n, signed)
             e == IF expr[s] = NullExpr(m) THEN NullExpr(n)
                  ELSE Resize(expr[s], m, n, signed)
  <1>1. m \in Nat \ {0} /\ n \in Nat \ {0}
    BY SizeAssumption
  <1>2. v \in Word(n) /\ (val[s] \in ConstWord(m) => v \in ConstWord(n))
    BY <1>1, RegisterCases, ResizeType
  <1>3. /\ val' = [val EXCEPT ![r] = v] /\ expr' = [expr EXCEPT ![r] = e]
        /\ UNCHANGED <<mem, g_shadow_pages, inputRead, staleMem>>
    BY DEF IntegerCast
  <1>4. /\ staleReg' \subseteq Reg
        /\ \A q \in Reg : q # r /\ q \notin staleReg' => q \notin staleReg
        /\ r \notin staleReg' => s \notin staleReg
    BY DEF IntegerCast, MarkRegister, IInv, TypeOK
  <1>5. CASE expr[s] = NullExpr(m)
    <2>1. e = NullExpr(n) /\ (r \notin staleReg' => v \in ConstWord(n))
      BY <1>2, <1>4, <1>5, RegisterCases
    <2> HIDE DEF v, e
    <2> QED BY <1>2, <1>3, <1>4, <2>1, RegisterStep
  <1>6. CASE expr[s] # NullExpr(m)
    <2>1. expr[s] \in Word(m) /\ (r \notin staleReg' => expr[s] = val[s])
      BY <1>4, <1>6, RegisterCases
    <2>2. e = Resize(expr[s], m, n, signed)
      BY <1>6
    <2>3. e \in Word(n) /\ (r \notin staleReg' => e = v)
      BY <1>1, <2>1, <2>2, ResizeType
    <2> HIDE DEF v, e
    <2> QED BY <1>2, <1>3, <1>4, <2>3, RegisterStep
  <1> QED BY <1>5, <1>6

\* So do PHI nodes, select and address arithmetic with zero indices.
LEMMA ReceiveInv ==
  ASSUME IInv, NEW r \in Reg, NEW s \in Reg, Receive(r, s)
  PROVE  IInv'
  <1>1. Width[s] = Width[r] /\ val[s] \in Word(Width[r])
    BY DEF Receive, IInv, TypeOK
  <1>2. /\ staleReg' \subseteq Reg
        /\ \A q \in Reg : q # r /\ q \notin staleReg' => q \notin staleReg
        /\ r \notin staleReg' => s \notin staleReg
    BY DEF Receive, MarkRegister, IInv, TypeOK
  <1>3. \/ /\ expr[s] = NullExpr(Width[r])
           /\ r \notin staleReg' => val[s] \in ConstWord(Width[r])
        \/ /\ expr[s] \in Word(Width[r])
           /\ r \notin staleReg' => expr[s] = val[s]
    BY <1>1, <1>2, RegisterCases
  <1> QED BY <1>1, <1>2, <1>3, RegisterStep DEF Receive

\* So does address arithmetic with an index (visitGetElementPtrInst).
LEMMA GetElementPtrInv ==
  ASSUME IInv, NEW r \in Reg, NEW p \in Reg, NEW i \in Reg, GetElementPtr(r, p, i)
  PROVE  IInv'
  <1> DEFINE m == Width[i]
             n == Width[p]
             x == Resize(val[i], m, n, TRUE)
             y == Resize(OperandExpr(i), m, n, TRUE)
             v == Op(x, val[p])
             e == IF expr[p] = NullExpr(n) /\ expr[i] = NullExpr(m)
                  THEN NullExpr(Width[r])
                  ELSE Op(y, OperandExpr(p))
  <1>1. /\ m \in Nat \ {0} /\ n \in Nat \ {0} /\ Width[r] = n
        /\ val[i] \in Word(m) /\ OperandExpr(i) \in Word(m)
        /\ val[p] \in Word(n) /\ OperandExpr(p) \in Word(n)
    BY SizeAssumption, RegisterCases DEF GetElementPtr
  <1>2. /\ x \in Word(n) /\ (val[i] \in ConstWord(m) => x \in ConstWord(n))
        /\ y \in Word(n)
    BY <1>1, ResizeType
  <1>3. v \in Word(n) /\ Op(y, OperandExpr(p)) \in Word(n)
    BY <1>1, <1>2, OpAssumption
  <1>4. val' = [val EXCEPT ![r] = v] /\ expr' = [expr EXCEPT ![r] = e]
    BY DEF GetElementPtr
  <1>5. UNCHANGED <<mem, g_shadow_pages, inputRead, staleMem>>
    BY DEF GetElementPtr
  <1>6. /\ staleReg' \subseteq Reg
        /\ \A q \in Reg : q # r /\ q \notin staleReg' => q \notin staleReg
        /\ r \notin staleReg' => p \notin staleReg /\ i \notin staleReg
    BY DEF GetElementPtr, MarkRegister, IInv, TypeOK
  <1>7. CASE ~(expr[p] = NullExpr(n) /\ expr[i] = NullExpr(m))
    <2>1. e \in Word(n)
      BY <1>3, <1>7
    <2>2. ASSUME r \notin staleReg' PROVE e = v
      <3>1. OperandExpr(i) = val[i] /\ OperandExpr(p) = val[p]
        BY <1>6, <2>2, RegisterCases
      <3> QED BY <1>7, <3>1
    <2> HIDE DEF e, v
    <2> QED BY <1>1, <1>3, <1>4, <1>5, <1>6, <2>1, <2>2, RegisterStep
  <1>8. CASE expr[p] = NullExpr(n) /\ expr[i] = NullExpr(m)
    <2>1. e = NullExpr(n)
      BY <1>1, <1>8
    <2>2. ASSUME r \notin staleReg' PROVE v \in ConstWord(n)
      <3>1. val[p] \in ConstWord(n) /\ val[i] \in ConstWord(m)
        BY <1>6, <1>8, <2>2, RegisterCases
      <3> QED BY <1>1, <1>2, <3>1, OpAssumption
    <2> HIDE DEF e, v
    <2> QED BY <1>1, <1>3, <1>4, <1>5, <1>6, <2>1, <2>2, RegisterStep
  <1> QED BY <1>7, <1>8

\* So does bswap.
LEMMA BswapInv ==
  ASSUME IInv, NEW r \in Reg, Bswap(r)
  PROVE  IInv'
  <1> DEFINE n == Width[r]
             v == Swap(val[r], n)
             e == IF expr[r] = NullExpr(n) THEN NullExpr(n) ELSE Swap(expr[r], n)
  <1>1. n \in Nat \ {0}
    BY SizeAssumption
  <1>2. \A w \in Word(n) : Swap(w, n) \in Word(n)
    BY <1>1 DEF Swap, Word
  <1>3. v \in Word(n)
    BY <1>2, RegisterCases
  <1>4. val[r] \in ConstWord(n) => v \in ConstWord(n)
    BY <1>1 DEF Swap, ConstWord
  <1>5. /\ val' = [val EXCEPT ![r] = v] /\ expr' = [expr EXCEPT ![r] = e]
        /\ UNCHANGED <<mem, g_shadow_pages, inputRead, staleMem>>
        /\ staleReg' = staleReg /\ staleReg' \subseteq Reg
    BY DEF Bswap, IInv, TypeOK
  <1>6. CASE expr[r] = NullExpr(n)
    <2>1. e = NullExpr(n) /\ (r \notin staleReg' => v \in ConstWord(n))
      BY <1>4, <1>5, <1>6, RegisterCases
    <2> HIDE DEF e, v
    <2> QED BY <1>3, <1>5, <2>1, RegisterStep
  <1>7. CASE expr[r] # NullExpr(n)
    <2>1. expr[r] \in Word(n) /\ (r \notin staleReg' => expr[r] = val[r])
      BY <1>5, <1>7, RegisterCases
    <2>2. e \in Word(n) /\ (r \notin staleReg' => e = v)
      BY <1>2, <1>7, <2>1
    <2> HIDE DEF e, v
    <2> QED BY <1>3, <1>5, <2>2, RegisterStep
  <1> QED BY <1>6, <1>7

\* So do ntohl and its relatives, in either byte order.
LEMMA NtohInv ==
  ASSUME IInv, NEW r \in Reg, Ntoh(r)
  PROVE  IInv'
  <1>1. CASE LittleEndian
    <2>1. Bswap(r)
      BY <1>1 DEF Ntoh, Bswap, IInv, TypeOK
    <2> QED BY <2>1, BswapInv
  <1>2. CASE ~LittleEndian
    <2>1. /\ val' = [val EXCEPT ![r] = val[r]] /\ expr' = [expr EXCEPT ![r] = expr[r]]
          /\ UNCHANGED <<mem, g_shadow_pages, inputRead, staleMem>>
          /\ staleReg' = staleReg /\ staleReg' \subseteq Reg
      BY <1>2 DEF Ntoh, IInv, TypeOK
    <2>2. \/ /\ expr[r] = NullExpr(Width[r])
             /\ r \notin staleReg' => val[r] \in ConstWord(Width[r])
          \/ /\ expr[r] \in Word(Width[r])
             /\ r \notin staleReg' => expr[r] = val[r]
      BY <2>1, RegisterCases
    <2>3. val[r] \in Word(Width[r])
      BY RegisterCases
    <2> QED BY <2>1, <2>2, <2>3, RegisterStep
  <1> QED BY <1>1, <1>2

(***************************************************************************)
(* Stores and bulk operations.                                             *)
(***************************************************************************)

\* Storing keeps the invariant (_sym_write_memory).
LEMMA StoreInv ==
  ASSUME IInv, NEW r \in Reg, NEW a \in Addr, Store(r, a)
  PROVE  IInv'
  <1> DEFINE n == Width[r]
             w == [i \in 0..n-1 |-> val[r][Ordinal(i, n)]]
             e == [i \in 0..n-1 |-> expr[r][Ordinal(i, n)]]
             wrong == {x \in a..a+n-1 : r \in staleReg}
  <1>1. n \in Nat \ {0} /\ n \in 0..n /\ a \in Nat /\ a + n <= MemSize
    BY SizeAssumption DEF Addr, Store
  <1>2. \A i \in 0..n-1 : Ordinal(i, n) \in 0..n-1
    BY <1>1, OrdinalRange
  <1>3. w \in Word(n) /\ e \in [0..n-1 -> Slot]
    BY <1>2 DEF IInv, TypeOK, Word, Slot
  <1>4. /\ mem' = WriteMem(a, n, w) /\ MarkRegion(a, n, wrong)
        /\ g_shadow_pages' = _sym_write_memory(expr[r], a, n)
        /\ UNCHANGED <<val, expr, staleReg>> /\ inputRead' \in BOOLEAN
    BY DEF Store, IInv, TypeOK
  <1>5. wrong \in SUBSET (a..a+n-1) /\ ~(\E i \in n..n-1 : TRUE)
    BY <1>1
  <1>6. \A i \in 0..n-1 : r \notin staleReg \/ a + i \in wrong
    BY <1>1
  <1>7. CASE expr[r] = NullExpr(n)
    <2>1. r \notin staleReg => \A i \in 0..n-1 : w[i] \in ConstValue
      BY <1>2, <1>7, RegisterCases DEF ConstWord
    <2>2. \A i \in 0..n-1 : e[i] = Null
      BY <1>2, <1>7 DEF NullExpr
    <2>3. \A i \in 0..n-1 : a + i \in wrong \/ (Describes(e[i], w[i]) /\ w[i] \in ConstValue)
      BY <1>6, <2>1, <2>2 DEF Describes
    <2>4. \/ g_shadow_pages' = WriteShadow(a, n, e)
          \/ g_shadow_pages' = g_shadow_pages /\ isConcrete(a, n)
      BY <1>4, <1>7 DEF _sym_write_memory
    <2> HIDE DEF n, w, e, wrong
    <2> QED BY <1>1, <1>3, <1>4, <1>5, <2>3, <2>4, RegionStep
  <1>8. CASE expr[r] # NullExpr(n)
    <2>1. g_shadow_pages' = WriteShadow(a, n, e)
      BY <1>4, <1>8 DEF _sym_write_memory
    <2>2. r \notin staleReg => expr[r] = val[r]
      BY <1>8, RegisterCases
    <2>3. \A i \in 0..n-1 : a + i \in wrong \/ Describes(e[i], w[i])
      BY <1>3, <1>6, <2>2, ValueAssumption DEF Describes, Word
    <2> HIDE DEF n, w, e, wrong
    <2> QED BY <1>1, <1>3, <1>4, <1>5, <2>1, <2>3, RegionStep
  <1> QED BY <1>7, <1>8

\* Copying a prefix of a region and zeroing the rest (c = n: a plain copy).
LEMMA CopyStep ==
  ASSUME IInv, NEW d \in Addr, NEW s \in Addr, NEW n \in Nat, NEW c \in 0..n,
         d + n <= MemSize, s + n <= MemSize,
         UNCHANGED <<val, expr, inputRead, staleReg>>,
         MarkRegion(d, n, StaleCopies(d, s, c)),
         g_shadow_pages' =
           IF isConcrete(s, c) /\ isConcrete(d, n)
           THEN g_shadow_pages
           ELSE WriteShadow(d, n, [i \in 0..n-1 |->
                  IF i < c THEN getShadow(s + i) ELSE Null]),
         mem' = WriteMem(d, n, [i \in 0..n-1 |->
                  IF i < c THEN mem[s + i] ELSE Zero])
  PROVE  IInv'
  <1> DEFINE w == [i \in 0..n-1 |-> IF i < c THEN mem[s + i] ELSE Zero]
             e == [i \in 0..n-1 |-> IF i < c THEN getShadow(s + i) ELSE Null]
             wrong == StaleCopies(d, s, c)
  <1>1. d \in Nat /\ s \in Nat /\ inputRead' \in BOOLEAN /\ n \in 0..n
    BY DEF Addr, IInv, TypeOK
  <1>2. \A i \in 0..n-1 : s + i \in Addr /\ s + i \in Nat
    BY <1>1, SizeAssumption DEF Addr
  <1>3. w \in Word(n)
    BY <1>2, ValueAssumption DEF IInv, TypeOK, Word
  <1>4. e \in [0..n-1 -> Slot]
    BY <1>2, ShadowReadType DEF IInv, Slot, SymExpr
  <1>5. wrong \in SUBSET (d..d+n-1) /\ ~(\E i \in n..n-1 : TRUE)
    BY <1>1 DEF StaleCopies
  <1>6. ASSUME NEW i \in 0..n-1, i < c, d + i \notin wrong
        PROVE  Describes(getShadow(s + i), mem[s + i])
    <2>1. d + i \in d..d+c-1 /\ s + ((d + i) - d) = s + i
      BY <1>1, <1>6
    <2>2. s + i \notin staleMem
      BY <1>6, <2>1 DEF StaleCopies
    <2> QED BY <1>2, <2>2 DEF IInv, ShadowDescribesMemory
  <1>7. CASE isConcrete(s, c) /\ isConcrete(d, n)
    <2>1. \A i \in 0..n-1 : i < c => s + i \in s..s+c-1
      BY <1>1
    <2>2. \A i \in 0..n-1 : i < c => getShadow(s + i) = Null
      BY <1>1, <1>7, <2>1, ConcreteRegion
    <2>3. \A i \in 0..n-1 : d + i \in wrong \/ w[i] \in ConstValue
      BY <1>6, <2>2, ValueAssumption DEF Describes
    <2>4. g_shadow_pages' = g_shadow_pages /\ mem' = WriteMem(d, n, w)
      BY <1>7
    <2> HIDE DEF w, e
    <2> QED BY <1>1, <1>3, <1>4, <1>5, <1>7, <2>3, <2>4, RegionStep
  <1>8. CASE ~(isConcrete(s, c) /\ isConcrete(d, n))
    <2>1. \A i \in 0..n-1 : d + i \in wrong \/ Describes(e[i], w[i])
      BY <1>6, ValueAssumption DEF Describes
    <2>2. g_shadow_pages' = WriteShadow(d, n, e) /\ mem' = WriteMem(d, n, w)
      BY <1>8
    <2> HIDE DEF w, e
    <2> QED BY <1>1, <1>3, <1>4, <1>5, <2>1, <2>2, RegionStep
  <1> QED BY <1>7, <1>8

\* memcpy, memmove and strncpy keep the invariant.
LEMMA CopyInv ==
  ASSUME IInv, NEW d \in Addr, NEW s \in Addr, NEW n \in Nat,
         d + n <= MemSize, s + n <= MemSize,
         g_shadow_pages' = CopyShadow(d, s, n), mem' = CopyMem(d, s, n),
         MarkRegion(d, n, StaleCopies(d, s, n)),
         UNCHANGED <<val, expr, inputRead, staleReg>>
  PROVE  IInv'
  <1>1. n \in 0..n
    OBVIOUS
  <1>2. /\ [i \in 0..n-1 |-> IF i < n THEN getShadow(s + i) ELSE Null]
             = [i \in 0..n-1 |-> getShadow(s + i)]
        /\ [i \in 0..n-1 |-> IF i < n THEN mem[s + i] ELSE Zero]
             = [i \in 0..n-1 |-> mem[s + i]]
    OBVIOUS
  <1> QED BY <1>1, <1>2, CopyStep DEF CopyShadow, CopyMem

\* So does memset, from the intrinsic and from the wrapper.
LEMMA MemsetInv ==
  ASSUME IInv, NEW a \in Addr, NEW n \in Nat, NEW r \in Reg, Memset(a, n, r)
  PROVE  IInv'
  <1> DEFINE w == [i \in 0..n-1 |-> val[r][0]]
             e == [i \in 0..n-1 |-> MemsetSlot(r)]
             wrong == {x \in a..a+n-1 : r \in staleReg \/ MemsetSlot(r) = Wide}
  <1>1. /\ a \in Nat /\ a + n <= MemSize /\ n \in 0..n
        /\ mem' = WriteMem(a, n, w) /\ MarkRegion(a, n, wrong)
        /\ UNCHANGED <<val, expr, staleReg>> /\ inputRead' \in BOOLEAN
    BY DEF Addr, Memset, IInv, TypeOK
  <1>2. 0 \in 0..Width[r]-1
    BY SizeAssumption
  <1>3. MemsetSlot(r) \in Slot
    BY <1>2 DEF MemsetSlot, IInv, TypeOK, Slot, SymExpr
  <1>4. w \in Word(n) /\ e \in [0..n-1 -> Slot]
    BY <1>2, <1>3 DEF IInv, TypeOK, Word
  <1>5. wrong \in SUBSET (a..a+n-1) /\ ~(\E i \in n..n-1 : TRUE)
    BY <1>1
  <1>6. \A i \in 0..n-1 : a + i \in a..a+n-1
    BY <1>1
  <1>7. CASE expr[r] = NullExpr(Width[r])
    <2>1. MemsetSlot(r) = Null
      BY <1>7 DEF MemsetSlot
    <2>2. r \notin staleReg => val[r][0] \in ConstValue
      BY <1>2, <1>7, RegisterCases DEF ConstWord
    <2>3. \A i \in 0..n-1 : a + i \in wrong \/ (Describes(e[i], w[i]) /\ w[i] \in ConstValue)
      BY <1>6, <2>1, <2>2 DEF Describes
    <2>4. \/ g_shadow_pages' = WriteShadow(a, n, e)
          \/ g_shadow_pages' = g_shadow_pages /\ isConcrete(a, n)
      BY <1>7 DEF Memset
    <2> HIDE DEF w, e, wrong
    <2> QED BY <1>1, <1>4, <1>5, <2>3, <2>4, RegionStep
  <1>8. CASE expr[r] # NullExpr(Width[r])
    <2>1. g_shadow_pages' = WriteShadow(a, n, e)
      BY <1>8 DEF Memset
    <2>2. r \in staleReg \/ MemsetSlot(r) = Wide \/ MemsetSlot(r) = val[r][0]
      BY <1>8, RegisterCases DEF MemsetSlot
    <2>3. val[r][0] # Null
      <3>1. val[r] \in Word(Width[r])
        BY RegisterCases
      <3>2. val[r][0] \in Value
        BY <1>2, <3>1 DEF Word
      <3> QED BY <3>2, ValueAssumption
    <2>4. ASSUME NEW i \in 0..n-1, a + i \notin wrong PROVE Describes(e[i], w[i])
      <3>1. MemsetSlot(r) = val[r][0]
        BY <1>6, <2>2, <2>4
      <3>2. e[i] = w[i] /\ e[i] # Null
        BY <2>3, <3>1
      <3> QED BY <3>2 DEF Describes
    <2> HIDE DEF w, e, wrong
    <2> QED BY <1>1, <1>4, <1>5, <2>1, <2>4, RegionStep
  <1> QED BY <1>7, <1>8

\* Reading symbolic input keeps the invariant, with a partial last item too.
LEMMA ReadInputInv ==
  ASSUME IInv, NEW a \in Addr, NEW n \in Nat, NEW m \in 0..n, NEW off \in Nat,
         ReadInput(a, n, m, off)
  PROVE  IInv'
  <1> DEFINE w == [i \in 0..n-1 |-> Input[off + i]]
             e == [i \in 0..m-1 |-> Input[off + i]]
             wrong == a+m..a+n-1
  <1>1. /\ a \in Nat /\ a + n <= MemSize /\ off + n <= InputLen
        /\ mem' = WriteMem(a, n, w) /\ g_shadow_pages' = WriteShadow(a, m, e)
        /\ MarkRegion(a, n, wrong)
        /\ UNCHANGED <<val, expr, staleReg>> /\ inputRead' \in BOOLEAN
    BY DEF Addr, ReadInput
  <1>2. \A i \in 0..n-1 : off + i \in 0..InputLen-1
    BY <1>1, InputAssumption
  <1>3. \A i \in 0..m-1 : i \in 0..n-1
    OBVIOUS
  <1>4. w \in Word(n) /\ e \in [0..m-1 -> Slot]
    BY <1>2, <1>3, InputAssumption DEF Word, Slot, SymExpr
  <1>5. \A i \in 0..m-1 : Describes(e[i], w[i])
    BY <1>2, <1>3, InputAssumption, ValueAssumption DEF Describes
  <1>6. wrong \in SUBSET (a..a+n-1) /\ \A i \in m..n-1 : a + i \in wrong
    BY <1>1
  <1> HIDE DEF w, e, wrong
  <1> QED BY <1>1, <1>4, <1>5, <1>6, RegionStep

\* So does a line of the input, whose terminator keeps its shadow.
LEMMA FgetsInputInv ==
  ASSUME IInv, NEW a \in Addr, NEW n \in Nat, NEW off \in Nat,
         FgetsInput(a, n, off)
  PROVE  IInv'
  <1> DEFINE w == [i \in 0..n |-> IF i < n THEN Input[off + i] ELSE Zero]
             e(m) == [i \in 0..m-1 |-> Input[off + i]]
             wrong(m) == {x \in a+m..a+n : x < a + n \/ getShadow(x) # Null}
  <1>1. PICK m \in 0..n : /\ g_shadow_pages' = WriteShadow(a, m, e(m))
                          /\ MarkRegion(a, n + 1, wrong(m))
    BY DEF FgetsInput
  <1>2. /\ a \in Nat /\ a + (n + 1) <= MemSize /\ off + n <= InputLen
        /\ n + 1 \in Nat /\ m \in 0..n+1 /\ (n + 1) - 1 = n /\ a + (n + 1) - 1 = a + n
        /\ UNCHANGED <<val, expr, staleReg>> /\ inputRead' \in BOOLEAN
    BY SizeAssumption DEF Addr, FgetsInput
  <1>3. mem' = WriteMem(a, n + 1, w)
    BY DEF FgetsInput
  <1>4. \A i \in 0..n-1 : off + i \in 0..InputLen-1
    BY <1>2, InputAssumption
  <1>5. \A i \in 0..n : i < n => i \in 0..n-1
    OBVIOUS
  <1>6. w \in Word(n + 1)
    <2>1. \A i \in 0..n : w[i] \in Value
      BY <1>4, <1>5, InputAssumption, ValueAssumption
    <2> QED BY <1>2, <2>1 DEF Word
  <1>7. \A i \in 0..m-1 : i \in 0..n-1 /\ i \in 0..n
    OBVIOUS
  <1>8. e(m) \in [0..m-1 -> Slot]
    BY <1>4, <1>7, InputAssumption DEF Slot, SymExpr
  <1>9. ASSUME NEW i \in 0..m-1 PROVE Describes(e(m)[i], w[i])
    <2>1. i \in 0..n-1 /\ i \in 0..n /\ i < n
      BY <1>7
    <2>2. e(m)[i] = Input[off + i] /\ w[i] = Input[off + i]
      BY <2>1
    <2>3. Input[off + i] \in Value
      BY <1>4, <2>1, InputAssumption
    <2> QED BY <2>2, <2>3, ValueAssumption DEF Describes
  <1>10. wrong(m) \in SUBSET (a..a+(n+1)-1)
    BY <1>2
  <1>11. ASSUME NEW i \in m..(n+1)-1
         PROVE  \/ a + i \in wrong(m)
                \/ getShadow(a + i) = Null /\ w[i] \in ConstValue
    <2>1. CASE i < n
      BY <1>2, <2>1
    <2>2. CASE i = n
      BY <1>2, <2>2, ValueAssumption
    <2> QED BY <1>2, <2>1, <2>2
  <1> HIDE DEF w, e, wrong
  <1> QED BY <1>1, <1>2, <1>3, <1>6, <1>8, <1>9, <1>10, <1>11, RegionStep

\* Memory that is left alone is memory that was written with its old bytes.
LEMMA RewriteMem ==
  ASSUME IInv, NEW a \in Nat, NEW m \in Nat, a + m < MemSize
  PROVE  /\ [i \in 0..m-1 |-> mem[a + i]] \in Word(m)
         /\ mem = WriteMem(a, m, [i \in 0..m-1 |-> mem[a + i]])
  <1> DEFINE w == [i \in 0..m-1 |-> mem[a + i]]
  <1>1. mem \in [Addr -> Value]
    BY DEF IInv, TypeOK
  <1>2. \A i \in 0..m-1 : a + i \in Addr
    BY SizeAssumption DEF Addr
  <1>3. w \in Word(m)
    BY <1>1, <1>2 DEF Word
  <1>4. \A x \in Addr : x \in a..a+m-1 => x - a \in 0..m-1 /\ w[x - a] = mem[x]
    BY DEF Addr
  <1>5. mem = WriteMem(a, m, w)
    BY <1>1, <1>4 DEF WriteMem
  <1> QED BY <1>3, <1>5

\* So does fgets at the end of the input.
LEMMA FgetsInputAtEndInv ==
  ASSUME IInv, NEW a \in Addr, NEW m \in Nat, FgetsInputAtEnd(a, m)
  PROVE  IInv'
  <1> DEFINE w == [i \in 0..m-1 |-> mem[a + i]]
             wrong == a..a+m-1
  <1>1. /\ a \in Nat /\ a + m < MemSize /\ a + m <= MemSize /\ m \in 0..m
        /\ g_shadow_pages' = WriteShadow(a, m, w) /\ MarkRegion(a, m, wrong)
        /\ UNCHANGED <<mem, val, expr, staleReg>> /\ inputRead' \in BOOLEAN
    BY SizeAssumption DEF Addr, FgetsInputAtEnd
  <1>2. w \in Word(m) /\ mem' = WriteMem(a, m, w)
    BY <1>1, RewriteMem
  <1>3. w \in [0..m-1 -> Slot]
    BY <1>2 DEF Word, Slot, SymExpr
  <1>4. /\ wrong \in SUBSET (a..a+m-1) /\ ~(\E i \in m..m-1 : TRUE)
        /\ \A i \in 0..m-1 : a + i \in wrong
    BY <1>1
  <1> HIDE DEF w, wrong
  <1> QED BY <1>1, <1>2, <1>3, <1>4, RegionStep

\* Reading from another file keeps the invariant, on old shadows too.
LEMMA ReadOtherInv ==
  ASSUME IInv, NEW a \in Addr, NEW n \in Nat, NEW m \in 0..n,
         NEW w \in ConstWord(n), ReadOther(a, n, m, w)
  PROVE  IInv'
  <1> DEFINE wrong == {x \in a+m..a+n-1 : getShadow(x) # Null}
  <1>1. /\ a \in Nat /\ a + n <= MemSize /\ m \in Nat
        /\ mem' = WriteMem(a, n, w) /\ MarkRegion(a, n, wrong)
        /\ UNCHANGED <<val, expr, staleReg>> /\ inputRead' \in BOOLEAN
        /\ \/ g_shadow_pages' = g_shadow_pages /\ isConcrete(a, m)
           \/ g_shadow_pages' = WriteShadow(a, m, NullExpr(m))
    BY DEF Addr, ReadOther, IInv, TypeOK
  <1>2. w \in Word(n) /\ NullExpr(m) \in [0..m-1 -> Slot]
    BY <1>1, ConstWordIsWord, NullExprType DEF Slot
  <1>3. \A i \in 0..n-1 : w[i] \in ConstValue
    BY DEF ConstWord
  <1>4. \A i \in 0..m-1 : Describes(NullExpr(m)[i], w[i]) /\ w[i] \in ConstValue
    BY <1>3 DEF Describes, NullExpr
  <1>5. /\ wrong \in SUBSET (a..a+n-1)
        /\ \A i \in m..n-1 : a + i \in wrong \/ getShadow(a + i) = Null
    BY <1>1
  <1>6. \A i \in m..n-1 : w[i] \in ConstValue
    BY <1>3
  <1> HIDE DEF wrong
  <1> QED BY <1>1, <1>2, <1>4, <1>5, <1>6, RegionStep

\* So does fgets at the end of another file.
LEMMA FgetsOtherAtEndInv ==
  ASSUME IInv, NEW a \in Addr, NEW m \in Nat, FgetsOtherAtEnd(a, m)
  PROVE  IInv'
  <1> DEFINE w == [i \in 0..m-1 |-> mem[a + i]]
             wrong == {x \in a..a+m-1 : x \in staleMem \/ getShadow(x) # Null}
  <1>1. /\ a \in Nat /\ a + m < MemSize /\ a + m <= MemSize /\ m \in 0..m
        /\ MarkRegion(a, m, wrong)
        /\ UNCHANGED <<mem, val, expr, staleReg>> /\ inputRead' \in BOOLEAN
        /\ \/ g_shadow_pages' = g_shadow_pages /\ isConcrete(a, m)
           \/ g_shadow_pages' = WriteShadow(a, m, NullExpr(m))
    BY SizeAssumption DEF Addr, FgetsOtherAtEnd, IInv, TypeOK
  <1>2. w \in Word(m) /\ mem' = WriteMem(a, m, w)
    BY <1>1, RewriteMem
  <1>3. NullExpr(m) \in [0..m-1 -> Slot]
    BY NullExprType DEF Slot
  <1>4. wrong \in SUBSET (a..a+m-1) /\ ~(\E i \in m..m-1 : TRUE)
    BY <1>1
  <1>5. ASSUME NEW i \in 0..m-1, a + i \notin wrong PROVE w[i] \in ConstValue
    <2>1. a + i \in a..a+m-1 /\ a + i \in Addr
      BY <1>1, SizeAssumption DEF Addr
    <2>2. a + i \notin staleMem /\ getShadow(a + i) = Null
      BY <1>5, <2>1
    <2> QED BY <2>1, <2>2 DEF IInv, ShadowDescribesMemory, Describes
  <1>6. \A i \in 0..m-1 : a + i \in wrong \/ Describes(NullExpr(m)[i], w[i])
    BY <1>5 DEF Describes, NullExpr
  <1> HIDE DEF w, wrong
  <1> QED BY <1>1, <1>2, <1>3, <1>4, <1>5, <1>6, RegionStep

(***************************************************************************)
(* The theorems.                                                           *)
(***************************************************************************)

\* The invariant is inductive: every step keeps it.
LEMMA NextInv == IInv /\ [Next]_vars => IInv'
  <1> SUFFICES ASSUME IInv, [Next]_vars PROVE IInv'
    OBVIOUS
  <1>0. 0..MaxLen \subseteq Nat /\ 0..InputLen \subseteq Nat
    BY SizeAssumption, InputAssumption
  <1>1. ASSUME NEW r \in Reg, NEW a \in Addr, Load(r, a) PROVE IInv'
    BY <1>1, LoadInv
  <1>2. ASSUME NEW r \in Reg, NEW a \in Addr, Store(r, a) PROVE IInv'
    BY <1>2, StoreInv
  <1>3. ASSUME NEW r \in Reg, NEW w \in ConstWord(Width[r]), Constant(r, w)
        PROVE  IInv'
    BY <1>3, ConstantInv
  <1>4. ASSUME NEW r \in Reg, NEW s \in Reg, BinaryOperator(r, s) PROVE IInv'
    BY <1>4, BinaryOperatorInv
  <1>5. ASSUME NEW r \in Reg, NEW s \in Reg, NEW signed \in BOOLEAN,
               IntegerCast(r, s, signed)
        PROVE  IInv'
    BY <1>5, IntegerCastInv
  <1>6. ASSUME NEW r \in Reg, Bswap(r) \/ Ntoh(r) PROVE IInv'
    BY <1>6, BswapInv, NtohInv
  <1>13. ASSUME NEW r \in Reg, NEW s \in Reg,
                Phi(r, s) \/ Select(r, s) \/ ZeroElementPtr(r, s)
         PROVE  IInv'
    BY <1>13, ReceiveInv DEF Phi, Select, ZeroElementPtr
  <1>14. ASSUME NEW r \in Reg, NEW s \in Reg, NEW i \in Reg, GetElementPtr(r, s, i)
         PROVE  IInv'
    BY <1>14, GetElementPtrInv
  <1>7. ASSUME NEW d \in Addr, NEW s \in Addr, NEW n \in 0..MaxLen,
               Memcpy(d, s, n) \/ Memmove(d, s, n)
        PROVE  IInv'
    BY <1>0, <1>7, CopyInv DEF Memcpy, Memmove
  <1>8. ASSUME NEW d \in Addr, NEW s \in Addr, NEW n \in 0..MaxLen,
               Strncpy(d, s, n)
        PROVE  IInv'
    BY <1>0, <1>8, CopyStep DEF Strncpy
  <1>9. ASSUME NEW a \in Addr, NEW n \in 0..MaxLen, NEW r \in Reg,
               Memset(a, n, r)
        PROVE  IInv'
    BY <1>0, <1>9, MemsetInv
  <1>10. ASSUME NEW a \in Addr, NEW n \in 0..MaxLen, NEW off \in 0..InputLen,
                \/ \E m \in 0..n : ReadInput(a, n, m, off)
                \/ FgetsInput(a, n, off)
         PROVE  IInv'
    BY <1>0, <1>10, ReadInputInv, FgetsInputInv
  <1>11. ASSUME NEW a \in Addr, NEW n \in 0..MaxLen, NEW m \in 0..n,
                NEW w \in ConstWord(n), ReadOther(a, n, m, w)
         PROVE  IInv'
    BY <1>0, <1>11, ReadOtherInv
  <1>15. ASSUME NEW a \in Addr, NEW n \in 0..MaxLen,
                FgetsInputAtEnd(a, n) \/ FgetsOtherAtEnd(a, n)
         PROVE  IInv'
    BY <1>0, <1>15, FgetsInputAtEndInv, FgetsOtherAtEndInv
  <1>12. CASE UNCHANGED vars
    BY <1>12, UnchangedInv
  <1> QED BY <1>1, <1>2, <1>3, <1>4, <1>5, <1>6, <1>7, <1>8, <1>9, <1>10,
             <1>11, <1>12, <1>13, <1>14, <1>15 DEF Next

\* The invariant holds in every reachable state.
THEOREM Invariance == Spec => []IInv
  BY InitInv, NextInv, PTL DEF Spec

\* Every state of the concolic memory is well formed (Shadow.h).
THEOREM TypeCorrect == Spec => []TypeOK
  <1>1. IInv => TypeOK
    BY DEF IInv
  <1> QED BY <1>1, Invariance, PTL

\* The shadow of every memory byte evaluates to the byte, and every byte that
\* depends on the input has a shadow (Shadow.h, RuntimeCommon.cpp), except for
\* the bytes that memset, fread and fgets leave wrong (LibcWrappers.cpp) and
\* the copies that the program makes of them.
THEOREM ShadowCorrect == Spec => []ShadowDescribesMemory
  <1>1. IInv => ShadowDescribesMemory
    BY DEF IInv
  <1> QED BY <1>1, Invariance, PTL

\* The expression of every register is null or complete; it evaluates to the
\* register's value and is present whenever the value depends on the input
\* (Symbolizer.cpp), unless the value was computed from a byte that a wrapper
\* left wrong.
THEOREM RegistersCorrect == Spec => []ExprDescribesRegister
  <1>1. IInv => ExprDescribesRegister
    BY DEF IInv
  <1> QED BY <1>1, Invariance, PTL

\* Without a shadow page every region is concrete.
LEMMA NoPagesConcrete ==
  ASSUME DOMAIN g_shadow_pages = {}, NEW a, NEW n
  PROVE  isConcrete(a, n)
  BY DEF isConcrete, RegionConcrete, getShadow, ShadowAt

\* A concrete step changes no shadow page, and no expression but to null.
LEMMA NoShadowNext ==
  TypeOK /\ ConcreteRunHasNoShadow /\ [Next]_vars => ConcreteRunHasNoShadow'
  <1> SUFFICES ASSUME TypeOK, ConcreteRunHasNoShadow, [Next]_vars
               PROVE  ConcreteRunHasNoShadow'
    OBVIOUS
  <1> DEFINE Same == inputRead' = inputRead /\ g_shadow_pages' = g_shadow_pages
             Quiet == Same /\ expr' = expr
             Clear(r) == Same /\ expr' = [expr EXCEPT ![r] = NullExpr(Width[r])]
  <1>1. CASE inputRead
    <2>1. ASSUME NEW r \in Reg, NEW s \in Reg, NEW i \in Reg, NEW a, NEW n, NEW w,
                 \/ Load(r, a) \/ Store(r, a) \/ Constant(r, w)
                 \/ BinaryOperator(r, s) \/ IntegerCast(r, s, w)
                 \/ Phi(r, s) \/ Select(r, s) \/ ZeroElementPtr(r, s)
                 \/ GetElementPtr(r, s, i) \/ Bswap(r) \/ Ntoh(r)
                 \/ Memset(a, n, r)
          PROVE  inputRead' = inputRead
      BY <2>1 DEF Load, Store, Constant, BinaryOperator, IntegerCast, Phi, Select,
                  ZeroElementPtr, Receive, GetElementPtr, Bswap, Ntoh, Memset
    <2>2. ASSUME NEW d, NEW s, NEW n, NEW w,
                 \/ Memcpy(d, s, n) \/ Memmove(d, s, n) \/ Strncpy(d, s, n)
                 \/ (\E m \in 0..n : ReadOther(d, n, m, w)) \/ FgetsOtherAtEnd(d, n)
          PROVE  inputRead' = inputRead
      BY <2>2 DEF Memcpy, Memmove, Strncpy, ReadOther, FgetsOtherAtEnd
    <2>3. ASSUME NEW a, NEW n, NEW off,
                 \/ (\E m \in 0..n : ReadInput(a, n, m, off))
                 \/ FgetsInput(a, n, off) \/ FgetsInputAtEnd(a, n)
          PROVE  inputRead' = TRUE
      BY <2>3 DEF ReadInput, FgetsInput, FgetsInputAtEnd
    <2>4. ASSUME UNCHANGED vars PROVE inputRead' = inputRead
      BY <2>4 DEF vars
    <2>5. inputRead' = inputRead \/ inputRead' = TRUE
      BY <2>1, <2>2, <2>3, <2>4, Zenon DEF Next
    <2> QED BY <1>1, <2>5 DEF ConcreteRunHasNoShadow
  <1>2. CASE ~inputRead
    <2>1. /\ DOMAIN g_shadow_pages = {}
          /\ \A r \in Reg : expr[r] = NullExpr(Width[r])
          /\ \A a, n : isConcrete(a, n)
      BY <1>2, NoPagesConcrete DEF ConcreteRunHasNoShadow
    <2>2. ASSUME NEW r \in Reg, NEW a, Load(r, a) PROVE Clear(r)
      BY <2>1, <2>2 DEF Load, _sym_read_memory
    <2>3. ASSUME NEW r \in Reg, NEW a, Store(r, a) PROVE Quiet
      BY <2>1, <2>3 DEF Store, _sym_write_memory
    <2>4. ASSUME NEW r \in Reg, NEW w, Constant(r, w) PROVE Clear(r)
      BY <2>4 DEF Constant
    <2>5. ASSUME NEW r \in Reg, NEW s \in Reg, NEW w,
                 BinaryOperator(r, s) \/ IntegerCast(r, s, w)
          PROVE  Clear(r)
      BY <2>1, <2>5 DEF BinaryOperator, IntegerCast
    <2>6. ASSUME NEW r \in Reg, Bswap(r) \/ Ntoh(r) PROVE Clear(r)
      BY <2>1, <2>6 DEF Bswap, Ntoh, TypeOK
    <2>16. ASSUME NEW r \in Reg, NEW s \in Reg,
                  Phi(r, s) \/ Select(r, s) \/ ZeroElementPtr(r, s)
           PROVE  Clear(r)
      BY <2>1, <2>16 DEF Phi, Select, ZeroElementPtr, Receive
    <2>17. ASSUME NEW r \in Reg, NEW s \in Reg, NEW i \in Reg, GetElementPtr(r, s, i)
           PROVE  Clear(r)
      BY <2>1, <2>17 DEF GetElementPtr
    <2>7. ASSUME NEW d, NEW s, NEW n,
                 Memcpy(d, s, n) \/ Memmove(d, s, n) \/ Strncpy(d, s, n)
          PROVE  Quiet
      BY <2>1, <2>7 DEF Memcpy, Memmove, Strncpy, CopyShadow
    <2>8. ASSUME NEW a, NEW n, NEW r \in Reg, Memset(a, n, r) PROVE Quiet
      BY <2>1, <2>8 DEF Memset
    <2>9. ASSUME NEW a, NEW n, NEW w,
                 (\E m \in 0..n : ReadOther(a, n, m, w)) \/ FgetsOtherAtEnd(a, n)
          PROVE  Quiet
      BY <2>1, <2>9 DEF ReadOther, FgetsOtherAtEnd
    <2>10. ASSUME NEW a, NEW n, NEW off,
                  \/ (\E m \in 0..n : ReadInput(a, n, m, off))
                  \/ FgetsInput(a, n, off) \/ FgetsInputAtEnd(a, n)
           PROVE  inputRead' = TRUE
      BY <2>10 DEF ReadInput, FgetsInput, FgetsInputAtEnd
    <2>11. ASSUME UNCHANGED vars PROVE Quiet
      BY <2>11 DEF vars
    <2>12. Quiet \/ (\E r \in Reg : Clear(r)) \/ inputRead' = TRUE
      <3> HIDE DEF Quiet, Clear
      <3> QED BY <2>2, <2>3, <2>4, <2>5, <2>6, <2>7, <2>8, <2>9, <2>10, <2>11,
                 <2>16, <2>17, Zenon DEF Next
    <2>13. CASE Quiet
      BY <2>1, <2>13 DEF ConcreteRunHasNoShadow, NullExpr
    <2>14. ASSUME NEW r \in Reg, Clear(r) PROVE ConcreteRunHasNoShadow'
      <3>1. \A s \in Reg : expr'[s] = NullExpr(Width[s])
        BY <2>1, <2>14 DEF TypeOK
      <3> QED BY <2>1, <2>14, <3>1 DEF ConcreteRunHasNoShadow, NullExpr
    <2>15. CASE inputRead' = TRUE
      BY <2>15 DEF ConcreteRunHasNoShadow
    <2> QED BY <2>12, <2>13, <2>14, <2>15
  <1> QED BY <1>1, <1>2

\* A program that has not read symbolic input has no shadow page and no
\* expression: concrete execution allocates nothing (docs/Concreteness.txt).
THEOREM ConcreteRunFree == Spec => []ConcreteRunHasNoShadow
  <1>1. Init => ConcreteRunHasNoShadow
    BY DEF Init, ConcreteRunHasNoShadow
  <1> QED BY <1>1, TypeCorrect, NoShadowNext, PTL DEF Spec
=============================================================================
