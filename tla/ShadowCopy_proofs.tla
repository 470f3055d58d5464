------------------------- MODULE ShadowCopy_proofs --------------------------
(***************************************************************************)
(* Proofs about ShadowCopy, for every page size, memory size, length of a  *)
(* call and set of expressions: a walk over cached pointers does to shadow *)
(* memory what one assignment to a flat array does.                        *)
(***************************************************************************)
EXTENDS ShadowCopy, TLAPS

(***************************************************************************)
(* The inductive invariant.                                                *)
(***************************************************************************)

ShadowPage == [0..kPageSize-1 -> SymExpr]

TypeInv ==
  /\ g_shadow_pages \in [DOMAIN g_shadow_pages -> ShadowPage]
  /\ call \in Calls \cup {Idle}
  /\ before \in [Addr -> SymExpr]
  /\ phase \in {"check", "construct", "walk"}
  /\ call = Idle => phase = "check"

\* The iterator is nil or points at the slot of its address.
Pointer(g, it) ==
  it.shadow # nil =>
    /\ it.shadow = <<pageStart(it.address), pageOffset(it.address)>>
    /\ pageStart(it.address) \in DOMAIN g

\* The page of address a had no shadow when the call was made.
WasConcrete(old, a) ==
  \A x \in Addr : pageStart(x) = pageStart(a) => old[x] = Null

\* A read iterator that has reached address a.  It may be nil although its page
\* has a shadow by now, but only if the page had none when the call was made.
ReadAt(g, old, it, a) ==
  /\ it.address = a
  /\ Pointer(g, it)
  /\ it.shadow = nil => WasConcrete(old, a)

\* A write iterator that has reached address a is not nil.
WriteAt(g, it, a) == it.address = a /\ Pointer(g, it) /\ it.shadow # nil

IsFill == call.kind = "fill"
Dest == call.dest
Src == call.src
Length == call.length

\* Every iterator but those in T is where the call wants it to start.
Ready(T) ==
  IF IsFill
  THEN /\ "first" \notin T => WriteAt(g_shadow_pages, first, Dest)
       /\ "last" \notin T => WriteAt(g_shadow_pages, last, Dest + Length)
  ELSE /\ "first" \notin T => ReadAt(g_shadow_pages, before, first, Src)
       /\ "last" \notin T => ReadAt(g_shadow_pages, before, last, Src + Length)
       /\ "out" \notin T =>
            WriteAt(g_shadow_pages, out, IF Backward(call) THEN Dest + Length ELSE Dest)

Constructed ==
  phase = "construct" =>
    todo # {} /\ todo \subseteq DOMAIN Arguments(call) /\ Ready(todo)

\* How many bytes from the start of the region the moving iterators are.
Progress == IF IsFill THEN first.address - Dest ELSE out.address - Dest

\* The iterators of a walk move together.
Together(p) ==
  /\ p \in 0..Length
  /\ IsFill =>
       /\ WriteAt(g_shadow_pages, first, Dest + p)
       /\ WriteAt(g_shadow_pages, last, Dest + Length)
  /\ ~IsFill => WriteAt(g_shadow_pages, out, Dest + p)
  /\ ~IsFill /\ Backward(call) =>
       /\ ReadAt(g_shadow_pages, before, first, Src)
       /\ ReadAt(g_shadow_pages, before, last, Src + p)
  /\ ~IsFill /\ ~Backward(call) =>
       /\ ReadAt(g_shadow_pages, before, first, Src + p)
       /\ ReadAt(g_shadow_pages, before, last, Src + Length)

InStep == phase = "walk" => Together(Progress)

\* The addresses that the call has written so far.
WrittenSoFar ==
  IF phase # "walk" THEN {}
  ELSE IF ~IsFill /\ Backward(call) THEN Dest + Progress .. Dest + Length - 1
  ELSE Dest .. Dest + Progress - 1

\* What the call is to leave at address x of its destination.
Target(x) == IF IsFill THEN call.exprs[x - Dest] ELSE before[Src + (x - Dest)]

\* The shadow is the old one, but for the bytes written.
ShadowIsPartial ==
  /\ call = Idle => before = Flat(g_shadow_pages)
  /\ call # Idle => \A x \in Addr :
       IF x \in WrittenSoFar
       THEN ShadowAt(g_shadow_pages, x) = Target(x) /\ pageStart(x) \in DOMAIN g_shadow_pages
       ELSE ShadowAt(g_shadow_pages, x) = before[x]

CopyInv == TypeInv /\ PointersInPage /\ Constructed /\ InStep /\ ShadowIsPartial

(***************************************************************************)
(* Page arithmetic.                                                        *)
(***************************************************************************)

\* An address is its page's start plus its offset in the page.
LEMMA PageSplit ==
  ASSUME NEW a \in Nat
  PROVE  /\ pageOffset(a) \in 0..kPageSize-1
         /\ pageStart(a) \in Nat
         /\ pageStart(a) + pageOffset(a) = a
  BY PageSizeAssumption DEF pageOffset, pageStart

\* Pages are multiples of the page size, so a later page is a whole page away.
LEMMA PageDistance ==
  ASSUME NEW q1 \in Nat, NEW q2 \in Nat, q1 < q2
  PROVE  kPageSize * q1 + kPageSize <= kPageSize * q2
  <1>1. PICK d \in Nat : q2 = q1 + 1 + d
    <2>1. q2 - q1 - 1 \in Nat
      OBVIOUS
    <2> QED BY <2>1
  <1>2. kPageSize * q2 = kPageSize * q1 + kPageSize + kPageSize * d
    BY <1>1, PageSizeAssumption
  <1>3. kPageSize * d \in Nat /\ kPageSize * q1 \in Nat
    BY PageSizeAssumption
  <1> QED BY <1>2, <1>3, PageSizeAssumption

\* The start of an address's page is a multiple of the page size.
LEMMA PageQuotient ==
  ASSUME NEW a \in Nat
  PROVE  a \div kPageSize \in Nat /\ pageStart(a) = kPageSize * (a \div kPageSize)
  BY PageSizeAssumption DEF pageStart, pageOffset

\* Addresses between two addresses of one page are on that page: the reason
\* the fast path of isConcrete needs to look at one page only.
LEMMA SamePage ==
  ASSUME NEW a \in Nat, NEW b \in Nat, NEW x \in Nat,
         a <= x, x <= b, pageStart(a) = pageStart(b)
  PROVE  pageStart(x) = pageStart(a)
  <1> DEFINE qa == a \div kPageSize
             qb == b \div kPageSize
             qx == x \div kPageSize
  <1>1. /\ qa \in Nat /\ pageStart(a) = kPageSize * qa
        /\ qb \in Nat /\ pageStart(b) = kPageSize * qb
        /\ qx \in Nat /\ pageStart(x) = kPageSize * qx
    BY PageQuotient
  <1>2. /\ pageStart(a) <= a /\ a < pageStart(a) + kPageSize
        /\ pageStart(b) <= b /\ b < pageStart(b) + kPageSize
        /\ pageStart(x) <= x /\ x < pageStart(x) + kPageSize
        /\ pageStart(a) \in Nat /\ pageStart(b) \in Nat /\ pageStart(x) \in Nat
    BY PageSplit, PageSizeAssumption, SMTT(30)
  <1> HIDE DEF qa, qb, qx
  <1>3. ASSUME qx < qa PROVE FALSE
    <2>1. pageStart(x) + kPageSize <= pageStart(a)
      BY <1>1, <1>3, PageDistance
    <2> QED BY <1>2, <2>1, PageSizeAssumption
  <1>4. ASSUME qb < qx PROVE FALSE
    <2>1. pageStart(b) + kPageSize <= pageStart(x)
      BY <1>1, <1>4, PageDistance
    <2> QED BY <1>2, <2>1, PageSizeAssumption
  <1>5. ASSUME qa < qb PROVE FALSE
    <2>1. pageStart(a) + kPageSize <= pageStart(b)
      BY <1>1, <1>5, PageDistance
    <2> QED BY <1>2, <2>1, PageSizeAssumption
  <1>6. qx = qa
    BY <1>1, <1>3, <1>4, <1>5
  <1> QED BY <1>1, <1>6

(***************************************************************************)
(* Calls.                                                                  *)
(***************************************************************************)

\* What is known of the arguments of a call.
LEMMA CallFacts ==
  ASSUME NEW c \in Calls
  PROVE  /\ c # Idle
         /\ c.kind \in {"fill", "memcpy", "memmove"}
         /\ c.dest \in Nat /\ c.length \in Nat /\ c.dest + c.length <= MemSize
         /\ c.kind = "fill" => c.exprs \in [0..c.length-1 -> SymExpr]
         /\ c.kind # "fill" => c.src \in Nat /\ c.src + c.length <= MemSize
         /\ c.kind = "memcpy" =>
              c.dest + c.length <= c.src \/ c.src + c.length <= c.dest
  <1>1. c # Idle
    BY IdleAssumption
  <1>2. CASE c \in Fills
    <2>1. PICK n \in 0..MaxLen :
            c \in [kind: {"fill"}, dest: {d \in Addr : Fits(d, n)}, length: {n},
                  exprs: [0..n-1 -> SymExpr]]
      BY <1>2 DEF Fills
    <2>2. c.kind = "fill" /\ c.dest \in Addr /\ Fits(c.dest, n) /\ c.length = n
          /\ c.exprs \in [0..n-1 -> SymExpr]
      BY <2>1
    <2> QED BY <1>1, <2>2, ShadowCopyAssumption DEF Addr, Fits
  <1>3. CASE c \in Copies
    <2>1. /\ c \in [kind: {"memcpy", "memmove"}, dest: Addr, src: Addr, length: 0..MaxLen]
          /\ Fits(c.dest, c.length) /\ Fits(c.src, c.length)
          /\ c.kind = "memcpy" => Disjoint(c.dest, c.src, c.length)
      BY <1>3 DEF Copies
    <2>2. c.kind \in {"memcpy", "memmove"} /\ c.dest \in Addr /\ c.src \in Addr
          /\ c.length \in 0..MaxLen
      BY <2>1
    <2> QED BY <1>1, <2>1, <2>2, ShadowCopyAssumption DEF Addr, Fits, Disjoint
  <1> QED BY <1>2, <1>3 DEF Calls

\* Which iterators a call constructs, and at which addresses.
LEMMA ArgumentFacts ==
  ASSUME NEW c \in Calls
  PROVE  /\ c.kind = "fill" =>
              /\ DOMAIN Arguments(c) = {"first", "last"}
              /\ Arguments(c).first = c.dest /\ Arguments(c).last = c.dest + c.length
         /\ c.kind # "fill" =>
              /\ DOMAIN Arguments(c) = {"first", "last", "out"}
              /\ Arguments(c).first = c.src /\ Arguments(c).last = c.src + c.length
              /\ Arguments(c).out = IF Backward(c) THEN c.dest + c.length ELSE c.dest
         /\ c.kind = "fill" => ~Backward(c)
  BY CallFacts DEF Arguments, Backward

(***************************************************************************)
(* Pages.                                                                  *)
(***************************************************************************)

\* Creating a page changes no expression.
LEMMA CreateFacts ==
  ASSUME NEW g, g \in [DOMAIN g -> ShadowPage], NEW a \in Nat
  PROVE  LET h == getOrCreateShadow(g, a)
         IN  /\ h \in [DOMAIN h -> ShadowPage]
             /\ DOMAIN h = DOMAIN g \cup {pageStart(a)}
             /\ \A x \in Nat : ShadowAt(h, x) = ShadowAt(g, x)
  <1> DEFINE h == getOrCreateShadow(g, a)
  <1>1. EmptyPage \in ShadowPage
    BY DEF EmptyPage, ShadowPage, SymExpr
  <1>2. DOMAIN h = DOMAIN g \cup {pageStart(a)}
    BY DEF getOrCreateShadow
  <1>3. \A p \in DOMAIN h : h[p] = IF p \in DOMAIN g THEN g[p] ELSE EmptyPage
    BY DEF getOrCreateShadow
  <1>4. h = [p \in DOMAIN h |-> h[p]]
    BY DEF getOrCreateShadow
  <1> HIDE DEF h
  <1>5. h \in [DOMAIN h -> ShadowPage]
    BY <1>1, <1>3, <1>4
  <1>6. ASSUME NEW x \in Nat PROVE ShadowAt(h, x) = ShadowAt(g, x)
    <2>1. pageOffset(x) \in 0..kPageSize-1
      BY PageSplit
    <2>2. EmptyPage[pageOffset(x)] = Null
      BY <2>1 DEF EmptyPage
    <2> QED BY <1>2, <1>3, <2>2 DEF ShadowAt
  <1> QED BY <1>2, <1>5, <1>6 DEF h

\* Moving an iterator onto a page may create the page, and changes no expression.
LEMMA EnteredFacts ==
  ASSUME NEW g, g \in [DOMAIN g -> ShadowPage], NEW a \in Nat, NEW by \in {1, -1},
         a + by \in Nat, pageStart(a) \in DOMAIN g
  PROVE  LET h == Entered(g, a, by)
         IN  /\ h \in [DOMAIN h -> ShadowPage]
             /\ DOMAIN g \subseteq DOMAIN h
             /\ pageStart(a + by) \in DOMAIN h
             /\ \A x \in Nat : ShadowAt(h, x) = ShadowAt(g, x)
  <1>1. CASE pageStart(a + by) # pageStart(a)
    <2>1. Entered(g, a, by) = getOrCreateShadow(g, a + by)
      BY <1>1 DEF Entered
    <2> DEFINE b == a + by
    <2>2. Entered(g, a, by) = getOrCreateShadow(g, b) /\ b \in Nat
      BY <2>1
    <2> HIDE DEF b
    <2>3. LET h == getOrCreateShadow(g, b)
          IN  /\ h \in [DOMAIN h -> ShadowPage]
              /\ DOMAIN h = DOMAIN g \cup {pageStart(b)}
              /\ \A x \in Nat : ShadowAt(h, x) = ShadowAt(g, x)
      BY <2>2, CreateFacts
    <2>4. b = a + by
      BY DEF b
    <2> QED BY <2>2, <2>3, <2>4
  <1>2. CASE pageStart(a + by) = pageStart(a)
    BY <1>2 DEF Entered
  <1> QED BY <1>1, <1>2

\* Different addresses have different slots.
LEMMA SlotInjective ==
  ASSUME NEW a \in Nat, NEW b \in Nat,
         pageStart(a) = pageStart(b), pageOffset(a) = pageOffset(b)
  PROVE  a = b
  BY PageSplit

\* An assignment through a pointer changes the expression of its address only.
LEMMA AssignFacts ==
  ASSUME NEW g, g \in [DOMAIN g -> ShadowPage], NEW it, it.address \in Nat,
         Pointer(g, it), it.shadow # nil, NEW e \in SymExpr
  PROVE  LET h == Assign(g, it, e)
         IN  /\ h \in [DOMAIN h -> ShadowPage]
             /\ DOMAIN h = DOMAIN g
             /\ \A x \in Nat :
                  ShadowAt(h, x) = IF x = it.address THEN e ELSE ShadowAt(g, x)
  <1> DEFINE h == Assign(g, it, e)
             p == pageStart(it.address)
             o == pageOffset(it.address)
             page == [g[p] EXCEPT ![o] = e]
  <1>1. it.shadow[1] = p /\ it.shadow[2] = o /\ p \in DOMAIN g
    BY DEF Pointer
  <1>2. o \in 0..kPageSize-1
    BY PageSplit
  <1>3. g[p] \in ShadowPage
    BY <1>1
  <1>4. h = [g EXCEPT ![p] = page]
    BY <1>1 DEF Assign
  <1>5. /\ page \in ShadowPage /\ page[o] = e
        /\ \A i \in 0..kPageSize-1 : i # o => page[i] = g[p][i]
    BY <1>2, <1>3 DEF ShadowPage
  <1> HIDE DEF page, p, o, h
  <1>6. /\ DOMAIN h = DOMAIN g
        /\ h[p] = page /\ \A q \in DOMAIN g : q # p => h[q] = g[q]
    BY <1>1, <1>4
  <1>7. h \in [DOMAIN h -> ShadowPage]
    BY <1>1, <1>4, <1>5, <1>6
  <1>8. ASSUME NEW x \in Nat
        PROVE  ShadowAt(h, x) = IF x = it.address THEN e ELSE ShadowAt(g, x)
    <2>1. pageOffset(x) \in 0..kPageSize-1
      BY PageSplit
    <2>2. CASE x = it.address
      BY <1>1, <1>5, <1>6, <2>2 DEF ShadowAt, p, o
    <2>3. CASE x # it.address
      <3>1. pageStart(x) # p \/ pageOffset(x) # o
        BY <2>3, SlotInjective DEF p, o
      <3> QED BY <1>1, <1>5, <1>6, <2>1, <2>3, <3>1 DEF ShadowAt
    <2> QED BY <2>2, <2>3
  <1> QED BY <1>6, <1>7, <1>8 DEF h

\* A region that isConcrete accepts has no expression, on the fast path too.
LEMMA ConcreteRegion ==
  ASSUME NEW g, NEW a \in Nat, NEW n \in Nat, RegionConcrete(g, a, n),
         NEW x \in a..a+n-1
  PROVE  ShadowAt(g, x) = Null
  <1>1. x \in Nat /\ a <= x /\ x <= a + n /\ a + n \in Nat
    OBVIOUS
  <1>2. CASE pageStart(a) = pageStart(a + n) /\ pageStart(a) \notin DOMAIN g
    BY <1>1, <1>2, SamePage DEF ShadowAt
  <1> QED BY <1>2 DEF RegionConcrete

(***************************************************************************)
(* Iterators.                                                              *)
(***************************************************************************)

\* A pointer stays valid when pages are added.
LEMMA AtGrows ==
  ASSUME NEW g, NEW h, DOMAIN g \subseteq DOMAIN h, NEW old, NEW it, NEW a
  PROVE  /\ ReadAt(g, old, it, a) => ReadAt(h, old, it, a)
         /\ WriteAt(g, it, a) => WriteAt(h, it, a)
  BY DEF ReadAt, WriteAt, Pointer

\* Pages that are not in the map had no expressions when the call was made.
OldPages(g, old) == \A x \in Addr : pageStart(x) \notin DOMAIN g => old[x] = Null

\* An iterator that is constructed at a.
LEMMA IteratorFacts ==
  ASSUME NEW g, NEW old, NEW a \in Nat
  PROVE  /\ OldPages(g, old) => ReadAt(g, old, Iterator(g, a), a)
         /\ pageStart(a) \in DOMAIN g => WriteAt(g, Iterator(g, a), a)
  <1> DEFINE it == Iterator(g, a)
  <1>1. it.address = a /\ it.shadow = getShadow(g, a)
    BY DEF Iterator
  <1> HIDE DEF it
  <1>2. CASE pageStart(a) \in DOMAIN g
    BY <1>1, <1>2 DEF ReadAt, WriteAt, Pointer, getShadow, nil, it
  <1>3. CASE pageStart(a) \notin DOMAIN g
    <2>1. it.shadow = nil
      BY <1>1, <1>3 DEF getShadow
    <2>2. OldPages(g, old) => WasConcrete(old, a)
      BY <1>3 DEF WasConcrete, OldPages
    <2> QED BY <1>1, <1>3, <2>1, <2>2 DEF ReadAt, Pointer, it
  <1> QED BY <1>2, <1>3

\* An iterator that moves by one byte, while pages may have been added.
LEMMA MovedFacts ==
  ASSUME NEW g, NEW h, DOMAIN g \subseteq DOMAIN h, NEW old, NEW it, NEW a \in Nat,
         NEW by \in {1, -1}, a + by \in Nat
  PROVE  /\ ReadAt(g, old, it, a) /\ OldPages(h, old) =>
              ReadAt(h, old, Moved(h, it, by), a + by)
         /\ WriteAt(g, it, a) /\ pageStart(a + by) \in DOMAIN h =>
              WriteAt(h, Moved(h, it, by), a + by)
  <1> SUFFICES ASSUME it.address = a, Pointer(g, it)
               PROVE  /\ (it.shadow = nil => WasConcrete(old, a)) /\ OldPages(h, old) =>
                           ReadAt(h, old, Moved(h, it, by), a + by)
                      /\ it.shadow # nil /\ pageStart(a + by) \in DOMAIN h =>
                           WriteAt(h, Moved(h, it, by), a + by)
    BY DEF ReadAt, WriteAt
  <1> DEFINE b == a + by
             m == Moved(h, it, by)
  <1>1. b \in Nat
    OBVIOUS
  <1>2. /\ m.address = b
        /\ pageStart(b) # pageStart(a) => m.shadow = getShadow(h, b)
        /\ pageStart(b) = pageStart(a) /\ it.shadow = nil => m.shadow = nil
        /\ pageStart(b) = pageStart(a) /\ it.shadow # nil =>
             m.shadow = <<it.shadow[1], it.shadow[2] + by>>
    BY DEF Moved
  <1>3. CASE pageStart(b) # pageStart(a)
    <2>1. /\ OldPages(h, old) => ReadAt(h, old, Iterator(h, b), b)
          /\ pageStart(b) \in DOMAIN h => WriteAt(h, Iterator(h, b), b)
      BY <1>1, IteratorFacts
    <2>2. Iterator(h, b).address = b /\ Iterator(h, b).shadow = getShadow(h, b)
      BY DEF Iterator
    <2>3. m.shadow = getShadow(h, b) /\ m.address = b
      BY <1>2, <1>3
    <2> HIDE DEF m, b
    <2>4. /\ OldPages(h, old) => ReadAt(h, old, m, b)
          /\ pageStart(b) \in DOMAIN h => WriteAt(h, m, b)
      BY <2>1, <2>2, <2>3 DEF ReadAt, WriteAt, Pointer
    <2> QED BY <2>4 DEF m, b
  <1>4. CASE pageStart(b) = pageStart(a) /\ it.shadow = nil
    <2>1. m.shadow = nil /\ m.address = b
      BY <1>2, <1>4
    <2>2. WasConcrete(old, a) => WasConcrete(old, b)
      BY <1>4 DEF WasConcrete
    <2> HIDE DEF m, b
    <2>3. WasConcrete(old, a) => ReadAt(h, old, m, b)
      BY <2>1, <2>2 DEF ReadAt, Pointer
    <2> QED BY <1>4, <2>3 DEF m, b
  <1>5. CASE pageStart(b) = pageStart(a) /\ it.shadow # nil
    <2>1. m.shadow = <<it.shadow[1], it.shadow[2] + by>> /\ m.address = b
      BY <1>2, <1>5
    <2>2. it.shadow = <<pageStart(a), pageOffset(a)>> /\ pageStart(a) \in DOMAIN h
      BY <1>5 DEF Pointer
    <2>3. pageOffset(b) = pageOffset(a) + by
      BY <1>5, PageSplit
    <2> HIDE DEF m, b
    <2>4. m.shadow = <<pageStart(b), pageOffset(b)>> /\ pageStart(b) \in DOMAIN h
      BY <1>5, <2>1, <2>2, <2>3
    <2>5. m.shadow # nil
      BY <2>4 DEF nil
    <2>6. ReadAt(h, old, m, b) /\ WriteAt(h, m, b)
      BY <2>1, <2>4, <2>5 DEF ReadAt, WriteAt, Pointer
    <2> QED BY <2>6 DEF m, b
  <1> QED BY <1>3, <1>4, <1>5

\* What an iterator reads: the current expression, or null.
LEMMA DerefFacts ==
  ASSUME NEW g, NEW old, NEW it, NEW a \in Nat, ReadAt(g, old, it, a)
  PROVE  IF it.shadow = nil THEN Deref(g, it) = Null /\ WasConcrete(old, a)
                            ELSE Deref(g, it) = ShadowAt(g, a)
  BY DEF ReadAt, Pointer, Deref, ShadowAt

(***************************************************************************)
(* The steps of a call.                                                    *)
(***************************************************************************)

\* The shadow of an address is an expression or null.
LEMMA ShadowType ==
  ASSUME NEW g, g \in [DOMAIN g -> ShadowPage], NEW x \in Nat
  PROVE  ShadowAt(g, x) \in SymExpr
  BY PageSplit DEF ShadowAt, ShadowPage, SymExpr

\* The flat view of a page map has an entry for every address.
LEMMA FlatType ==
  ASSUME NEW g, g \in [DOMAIN g -> ShadowPage]
  PROVE  Flat(g) \in [Addr -> SymExpr] /\ \A x \in Addr : Flat(g)[x] = ShadowAt(g, x)
  BY ShadowType, ShadowCopyAssumption DEF Flat, Addr

\* Because the library writes nothing without entering its page.
LEMMA NoNewPages ==
  ASSUME CopyInv, call # Idle
  PROVE  OldPages(g_shadow_pages, before)
  BY DEF CopyInv, ShadowIsPartial, OldPages, ShadowAt

\* A source byte that the walk has not passed still reads as it was.
LEMMA ReadOld ==
  ASSUME CopyInv, phase = "walk", ~IsFill, NEW g, NEW it, NEW i \in 0..Length-1,
         \A x \in Nat : ShadowAt(g, x) = ShadowAt(g_shadow_pages, x),
         ReadAt(g, before, it, Src + i),
         IF Backward(call) THEN i < Progress ELSE i >= Progress
  PROVE  Deref(g, it) = before[Src + i] /\ before[Src + i] \in SymExpr
  <1> DEFINE a == Src + i
  <1>1. call \in Calls
    BY DEF CopyInv, TypeInv
  <1>2. /\ Dest \in Nat /\ Length \in Nat /\ Dest + Length <= MemSize
        /\ Src \in Nat /\ Src + Length <= MemSize
        /\ call.kind = "memcpy" => Dest + Length <= Src \/ Src + Length <= Dest
        /\ call.kind \in {"memcpy", "memmove"}
    BY <1>1, CallFacts DEF Dest, Src, Length, IsFill
  <1>3. Progress \in 0..Length
    BY DEF CopyInv, InStep, Together
  <1>4. a \in Addr /\ a \in Nat
    BY <1>2, ShadowCopyAssumption DEF Addr
  <1>5. IF Backward(call) THEN Dest > Src
        ELSE Dest <= Src \/ Dest + Length <= Src \/ Src + Length <= Dest
    BY <1>2 DEF Backward, Dest, Src
  <1>6. a \notin WrittenSoFar
    BY <1>2, <1>3, <1>5 DEF WrittenSoFar
  <1>7. ShadowAt(g_shadow_pages, a) = before[a]
    BY <1>1, <1>4, <1>6, IdleAssumption DEF CopyInv, ShadowIsPartial
  <1>8. before[a] \in SymExpr
    BY <1>4 DEF CopyInv, TypeInv
  <1>9. ReadAt(g, before, it, a)
    OBVIOUS
  <1> HIDE DEF a
  <1>10. WasConcrete(before, a) => before[a] = Null
    BY <1>4 DEF WasConcrete
  <1>11. Deref(g, it) = before[a]
    BY <1>4, <1>7, <1>9, <1>10, DerefFacts
  <1> QED BY <1>8, <1>11 DEF a

\* Iterators of a call that has not begun to walk.
LEMMA PointersKept ==
  ASSUME PointersInPage, DOMAIN g_shadow_pages \subseteq DOMAIN g_shadow_pages',
         UNCHANGED <<first, last, out>>
  PROVE  PointersInPage'
  BY DEF PointersInPage

\* No call is running at first.
LEMMA InitInv == Init => CopyInv
  <1> SUFFICES ASSUME Init PROVE CopyInv
    OBVIOUS
  <1> USE DEF Init
  <1>1. g_shadow_pages \in [DOMAIN g_shadow_pages -> ShadowPage]
    OBVIOUS
  <1>2. TypeInv
    BY <1>1, FlatType DEF TypeInv
  <1>3. PointersInPage
    BY DEF PointersInPage, NoIterator
  <1>4. Constructed /\ InStep /\ ShadowIsPartial
    BY DEF Constructed, InStep, ShadowIsPartial
  <1> QED BY <1>2, <1>3, <1>4 DEF CopyInv

\* A new call keeps the invariant.
LEMMA StartInv ==
  ASSUME CopyInv, NEW c \in Calls, Start(c)
  PROVE  CopyInv'
  <1> USE DEF Start, CopyInv
  <1>1. c # Idle
    BY CallFacts
  <1>2. /\ before' \in [Addr -> SymExpr]
        /\ \A x \in Addr : before'[x] = ShadowAt(g_shadow_pages, x)
    BY FlatType DEF TypeInv
  <1>3. TypeInv'
    BY <1>1, <1>2 DEF TypeInv
  <1>4. PointersInPage'
    BY PointersKept
  <1>5. Constructed' /\ InStep'
    BY DEF Constructed, InStep
  <1>6. WrittenSoFar' = {}
    BY DEF WrittenSoFar
  <1>7. ShadowIsPartial'
    BY <1>1, <1>2, <1>6 DEF ShadowIsPartial
  <1> QED BY <1>3, <1>4, <1>5, <1>7

\* The end of a call keeps the invariant.
LEMMA DoneInv ==
  ASSUME CopyInv, Done, UNCHANGED g_shadow_pages
  PROVE  CopyInv'
  <1> USE DEF Done, CopyInv
  <1>1. before' \in [Addr -> SymExpr]
    BY FlatType DEF TypeInv
  <1>2. TypeInv'
    BY <1>1 DEF TypeInv
  <1>3. PointersInPage'
    BY DEF PointersInPage, NoIterator
  <1>4. Constructed' /\ InStep'
    BY DEF Constructed, InStep
  <1>5. ShadowIsPartial'
    BY DEF ShadowIsPartial, Flat
  <1> QED BY <1>2, <1>3, <1>4, <1>5

\* The check that nothing is symbolic keeps the invariant.
LEMMA EnterInv ==
  ASSUME CopyInv, Enter
  PROVE  CopyInv'
  <1> USE DEF Enter, CopyInv
  <1>1. call \in Calls
    BY DEF TypeInv
  <1>2. TypeInv'
    BY DEF TypeInv
  <1>3. PointersInPage'
    BY PointersKept
  <1>4. /\ todo' # {} /\ todo' \subseteq DOMAIN Arguments(call)'
        /\ "first" \in todo' /\ "last" \in todo' /\ (~IsFill => "out" \in todo')
    <2>1. DOMAIN Arguments(call)' = DOMAIN Arguments(call)
      BY DEF Arguments, Backward
    <2> QED BY <1>1, <2>1, ArgumentFacts DEF IsFill
  <1>5. IsFill' = IsFill
    BY DEF IsFill
  <1>6. Constructed' /\ InStep'
    BY <1>4, <1>5 DEF Constructed, InStep, Ready
  <1>7. WrittenSoFar' = {} /\ WrittenSoFar = {}
    BY DEF WrittenSoFar
  <1>8. ShadowIsPartial'
    BY <1>7 DEF ShadowIsPartial
  <1> QED BY <1>2, <1>3, <1>6, <1>8

\* The iterators that exist survive the creation of a page, and the new one
\* is where the call wants it.
LEMMA ConstructReady ==
  ASSUME CopyInv, NEW arg \in {"first", "last", "out"}, Construct(arg)
  PROVE  /\ g_shadow_pages' \in [DOMAIN g_shadow_pages' -> ShadowPage]
         /\ DOMAIN g_shadow_pages \subseteq DOMAIN g_shadow_pages'
         /\ \A x \in Nat : ShadowAt(g_shadow_pages', x) = ShadowAt(g_shadow_pages, x)
         /\ Ready(todo)' /\ PointersInPage'
  <1> DEFINE a == Arguments(call)[arg]
             g == g_shadow_pages'
             it == Iterator(g, a)
  <1>1. phase = "construct" /\ arg \in todo /\ todo' = todo \ {arg}
        /\ call' = call /\ before' = before
    BY DEF Construct
  <1>2. call \in Calls /\ call # Idle
    BY <1>1 DEF CopyInv, TypeInv
  <1>3. arg \in DOMAIN Arguments(call) /\ Ready(todo)
    BY <1>1 DEF CopyInv, Constructed
  <1>4. /\ Dest \in Nat /\ Length \in Nat /\ (~IsFill => Src \in Nat)
        /\ IsFill => arg \in {"first", "last"}
    BY <1>2, <1>3, CallFacts, ArgumentFacts DEF Dest, Length, Src, IsFill
  <1>5. /\ IsFill /\ arg = "first" => a = Dest
        /\ IsFill /\ arg = "last" => a = Dest + Length
        /\ ~IsFill /\ arg = "first" => a = Src
        /\ ~IsFill /\ arg = "last" => a = Src + Length
        /\ ~IsFill /\ arg = "out" => a = IF Backward(call) THEN Dest + Length ELSE Dest
    BY <1>2, ArgumentFacts DEF Dest, Length, Src, IsFill
  <1>6. a \in Nat
    BY <1>4, <1>5
  <1>7. g = IF IsFill \/ arg = "out" THEN getOrCreateShadow(g_shadow_pages, a)
            ELSE g_shadow_pages
    BY <1>4 DEF Construct, Writes, IsFill
  <1>8. /\ arg = "first" => first' = it /\ last' = last /\ out' = out
        /\ arg = "last" => first' = first /\ last' = it /\ out' = out
        /\ arg = "out" => first' = first /\ last' = last /\ out' = it
    BY DEF Construct
  <1> HIDE DEF a, it
  <1>9. /\ g \in [DOMAIN g -> ShadowPage]
        /\ DOMAIN g_shadow_pages \subseteq DOMAIN g
        /\ \A x \in Nat : ShadowAt(g, x) = ShadowAt(g_shadow_pages, x)
        /\ IsFill \/ arg = "out" => pageStart(a) \in DOMAIN g
    <2>1. CASE IsFill \/ arg = "out"
      <3>1. g = getOrCreateShadow(g_shadow_pages, a)
        BY <1>7, <2>1
      <3>2. g_shadow_pages \in [DOMAIN g_shadow_pages -> ShadowPage]
        BY DEF CopyInv, TypeInv
      <3>3. LET h == getOrCreateShadow(g_shadow_pages, a)
            IN  /\ h \in [DOMAIN h -> ShadowPage]
                /\ DOMAIN h = DOMAIN g_shadow_pages \cup {pageStart(a)}
                /\ \A x \in Nat : ShadowAt(h, x) = ShadowAt(g_shadow_pages, x)
        BY <1>6, <3>2, CreateFacts
      <3> HIDE DEF g
      <3> QED BY <3>1, <3>3
    <2>2. CASE ~(IsFill \/ arg = "out")
      <3>1. g = g_shadow_pages
        BY <1>7, <2>2
      <3> HIDE DEF g
      <3> QED BY <2>2, <3>1 DEF CopyInv, TypeInv
    <2> QED BY <2>1, <2>2
  <1> HIDE DEF g
  <1>10. OldPages(g, before)
    <2>1. OldPages(g_shadow_pages, before)
      BY <1>2, NoNewPages
    <2> QED BY <1>9, <2>1 DEF OldPages
  <1>11. ReadAt(g, before, it, a) /\ (IsFill \/ arg = "out" => WriteAt(g, it, a))
    BY <1>6, <1>9, <1>10, IteratorFacts DEF it
  <1>12. /\ \A i, b : ReadAt(g_shadow_pages, before, i, b) => ReadAt(g, before, i, b)
         /\ \A i, b : WriteAt(g_shadow_pages, i, b) => WriteAt(g, i, b)
    BY <1>9, AtGrows
  <1>13. Ready(todo)'
    <2>1. IsFill' = IsFill /\ Dest' = Dest /\ Length' = Length /\ Src' = Src
          /\ Backward(call)' = Backward(call)
      BY <1>1 DEF IsFill, Dest, Length, Src, Backward
    <2>2. "first" \notin todo' => arg = "first" \/ "first" \notin todo
      BY <1>1
    <2>3. "last" \notin todo' => arg = "last" \/ "last" \notin todo
      BY <1>1
    <2>4. "out" \notin todo' => arg = "out" \/ "out" \notin todo
      BY <1>1
    <2>5. CASE IsFill
      <3>1. "first" \notin todo' => WriteAt(g, first', Dest)
        BY <1>3, <1>4, <1>5, <1>8, <1>11, <1>12, <2>2, <2>5 DEF Ready
      <3>2. "last" \notin todo' => WriteAt(g, last', Dest + Length)
        BY <1>3, <1>4, <1>5, <1>8, <1>11, <1>12, <2>3, <2>5 DEF Ready
      <3> QED BY <2>1, <2>5, <3>1, <3>2 DEF Ready, g
    <2>6. CASE ~IsFill
      <3>1. "first" \notin todo' => ReadAt(g, before, first', Src)
        BY <1>3, <1>5, <1>8, <1>11, <1>12, <2>2, <2>6 DEF Ready
      <3>2. "last" \notin todo' => ReadAt(g, before, last', Src + Length)
        BY <1>3, <1>5, <1>8, <1>11, <1>12, <2>3, <2>6 DEF Ready
      <3>3. "out" \notin todo' =>
              WriteAt(g, out', IF Backward(call) THEN Dest + Length ELSE Dest)
        BY <1>3, <1>5, <1>8, <1>11, <1>12, <2>4, <2>6 DEF Ready
      <3> QED BY <1>1, <2>1, <2>6, <3>1, <3>2, <3>3 DEF Ready, g
    <2> QED BY <2>5, <2>6
  <1>14. PointersInPage'
    <2>1. Pointer(g, it)
      BY <1>11 DEF ReadAt
    <2>2. Pointer(g, first) /\ Pointer(g, last) /\ Pointer(g, out)
      BY <1>9 DEF CopyInv, PointersInPage, Pointer
    <2>3. \A i \in {first', last', out'} : Pointer(g, i)
      BY <1>8, <2>1, <2>2
    <2> QED BY <2>3 DEF PointersInPage, Pointer, g
  <1> QED BY <1>9, <1>13, <1>14 DEF g

\* The parts of the call, which a step of it does not change.
LEMMA CallKept ==
  ASSUME call' = call
  PROVE  /\ IsFill' = IsFill /\ Dest' = Dest /\ Length' = Length /\ Src' = Src
         /\ Backward(call)' = Backward(call)
  BY DEF IsFill, Dest, Length, Src, Backward

\* The numbers of a call.
LEMMA CallNumbers ==
  ASSUME call \in Calls
  PROVE  /\ Dest \in Nat /\ Length \in Nat /\ Dest + Length <= MemSize
         /\ ~IsFill => Src \in Nat /\ Src + Length <= MemSize
         /\ IsFill => ~Backward(call) /\ call.exprs \in [0..Length-1 -> SymExpr]
  BY CallFacts, ArgumentFacts DEF IsFill, Dest, Length, Src

\* The construction of an iterator, in any order, keeps the invariant.
LEMMA ConstructInv ==
  ASSUME CopyInv, NEW arg \in {"first", "last", "out"}, Construct(arg)
  PROVE  CopyInv'
  <1>1. /\ phase = "construct" /\ arg \in todo /\ todo' = todo \ {arg}
        /\ phase' = IF todo = {arg} THEN "walk" ELSE "construct"
        /\ call' = call /\ before' = before
    BY DEF Construct
  <1>2. call \in Calls /\ call # Idle
    BY <1>1 DEF CopyInv, TypeInv
  <1>3. /\ g_shadow_pages' \in [DOMAIN g_shadow_pages' -> ShadowPage]
        /\ DOMAIN g_shadow_pages \subseteq DOMAIN g_shadow_pages'
        /\ \A x \in Nat : ShadowAt(g_shadow_pages', x) = ShadowAt(g_shadow_pages, x)
        /\ Ready(todo)' /\ PointersInPage'
    BY ConstructReady
  <1>4. TypeInv'
    BY <1>1, <1>2, <1>3 DEF CopyInv, TypeInv
  <1>5. Constructed'
    <2>1. todo \subseteq DOMAIN Arguments(call) /\ DOMAIN Arguments(call)' = DOMAIN Arguments(call)
      BY <1>1 DEF CopyInv, Constructed, Arguments, Backward
    <2>2. todo' \subseteq DOMAIN Arguments(call)'
      BY <1>1, <2>1
    <2>3. phase' = "construct" => todo' # {}
      BY <1>1
    <2> QED BY <1>3, <2>2, <2>3 DEF Constructed
  <1>6. phase' = "walk" => Together(Progress)' /\ WrittenSoFar' = {}
    <2> SUFFICES ASSUME phase' = "walk" PROVE Together(Progress)' /\ WrittenSoFar' = {}
      OBVIOUS
    <2>1. todo' = {}
      BY <1>1
    <2> DEFINE d == Dest
               n == Length
               c == Src
               g == g_shadow_pages'
    <2>2. d \in Nat /\ n \in Nat /\ (IsFill => ~Backward(call))
      BY <1>2, CallNumbers
    <2>3. /\ IsFill' = IsFill /\ Dest' = d /\ Length' = n /\ Src' = c
          /\ Backward(call)' = Backward(call)
      BY <1>1, CallKept
    <2>4. /\ IsFill => WriteAt(g, first', d) /\ WriteAt(g, last', d + n)
          /\ ~IsFill => /\ ReadAt(g, before', first', c)
                        /\ ReadAt(g, before', last', c + n)
                        /\ WriteAt(g, out', IF Backward(call) THEN d + n ELSE d)
      BY <1>3, <2>1, <2>3 DEF Ready
    <2>5. Progress' = IF ~IsFill /\ Backward(call) THEN n ELSE 0
      <3>1. CASE IsFill
        BY <2>2, <2>3, <2>4, <3>1 DEF Progress, WriteAt
      <3>2. CASE ~IsFill
        BY <2>2, <2>3, <2>4, <3>2 DEF Progress, WriteAt
      <3> QED BY <3>1, <3>2
    <2>6. WrittenSoFar' = {}
      BY <2>2, <2>3, <2>5 DEF WrittenSoFar
    <2> HIDE DEF d, n, c, g
    <2>7. ~IsFill => c \in Nat
      BY <1>2, CallNumbers DEF c
    <2>8. CASE IsFill
      <3>1. Progress' = 0 /\ d + 0 = d
        BY <2>2, <2>5, <2>8
      <3>2. WriteAt(g, first', d + Progress') /\ WriteAt(g, last', d + n)
        BY <2>4, <2>8, <3>1
      <3> QED BY <2>2, <2>3, <2>6, <2>8, <3>1, <3>2 DEF Together, g
    <2>9. CASE ~IsFill /\ Backward(call)
      <3>1. Progress' = n
        BY <2>5, <2>9
      <3> QED BY <2>2, <2>3, <2>4, <2>6, <2>9, <3>1 DEF Together, g
    <2>10. CASE ~IsFill /\ ~Backward(call)
      <3>1. Progress' = 0 /\ d + 0 = d /\ c + 0 = c
        BY <2>2, <2>5, <2>7, <2>10
      <3>2. WriteAt(g, out', d + Progress') /\ ReadAt(g, before', first', c + Progress')
        BY <2>4, <2>10, <3>1
      <3> QED BY <2>2, <2>3, <2>4, <2>6, <2>10, <3>1, <3>2 DEF Together, g
    <2> QED BY <2>8, <2>9, <2>10
  <1>7. InStep'
    BY <1>6 DEF InStep
  <1>8. ShadowIsPartial'
    <2>1. WrittenSoFar = {} /\ WrittenSoFar' = {}
      BY <1>1, <1>6 DEF WrittenSoFar
    <2>2. \A x \in Addr : x \in Nat
      BY ShadowCopyAssumption DEF Addr
    <2>3. \A x \in Addr : ShadowAt(g_shadow_pages, x) = before[x]
      BY <1>2, <2>1 DEF CopyInv, ShadowIsPartial
    <2> QED BY <1>1, <1>2, <1>3, <2>1, <2>2, <2>3 DEF ShadowIsPartial
  <1> QED BY <1>3, <1>4, <1>5, <1>7, <1>8 DEF CopyInv

(***************************************************************************)
(* The walks.                                                              *)
(***************************************************************************)

\* A step that writes what it should at the next address.
LEMMA NextByte ==
  ASSUME CopyInv, call # Idle, call' = call, before' = before, NEW a \in Nat, NEW e,
         \A x \in Nat :
           ShadowAt(g_shadow_pages', x) = IF x = a THEN e ELSE ShadowAt(g_shadow_pages, x),
         DOMAIN g_shadow_pages \subseteq DOMAIN g_shadow_pages',
         pageStart(a) \in DOMAIN g_shadow_pages',
         e = Target(a), WrittenSoFar' = WrittenSoFar \cup {a}
  PROVE  ShadowIsPartial'
  <1>1. \A x \in Addr : x \in Nat
    BY ShadowCopyAssumption DEF Addr
  <1>2. \A x : Target(x)' = Target(x)
    BY DEF Target, IsFill, Dest, Src
  <1> QED BY <1>1, <1>2 DEF CopyInv, ShadowIsPartial

\* A step of a filling loop keeps the invariant.
LEMMA FillStepInv ==
  ASSUME CopyInv, FillStep
  PROVE  CopyInv'
  <1> DEFINE d == Dest
             n == Length
             p == Progress
             a == first.address
             e == call.exprs[a - d]
             h == Assign(g_shadow_pages, first, e)
             g == Entered(h, a, 1)
  <1>1. /\ phase = "walk" /\ a # last.address /\ IsFill
        /\ UNCHANGED <<call, phase, todo, last, out, before>>
    BY DEF FillStep, Walking, IsFill
  <1>2. g_shadow_pages' = g /\ first' = Moved(g, first, 1)
    BY DEF FillStep, Dest
  <1>3. call \in Calls /\ call # Idle
    BY <1>1 DEF CopyInv, TypeInv
  <1>4. /\ d \in Nat /\ n \in Nat /\ d + n <= MemSize /\ ~Backward(call)
        /\ call.exprs \in [0..n-1 -> SymExpr]
    BY <1>1, <1>3, CallNumbers
  <1>5. /\ p \in 0..n
        /\ WriteAt(g_shadow_pages, first, d + p) /\ WriteAt(g_shadow_pages, last, d + n)
    BY <1>1 DEF CopyInv, InStep, Together
  <1>6. a = d + p /\ p \in 0..n-1 /\ a \in Nat /\ a - d = p
    <2>1. a = d + p /\ last.address = d + n
      BY <1>5 DEF WriteAt
    <2> QED BY <1>1, <1>4, <1>5, <2>1
  <1>7. e = Target(a) /\ e \in SymExpr
    BY <1>1, <1>4, <1>6 DEF Target
  <1> HIDE DEF d, n, p, a, e
  <1>8. g_shadow_pages \in [DOMAIN g_shadow_pages -> ShadowPage]
    BY DEF CopyInv, TypeInv
  <1>9. /\ h \in [DOMAIN h -> ShadowPage] /\ DOMAIN h = DOMAIN g_shadow_pages
        /\ \A x \in Nat : ShadowAt(h, x) = IF x = a THEN e ELSE ShadowAt(g_shadow_pages, x)
    BY <1>5, <1>6, <1>7, <1>8, AssignFacts DEF WriteAt, a
  <1>10. pageStart(a) \in DOMAIN g_shadow_pages
    BY <1>5, <1>6 DEF WriteAt, Pointer
  <1> HIDE DEF h
  <1>11. /\ g \in [DOMAIN g -> ShadowPage] /\ DOMAIN h \subseteq DOMAIN g
         /\ pageStart(a + 1) \in DOMAIN g
         /\ \A x \in Nat : ShadowAt(g, x) = ShadowAt(h, x)
    BY <1>6, <1>9, <1>10, EnteredFacts
  <1> HIDE DEF g
  <1>12. WriteAt(g, first', a + 1) /\ WriteAt(g, last, d + n)
    BY <1>2, <1>5, <1>6, <1>9, <1>11, MovedFacts, AtGrows
  <1>13. first'.address = a + 1
    BY <1>12 DEF WriteAt
  <1>14. IsFill' = IsFill /\ Dest' = d /\ Length' = n /\ Backward(call)' = Backward(call)
    BY <1>1, CallKept DEF d, n
  <1>15. Progress' = p + 1 /\ p + 1 \in 0..n /\ d + (p + 1) = a + 1
    BY <1>1, <1>4, <1>6, <1>13, <1>14 DEF Progress
  <1>16. Together(Progress)'
    BY <1>1, <1>2, <1>12, <1>14, <1>15 DEF Together
  <1>17. WrittenSoFar' = WrittenSoFar \cup {a}
    <2>1. WrittenSoFar = d..d+p-1 /\ WrittenSoFar' = d..d+(p+1)-1
      BY <1>1, <1>14, <1>15 DEF WrittenSoFar, d, p
    <2> QED BY <1>4, <1>6, <2>1
  <1>18. ShadowIsPartial'
    <2>1. \A x \in Nat :
            ShadowAt(g_shadow_pages', x) = IF x = a THEN e ELSE ShadowAt(g_shadow_pages, x)
      BY <1>2, <1>9, <1>11
    <2>2. /\ DOMAIN g_shadow_pages \subseteq DOMAIN g_shadow_pages'
          /\ pageStart(a) \in DOMAIN g_shadow_pages'
      BY <1>2, <1>9, <1>10, <1>11
    <2> QED BY <1>1, <1>3, <1>6, <1>7, <1>17, <2>1, <2>2, NextByte
  <1>19. PointersInPage'
    <2>1. Pointer(g, first') /\ Pointer(g, last)
      BY <1>12 DEF WriteAt
    <2>2. Pointer(g, out)
      BY <1>9, <1>11 DEF CopyInv, PointersInPage, Pointer
    <2> QED BY <1>1, <1>2, <2>1, <2>2 DEF PointersInPage, Pointer
  <1>20. TypeInv'
    BY <1>1, <1>2, <1>11 DEF CopyInv, TypeInv
  <1>21. Constructed' /\ InStep'
    BY <1>1, <1>16 DEF Constructed, InStep
  <1> QED BY <1>18, <1>19, <1>20, <1>21 DEF CopyInv

\* A step of std::copy keeps the invariant.
LEMMA CopyStepInv ==
  ASSUME CopyInv, CopyStep
  PROVE  CopyInv'
  <1> DEFINE d == Dest
             n == Length
             c == Src
             p == Progress
             a == out.address
             e == Deref(g_shadow_pages, first)
             h == Assign(g_shadow_pages, out, e)
             g == Entered(h, a, 1)
  <1>1. /\ phase = "walk" /\ first.address # last.address /\ ~IsFill /\ ~Backward(call)
        /\ UNCHANGED <<call, phase, todo, last, before>>
    BY DEF CopyStep, Walking, IsFill
  <1>2. /\ g_shadow_pages' = g /\ out' = Moved(g, out, 1)
        /\ first' = Moved(h, first, 1) \/ first' = Moved(g, first, 1)
    BY DEF CopyStep
  <1>3. call \in Calls /\ call # Idle
    BY <1>1 DEF CopyInv, TypeInv
  <1>4. d \in Nat /\ n \in Nat /\ d + n <= MemSize /\ c \in Nat /\ c + n <= MemSize
    BY <1>1, <1>3, CallNumbers
  <1>5. /\ p \in 0..n
        /\ WriteAt(g_shadow_pages, out, d + p)
        /\ ReadAt(g_shadow_pages, before, first, c + p)
        /\ ReadAt(g_shadow_pages, before, last, c + n)
    BY <1>1 DEF CopyInv, InStep, Together
  <1>6. a = d + p /\ p \in 0..n-1 /\ a \in Nat /\ a - d = p /\ c + p \in Nat
    <2>1. a = d + p /\ first.address = c + p /\ last.address = c + n
      BY <1>5 DEF WriteAt, ReadAt
    <2> QED BY <1>1, <1>4, <1>5, <2>1
  <1>7. e = before[c + p] /\ e \in SymExpr
    BY <1>1, <1>5, <1>6, ReadOld
  <1>8. e = Target(a)
    BY <1>1, <1>6, <1>7 DEF Target
  <1> HIDE DEF d, n, c, p, a, e
  <1>9. g_shadow_pages \in [DOMAIN g_shadow_pages -> ShadowPage]
    BY DEF CopyInv, TypeInv
  <1>10. /\ h \in [DOMAIN h -> ShadowPage] /\ DOMAIN h = DOMAIN g_shadow_pages
         /\ \A x \in Nat : ShadowAt(h, x) = IF x = a THEN e ELSE ShadowAt(g_shadow_pages, x)
    BY <1>5, <1>6, <1>7, <1>9, AssignFacts DEF WriteAt, a
  <1>11. pageStart(a) \in DOMAIN g_shadow_pages
    BY <1>5, <1>6 DEF WriteAt, Pointer
  <1> HIDE DEF h
  <1>12. /\ g \in [DOMAIN g -> ShadowPage] /\ DOMAIN h \subseteq DOMAIN g
         /\ pageStart(a + 1) \in DOMAIN g
         /\ \A x \in Nat : ShadowAt(g, x) = ShadowAt(h, x)
    BY <1>6, <1>10, <1>11, EnteredFacts
  <1> HIDE DEF g
  <1>13. WriteAt(g, out', a + 1)
    BY <1>2, <1>5, <1>6, <1>10, <1>12, MovedFacts
  <1>14. OldPages(h, before) /\ OldPages(g, before)
    <2>1. OldPages(g_shadow_pages, before)
      BY <1>3, NoNewPages
    <2> QED BY <1>10, <1>12, <2>1 DEF OldPages
  <1>15. ReadAt(g, before, first', c + p + 1) /\ ReadAt(g, before, last, c + n)
    <2> DEFINE b == c + p
    <2>1. b \in Nat /\ b + 1 \in Nat
      BY <1>6
    <2>2. ReadAt(g_shadow_pages, before, first, b)
      BY <1>5
    <2> HIDE DEF b
    <2>3. ReadAt(h, before, Moved(h, first, 1), b + 1)
      BY <1>10, <1>14, <2>1, <2>2, MovedFacts
    <2>4. ReadAt(g, before, Moved(h, first, 1), b + 1)
      BY <1>12, <2>3, AtGrows
    <2>5. ReadAt(g, before, Moved(g, first, 1), b + 1)
      BY <1>10, <1>12, <1>14, <2>1, <2>2, MovedFacts
    <2>6. ReadAt(g, before, last, c + n)
      BY <1>5, <1>10, <1>12, AtGrows
    <2> QED BY <1>2, <2>4, <2>5, <2>6 DEF b
  <1>16. out'.address = a + 1
    BY <1>13 DEF WriteAt
  <1>17. /\ IsFill' = IsFill /\ Dest' = d /\ Length' = n /\ Src' = c
         /\ Backward(call)' = Backward(call)
    BY <1>1, CallKept DEF d, n, c
  <1>18. /\ Progress' = p + 1 /\ p + 1 \in 0..n /\ d + (p + 1) = a + 1
         /\ c + (p + 1) = c + p + 1
    BY <1>1, <1>4, <1>6, <1>16, <1>17 DEF Progress
  <1>19. Together(Progress)'
    BY <1>1, <1>2, <1>13, <1>15, <1>17, <1>18 DEF Together
  <1>20. WrittenSoFar' = WrittenSoFar \cup {a}
    <2>1. WrittenSoFar = d..d+p-1 /\ WrittenSoFar' = d..d+(p+1)-1
      BY <1>1, <1>17, <1>18 DEF WrittenSoFar, d, p
    <2> QED BY <1>4, <1>6, <2>1
  <1>21. ShadowIsPartial'
    <2>1. \A x \in Nat :
            ShadowAt(g_shadow_pages', x) = IF x = a THEN e ELSE ShadowAt(g_shadow_pages, x)
      BY <1>2, <1>10, <1>12
    <2>2. /\ DOMAIN g_shadow_pages \subseteq DOMAIN g_shadow_pages'
          /\ pageStart(a) \in DOMAIN g_shadow_pages'
      BY <1>2, <1>10, <1>11, <1>12
    <2> QED BY <1>1, <1>3, <1>6, <1>8, <1>20, <2>1, <2>2, NextByte
  <1>22. PointersInPage'
    <2>1. Pointer(g, first') /\ Pointer(g, last) /\ Pointer(g, out')
      BY <1>13, <1>15 DEF WriteAt, ReadAt
    <2> QED BY <1>1, <1>2, <2>1 DEF PointersInPage, Pointer
  <1>23. TypeInv'
    BY <1>1, <1>2, <1>12 DEF CopyInv, TypeInv
  <1>24. Constructed' /\ InStep'
    BY <1>1, <1>19 DEF Constructed, InStep
  <1> QED BY <1>21, <1>22, <1>23, <1>24 DEF CopyInv

\* A step of std::copy_backward keeps the invariant.
LEMMA CopyBackwardStepInv ==
  ASSUME CopyInv, CopyBackwardStep
  PROVE  CopyInv'
  <1> DEFINE d == Dest
             n == Length
             c == Src
             p == Progress
             b == out.address
             a == b - 1
             g == Entered(g_shadow_pages, b, -1)
             o == Moved(g, out, -1)
  <1>1. /\ phase = "walk" /\ first.address # last.address /\ Backward(call)
        /\ UNCHANGED <<call, phase, todo, first, before>>
    BY DEF CopyBackwardStep, Walking
  <1>2. PICK l \in {Moved(g_shadow_pages, last, -1), Moved(g, last, -1)} :
          /\ last' = l
          /\ out' = o
          /\ g_shadow_pages' = Assign(g, o, Deref(g, l))
    BY DEF CopyBackwardStep
  <1> DEFINE e == Deref(g, l)
             h == Assign(g, o, e)
  <1>3. call \in Calls /\ call # Idle
    BY <1>1 DEF CopyInv, TypeInv
  <1>4. /\ d \in Nat /\ n \in Nat /\ d + n <= MemSize /\ c \in Nat /\ c + n <= MemSize
        /\ ~IsFill
    BY <1>1, <1>3, CallNumbers
  <1>5. /\ p \in 0..n
        /\ WriteAt(g_shadow_pages, out, d + p)
        /\ ReadAt(g_shadow_pages, before, first, c)
        /\ ReadAt(g_shadow_pages, before, last, c + p)
    BY <1>1, <1>4 DEF CopyInv, InStep, Together
  <1>6. /\ b = d + p /\ p \in 1..n /\ b \in Nat /\ a \in Nat /\ a - d = p - 1
        /\ b + -1 = a /\ c + p \in Nat /\ c + p + -1 = c + (p - 1) /\ c + (p - 1) \in Nat
        /\ p - 1 \in 0..n-1 /\ d + (p - 1) = a
    <2>1. b = d + p /\ first.address = c /\ last.address = c + p
      BY <1>5 DEF WriteAt, ReadAt
    <2>2. p # 0
      BY <1>1, <1>4, <2>1
    <2> QED BY <1>1, <1>4, <1>5, <2>1, <2>2
  <1>7. g_shadow_pages \in [DOMAIN g_shadow_pages -> ShadowPage]
    BY DEF CopyInv, TypeInv
  <1> HIDE DEF d, n, c, a, b
  <1>8. pageStart(b) \in DOMAIN g_shadow_pages
    BY <1>5, <1>6 DEF WriteAt, Pointer
  <1>9. /\ g \in [DOMAIN g -> ShadowPage] /\ DOMAIN g_shadow_pages \subseteq DOMAIN g
        /\ pageStart(a) \in DOMAIN g
        /\ \A x \in Nat : ShadowAt(g, x) = ShadowAt(g_shadow_pages, x)
    BY <1>6, <1>7, <1>8, EnteredFacts
  <1> HIDE DEF g
  <1>10. WriteAt(g, o, a)
    BY <1>5, <1>6, <1>9, MovedFacts
  <1> HIDE DEF o
  <1>11. OldPages(g_shadow_pages, before) /\ OldPages(g, before)
    <2>1. OldPages(g_shadow_pages, before)
      BY <1>3, NoNewPages
    <2> QED BY <1>9, <2>1 DEF OldPages
  <1>12. ReadAt(g, before, l, c + (p - 1)) /\ ReadAt(g, before, first, c)
    <2> DEFINE f == c + p
               k == c + (p - 1)
    <2>1. f \in Nat /\ f + -1 = k /\ k \in Nat
      BY <1>6
    <2>2. ReadAt(g_shadow_pages, before, last, f)
      BY <1>5
    <2> HIDE DEF f, k
    <2>3. ReadAt(g_shadow_pages, before, Moved(g_shadow_pages, last, -1), k)
      BY <1>11, <2>1, <2>2, MovedFacts
    <2>4. ReadAt(g, before, Moved(g_shadow_pages, last, -1), k)
      BY <1>9, <2>3, AtGrows
    <2>5. ReadAt(g, before, Moved(g, last, -1), k)
      BY <1>9, <1>11, <2>1, <2>2, MovedFacts
    <2>6. ReadAt(g, before, first, c)
      BY <1>5, <1>9, AtGrows
    <2> QED BY <1>2, <2>4, <2>5, <2>6 DEF k
  <1>13. e = before[c + (p - 1)] /\ e \in SymExpr
    <2> DEFINE i == p - 1
    <2>1. i \in 0..Length-1 /\ i < Progress
      BY <1>6 DEF n
    <2>2. ReadAt(g, before, l, Src + i)
      BY <1>12 DEF c
    <2> HIDE DEF i
    <2>3. Deref(g, l) = before[Src + i] /\ before[Src + i] \in SymExpr
      BY <1>1, <1>4, <1>9, <2>1, <2>2, ReadOld
    <2> QED BY <2>3 DEF i, c
  <1>14. e = Target(a)
    BY <1>4, <1>6, <1>13 DEF Target, c, d
  <1> HIDE DEF e, p
  <1>15. /\ h \in [DOMAIN h -> ShadowPage] /\ DOMAIN h = DOMAIN g
         /\ \A x \in Nat : ShadowAt(h, x) = IF x = a THEN e ELSE ShadowAt(g, x)
    <2>1. o.address = a /\ Pointer(g, o) /\ o.shadow # nil
      BY <1>10 DEF WriteAt
    <2> QED BY <1>6, <1>9, <1>13, <2>1, AssignFacts
  <1>16. g_shadow_pages' = h
    BY <1>2 DEF e
  <1> HIDE DEF h
  <1>17. /\ WriteAt(h, out', a) /\ ReadAt(h, before, last', c + (p - 1))
         /\ ReadAt(h, before, first, c)
    BY <1>2, <1>10, <1>12, <1>15, AtGrows
  <1>18. out'.address = a
    BY <1>17 DEF WriteAt
  <1>19. /\ IsFill' = IsFill /\ Dest' = d /\ Length' = n /\ Src' = c
         /\ Backward(call)' = Backward(call)
    BY <1>1, CallKept DEF d, n, c
  <1>20. Progress' = p - 1 /\ p - 1 \in 0..n
    BY <1>4, <1>6, <1>18, <1>19 DEF Progress
  <1>21. Together(Progress)'
    BY <1>1, <1>4, <1>6, <1>16, <1>17, <1>19, <1>20 DEF Together
  <1>22. WrittenSoFar' = WrittenSoFar \cup {a}
    <2>1. WrittenSoFar = d+p..d+n-1 /\ WrittenSoFar' = d+(p-1)..d+n-1
      BY <1>1, <1>4, <1>19, <1>20 DEF WrittenSoFar, d, n, p
    <2> QED BY <1>4, <1>6, <2>1
  <1>23. ShadowIsPartial'
    <2>1. \A x \in Nat :
            ShadowAt(g_shadow_pages', x) = IF x = a THEN e ELSE ShadowAt(g_shadow_pages, x)
      BY <1>9, <1>15, <1>16
    <2>2. /\ DOMAIN g_shadow_pages \subseteq DOMAIN g_shadow_pages'
          /\ pageStart(a) \in DOMAIN g_shadow_pages'
      BY <1>9, <1>15, <1>16
    <2> QED BY <1>1, <1>3, <1>6, <1>14, <1>22, <2>1, <2>2, NextByte
  <1>24. PointersInPage'
    <2>1. Pointer(h, first) /\ Pointer(h, last') /\ Pointer(h, out')
      BY <1>17 DEF WriteAt, ReadAt
    <2> QED BY <1>1, <1>16, <2>1 DEF PointersInPage, Pointer
  <1>25. TypeInv'
    BY <1>1, <1>15, <1>16 DEF CopyInv, TypeInv
  <1>26. Constructed' /\ InStep'
    BY <1>1, <1>21 DEF Constructed, InStep
  <1> QED BY <1>23, <1>24, <1>25, <1>26 DEF CopyInv

(***************************************************************************)
(* Theorems.                                                               *)
(***************************************************************************)

\* Every step keeps the invariant.
LEMMA NextInv == CopyInv /\ [Next]_vars => CopyInv'
  <1> SUFFICES ASSUME CopyInv, [Next]_vars PROVE CopyInv'
    OBVIOUS
  <1>1. CASE Next
    <2>1. CASE ReturnEarly \/ Finish
      BY <2>1, DoneInv DEF ReturnEarly, Finish
    <2> QED BY <1>1, <2>1, StartInv, EnterInv, ConstructInv, FillStepInv, CopyStepInv,
               CopyBackwardStepInv DEF Next, Step
  <1>2. CASE UNCHANGED vars
    <2>1. UNCHANGED <<g_shadow_pages, call, phase, todo, first, last, out, before>>
      BY <1>2 DEF vars
    <2>2. TypeInv'
      BY <2>1 DEF CopyInv, TypeInv
    <2>3. PointersInPage'
      BY <2>1, PointersKept DEF CopyInv
    <2>4. /\ IsFill' = IsFill /\ Dest' = Dest /\ Length' = Length /\ Src' = Src
          /\ Backward(call)' = Backward(call)
      BY <2>1, CallKept
    <2>5. Progress' = Progress
      BY <2>1, <2>4 DEF Progress
    <2>6. Constructed'
      BY <2>1, <2>4 DEF CopyInv, Constructed, Ready, Arguments
    <2>7. InStep'
      BY <2>1, <2>4, <2>5 DEF CopyInv, InStep, Together
    <2>8. WrittenSoFar' = WrittenSoFar
      BY <2>1, <2>4, <2>5 DEF WrittenSoFar
    <2>9. ShadowIsPartial'
      BY <2>1, <2>4, <2>8 DEF CopyInv, ShadowIsPartial, Target, Flat
    <2> QED BY <2>2, <2>3, <2>6, <2>7, <2>9 DEF CopyInv
  <1> QED BY <1>1, <1>2

\* At every step of a walk the shadow is the old one with the result of the
\* call in the part that has been passed, the iterators are in step, and nil
\* pointers belong to pages that had no shadow when the call was made.
THEOREM CopyInvariance == Spec => []CopyInv
  BY InitInv, NextInv, PTL DEF Spec

\* No cached pointer of an iterator ever points to another slot than that of
\* the iterator's address, in whatever order the pages come into being.
THEOREM PointersCorrect == Spec => []PointersInPage
  <1>1. CopyInv => PointersInPage
    BY DEF CopyInv
  <1> QED BY <1>1, CopyInvariance, PTL

\* What std::copy and std::copy_backward read next is what was there when the
\* call was made, for all overlapping and disjoint regions.
THEOREM ReadsCorrect == Spec => []ReadsOldExpression
  <1>1. CopyInv => ReadsOldExpression
    <2> SUFFICES ASSUME CopyInv, Walking, call.kind # "fill"
                 PROVE  LET it == IF Backward(call) THEN Moved(g_shadow_pages, last, -1)
                                  ELSE first
                        IN  Deref(g_shadow_pages, it) = before[it.address]
      BY DEF ReadsOldExpression
    <2> DEFINE g == g_shadow_pages
               c == Src
               n == Length
               p == Progress
    <2>1. phase = "walk" /\ first.address # last.address /\ ~IsFill
      BY DEF Walking, IsFill
    <2>2. call \in Calls /\ call # Idle
      BY <2>1 DEF CopyInv, TypeInv
    <2>3. c \in Nat /\ n \in Nat
      BY <2>1, <2>2, CallNumbers
    <2>4. Together(p)
      BY <2>1 DEF CopyInv, InStep
    <2>5. CASE Backward(call)
      <3>1. /\ p \in 0..n
            /\ ReadAt(g, before, first, c) /\ ReadAt(g, before, last, c + p)
        BY <2>1, <2>4, <2>5 DEF Together
      <3>2. p # 0
        BY <2>1, <2>3, <3>1 DEF ReadAt
      <3> DEFINE a == c + p
                 i == p - 1
      <3>3. /\ a \in Nat /\ a + -1 = c + i /\ a + -1 \in Nat
            /\ i \in 0..Length-1 /\ i < Progress
        BY <2>3, <3>1, <3>2
      <3>4. OldPages(g, before) /\ ReadAt(g, before, last, a)
        BY <2>2, <3>1, NoNewPages
      <3> HIDE DEF a
      <3>5. ReadAt(g, before, Moved(g, last, -1), a + -1)
        BY <3>3, <3>4, MovedFacts
      <3> HIDE DEF i
      <3>6. ReadAt(g, before, Moved(g, last, -1), c + i)
        BY <3>3, <3>5
      <3>7. Deref(g, Moved(g, last, -1)) = before[Src + i]
        BY <2>1, <2>5, <3>3, <3>6, ReadOld
      <3>8. Moved(g, last, -1).address = c + i
        BY <3>6 DEF ReadAt
      <3> QED BY <2>5, <3>7, <3>8
    <2>6. CASE ~Backward(call)
      <3>1. /\ p \in 0..n
            /\ ReadAt(g, before, first, c + p) /\ ReadAt(g, before, last, c + n)
        BY <2>1, <2>4, <2>6 DEF Together
      <3>2. first.address = c + p /\ p \in 0..n-1
        BY <2>1, <2>3, <3>1 DEF ReadAt
      <3>3. Deref(g, first) = before[Src + p]
        BY <2>1, <2>6, <3>1, <3>2, ReadOld
      <3> QED BY <2>6, <3>2, <3>3
    <2> QED BY <2>5, <2>6
  <1> QED BY <1>1, CopyInvariance, PTL

(***************************************************************************)
(* Refinement of FlatShadow.                                               *)
(***************************************************************************)

\* The flat array that the caller sees.
Seen == IF call = Idle THEN Flat(g_shadow_pages) ELSE before

\* A call that returns with its result in place.
LEMMA ReturnsResult ==
  ASSUME CopyInv, call # Idle, Done, UNCHANGED g_shadow_pages,
         \A x \in Addr :
           ShadowAt(g_shadow_pages, x) =
             IF x \in Dest..Dest+Length-1 THEN Target(x) ELSE before[x]
  PROVE  Abstract!Finish
  <1>1. Seen' = Flat(g_shadow_pages) /\ call' = Idle
    BY DEF Seen, Done, Flat
  <1>2. ASSUME NEW x \in Addr
        PROVE  Abstract!Result(call, x) = ShadowAt(g_shadow_pages, x)
    BY <1>2 DEF Abstract!Result, Target, IsFill, Dest, Src, Length
  <1>3. Flat(g_shadow_pages) = [x \in Addr |-> Abstract!Result(call, x)]
    BY <1>2 DEF Flat
  <1> QED BY <1>1, <1>3 DEF Abstract!Finish, Seen

\* An early return is a bulk assignment that changes nothing.
LEMMA ReturnEarlyRefines ==
  ASSUME CopyInv, ReturnEarly
  PROVE  Abstract!Finish
  <1>1. call # Idle /\ phase = "check" /\ NothingSymbolic(call) /\ Done
        /\ UNCHANGED g_shadow_pages /\ call \in Calls
    BY DEF ReturnEarly, CopyInv, TypeInv
  <1>2. /\ Dest \in Nat /\ Length \in Nat
        /\ ~IsFill => Src \in Nat /\ Src + Length <= MemSize
    BY <1>1, CallNumbers
  <1>3. \A x \in Addr : ShadowAt(g_shadow_pages, x) = before[x]
    BY <1>1 DEF CopyInv, ShadowIsPartial, WrittenSoFar
  <1>4. /\ RegionConcrete(g_shadow_pages, Dest, Length)
        /\ IsFill => \A i \in 0..Length-1 : call.exprs[i] = Null
        /\ ~IsFill => RegionConcrete(g_shadow_pages, Src, Length)
    BY <1>1 DEF NothingSymbolic, IsFill, Dest, Src, Length
  <1>5. ASSUME NEW x \in Addr, x \in Dest..Dest+Length-1
        PROVE  ShadowAt(g_shadow_pages, x) = Target(x)
    <2>1. ShadowAt(g_shadow_pages, x) = Null
      BY <1>2, <1>4, <1>5, ConcreteRegion
    <2>2. CASE IsFill
      <3>1. x - Dest \in 0..Length-1
        BY <1>2, <1>5
      <3> QED BY <1>4, <2>1, <2>2, <3>1 DEF Target
    <2>3. CASE ~IsFill
      <3> DEFINE y == Src + (x - Dest)
      <3>1. y \in Src..Src+Length-1 /\ y \in Addr
        BY <1>2, <1>5, <2>3, ShadowCopyAssumption DEF Addr
      <3>2. ShadowAt(g_shadow_pages, y) = Null
        BY <1>2, <1>4, <2>3, <3>1, ConcreteRegion
      <3>3. before[y] = Null
        BY <1>3, <3>1, <3>2
      <3> QED BY <2>1, <2>3, <3>3 DEF Target
    <2> QED BY <2>2, <2>3
  <1> QED BY <1>1, <1>3, <1>5, ReturnsResult

\* When the loop ends, the shadow is what the bulk assignment makes of it.
LEMMA FinishRefines ==
  ASSUME CopyInv, Finish
  PROVE  Abstract!Finish
  <1>1. phase = "walk" /\ first.address = last.address /\ Done
        /\ UNCHANGED g_shadow_pages /\ call \in Calls /\ call # Idle
    BY DEF Finish, CopyInv, TypeInv
  <1>2. /\ Dest \in Nat /\ Length \in Nat /\ (IsFill => ~Backward(call))
        /\ ~IsFill => Src \in Nat
    BY <1>1, CallNumbers
  <1>3. Together(Progress)
    BY <1>1 DEF CopyInv, InStep
  <1>4. Progress = IF ~IsFill /\ Backward(call) THEN 0 ELSE Length
    BY <1>1, <1>2, <1>3 DEF Together, ReadAt, WriteAt
  <1>5. WrittenSoFar = Dest..Dest+Length-1
    BY <1>1, <1>2, <1>4 DEF WrittenSoFar
  <1>6. \A x \in Addr :
          ShadowAt(g_shadow_pages, x) =
            IF x \in Dest..Dest+Length-1 THEN Target(x) ELSE before[x]
    BY <1>1, <1>5 DEF CopyInv, ShadowIsPartial
  <1> QED BY <1>1, <1>6, ReturnsResult

\* Seen from the caller, every call of memcpy, memmove, memset and the like is
\* one assignment to a flat array: the safety part of FlatShadow, step by step.
THEOREM RefinesFlatShadow == Spec => Abstract!Safety
  <1>1. Init => Abstract!Init
    <2> SUFFICES ASSUME Init PROVE Abstract!Init
      OBVIOUS
    <2>1. CopyInv
      BY InitInv
    <2>2. Flat(g_shadow_pages) \in [Addr -> SymExpr] /\ call = Idle
      BY <2>1, FlatType DEF CopyInv, TypeInv, Init
    <2> QED BY <2>2 DEF Abstract!Init
  <1>2. CopyInv /\ [Next]_vars => [Abstract!Next]_(Abstract!vars)
    <2> SUFFICES ASSUME CopyInv, [Next]_vars
                 PROVE  Abstract!Next \/ (Seen' = Seen /\ call' = call)
      BY DEF Abstract!vars, Seen
    <2>1. ASSUME NEW c \in Calls, Start(c)
          PROVE  Abstract!Start(c)
      <3>1. call = Idle /\ call' = c /\ c # Idle /\ before' = Flat(g_shadow_pages)
        BY <2>1, CallFacts DEF Start
      <3>2. Seen' = Seen
        BY <3>1 DEF Seen
      <3> QED BY <3>1, <3>2 DEF Abstract!Start, Seen
    <2>2. CASE \/ Enter \/ FillStep \/ CopyStep \/ CopyBackwardStep
               \/ \E arg \in {"first", "last", "out"} : Construct(arg)
      <3>1. call # Idle
        BY <2>2 DEF Enter, FillStep, CopyStep, CopyBackwardStep, Construct, Walking,
                    CopyInv, TypeInv
      <3>2. call' = call /\ before' = before
        BY <2>2 DEF Enter, FillStep, CopyStep, CopyBackwardStep, Construct
      <3> QED BY <3>1, <3>2 DEF Seen
    <2>3. CASE ReturnEarly \/ Finish
      BY <2>3, ReturnEarlyRefines, FinishRefines DEF Abstract!Next
    <2>4. CASE UNCHANGED vars
      BY <2>4 DEF vars, Seen, Flat
    <2>5. (\E c \in Calls : Start(c)) => Abstract!Next
      BY <2>1 DEF Abstract!Next
    <2> QED BY <2>2, <2>3, <2>4, <2>5 DEF Next, Step
  <1> QED BY <1>1, <1>2, CopyInvariance, PTL DEF Spec, Abstract!Safety
=============================================================================
