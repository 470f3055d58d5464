----------------------------- MODULE ShadowCopy -----------------------------
(***************************************************************************)
(* How the run-time library walks shadow memory: std::copy,                *)
(* std::copy_backward and std::fill/std::generate over the iterators of    *)
(* runtime/Shadow.h, step by step.                                         *)
(*                                                                         *)
(* An iterator caches a pointer into the shadow page of its address (nil   *)
(* if the page had no shadow when it was looked up) and looks the page up  *)
(* again only when it crosses a page boundary.  A write iterator allocates *)
(* the page it enters.  Source and destination may overlap and may share   *)
(* pages, so a page may come into being while an iterator that walks the   *)
(* same page holds nil.                                                    *)
(*                                                                         *)
(* C++ does not say in which order the iterators passed to an algorithm    *)
(* are constructed, nor which of two iterators a loop moves first; both    *)
(* are free here.                                                          *)
(***************************************************************************)
EXTENDS ShadowPages

CONSTANTS
  MemSize,  \* addresses are 0 .. MemSize-1
  MaxLen,   \* longest region of a call
  Expr,     \* non-null expressions
  Idle      \* no call is running

ASSUME ShadowCopyAssumption ==
  MemSize \in Nat /\ MaxLen \in Nat /\ Null \notin Expr

Addr == 0..MemSize-1
SymExpr == Expr \cup {Null}

Fits(a, n) == a + n <= MemSize
Disjoint(d, s, n) == d + n <= s \/ s + n <= d

\* Calls of _sym_memcpy, _sym_memmove and of the operations that write given
\* expressions (_sym_memset, _sym_write_memory, _sym_make_symbolic).
Fills == UNION {[kind: {"fill"}, dest: {d \in Addr : Fits(d, n)}, length: {n},
                 exprs: [0..n-1 -> SymExpr]] : n \in 0..MaxLen}
Copies ==
  {c \in [kind: {"memcpy", "memmove"}, dest: Addr, src: Addr, length: 0..MaxLen] :
     /\ Fits(c.dest, c.length) /\ Fits(c.src, c.length)
     /\ c.kind = "memcpy" => Disjoint(c.dest, c.src, c.length)}
Calls == Fills \cup Copies

ASSUME IdleAssumption == Idle \notin Calls

VARIABLES
  g_shadow_pages,
  call,    \* the running call, or Idle
  phase,   \* "check", "construct" or "walk"
  todo,    \* iterators still to be constructed
  first, last, out,  \* the iterators of the algorithm
  before   \* history: the shadow when the call was made

vars == <<g_shadow_pages, call, phase, todo, first, last, out, before>>

nil == <<>>
NoIterator == [address |-> 0, shadow |-> nil]

(***************************************************************************)
(* Iterators.                                                              *)
(***************************************************************************)

getShadow(g, a) ==
  IF pageStart(a) \in DOMAIN g THEN <<pageStart(a), pageOffset(a)>> ELSE nil

getOrCreateShadow(g, a) ==
  [p \in DOMAIN g \cup {pageStart(a)} |->
     IF p \in DOMAIN g THEN g[p] ELSE EmptyPage]

Iterator(g, a) == [address |-> a, shadow |-> getShadow(g, a)]

\* Faulty variant: the pointer moves on past the end of its page.
MovedAcross(g, it, by) ==
  [address |-> it.address + by,
   shadow  |-> IF it.shadow = nil THEN getShadow(g, it.address + by)
               ELSE <<it.shadow[1], it.shadow[2] + by>>]

\* operator++ (by = 1) and operator-- (by = -1).  A write iterator behaves the
\* same once the page it enters exists in g.
Moved(g, it, by) ==
  LET a == it.address + by IN
  [address |-> a,
   shadow  |-> IF pageStart(a) # pageStart(it.address) THEN getShadow(g, a)
               ELSE IF it.shadow = nil THEN nil
               ELSE <<it.shadow[1], it.shadow[2] + by>>]

\* The map once a write iterator has moved from address a by one byte.
Entered(g, a, by) ==
  IF pageStart(a + by) # pageStart(a) THEN getOrCreateShadow(g, a + by) ELSE g

Deref(g, it) ==
  IF it.shadow = nil THEN Null ELSE g[it.shadow[1]][it.shadow[2]]

Assign(g, it, e) == [g EXCEPT ![it.shadow[1]][it.shadow[2]] = e]

(***************************************************************************)
(* A call.                                                                 *)
(***************************************************************************)

Flat(g) == [a \in Addr |-> ShadowAt(g, a)]

\* Faulty variant: the wrong direction for overlapping regions.
NeverBackward(c) == FALSE

\* memmove copies backward if the destination lies above the source.
Backward(c) == c.kind = "memmove" /\ c.dest > c.src

\* Which iterators the algorithm of a call is given, and where they start.
Arguments(c) ==
  CASE c.kind = "fill" ->
         [first |-> c.dest, last |-> c.dest + c.length]
    [] Backward(c) ->
         [first |-> c.src, last |-> c.src + c.length, out |-> c.dest + c.length]
    [] OTHER ->
         [first |-> c.src, last |-> c.src + c.length, out |-> c.dest]

\* The arguments that are write iterators.
Writes(c) == IF c.kind = "fill" THEN {"first", "last"} ELSE {"out"}

Start(c) ==
  /\ call = Idle
  /\ call' = c
  /\ phase' = "check"
  /\ before' = Flat(g_shadow_pages)
  /\ UNCHANGED <<g_shadow_pages, todo, first, last, out>>

Done ==
  /\ call' = Idle /\ phase' = "check" /\ todo' = {}
  /\ first' = NoIterator /\ last' = NoIterator /\ out' = NoIterator
  /\ before' = Flat(g_shadow_pages)

\* Faulty variant: the old expressions of the destination are forgotten.
NothingSymbolicToCopy(c) ==
  IF c.kind = "fill"
  THEN \A i \in 0..c.length-1 : c.exprs[i] = Null
  ELSE RegionConcrete(g_shadow_pages, c.src, c.length)

\* The early returns: nothing to do if no expression is involved.
NothingSymbolic(c) ==
  IF c.kind = "fill"
  THEN /\ \A i \in 0..c.length-1 : c.exprs[i] = Null
       /\ RegionConcrete(g_shadow_pages, c.dest, c.length)
  ELSE /\ RegionConcrete(g_shadow_pages, c.src, c.length)
       /\ RegionConcrete(g_shadow_pages, c.dest, c.length)

ReturnEarly ==
  /\ call # Idle /\ phase = "check"
  /\ NothingSymbolic(call)
  /\ Done
  /\ UNCHANGED g_shadow_pages

Enter ==
  /\ call # Idle /\ phase = "check"
  /\ ~NothingSymbolic(call)
  /\ phase' = "construct"
  /\ todo' = DOMAIN Arguments(call)
  /\ UNCHANGED <<g_shadow_pages, call, first, last, out, before>>

Construct(arg) ==
  /\ phase = "construct" /\ arg \in todo
  /\ LET a == Arguments(call)[arg]
         g == IF arg \in Writes(call)
              THEN getOrCreateShadow(g_shadow_pages, a)
              ELSE g_shadow_pages
     IN  /\ g_shadow_pages' = g
         /\ first' = IF arg = "first" THEN Iterator(g, a) ELSE first
         /\ last' = IF arg = "last" THEN Iterator(g, a) ELSE last
         /\ out' = IF arg = "out" THEN Iterator(g, a) ELSE out
  /\ todo' = todo \ {arg}
  /\ phase' = IF todo = {arg} THEN "walk" ELSE "construct"
  /\ UNCHANGED <<call, before>>

Walking == phase = "walk" /\ first.address # last.address

\* std::fill, std::generate and the range-for of _sym_write_memory.
FillStep ==
  /\ Walking /\ call.kind = "fill"
  /\ LET e == call.exprs[first.address - call.dest]
         g == Entered(Assign(g_shadow_pages, first, e), first.address, 1)
     IN  /\ g_shadow_pages' = g
         /\ first' = Moved(g, first, 1)
  /\ UNCHANGED <<call, phase, todo, last, out, before>>

\* std::copy.  The source iterator moves before or after the destination page
\* has been created.
CopyStep ==
  /\ Walking /\ call.kind # "fill" /\ ~Backward(call)
  /\ LET h == Assign(g_shadow_pages, out, Deref(g_shadow_pages, first))
         g == Entered(h, out.address, 1)
     IN  /\ g_shadow_pages' = g
         /\ out' = Moved(g, out, 1)
         /\ first' \in {Moved(h, first, 1), Moved(g, first, 1)}
  /\ UNCHANGED <<call, phase, todo, last, before>>

\* std::copy_backward: *--result = *--last.
CopyBackwardStep ==
  /\ Walking /\ Backward(call)
  /\ LET g == Entered(g_shadow_pages, out.address, -1)
         o == Moved(g, out, -1)
     IN  \E l \in {Moved(g_shadow_pages, last, -1), Moved(g, last, -1)} :
           /\ last' = l
           /\ out' = o
           /\ g_shadow_pages' = Assign(g, o, Deref(g, l))
  /\ UNCHANGED <<call, phase, todo, first, before>>

Finish ==
  /\ phase = "walk" /\ first.address = last.address
  /\ Done
  /\ UNCHANGED g_shadow_pages

Init ==
  /\ g_shadow_pages = [p \in {} |-> EmptyPage]
  /\ call = Idle /\ phase = "check" /\ todo = {}
  /\ first = NoIterator /\ last = NoIterator /\ out = NoIterator
  /\ before = Flat(g_shadow_pages)

Step ==
  \/ ReturnEarly \/ Enter \/ Finish
  \/ \E arg \in {"first", "last", "out"} : Construct(arg)
  \/ FillStep \/ CopyStep \/ CopyBackwardStep

Next == Step \/ \E c \in Calls : Start(c)

\* The library code runs to completion on the thread that called it.
Spec == Init /\ [][Next]_vars /\ WF_vars(Step)

-----------------------------------------------------------------------------

\* Every iterator that points anywhere points at the slot of its address, at
\* every step of a walk: no pointer is left behind or runs past its page.
PointersInPage ==
  \A it \in {first, last, out} :
    it.shadow # nil =>
      /\ it.shadow = <<pageStart(it.address), pageOffset(it.address)>>
      /\ it.shadow[1] \in DOMAIN g_shadow_pages

\* A source byte is read before the walk overwrites it, also through a pointer
\* that was cached as nil before the destination created the page: the next
\* read yields the expression that the byte had when the call was made
\* (_sym_memmove's choice of direction).
ReadsOldExpression ==
  Walking /\ call.kind # "fill" =>
    LET it == IF Backward(call) THEN Moved(g_shadow_pages, last, -1) ELSE first
    IN  Deref(g_shadow_pages, it) = before[it.address]

\* Seen from the caller, a call is one assignment to a flat array, and it
\* returns.
Abstract == INSTANCE FlatShadow WITH
  shadow <- IF call = Idle THEN Flat(g_shadow_pages) ELSE before

ImplementsFlatShadow == Abstract!Spec
=============================================================================
