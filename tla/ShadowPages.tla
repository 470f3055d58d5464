----------------------------- MODULE ShadowPages ----------------------------
(***************************************************************************)
(* The page table of the shadow memory (runtime/Shadow.h) as operators on  *)
(* a page map g: page start -> the expressions of the bytes of the page.   *)
(* Only pages that were written through a shadow iterator are in the map.  *)
(***************************************************************************)
EXTENDS Integers

CONSTANTS
  kPageSize,  \* bytes per page
  Null        \* the null expression

ASSUME PageSizeAssumption == kPageSize \in Nat \ {0}

pageOffset(a) == a % kPageSize
pageStart(a) == a - pageOffset(a)

\* The expression of the byte at a; null if its page has no shadow.
ShadowAt(g, a) ==
  IF pageStart(a) \in DOMAIN g THEN g[pageStart(a)][pageOffset(a)] ELSE Null

\* A new page starts out null.
EmptyPage == [o \in 0..kPageSize-1 |-> Null]

\* Walking a write iterator over n bytes allocates the page of every byte it
\* visits and of the byte one past the end, where the walk stops.
PagesWalked(a, n) == {pageStart(x) : x \in a..a+n}

\* The page map after writing exprs[i] for byte a+i, 0 <= i < n.
Written(g, a, n, exprs) ==
  [p \in DOMAIN g \cup PagesWalked(a, n) |->
    [o \in 0..kPageSize-1 |->
      CASE p + o \in a..a+n-1 -> exprs[p + o - a]
        [] p + o \notin a..a+n-1 /\ p \in DOMAIN g -> g[p][o]
        [] OTHER -> Null]]

\* isConcrete: one look-up if the region lies on one page without a shadow,
\* otherwise every byte is looked at.
RegionConcrete(g, a, n) ==
  \/ pageStart(a) = pageStart(a + n) /\ pageStart(a) \notin DOMAIN g
  \/ \A x \in a..a+n-1 : ShadowAt(g, x) = Null
=============================================================================
