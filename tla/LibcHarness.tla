----------------------------- MODULE LibcHarness -----------------------------
(***************************************************************************)
(* The instrumented versions of qsort and bsearch (libc_harness/qsort.c,   *)
(* bsearch.c), with which SymCC replaces those of the C library, so that   *)
(* the comparisons are seen.  A pointer is the index of the element it     *)
(* points to.  Each comparison is a call back into the program, hence a    *)
(* step; what happens between two comparisons is one step.                 *)
(***************************************************************************)
EXTENDS Integers, Sequences, FiniteSets

CONSTANTS
  MaxElems,   \* bound: number of elements
  Key,        \* keys, as the comparison function orders them
  MAX_THRESH  \* partitions that span at most this much are left to insertion

ASSUME HarnessAssumption ==
  MaxElems \in Nat /\ Key \subseteq Int /\ MAX_THRESH \in Nat \ {0}

VARIABLES
  total_elems,
  original,    \* the array qsort is called with
  array,
  pc,          \* the comparison that is next
  lo, hi, mid, left_ptr, right_ptr,
  stack,       \* partitions still to be sorted; the first entry is <NULL, NULL>
  tmp_ptr, run_ptr,
  key, l, u,   \* bsearch
  result       \* what bsearch has returned; -1 for NULL

sortVars == <<array, lo, hi, mid, left_ptr, right_ptr, stack, tmp_ptr, run_ptr>>
searchVars == <<key, l, u, result>>
vars == <<total_elems, original, pc, sortVars, searchVars>>

Index == 0..(total_elems - 1)
end_ptr == total_elems - 1
Smallest(x, y) == IF x < y THEN x ELSE y

\* The smallest element is among the first ones, up to here.
thresh == Smallest(end_ptr, MAX_THRESH)

SWAP(i, j) == [array EXCEPT ![i] = array[j], ![j] = array[i]]

\* The comparison function says that the element at i is the smaller one.
Less(i, j) == array[i] < array[j]

(***************************************************************************)
(* Quicksort: the pivot is the median of three.                            *)
(***************************************************************************)

Median(low, high) == low + (high - low) \div 2

\* The loop over the partitions is over, or never entered: insertion sort.
StartInsertion ==
  /\ pc' = IF total_elems = 1 THEN "sorted" ELSE "minimum"
  /\ tmp_ptr' = 0
  /\ run_ptr' = 1

MedianLow ==
  /\ pc = "median low"
  /\ array' = IF Less(mid, lo) THEN SWAP(mid, lo) ELSE array
  /\ pc' = "median high"
  /\ UNCHANGED <<total_elems, original, lo, hi, mid, left_ptr, right_ptr, stack,
                 tmp_ptr, run_ptr, searchVars>>

StartPartition ==
  /\ pc' = "left"
  /\ left_ptr' = lo + 1
  /\ right_ptr' = hi - 1

MedianHigh ==
  /\ pc = "median high"
  /\ IF Less(hi, mid)
     THEN /\ array' = SWAP(mid, hi)
          /\ pc' = "median again"
          /\ UNCHANGED <<left_ptr, right_ptr>>
     ELSE StartPartition /\ UNCHANGED array
  /\ UNCHANGED <<total_elems, original, lo, hi, mid, stack, tmp_ptr, run_ptr,
                 searchVars>>

MedianAgain ==
  /\ pc = "median again"
  /\ array' = IF Less(mid, lo) THEN SWAP(mid, lo) ELSE array
  /\ StartPartition
  /\ UNCHANGED <<total_elems, original, lo, hi, mid, stack, tmp_ptr, run_ptr,
                 searchVars>>

(***************************************************************************)
(* Partitioning.                                                           *)
(***************************************************************************)

\* left_ptr moves right until it meets an element that is not smaller than
\* the pivot, or the pivot itself.
CollapseLeft ==
  /\ pc = "left"
  /\ IF left_ptr # mid /\ Less(left_ptr, mid)
     THEN left_ptr' = left_ptr + 1 /\ UNCHANGED pc
     ELSE pc' = "right" /\ UNCHANGED left_ptr
  /\ UNCHANGED <<total_elems, original, array, lo, hi, mid, right_ptr, stack,
                 tmp_ptr, run_ptr, searchVars>>

\* The next partition to work on, and the stack.
ContinueWith(low, high, s) ==
  /\ lo' = low /\ hi' = high /\ stack' = s
  /\ mid' = Median(low, high)
  /\ pc' = "median low"
  /\ UNCHANGED <<tmp_ptr, run_ptr>>

Pop ==
  IF Len(stack) = 1
  THEN /\ stack' = <<>> /\ StartInsertion
       /\ UNCHANGED <<lo, hi, mid>>
  ELSE ContinueWith(stack[Len(stack)][1], stack[Len(stack)][2],
                    SubSeq(stack, 1, Len(stack) - 1))

\* Faulty variant: the smaller partition is pushed.
NextPartitionLargeFirst(left, right) ==
  IF right - lo \in 0..MAX_THRESH
  THEN IF hi - left \in 0..MAX_THRESH THEN Pop ELSE ContinueWith(left, hi, stack)
  ELSE IF hi - left \in 0..MAX_THRESH THEN ContinueWith(lo, right, stack)
  ELSE IF right - lo > hi - left
       THEN ContinueWith(lo, right, Append(stack, <<left, hi>>))
       ELSE ContinueWith(left, hi, Append(stack, <<lo, right>>))

\* Faulty variant: partitions that are one element larger are ignored.
NextPartitionIgnoreMore(left, right) ==
  IF right - lo \in 0..(MAX_THRESH + 1)
  THEN IF hi - left \in 0..(MAX_THRESH + 1) THEN Pop ELSE ContinueWith(left, hi, stack)
  ELSE ContinueWith(lo, right, stack)

\* Small partitions are ignored, the larger one of two is pushed.  Distances
\* are converted to size_t: a negative one is not small.
NextPartition(left, right) ==
  IF right - lo \in 0..MAX_THRESH
  THEN IF hi - left \in 0..MAX_THRESH THEN Pop ELSE ContinueWith(left, hi, stack)
  ELSE IF hi - left \in 0..MAX_THRESH THEN ContinueWith(lo, right, stack)
  ELSE IF right - lo > hi - left
       THEN ContinueWith(left, hi, Append(stack, <<lo, right>>))
       ELSE ContinueWith(lo, right, Append(stack, <<left, hi>>))

\* After the second inner loop: the elements at the two pointers are swapped
\* (the pivot may be one of them), and the partition ends when they meet.
Meet ==
  LET swap == left_ptr < right_ptr
      advance == left_ptr <= right_ptr
      left == IF advance THEN left_ptr + 1 ELSE left_ptr
      right == IF advance THEN right_ptr - 1 ELSE right_ptr
  IN  /\ array' = IF swap THEN SWAP(left_ptr, right_ptr) ELSE array
      /\ left_ptr' = left
      /\ right_ptr' = right
      /\ IF left_ptr # right_ptr /\ left <= right
         THEN /\ mid' = CASE swap /\ mid = left_ptr -> right_ptr
                          [] swap /\ mid = right_ptr -> left_ptr
                          [] OTHER -> mid
              /\ pc' = "left"
              /\ UNCHANGED <<lo, hi, stack, tmp_ptr, run_ptr>>
         ELSE NextPartition(left, right)

CollapseRight ==
  /\ pc = "right"
  /\ IF mid # right_ptr /\ Less(mid, right_ptr)
     THEN /\ right_ptr' = right_ptr - 1
          /\ UNCHANGED <<pc, array, lo, hi, mid, left_ptr, stack, tmp_ptr, run_ptr>>
     ELSE Meet
  /\ UNCHANGED <<total_elems, original, searchVars>>

(***************************************************************************)
(* Insertion sort.                                                         *)
(***************************************************************************)

\* The smallest element among the first ones goes to the front, where it stops
\* the search for the place of every other element.
FindMinimum ==
  /\ pc = "minimum"
  /\ IF run_ptr <= thresh
     THEN /\ tmp_ptr' = IF Less(run_ptr, tmp_ptr) THEN run_ptr ELSE tmp_ptr
          /\ run_ptr' = run_ptr + 1
          /\ UNCHANGED <<array, pc>>
     ELSE /\ array' = SWAP(tmp_ptr, 0)
          /\ run_ptr' = 2
          /\ tmp_ptr' = 1
          /\ pc' = IF 2 <= end_ptr THEN "insert" ELSE "sorted"
  /\ UNCHANGED <<total_elems, original, lo, hi, mid, left_ptr, right_ptr, stack,
                 searchVars>>

\* Faulty variant: the element that was at t is lost.
RotateShort(t, r) ==
  [i \in Index |-> IF i = t THEN array[r]
                   ELSE IF i \in (t + 2)..r THEN array[i - 1] ELSE array[i]]

\* The element at r moves to place t, those in between move up.
Rotate(t, r) ==
  [i \in Index |-> IF i = t THEN array[r]
                   ELSE IF i \in (t + 1)..r THEN array[i - 1] ELSE array[i]]

Insert ==
  /\ pc = "insert"
  /\ IF Less(run_ptr, tmp_ptr)
     THEN tmp_ptr' = tmp_ptr - 1 /\ UNCHANGED <<array, run_ptr, pc>>
     ELSE /\ array' = Rotate(tmp_ptr + 1, run_ptr)
          /\ run_ptr' = run_ptr + 1
          /\ tmp_ptr' = run_ptr
          /\ pc' = IF run_ptr + 1 <= end_ptr THEN "insert" ELSE "sorted"
  /\ UNCHANGED <<total_elems, original, lo, hi, mid, left_ptr, right_ptr, stack,
                 searchVars>>

(***************************************************************************)
(* Binary search in the sorted array.                                      *)
(***************************************************************************)

bsearch(k) ==
  /\ pc = "sorted"
  /\ key' = k /\ l' = 0 /\ u' = total_elems
  /\ pc' = IF total_elems = 0 THEN "returned" ELSE "search"
  /\ UNCHANGED <<total_elems, original, sortVars, result>>

idx == (l + u) \div 2

\* Faulty variant: the element just compared stays in the range.
CompareKeyInclusive ==
  /\ pc = "search"
  /\ l' = IF key > array[idx] THEN idx ELSE l
  /\ u' = IF key < array[idx] THEN idx ELSE u
  /\ result' = IF key = array[idx] THEN idx ELSE result
  /\ pc' = IF key # array[idx] /\ l' < u' THEN "search" ELSE "returned"
  /\ UNCHANGED <<total_elems, original, sortVars, key>>

\* Faulty variant: the upper bound excludes one element too many.
CompareKeyShort ==
  /\ pc = "search"
  /\ l' = IF key > array[idx] THEN idx + 1 ELSE l
  /\ u' = IF key < array[idx] THEN idx - 1 ELSE u
  /\ result' = IF key = array[idx] THEN idx ELSE result
  /\ pc' = IF key # array[idx] /\ l' < u' THEN "search" ELSE "returned"
  /\ UNCHANGED <<total_elems, original, sortVars, key>>

CompareKey ==
  /\ pc = "search"
  /\ l' = IF key > array[idx] THEN idx + 1 ELSE l
  /\ u' = IF key < array[idx] THEN idx ELSE u
  /\ result' = IF key = array[idx] THEN idx ELSE result
  /\ pc' = IF key # array[idx] /\ l' < u' THEN "search" ELSE "returned"
  /\ UNCHANGED <<total_elems, original, sortVars, key>>

(***************************************************************************)
(* Specification.                                                          *)
(***************************************************************************)

Init ==
  /\ total_elems \in 0..MaxElems
  /\ original \in [Index -> Key]
  /\ array = original
  /\ pc = CASE total_elems = 0 -> "sorted"
            [] total_elems > MAX_THRESH -> "median low"
            [] OTHER -> "minimum"
  /\ lo = 0 /\ hi = end_ptr /\ mid = Median(0, end_ptr)
  /\ left_ptr = 0 /\ right_ptr = 0
  /\ stack = << <<-1, -1>> >>
  /\ tmp_ptr = 0 /\ run_ptr = 1
  /\ key = 0 /\ l = 0 /\ u = 0 /\ result = -1

Next ==
  \/ MedianLow \/ MedianHigh \/ MedianAgain
  \/ CollapseLeft \/ CollapseRight
  \/ FindMinimum \/ Insert
  \/ \E k \in Key : bsearch(k)
  \/ CompareKey

\* The program calls the functions and its comparison function returns.
Fairness == WF_vars(Next)

Spec == Init /\ [][Next]_vars /\ Fairness

(***************************************************************************)
(* Properties.                                                             *)
(***************************************************************************)

Count(f, k) == Cardinality({i \in DOMAIN f : f[i] = k})

\* After qsort the array is in ascending order and has the same elements.
SortedPermutation ==
  pc = "sorted" =>
    /\ \A i, j \in Index : i <= j => array[i] <= array[j]
    /\ \A k \in Key : Count(array, k) = Count(original, k)

\* The elements the next step looks at.
Accessed ==
  CASE pc \in {"median low", "median again"} -> {mid, lo}
    [] pc = "median high" -> {hi, mid}
    [] pc = "left" -> IF left_ptr # mid THEN {left_ptr, mid} ELSE {}
    [] pc = "right" -> (IF mid # right_ptr THEN {mid, right_ptr} ELSE {})
                       \cup (IF left_ptr < right_ptr THEN {left_ptr, right_ptr} ELSE {})
    [] pc = "minimum" -> IF run_ptr <= thresh THEN {run_ptr, tmp_ptr} ELSE {tmp_ptr}
    [] pc = "insert" -> {run_ptr, tmp_ptr}
    [] pc = "search" -> {idx}
    [] OTHER -> {}

\* No comparison is given a pointer outside of the array, although the inner
\* loops of the insertion sort do not test for its ends.
AccessesInBounds == Accessed \subseteq Index

\* While a partition is being sorted, every partition on the stack has at least
\* as many elements as the current one and all those pushed after it together:
\* n partitions on the stack need 2^n elements, so the stack, which has room
\* for the logarithm of SIZE_MAX, does not overflow ("*guarantees* no more than
\* log (total_elems) stack size is needed").
StackIsLogarithmic ==
  pc \in {"median low", "median high", "median again", "left", "right"} =>
    \A i \in 2..Len(stack) :
      LET Interval(p) == p[1]..p[2]
          later == (UNION {Interval(stack[j]) : j \in (i + 1)..Len(stack)}) \cup lo..hi
      IN  Cardinality(Interval(stack[i])) >= Cardinality(later)

\* bsearch, called on the result of qsort, returns an element that is equal to
\* the key if and only if there is one.
SearchFindsKey ==
  pc = "returned" =>
    IF result = -1 THEN \A i \in Index : array[i] # key
    ELSE result \in Index /\ array[result] = key

\* Sorting and searching come to an end.
Terminates == <>(pc = "returned")
=============================================================================
