------------------------- MODULE LibcHarness_proofs -------------------------
(***************************************************************************)
(* Proofs about LibcHarness, for arrays of every length and every          *)
(* MAX_THRESH.                                                             *)
(***************************************************************************)
EXTENDS LibcHarness, FiniteSetTheorems, TLAPS

(***************************************************************************)
(* The inductive invariant.                                                *)
(***************************************************************************)

TypeInv ==
  /\ total_elems \in 0..MaxElems
  /\ original \in [Index -> Key]
  /\ array \in [Index -> Key]
  /\ pc \in {"median low", "median high", "median again", "left", "right",
             "minimum", "insert", "sorted", "search", "returned"}

SameElements == \A k \in Key : Count(array, k) = Count(original, k)

Medians == {"median low", "median high", "median again"}
Partitioning == pc \in Medians \cup {"left", "right"}

\* The partition being sorted has at least two elements and contains the pivot.
CurrentPartition ==
  Partitioning =>
    /\ lo \in Index /\ hi \in Index /\ mid \in Index
    /\ lo < hi /\ lo <= mid /\ mid <= hi
    /\ pc \in Medians => mid < hi

\* The partitions on the stack have at least two elements.
Stacked ==
  Partitioning =>
    /\ stack \in Seq(Int \X Int) /\ Len(stack) >= 1
    /\ \A i \in 2..Len(stack) :
         /\ stack[i][1] \in Index /\ stack[i][2] \in Index
         /\ stack[i][1] < stack[i][2]

\* The first, the pivot and the last element are being put in order.
MedianOfThree ==
  /\ pc = "median high" => array[lo] <= array[mid]
  /\ pc = "median again" => array[lo] <= array[hi] /\ array[mid] <= array[hi]

\* What the pointers have passed is on the right side of the pivot.  The ends
\* are, from the beginning, and stop the pointers.
Partitioned ==
  pc \in {"left", "right"} =>
    /\ left_ptr \in lo+1..hi /\ right_ptr \in lo..hi-1 /\ left_ptr <= right_ptr + 1
    /\ \A i \in lo..left_ptr-1 : array[i] <= array[mid]
    /\ \A i \in right_ptr+1..hi : array[mid] <= array[i]
    /\ pc = "right" => array[mid] <= array[left_ptr]

\* No element before place c is larger than one from there on.
Cut(c) == \A i, j \in Index : i < c /\ c <= j => array[i] <= array[j]

\* The array begins with a block of c elements that are the smallest ones, and
\* that are few, or are the partition being sorted, or are on the stack; all
\* other partitions lie behind.
FrontBlock(c) ==
  /\ c \in 1..total_elems /\ Cut(c)
  /\ \/ /\ c <= MAX_THRESH + 1 /\ c <= lo
        /\ \A i \in 2..Len(stack) : c <= stack[i][1]
     \/ /\ lo = 0 /\ hi = c - 1
        /\ \A i \in 2..Len(stack) : c <= stack[i][1]
     \/ /\ c <= lo
        /\ \E s \in 2..Len(stack) :
             /\ stack[s] = <<0, c - 1>>
             /\ \A i \in 2..Len(stack) : i # s => c <= stack[i][1]

Front == Partitioning => \E c \in 1..total_elems : FrontBlock(c)

\* The smallest element so far is known, and the smallest of all is in reach.
MinimumSought ==
  pc = "minimum" =>
    /\ total_elems >= 1
    /\ run_ptr \in 1..thresh+1 /\ tmp_ptr \in 0..run_ptr-1
    /\ \A i \in 0..run_ptr-1 : array[tmp_ptr] <= array[i]
    /\ \E c \in 1..thresh+1 : Cut(c)

Sorted(n) == \A i, j \in Index : i <= j /\ j < n => array[i] <= array[j]

\* The first element stops the search for the place of the others.
Inserting ==
  pc = "insert" =>
    /\ run_ptr \in 2..end_ptr /\ tmp_ptr \in 0..run_ptr-1
    /\ Sorted(run_ptr)
    /\ \A i \in Index : array[0] <= array[i]
    /\ \A i \in tmp_ptr+1..run_ptr-1 : array[run_ptr] < array[i]

SortedAfterwards == pc \in {"sorted", "search", "returned"} => Sorted(total_elems)

\* What is outside of the range of the search is not the key.
Searching ==
  /\ pc = "search" =>
       /\ key \in Key /\ l \in Index /\ u \in 1..total_elems /\ l < u
       /\ \A i \in Index : i < l => array[i] < key
       /\ \A i \in Index : u <= i => key < array[i]
  /\ pc # "returned" => result = -1

HarnessInv ==
  /\ TypeInv /\ SameElements
  /\ CurrentPartition /\ Stacked /\ MedianOfThree /\ Partitioned /\ Front
  /\ StackIsLogarithmic
  /\ MinimumSought /\ Inserting /\ SortedAfterwards /\ Searching /\ SearchFindsKey

(***************************************************************************)
(* Permuting the elements.                                                 *)
(***************************************************************************)

\* The elements are numbered: there are finitely many.
LEMMA IndexFacts ==
  ASSUME TypeInv
  PROVE  /\ total_elems \in Nat /\ IsFiniteSet(Index)
         /\ \A i : i \in Index <=> i \in Int /\ 0 <= i /\ i < total_elems
         /\ \A i \in Index : array[i] \in Key /\ array[i] \in Int
         /\ DOMAIN array = Index /\ DOMAIN original = Index
  <1>0. total_elems \in 0..MaxElems /\ original \in [Index -> Key] /\ array \in [Index -> Key]
    BY DEF TypeInv
  <1>1. total_elems \in Nat
    BY <1>0, HarnessAssumption
  <1>2. ASSUME NEW a \in Int, NEW b \in Int PROVE IsFiniteSet(a..b)
    BY FS_Interval, Zenon
  <1>3. IsFiniteSet(Index)
    BY <1>1, <1>2 DEF Index
  <1>4. \A i : i \in Index <=> i \in Int /\ 0 <= i /\ i < total_elems
    BY <1>1 DEF Index
  <1>5. \A i \in Index : array[i] \in Key /\ array[i] \in Int
    BY <1>0, HarnessAssumption
  <1> QED BY <1>0, <1>1, <1>3, <1>4, <1>5

\* Elements that are put in another order are as many as before.
LEMMA CountPermuted ==
  ASSUME NEW S, IsFiniteSet(S), NEW f, NEW g, DOMAIN f = S, DOMAIN g = S, NEW k,
         NEW p \in [S -> S],
         \A x, y \in S : p[x] = p[y] => x = y,
         \A y \in S : \E x \in S : p[x] = y,
         \A x \in S : g[x] = f[p[x]]
  PROVE  Count(g, k) = Count(f, k)
  <1> DEFINE A == {i \in S : g[i] = k}
             B == {i \in S : f[i] = k}
             q == [i \in A |-> p[i]]
  <1>1. q \in [A -> B]
    OBVIOUS
  <1>2. \A x, y \in A : q[x] = q[y] => x = y
    OBVIOUS
  <1>3. ASSUME NEW y \in B PROVE \E x \in A : q[x] = y
    <2>1. PICK x \in S : p[x] = y
      OBVIOUS
    <2>2. x \in A /\ q[x] = y
      BY <2>1
    <2> QED BY <2>2
  <1>4. q \in Bijection(A, B)
    BY <1>1, <1>2, <1>3 DEF Bijection, Injection, Surjection, IsInjective
  <1>5. IsFiniteSet(A)
    BY FS_Subset
  <1> HIDE DEF A, B, q
  <1>6. ExistsBijection(A, B)
    BY <1>4 DEF ExistsBijection
  <1>7. Cardinality(B) = Cardinality(A)
    BY <1>5, <1>6, FS_Bijection
  <1> QED BY <1>7 DEF Count, A, B

\* SWAP exchanges two elements.
LEMMA SwapFacts ==
  ASSUME TypeInv, NEW i \in Index, NEW j \in Index, array' = SWAP(i, j)
  PROVE  /\ array' \in [Index -> Key]
         /\ array'[i] = array[j] /\ array'[j] = array[i]
         /\ \A x \in Index : x # i /\ x # j => array'[x] = array[x]
  BY DEF SWAP, TypeInv

\* ... and loses none.
LEMMA SwapKeepsElements ==
  ASSUME TypeInv, SameElements, NEW i \in Index, NEW j \in Index, array' = SWAP(i, j),
         UNCHANGED <<total_elems, original>>
  PROVE  SameElements'
  <1> SUFFICES ASSUME NEW k \in Key
               PROVE  Count(array', k) = Count(original, k)
    BY DEF SameElements
  <1>1. PICK p : p = [x \in Index |-> IF x = i THEN j ELSE IF x = j THEN i ELSE x]
    OBVIOUS
  <1>2. p \in [Index -> Index] /\ p[i] = j /\ p[j] = i
        /\ \A x \in Index : x # i /\ x # j => p[x] = x
    BY <1>1
  <1>3. \A x, y \in Index : p[x] = p[y] => x = y
    BY <1>2
  <1>4. \A y \in Index : \E x \in Index : p[x] = y
    BY <1>2
  <1>5. \A x \in Index : array'[x] = array[p[x]]
    BY <1>2, SwapFacts
  <1>6. DOMAIN array' = Index
    BY SwapFacts
  <1>7. Count(array', k) = Count(array, k)
    BY <1>2, <1>3, <1>4, <1>5, <1>6, IndexFacts, CountPermuted
  <1> QED BY <1>7 DEF SameElements

\* Rotate moves one element down.
LEMMA RotateFacts ==
  ASSUME TypeInv, NEW t \in Index, NEW r \in Index, t <= r, array' = Rotate(t, r)
  PROVE  /\ array' \in [Index -> Key] /\ array'[t] = array[r]
         /\ \A x \in Index : t < x /\ x <= r => array'[x] = array[x - 1]
         /\ \A x \in Index : x < t \/ r < x => array'[x] = array[x]
  <1>1. \A x \in Index : t < x /\ x <= r => x - 1 \in Index
    BY IndexFacts
  <1>2. \A x \in Index : x \in (t + 1)..r <=> t < x /\ x <= r
    BY IndexFacts
  <1>3. \A x \in Index : array'[x] = IF x = t THEN array[r]
                                     ELSE IF x \in (t + 1)..r THEN array[x - 1] ELSE array[x]
    BY DEF Rotate
  <1>4. \A x \in Index : array'[x] \in Key
    BY <1>1, <1>2, <1>3, IndexFacts
  <1>5. array' \in [Index -> Key]
    BY <1>4 DEF Rotate
  <1> QED BY <1>2, <1>3, <1>5, IndexFacts

\* ... and loses none.
LEMMA RotateKeepsElements ==
  ASSUME TypeInv, SameElements, NEW t \in Index, NEW r \in Index, t <= r,
         array' = Rotate(t, r), UNCHANGED <<total_elems, original>>
  PROVE  SameElements'
  <1> SUFFICES ASSUME NEW k \in Key
               PROVE  Count(array', k) = Count(original, k)
    BY DEF SameElements
  <1>1. PICK p : p = [x \in Index |-> IF x = t THEN r
                                      ELSE IF t < x /\ x <= r THEN x - 1 ELSE x]
    OBVIOUS
  <1>2. /\ p \in [Index -> Index] /\ p[t] = r
        /\ \A x \in Index : t < x /\ x <= r => p[x] = x - 1
        /\ \A x \in Index : x < t \/ r < x => p[x] = x
    BY <1>1, IndexFacts
  <1>3. \A x, y \in Index : p[x] = p[y] => x = y
    BY <1>2, IndexFacts
  <1>4. ASSUME NEW y \in Index PROVE \E x \in Index : p[x] = y
    <2>1. CASE y = r
      BY <1>2, <2>1
    <2>2. CASE t <= y /\ y < r
      <3>1. y + 1 \in Index /\ p[y + 1] = y
        BY <1>2, <2>2, IndexFacts
      <3> QED BY <3>1
    <2>3. CASE y < t \/ r < y
      BY <1>2, <2>3
    <2> QED BY <2>1, <2>2, <2>3, IndexFacts
  <1>5. ASSUME NEW x \in Index PROVE array'[x] = array[p[x]]
    <2>1. x \in Int /\ t \in Int /\ r \in Int
      BY IndexFacts
    <2>2. CASE x = t
      BY <1>2, <2>2, RotateFacts
    <2>3. CASE t < x /\ x <= r
      BY <1>2, <2>3, RotateFacts
    <2>4. CASE x < t \/ r < x
      BY <1>2, <2>4, RotateFacts
    <2> QED BY <2>1, <2>2, <2>3, <2>4
  <1>6. DOMAIN array' = Index
    BY RotateFacts
  <1>7. Count(array', k) = Count(array, k)
    BY <1>2, <1>3, <1>4, <1>5, <1>6, IndexFacts, CountPermuted
  <1> QED BY <1>7 DEF SameElements

\* Exchanging two elements on one side of a cut keeps it.
LEMMA SwapKeepsCut ==
  ASSUME TypeInv, NEW i \in Index, NEW j \in Index, array' = SWAP(i, j),
         total_elems' = total_elems, NEW c \in Int, Cut(c),
         (c <= i /\ c <= j) \/ (i < c /\ j < c)
  PROVE  Cut(c)'
  <1> SUFFICES ASSUME NEW x \in Index, NEW y \in Index, x < c, c <= y
               PROVE  array'[x] <= array'[y]
    BY DEF Cut, Index
  <1>1. PICK a \in Index : a < c /\ array'[x] = array[a]
    BY SwapFacts, IndexFacts
  <1>2. PICK b \in Index : c <= b /\ array'[y] = array[b]
    BY SwapFacts, IndexFacts
  <1> QED BY <1>1, <1>2 DEF Cut

(***************************************************************************)
(* The steps of quicksort that stay in a partition.                        *)
(***************************************************************************)

Phases == Medians \cup {"left", "right"}

\* While a partition is being sorted, nothing else is going on.
LEMMA OnlyPartitioning ==
  ASSUME HarnessInv, Partitioning
  PROVE  /\ TypeInv /\ lo \in Index /\ hi \in Index /\ mid \in Index
         /\ lo \in Int /\ hi \in Int /\ mid \in Int /\ lo < hi /\ lo <= mid /\ mid <= hi
         /\ \A x \in lo..hi : x \in Index
         /\ total_elems \in Nat /\ lo >= 0 /\ hi < total_elems
         /\ stack \in Seq(Int \X Int) /\ Len(stack) \in Nat /\ Len(stack) >= 1
         /\ result = -1
  <1>1. TypeInv /\ CurrentPartition /\ Stacked /\ Searching
    BY DEF HarnessInv
  <1>2. lo \in Index /\ hi \in Index /\ mid \in Index /\ lo < hi /\ lo <= mid /\ mid <= hi
    BY <1>1 DEF CurrentPartition
  <1>3. stack \in Seq(Int \X Int) /\ Len(stack) >= 1
    BY <1>1 DEF Stacked
  <1>4. result = -1
    BY <1>1 DEF Searching, Partitioning, Medians
  <1>5. /\ total_elems \in Nat /\ lo \in Int /\ hi \in Int /\ mid \in Int
        /\ lo >= 0 /\ hi < total_elems
    BY <1>1, <1>2, IndexFacts
  <1>6. \A x \in lo..hi : x \in Index
    BY <1>5 DEF Index
  <1>7. Len(stack) \in Nat
    BY <1>3
  <1> QED BY <1>1, <1>2, <1>3, <1>4, <1>5, <1>6, <1>7

\* The conjuncts about the insertion sort and the search say nothing.
LEMMA StillPartitioning ==
  ASSUME result = -1, UNCHANGED result, pc' \in Phases
  PROVE  /\ Partitioning' /\ MinimumSought' /\ Inserting' /\ SortedAfterwards'
         /\ Searching' /\ SearchFindsKey'
  <1>1. pc' \notin {"minimum", "insert", "sorted", "search", "returned"}
    BY DEF Phases, Medians
  <1> QED BY <1>1 DEF Phases, Partitioning, MinimumSought, Inserting, SortedAfterwards,
                      Searching, SearchFindsKey

\* A step that exchanges at most two elements of the partition being sorted, and
\* goes on with that partition.
LEMMA InnerStep ==
  ASSUME HarnessInv, Partitioning, pc' \in Phases,
         UNCHANGED <<total_elems, original, lo, hi, stack, searchVars>>,
         NEW i \in lo..hi, NEW j \in lo..hi, array' = array \/ array' = SWAP(i, j),
         CurrentPartition', MedianOfThree', Partitioned'
  PROVE  HarnessInv'
  <1>1. TypeInv /\ i \in Index /\ j \in Index /\ result = -1 /\ UNCHANGED result
    BY OnlyPartitioning DEF searchVars
  <1>2. TypeInv'
    <2>1. array' \in [Index -> Key]
      BY <1>1, SwapFacts DEF TypeInv
    <2> QED BY <1>1, <2>1 DEF TypeInv, Index, Phases, Medians
  <1>3. SameElements'
    <2>1. SameElements
      BY DEF HarnessInv
    <2>2. CASE array' = array
      BY <2>1, <2>2 DEF SameElements
    <2>3. CASE array' = SWAP(i, j)
      BY <1>1, <2>1, <2>3, SwapKeepsElements
    <2> QED BY <2>2, <2>3
  <1>4. Stacked'
    BY DEF HarnessInv, Stacked, Index
  <1>5. Front'
    <2>1. PICK c \in 1..total_elems : FrontBlock(c)
      BY DEF HarnessInv, Front
    <2>2. Cut(c)'
      <3>1. CASE array' = array
        BY <2>1, <3>1 DEF FrontBlock, Cut, Index
      <3>2. CASE array' = SWAP(i, j)
        <4>1. (c <= i /\ c <= j) \/ (i < c /\ j < c)
          <5>1. lo \in Int /\ hi \in Int /\ c \in Int /\ (c <= lo \/ hi = c - 1)
            BY <2>1, OnlyPartitioning DEF FrontBlock
          <5> QED BY <5>1
        <4> QED BY <1>1, <2>1, <3>2, <4>1, SwapKeepsCut DEF FrontBlock
      <3> QED BY <3>1, <3>2
    <2>3. FrontBlock(c)'
      BY <2>1, <2>2 DEF FrontBlock
    <2> QED BY <2>3 DEF Front
  <1>6. StackIsLogarithmic'
    BY DEF HarnessInv, StackIsLogarithmic, Partitioning, Medians
  <1> QED BY <1>1, <1>2, <1>3, <1>4, <1>5, <1>6, StillPartitioning DEF HarnessInv

\* What a comparison tells.
LEMMA LessFacts ==
  ASSUME TypeInv, NEW i \in Index, NEW j \in Index
  PROVE  /\ array[i] \in Int /\ array[j] \in Int
         /\ Less(i, j) => array[i] < array[j] /\ array[i] <= array[j] /\ i # j
         /\ ~Less(i, j) => array[j] <= array[i]
  <1>1. array[i] \in Int /\ array[j] \in Int
    BY IndexFacts
  <1> QED BY <1>1 DEF Less

\* The first comparison of the median of three.
LEMMA MedianLowInv ==
  ASSUME HarnessInv, MedianLow PROVE HarnessInv'
  <1>1. /\ pc = "median low" /\ pc' = "median high"
        /\ array' = IF Less(mid, lo) THEN SWAP(mid, lo) ELSE array
        /\ UNCHANGED <<total_elems, original, lo, hi, mid, stack, searchVars>>
    BY DEF MedianLow
  <1>2. Partitioning /\ pc' \in Phases
    BY <1>1 DEF Partitioning, Phases, Medians
  <1>3. /\ TypeInv /\ lo \in Index /\ mid \in Index
        /\ mid \in lo..hi /\ lo \in lo..hi
    BY <1>2, OnlyPartitioning
  <1>4. CurrentPartition'
    BY <1>1, <1>2 DEF HarnessInv, CurrentPartition, Index, Medians
  <1>5. array'[lo] <= array'[mid]
    <2>1. CASE Less(mid, lo)
      <3>1. array'[lo] = array[mid] /\ array'[mid] = array[lo]
        BY <1>1, <1>3, <2>1, SwapFacts
      <3> QED BY <1>3, <2>1, <3>1, LessFacts
    <2>2. CASE ~Less(mid, lo)
      BY <1>1, <1>3, <2>2, LessFacts
    <2> QED BY <2>1, <2>2
  <1>6. MedianOfThree' /\ Partitioned'
    BY <1>1, <1>5 DEF MedianOfThree, Partitioned
  <1> QED BY <1>1, <1>2, <1>3, <1>4, <1>6, InnerStep

\* With the three in order, the pointers start at the elements next to the ends.
LEMMA StartsPartitioned ==
  ASSUME HarnessInv, Partitioning, StartPartition, UNCHANGED <<lo, hi, mid, total_elems>>,
         array'[lo] <= array'[mid], array'[mid] <= array'[hi]
  PROVE  CurrentPartition' /\ MedianOfThree' /\ Partitioned' /\ pc' \in Phases
  <1>1. lo \in Int /\ hi \in Int /\ mid \in Int /\ lo < hi
    BY OnlyPartitioning
  <1>2. pc' = "left" /\ left_ptr' = lo + 1 /\ right_ptr' = hi - 1
    BY DEF StartPartition
  <1>3. CurrentPartition'
    BY <1>2 DEF HarnessInv, CurrentPartition, Index, Medians
  <1>4. /\ \A x \in lo..left_ptr'-1 : x = lo
        /\ \A x \in right_ptr'+1..hi : x = hi
        /\ left_ptr' \in lo+1..hi /\ right_ptr' \in lo..hi-1 /\ left_ptr' <= right_ptr' + 1
    BY <1>1, <1>2
  <1>5. Partitioned'
    BY <1>2, <1>4 DEF Partitioned
  <1> QED BY <1>2, <1>3, <1>5 DEF MedianOfThree, Phases

\* The second comparison of the median of three.
LEMMA MedianHighInv ==
  ASSUME HarnessInv, MedianHigh PROVE HarnessInv'
  <1>1. /\ pc = "median high"
        /\ UNCHANGED <<total_elems, original, lo, hi, mid, stack, searchVars>>
    BY DEF MedianHigh
  <1>2. Partitioning
    BY <1>1 DEF Partitioning, Medians
  <1>3. /\ TypeInv /\ lo \in Index /\ mid \in Index /\ hi \in Index
        /\ mid \in lo..hi /\ hi \in lo..hi /\ lo # hi
    BY <1>2, OnlyPartitioning
  <1>4. array[lo] <= array[mid] /\ mid < hi
    BY <1>1, <1>2 DEF HarnessInv, MedianOfThree, CurrentPartition, Medians
  <1>5. /\ array[lo] \in Int /\ array[mid] \in Int /\ array[hi] \in Int
        /\ mid # hi
    BY <1>3, <1>4, IndexFacts
  <1>6. CASE Less(hi, mid)
    <2>1. array' = SWAP(mid, hi) /\ pc' = "median again"
      BY <1>6 DEF MedianHigh
    <2>2. array'[lo] <= array'[hi] /\ array'[mid] <= array'[hi]
      <3>1. array[hi] < array[mid]
        BY <1>3, <1>6, LessFacts
      <3>2. /\ array'[hi] = array[mid] /\ array'[mid] = array[hi]
            /\ lo # mid => array'[lo] = array[lo]
        BY <1>3, <2>1, SwapFacts
      <3>3. CASE lo = mid
        BY <1>5, <3>1, <3>2, <3>3
      <3>4. CASE lo # mid
        BY <1>4, <1>5, <3>1, <3>2, <3>4
      <3> QED BY <3>3, <3>4
    <2>3. CurrentPartition' /\ pc' \in Phases
      BY <1>1, <1>2, <2>1 DEF HarnessInv, CurrentPartition, Index, Medians, Phases, Partitioning
    <2>4. MedianOfThree' /\ Partitioned'
      BY <1>1, <2>1, <2>2 DEF MedianOfThree, Partitioned
    <2> QED BY <1>1, <1>2, <1>3, <2>1, <2>3, <2>4, InnerStep
  <1>7. CASE ~Less(hi, mid)
    <2>1. array' = array /\ StartPartition
      BY <1>7 DEF MedianHigh
    <2>2. array'[lo] <= array'[mid] /\ array'[mid] <= array'[hi]
      BY <1>3, <1>4, <1>7, <2>1, LessFacts
    <2>3. CurrentPartition' /\ MedianOfThree' /\ Partitioned' /\ pc' \in Phases
      BY <1>1, <1>2, <2>1, <2>2, StartsPartitioned
    <2> QED BY <1>1, <1>2, <1>3, <2>1, <2>3, InnerStep
  <1> QED BY <1>6, <1>7

\* The third one, after the second has exchanged two.
LEMMA MedianAgainInv ==
  ASSUME HarnessInv, MedianAgain PROVE HarnessInv'
  <1>1. /\ pc = "median again" /\ StartPartition
        /\ array' = IF Less(mid, lo) THEN SWAP(mid, lo) ELSE array
        /\ UNCHANGED <<total_elems, original, lo, hi, mid, stack, searchVars>>
    BY DEF MedianAgain
  <1>2. Partitioning
    BY <1>1 DEF Partitioning, Medians
  <1>3. /\ TypeInv /\ lo \in Index /\ mid \in Index /\ hi \in Index
        /\ mid \in lo..hi /\ lo \in lo..hi /\ lo # hi
    BY <1>2, OnlyPartitioning
  <1>4. array[lo] <= array[hi] /\ array[mid] <= array[hi] /\ mid < hi
    BY <1>1, <1>2 DEF HarnessInv, MedianOfThree, CurrentPartition, Medians
  <1>5. /\ array[lo] \in Int /\ array[mid] \in Int /\ array[hi] \in Int
        /\ mid # hi
    BY <1>3, <1>4, IndexFacts
  <1>6. array'[lo] <= array'[mid] /\ array'[mid] <= array'[hi]
    <2>1. CASE Less(mid, lo)
      <3>1. array[mid] < array[lo]
        BY <1>3, <2>1, LessFacts
      <3>2. array'[lo] = array[mid] /\ array'[mid] = array[lo] /\ array'[hi] = array[hi]
        <4>1. array' = SWAP(mid, lo)
          BY <1>1, <2>1
        <4>2. /\ array'[mid] = array[lo] /\ array'[lo] = array[mid]
              /\ \A x \in Index : x # mid /\ x # lo => array'[x] = array[x]
          BY <1>3, <4>1, SwapFacts
        <4> QED BY <1>3, <1>5, <4>2
      <3> QED BY <1>4, <1>5, <3>1, <3>2
    <2>2. CASE ~Less(mid, lo)
      <3>1. array[lo] <= array[mid] /\ array' = array
        BY <1>1, <1>3, <2>2, LessFacts
      <3> QED BY <1>4, <3>1
    <2> QED BY <2>1, <2>2
  <1>7. CurrentPartition' /\ MedianOfThree' /\ Partitioned' /\ pc' \in Phases
    BY <1>1, <1>2, <1>6, StartsPartitioned
  <1> QED BY <1>1, <1>2, <1>3, <1>7, InnerStep

\* What holds of the pointers while they move towards each other.
LEMMA PointerFacts ==
  ASSUME HarnessInv, pc \in {"left", "right"}
  PROVE  /\ Partitioning
         /\ left_ptr \in Int /\ right_ptr \in Int /\ left_ptr \in Index /\ right_ptr \in Index
         /\ lo + 1 <= left_ptr /\ left_ptr <= hi /\ lo <= right_ptr /\ right_ptr <= hi - 1
         /\ left_ptr <= right_ptr + 1
         /\ \A x \in Index : lo <= x /\ x < left_ptr => array[x] <= array[mid]
         /\ \A x \in Index : right_ptr < x /\ x <= hi => array[mid] <= array[x]
         /\ pc = "right" => array[mid] <= array[left_ptr]
  <1>1. Partitioning
    BY DEF Partitioning
  <1>2. lo \in Int /\ hi \in Int /\ TypeInv /\ \A x \in lo..hi : x \in Index
    BY <1>1, OnlyPartitioning
  <1>3. /\ left_ptr \in lo+1..hi /\ right_ptr \in lo..hi-1 /\ left_ptr <= right_ptr + 1
        /\ \A x \in lo..left_ptr-1 : array[x] <= array[mid]
        /\ \A x \in right_ptr+1..hi : array[mid] <= array[x]
        /\ pc = "right" => array[mid] <= array[left_ptr]
    BY DEF HarnessInv, Partitioned
  <1>4. left_ptr \in Int /\ right_ptr \in Int /\ left_ptr \in lo..hi /\ right_ptr \in lo..hi
    BY <1>2, <1>3
  <1>5. \A x \in Index : lo <= x /\ x < left_ptr => x \in lo..left_ptr-1
    BY <1>2, <1>4, IndexFacts
  <1>6. \A x \in Index : right_ptr < x /\ x <= hi => x \in right_ptr+1..hi
    BY <1>2, <1>4, IndexFacts
  <1> QED BY <1>1, <1>2, <1>3, <1>4, <1>5, <1>6

\* left_ptr stays in the partition: the last element would stop it.
LEMMA CollapseLeftInv ==
  ASSUME HarnessInv, CollapseLeft PROVE HarnessInv'
  <1>1. /\ pc = "left"
        /\ UNCHANGED <<total_elems, original, array, lo, hi, mid, right_ptr, stack, searchVars>>
    BY DEF CollapseLeft
  <1>2. Partitioning /\ TypeInv /\ lo \in Int /\ hi \in Int /\ lo \in lo..hi
        /\ mid \in Index /\ left_ptr \in Index
    <2>1. Partitioning /\ left_ptr \in Index
      BY <1>1, PointerFacts
    <2>2. TypeInv /\ lo \in Int /\ hi \in Int /\ lo < hi /\ mid \in Index
      BY <2>1, OnlyPartitioning
    <2> QED BY <2>1, <2>2
  <1>3. CurrentPartition' /\ MedianOfThree' /\ pc' \in Phases
    BY <1>1, <1>2 DEF CollapseLeft, HarnessInv, CurrentPartition, MedianOfThree, Index, Medians,
                      Phases
  <1>4. CASE left_ptr # mid /\ Less(left_ptr, mid)
    <2>1. pc' = "left" /\ left_ptr' = left_ptr + 1
      BY <1>1, <1>4 DEF CollapseLeft
    <2>2. array[left_ptr] < array[mid] /\ array[left_ptr] <= array[mid]
          /\ array[left_ptr] \in Int /\ array[mid] \in Int
      BY <1>2, <1>4, LessFacts
    <2>3. ~(right_ptr < left_ptr)
      <3>1. SUFFICES ASSUME right_ptr < left_ptr PROVE FALSE
        OBVIOUS
      <3>2. array[mid] <= array[left_ptr]
        BY <1>1, <1>2, <3>1, PointerFacts
      <3> QED BY <2>2, <3>2
    <2>4. left_ptr' \in lo+1..hi /\ left_ptr' <= right_ptr + 1 /\ right_ptr \in lo..hi-1
      BY <1>1, <1>2, <2>1, <2>3, PointerFacts
    <2>5. ASSUME NEW x \in lo..left_ptr'-1 PROVE array[x] <= array[mid]
      <3>1. x \in Int /\ lo <= x /\ (x < left_ptr \/ x = left_ptr) /\ x \in lo..hi
        BY <1>1, <1>2, <2>1, PointerFacts
      <3> QED BY <1>1, <1>2, <2>2, <3>1, PointerFacts, OnlyPartitioning
    <2>6. \A x \in right_ptr+1..hi : array[mid] <= array[x]
      BY <1>1 DEF HarnessInv, Partitioned
    <2>7. Partitioned'
      BY <1>1, <2>1, <2>4, <2>5, <2>6 DEF Partitioned
    <2> QED BY <1>1, <1>2, <1>3, <2>7, InnerStep
  <1>5. CASE ~(left_ptr # mid /\ Less(left_ptr, mid))
    <2>1. pc' = "right" /\ left_ptr' = left_ptr
      BY <1>5 DEF CollapseLeft
    <2>2. array[mid] <= array[left_ptr]
      <3>1. CASE left_ptr = mid
        <4>1. array[mid] \in Int
          BY <1>2, IndexFacts
        <4> QED BY <3>1, <4>1
      <3>2. CASE ~Less(left_ptr, mid)
        BY <1>2, <3>2, LessFacts
      <3> QED BY <1>5, <3>1, <3>2
    <2>3. Partitioned'
      BY <1>1, <2>1, <2>2 DEF HarnessInv, Partitioned
    <2> QED BY <1>1, <1>2, <1>3, <2>3, InnerStep
  <1> QED BY <1>4, <1>5

\* right_ptr stays in the partition: the first element would stop it.
LEMMA RightMovesInv ==
  ASSUME HarnessInv, CollapseRight, mid # right_ptr /\ Less(mid, right_ptr)
  PROVE  HarnessInv'
  <1>1. /\ pc = "right" /\ pc' = "right" /\ right_ptr' = right_ptr - 1
        /\ UNCHANGED <<total_elems, original, array, lo, hi, mid, left_ptr, stack, searchVars>>
    BY DEF CollapseRight
  <1>2. Partitioning /\ TypeInv /\ lo \in Int /\ hi \in Int /\ lo \in lo..hi
        /\ mid \in Index /\ right_ptr \in Index
    <2>1. Partitioning /\ right_ptr \in Index
      BY <1>1, PointerFacts
    <2>2. TypeInv /\ lo \in Int /\ hi \in Int /\ lo < hi /\ mid \in Index
      BY <2>1, OnlyPartitioning
    <2> QED BY <2>1, <2>2
  <1>3. CurrentPartition' /\ MedianOfThree' /\ pc' \in Phases
    BY <1>1, <1>2 DEF HarnessInv, CurrentPartition, MedianOfThree, Index, Medians, Phases
  <1>4. array[mid] < array[right_ptr] /\ array[mid] <= array[right_ptr]
        /\ array[right_ptr] \in Int /\ array[mid] \in Int
    BY <1>2, LessFacts
  <1>5. ~(right_ptr < left_ptr)
    <2>1. SUFFICES ASSUME right_ptr < left_ptr PROVE FALSE
      OBVIOUS
    <2>2. array[right_ptr] <= array[mid]
      BY <1>1, <1>2, <2>1, PointerFacts
    <2> QED BY <1>4, <2>2
  <1>6. right_ptr' \in lo..hi-1 /\ left_ptr <= right_ptr' + 1 /\ left_ptr \in lo+1..hi
    BY <1>1, <1>2, <1>5, PointerFacts
  <1>7. ASSUME NEW x \in right_ptr'+1..hi PROVE array[mid] <= array[x]
    <2>1. x \in Int /\ x <= hi /\ (right_ptr < x \/ x = right_ptr) /\ x \in lo..hi
      BY <1>1, <1>2, PointerFacts
    <2> QED BY <1>1, <1>2, <1>4, <2>1, PointerFacts, OnlyPartitioning
  <1>8. /\ \A x \in lo..left_ptr-1 : array[x] <= array[mid]
        /\ array[mid] <= array[left_ptr]
    BY <1>1 DEF HarnessInv, Partitioned
  <1>9. Partitioned'
    BY <1>1, <1>6, <1>7, <1>8 DEF Partitioned
  <1> QED BY <1>1, <1>2, <1>3, <1>9, InnerStep

(***************************************************************************)
(* The pointers meet.                                                      *)
(***************************************************************************)

\* What the new pointers have passed is on the right side of the pivot, and the
\* new pointers are in the partition.
LEMMA MeetFacts ==
  ASSUME HarnessInv, pc = "right", ~(mid # right_ptr /\ Less(mid, right_ptr)),
         array' = IF left_ptr < right_ptr THEN SWAP(left_ptr, right_ptr) ELSE array,
         NEW left, left = IF left_ptr <= right_ptr THEN left_ptr + 1 ELSE left_ptr,
         NEW right, right = IF left_ptr <= right_ptr THEN right_ptr - 1 ELSE right_ptr
  PROVE  /\ left \in Int /\ lo + 1 <= left /\ left <= hi
         /\ right \in Int /\ lo <= right /\ right <= hi - 1
         /\ \A x \in Index : lo <= x /\ x < left => array'[x] <= array[mid]
         /\ \A x \in Index : right < x /\ x <= hi => array[mid] <= array'[x]
  <1>1. Partitioning
    BY PointerFacts
  <1>2. /\ TypeInv /\ lo \in Int /\ hi \in Int /\ mid \in Index /\ lo < hi
        /\ left_ptr \in Index /\ right_ptr \in Index /\ left_ptr \in Int /\ right_ptr \in Int
        /\ lo + 1 <= left_ptr /\ left_ptr <= hi /\ lo <= right_ptr /\ right_ptr <= hi - 1
        /\ left_ptr <= right_ptr + 1
    BY <1>1, PointerFacts, OnlyPartitioning
  <1>3. /\ \A x \in Index : lo <= x /\ x < left_ptr => array[x] <= array[mid]
        /\ \A x \in Index : right_ptr < x /\ x <= hi => array[mid] <= array[x]
        /\ array[mid] <= array[left_ptr]
    BY PointerFacts
  <1>4. array[right_ptr] <= array[mid]
    <2>1. CASE mid = right_ptr
      <3>1. array[mid] \in Int
        BY <1>2, IndexFacts
      <3> QED BY <2>1, <3>1
    <2>2. CASE ~Less(mid, right_ptr)
      BY <1>2, <2>2, LessFacts
    <2> QED BY <2>1, <2>2
  <1>5. CASE left_ptr < right_ptr
    <2>1. left = left_ptr + 1 /\ right = right_ptr - 1 /\ array' = SWAP(left_ptr, right_ptr)
      BY <1>2, <1>5
    <2>2. array'[left_ptr] = array[right_ptr] /\ array'[right_ptr] = array[left_ptr]
          /\ \A x \in Index : x # left_ptr /\ x # right_ptr => array'[x] = array[x]
      BY <1>2, <2>1, SwapFacts
    <2>3. ASSUME NEW x \in Index, lo <= x, x < left PROVE array'[x] <= array[mid]
      <3>1. x \in Int /\ x # right_ptr /\ (x < left_ptr \/ x = left_ptr)
        BY <1>2, <1>5, <2>1, <2>3, IndexFacts
      <3>2. CASE x = left_ptr
        BY <1>4, <2>2, <3>2
      <3>3. CASE x < left_ptr
        BY <1>2, <1>3, <2>2, <2>3, <3>1, <3>3
      <3> QED BY <3>1, <3>2, <3>3
    <2>4. ASSUME NEW x \in Index, right < x, x <= hi PROVE array[mid] <= array'[x]
      <3>1. x \in Int /\ x # left_ptr /\ (right_ptr < x \/ x = right_ptr)
        BY <1>2, <1>5, <2>1, <2>4, IndexFacts
      <3>2. CASE x = right_ptr
        BY <1>3, <2>2, <3>2
      <3>3. CASE right_ptr < x
        BY <1>2, <1>3, <2>2, <2>4, <3>1, <3>3
      <3> QED BY <3>1, <3>2, <3>3
    <2> QED BY <1>2, <1>5, <2>1, <2>3, <2>4
  <1>6. CASE left_ptr = right_ptr
    <2>1. left = left_ptr + 1 /\ right = right_ptr - 1 /\ array' = array
      BY <1>2, <1>6
    <2>2. ASSUME NEW x \in Index, lo <= x, x < left PROVE array'[x] <= array[mid]
      <3>1. x < left_ptr \/ x = right_ptr
        BY <1>2, <1>6, <2>1, <2>2, IndexFacts
      <3> QED BY <1>3, <1>4, <2>1, <2>2, <3>1
    <2>3. ASSUME NEW x \in Index, right < x, x <= hi PROVE array[mid] <= array'[x]
      <3>1. right_ptr < x \/ x = left_ptr
        BY <1>2, <1>6, <2>1, <2>3, IndexFacts
      <3> QED BY <1>3, <2>1, <2>3, <3>1
    <2> QED BY <1>2, <1>6, <2>1, <2>2, <2>3
  <1>7. CASE right_ptr < left_ptr
    <2>1. left = left_ptr /\ right = right_ptr /\ array' = array
      BY <1>2, <1>7
    <2> QED BY <1>2, <1>3, <2>1
  <1> QED BY <1>2, <1>5, <1>6, <1>7

\* The pointers have not met: the pivot may have been exchanged.
LEMMA MeetContinuesInv ==
  ASSUME HarnessInv, CollapseRight, ~(mid # right_ptr /\ Less(mid, right_ptr)),
         NEW left, left = IF left_ptr <= right_ptr THEN left_ptr + 1 ELSE left_ptr,
         NEW right, right = IF left_ptr <= right_ptr THEN right_ptr - 1 ELSE right_ptr,
         left_ptr # right_ptr, left <= right
  PROVE  HarnessInv'
  <1>1. pc = "right" /\ Meet /\ UNCHANGED <<total_elems, original, searchVars>>
    BY DEF CollapseRight
  <1>2. /\ Partitioning /\ TypeInv /\ lo \in Int /\ hi \in Int /\ mid \in Index
        /\ lo <= mid /\ mid <= hi /\ \A x \in lo..hi : x \in Index
        /\ left_ptr \in Index /\ right_ptr \in Index /\ left_ptr \in Int /\ right_ptr \in Int
        /\ lo + 1 <= left_ptr /\ left_ptr <= hi /\ lo <= right_ptr /\ right_ptr <= hi - 1
        /\ left_ptr <= right_ptr + 1
    BY <1>1, PointerFacts, OnlyPartitioning
  <1>3. left_ptr < right_ptr
    BY <1>2
  <1>4. /\ array' = SWAP(left_ptr, right_ptr) /\ left_ptr' = left /\ right_ptr' = right
        /\ pc' = "left" /\ UNCHANGED <<lo, hi, stack>>
    BY <1>1, <1>3, Zenon DEF Meet
  <1>5. mid' = CASE left_ptr < right_ptr /\ mid = left_ptr -> right_ptr
                 [] left_ptr < right_ptr /\ mid = right_ptr -> left_ptr
                 [] OTHER -> mid
    BY <1>1, Zenon DEF Meet
  <1>6. /\ mid = left_ptr => mid' = right_ptr
        /\ mid = right_ptr => mid' = left_ptr
        /\ mid # left_ptr /\ mid # right_ptr => mid' = mid
    <2>1. left_ptr # right_ptr
      OBVIOUS
    <2>2. CASE mid = left_ptr
      <3>1. mid # right_ptr
        BY <2>1, <2>2
      <3> QED BY <1>3, <1>5, <2>2, <3>1, Zenon
    <2>3. CASE mid = right_ptr
      <3>1. mid # left_ptr
        BY <2>1, <2>3
      <3> QED BY <1>3, <1>5, <2>3, <3>1, Zenon
    <2>4. CASE mid # left_ptr /\ mid # right_ptr
      BY <1>3, <1>5, <2>4, Zenon
    <2> QED BY <2>2, <2>3, <2>4
  <1>7. mid' \in Index /\ lo <= mid' /\ mid' <= hi /\ array'[mid'] = array[mid]
    BY <1>2, <1>4, <1>6, SwapFacts
  <1>8. pc' \in Phases /\ MedianOfThree'
    BY <1>4 DEF Phases, MedianOfThree
  <1>9. CurrentPartition'
    BY <1>1, <1>2, <1>4, <1>7 DEF HarnessInv, CurrentPartition, Medians, Index
  <1>10. /\ left \in Int /\ lo + 1 <= left /\ left <= hi
         /\ right \in Int /\ lo <= right /\ right <= hi - 1
         /\ \A x \in Index : lo <= x /\ x < left => array'[x] <= array[mid]
         /\ \A x \in Index : right < x /\ x <= hi => array[mid] <= array'[x]
    BY <1>1, <1>3, <1>4, MeetFacts
  <1>11. left \in lo+1..hi /\ right \in lo..hi-1 /\ left <= right + 1
    BY <1>2, <1>10
  <1>12. ASSUME NEW x \in lo..left-1 PROVE array'[x] <= array'[mid']
    BY <1>2, <1>7, <1>10
  <1>13. ASSUME NEW x \in right+1..hi PROVE array'[mid'] <= array'[x]
    BY <1>2, <1>7, <1>10
  <1>14. Partitioned'
    BY <1>4, <1>11, <1>12, <1>13 DEF Partitioned
  <1>15. left_ptr \in lo..hi /\ right_ptr \in lo..hi
    BY <1>2
  <1> QED BY <1>1, <1>2, <1>4, <1>8, <1>9, <1>14, <1>15, InnerStep

(***************************************************************************)
(* The partition ends: it is cut behind right.                             *)
(***************************************************************************)

\* What a step that ends a partition leaves, whatever comes next.
PartitionEnds(left, right) ==
  /\ left \in Int /\ lo + 1 <= left /\ left <= hi
  /\ right \in Int /\ lo <= right /\ right <= hi - 1 /\ right < left
  /\ array' \in [Index -> Key] /\ SameElements'
  /\ UNCHANGED <<total_elems, original, searchVars>>
  /\ \A c \in 1..total_elems : Cut(c) /\ (c <= lo \/ hi < c) => Cut(c)'
  /\ \A x, y \in Index : lo <= x /\ x <= right /\ right < y /\ y <= hi => array'[x] <= array'[y]

\* The step of the right pointer that ends a partition.
LEMMA MeetEnds ==
  ASSUME HarnessInv, CollapseRight, ~(mid # right_ptr /\ Less(mid, right_ptr)),
         NEW left, left = IF left_ptr <= right_ptr THEN left_ptr + 1 ELSE left_ptr,
         NEW right, right = IF left_ptr <= right_ptr THEN right_ptr - 1 ELSE right_ptr,
         ~(left_ptr # right_ptr /\ left <= right)
  PROVE  PartitionEnds(left, right) /\ NextPartition(left, right)
  <1>1. pc = "right" /\ Meet /\ UNCHANGED <<total_elems, original, searchVars>>
    BY DEF CollapseRight
  <1>2. /\ Partitioning /\ TypeInv /\ lo \in Int /\ hi \in Int /\ mid \in Index
        /\ left_ptr \in Index /\ right_ptr \in Index /\ left_ptr \in Int /\ right_ptr \in Int
        /\ lo + 1 <= left_ptr /\ left_ptr <= hi /\ lo <= right_ptr /\ right_ptr <= hi - 1
        /\ left_ptr <= right_ptr + 1
    BY <1>1, PointerFacts, OnlyPartitioning
  <1>3. array' = IF left_ptr < right_ptr THEN SWAP(left_ptr, right_ptr) ELSE array
    BY <1>1, Zenon DEF Meet
  <1>4. NextPartition(left, right)
    BY <1>1, Zenon DEF Meet
  <1>5. /\ left \in Int /\ lo + 1 <= left /\ left <= hi
        /\ right \in Int /\ lo <= right /\ right <= hi - 1
        /\ \A x \in Index : lo <= x /\ x < left => array'[x] <= array[mid]
        /\ \A x \in Index : right < x /\ x <= hi => array[mid] <= array'[x]
    BY <1>1, <1>3, MeetFacts
  <1>6. right < left
    BY <1>2
  <1>7. array' \in [Index -> Key] /\ SameElements'
    <2>1. CASE left_ptr < right_ptr
      BY <1>1, <1>2, <1>3, <2>1, SwapFacts, SwapKeepsElements DEF HarnessInv
    <2>2. CASE ~(left_ptr < right_ptr)
      BY <1>1, <1>2, <1>3, <2>2 DEF HarnessInv, SameElements, TypeInv
    <2> QED BY <2>1, <2>2
  <1>8. ASSUME NEW c \in 1..total_elems, Cut(c), c <= lo \/ hi < c
        PROVE  Cut(c)'
    <2>1. CASE left_ptr < right_ptr
      <3>1. c \in Int /\ ((c <= left_ptr /\ c <= right_ptr) \/ (left_ptr < c /\ right_ptr < c))
        BY <1>2, <1>8
      <3> QED BY <1>1, <1>2, <1>3, <1>8, <2>1, <3>1, SwapKeepsCut
    <2>2. CASE ~(left_ptr < right_ptr)
      BY <1>1, <1>3, <1>8, <2>2 DEF Cut, Index
    <2> QED BY <2>1, <2>2
  <1>9. ASSUME NEW x \in Index, NEW y \in Index, lo <= x, x <= right, right < y, y <= hi
        PROVE  array'[x] <= array'[y]
    <2>1. x < left
      BY <1>2, <1>5, <1>6, <1>9, IndexFacts
    <2>2. array'[x] <= array[mid] /\ array[mid] <= array'[y]
      BY <1>5, <1>9, <2>1
    <2>3. array'[x] \in Int /\ array[mid] \in Int /\ array'[y] \in Int
      BY <1>2, <1>7, IndexFacts, HarnessAssumption
    <2> QED BY <2>2, <2>3
  <1> QED BY <1>1, <1>4, <1>5, <1>6, <1>7, <1>8, <1>9 DEF PartitionEnds

\* The first d elements are the smallest; they are few and all partitions lie
\* behind, or they are the first part of the current one, or on the stack.
NewFront(d, right) ==
  /\ d \in 1..total_elems /\ Cut(d)'
  /\ \/ /\ d <= MAX_THRESH + 1 /\ d <= lo
        /\ \A i \in 2..Len(stack) : d <= stack[i][1]
     \/ /\ lo = 0 /\ d = right + 1
        /\ \A i \in 2..Len(stack) : d <= stack[i][1]
     \/ /\ d <= lo
        /\ \E n \in 2..Len(stack) :
             /\ stack[n] = <<0, d - 1>>
             /\ \A i \in 2..Len(stack) : i # n => d <= stack[i][1]

\* The array still begins with the smallest elements when a partition ends.
LEMMA FrontAfterEnd ==
  ASSUME HarnessInv, Partitioning, NEW left, NEW right, PartitionEnds(left, right)
  PROVE  \E d \in 1..total_elems : NewFront(d, right)
  <1>1. PICK c \in 1..total_elems : FrontBlock(c)
    BY DEF HarnessInv, Front
  <1>2. /\ lo \in Int /\ hi \in Int /\ total_elems \in Nat /\ lo >= 0 /\ hi < total_elems
        /\ TypeInv /\ c \in Int /\ 1 <= c
    BY OnlyPartitioning
  <1>3. right \in Int /\ lo <= right /\ right <= hi - 1
    BY DEF PartitionEnds
  <1>4. c <= lo \/ hi = c - 1
    BY <1>1 DEF FrontBlock
  <1>5. Cut(c)'
    <2>1. c <= lo \/ hi < c
      BY <1>2, <1>4
    <2> QED BY <1>1, <2>1 DEF FrontBlock, PartitionEnds
  <1>6. CASE lo = 0 /\ hi = c - 1 /\ \A i \in 2..Len(stack) : c <= stack[i][1]
    <2>1. PICK d : d = right + 1
      OBVIOUS
    <2>2. d \in 1..total_elems /\ d \in Int /\ d < c
      BY <1>2, <1>3, <1>6, <2>1
    <2>3. ASSUME NEW x \in Index, NEW y \in Index, x < d, d <= y
          PROVE  array'[x] <= array'[y]
      <3>0. x \in Int /\ y \in Int /\ 0 <= x
        BY <1>2, IndexFacts
      <3>1. CASE y <= hi
        <4>1. lo <= x /\ x <= right /\ right < y
          BY <1>3, <1>6, <2>1, <2>3, <3>0
        <4> QED BY <3>1, <4>1 DEF PartitionEnds
      <3>2. CASE hi < y
        <4>1. x < c /\ c <= y
          BY <1>2, <1>6, <2>2, <2>3, <3>0, <3>2
        <4>2. Index' = Index
          BY DEF PartitionEnds, Index
        <4> QED BY <1>5, <4>1, <4>2 DEF Cut
      <3> QED BY <1>2, <3>0, <3>1, <3>2
    <2>4. Cut(d)'
      <3>1. Index' = Index
        BY DEF PartitionEnds, Index
      <3> QED BY <2>3, <3>1 DEF Cut
    <2>5. \A i \in 2..Len(stack) : d <= stack[i][1]
      <3>1. \A i \in 2..Len(stack) : stack[i][1] \in Int
        BY <1>2, IndexFacts DEF HarnessInv, Stacked
      <3> QED BY <1>2, <1>6, <2>2, <3>1
    <2> QED BY <1>6, <2>1, <2>2, <2>4, <2>5 DEF NewFront
  <1>7. CASE c <= MAX_THRESH + 1 /\ c <= lo /\ \A i \in 2..Len(stack) : c <= stack[i][1]
    BY <1>5, <1>7 DEF NewFront
  <1>8. CASE /\ c <= lo
             /\ \E n \in 2..Len(stack) :
                  /\ stack[n] = <<0, c - 1>>
                  /\ \A i \in 2..Len(stack) : i # n => c <= stack[i][1]
    <2>1. NewFront(c, right)
      BY <1>5, <1>8, Zenon DEF NewFront
    <2> QED BY <2>1
  <1> QED BY <1>1, <1>6, <1>7, <1>8, Zenon DEF FrontBlock

\* The places of the partitions after entry i of the stack, and of a..b.
LaterThan(s, i, a, b) == (UNION {s[j][1]..s[j][2] : j \in (i + 1)..Len(s)}) \cup a..b

\* An entry of the stack that is still there is large enough when the ones after
\* it lie within the old ones.
LEMMA StillLogarithmic ==
  ASSUME HarnessInv, Partitioning, NEW s, NEW low, NEW high, NEW i \in 2..Len(stack),
         s[i] = stack[i], LaterThan(s, i, low, high) \subseteq LaterThan(stack, i, lo, hi)
  PROVE  Cardinality(s[i][1]..s[i][2]) >= Cardinality(LaterThan(s, i, low, high))
  <1> DEFINE old == LaterThan(stack, i, lo, hi)
             new == LaterThan(s, i, low, high)
             own == stack[i][1]..stack[i][2]
  <1>1. /\ TypeInv /\ lo \in Int /\ hi \in Int /\ \A x \in lo..hi : x \in Index
        /\ Len(stack) \in Nat
    BY OnlyPartitioning
  <1>2. Cardinality(own) >= Cardinality(old)
    BY DEF HarnessInv, StackIsLogarithmic, LaterThan, Partitioning, Medians
  <1>3. ASSUME NEW j \in 2..Len(stack), NEW x \in stack[j][1]..stack[j][2] PROVE x \in Index
    <2>1. stack[j][1] \in Index /\ stack[j][2] \in Index
      BY DEF HarnessInv, Stacked
    <2>2. stack[j][1] \in Int /\ stack[j][2] \in Int /\ stack[j][1] >= 0
          /\ stack[j][2] < total_elems
      BY <1>1, <2>1, IndexFacts
    <2>3. x \in Int /\ 0 <= x /\ x < total_elems
      BY <1>1, <2>2, IndexFacts
    <2> QED BY <1>1, <2>3, IndexFacts
  <1>4. ASSUME NEW x \in old PROVE x \in Index
    <2>1. CASE x \in lo..hi
      BY <1>1, <2>1
    <2>2. CASE \E j \in (i + 1)..Len(stack) : x \in stack[j][1]..stack[j][2]
      <3>1. PICK j \in (i + 1)..Len(stack) : x \in stack[j][1]..stack[j][2]
        BY <2>2
      <3>2. j \in 2..Len(stack)
        BY <1>1
      <3> QED BY <1>3, <3>1, <3>2
    <2> QED BY <2>1, <2>2 DEF LaterThan
  <1>5. own \subseteq Index /\ old \subseteq Index
    BY <1>3, <1>4
  <1> HIDE DEF old, new, own
  <1>6. IsFiniteSet(own) /\ IsFiniteSet(old)
    BY <1>1, <1>5, IndexFacts, FS_Subset
  <1>7. new \subseteq old
    BY DEF new, old
  <1>8. IsFiniteSet(new) /\ Cardinality(new) <= Cardinality(old)
    BY <1>6, <1>7, FS_Subset
  <1>9. Cardinality(own) \in Nat /\ Cardinality(old) \in Nat /\ Cardinality(new) \in Nat
    BY <1>6, <1>8, FS_CardinalityType
  <1>10. Cardinality(own) >= Cardinality(new)
    BY <1>2, <1>8, <1>9
  <1> QED BY <1>10 DEF own, new

\* Going on with another partition keeps the invariant if that one and those on
\* the stack are what the invariant says.
LEMMA ContinueInv ==
  ASSUME HarnessInv, Partitioning, NEW left, NEW right, PartitionEnds(left, right),
         NEW low \in Index, NEW high \in Index, low < high,
         NEW s \in Seq(Int \X Int), Len(s) >= 1, ContinueWith(low, high, s),
         \A i \in 2..Len(s) : s[i][1] \in Index /\ s[i][2] \in Index /\ s[i][1] < s[i][2],
         \A i \in 2..Len(s) :
           Cardinality(s[i][1]..s[i][2]) >= Cardinality(LaterThan(s, i, low, high)),
         NEW d \in 1..total_elems, FrontBlock(d)'
  PROVE  HarnessInv'
  <1>1. /\ lo' = low /\ hi' = high /\ stack' = s /\ mid' = Median(low, high)
        /\ pc' = "median low"
    BY DEF ContinueWith
  <1>2. /\ array' \in [Index -> Key] /\ SameElements' /\ Index' = Index
        /\ UNCHANGED <<total_elems, original, searchVars>>
    BY DEF PartitionEnds, Index
  <1>3. TypeInv /\ result = -1 /\ UNCHANGED result
    BY <1>2, OnlyPartitioning DEF searchVars
  <1>4. TypeInv'
    BY <1>1, <1>2, <1>3 DEF TypeInv
  <1>5. low \in Int /\ high \in Int
    BY <1>3, IndexFacts
  <1>6. mid' \in Int /\ low <= mid' /\ mid' < high
    <2>1. PICK n : n = high - low
      OBVIOUS
    <2>2. n \in Int /\ n >= 1 /\ high = low + n
      BY <1>5, <2>1
    <2>3. PICK h : h = n \div 2
      OBVIOUS
    <2>4. h \in Int /\ 0 <= h /\ h < n
      BY <2>2, <2>3
    <2>5. mid' = low + h
      BY <1>1, <2>1, <2>3 DEF Median
    <2> QED BY <1>5, <2>2, <2>4, <2>5
  <1>7. mid' \in Index
    <2>1. 0 <= low /\ high < total_elems /\ total_elems \in Nat
      BY <1>3, IndexFacts
    <2>2. 0 <= mid' /\ mid' < total_elems
      BY <1>5, <1>6, <2>1
    <2> QED BY <1>3, <1>6, <2>2, IndexFacts
  <1>8. CurrentPartition'
    <2>1. low <= mid' /\ mid' <= high /\ mid' < high
      BY <1>5, <1>6
    <2> QED BY <1>1, <1>2, <1>7, <2>1 DEF CurrentPartition
  <1>9. Stacked'
    BY <1>1, <1>2 DEF Stacked
  <1>10. MedianOfThree' /\ Partitioned' /\ pc' \in Phases
    BY <1>1 DEF MedianOfThree, Partitioned, Phases, Medians
  <1>11. Front'
    BY <1>2 DEF Front
  <1>12. StackIsLogarithmic'
    BY <1>1, ZenonT(30) DEF StackIsLogarithmic, LaterThan
  <1> QED BY <1>2, <1>3, <1>4, <1>8, <1>9, <1>10, <1>11, <1>12, StillPartitioning DEF HarnessInv

\* The entries of the stack, for the next partition.
LEMMA StackFacts ==
  ASSUME HarnessInv, Partitioning
  PROVE  /\ TypeInv /\ Len(stack) \in Nat /\ Len(stack) >= 1 /\ stack \in Seq(Int \X Int)
         /\ \A i \in 2..Len(stack) :
              /\ stack[i][1] \in Index /\ stack[i][2] \in Index /\ stack[i][1] < stack[i][2]
              /\ stack[i][1] \in Int /\ stack[i][2] \in Int
  <1>1. TypeInv /\ Len(stack) \in Nat /\ Len(stack) >= 1 /\ stack \in Seq(Int \X Int)
    BY OnlyPartitioning
  <1>2. \A i \in 2..Len(stack) :
          stack[i][1] \in Index /\ stack[i][2] \in Index /\ stack[i][1] < stack[i][2]
    BY DEF HarnessInv, Stacked
  <1> QED BY <1>1, <1>2, IndexFacts

\* Only the second part of the partition is left.
LEMMA LeftSmallInv ==
  ASSUME HarnessInv, Partitioning, NEW left, NEW right, PartitionEnds(left, right),
         right - lo <= MAX_THRESH, ~(hi - left \in 0..MAX_THRESH),
         ContinueWith(left, hi, stack)
  PROVE  HarnessInv'
  <1>1. /\ left \in Int /\ lo + 1 <= left /\ left <= hi
        /\ right \in Int /\ lo <= right /\ right <= hi - 1 /\ right < left
    BY DEF PartitionEnds
  <1>2. lo \in Int /\ hi \in Int /\ hi \in Index /\ \A x \in lo..hi : x \in Index
    BY OnlyPartitioning
  <1>3. left \in Index /\ left < hi /\ MAX_THRESH \in Nat
    BY <1>1, <1>2, HarnessAssumption
  <1>4. ASSUME NEW i \in 2..Len(stack)
        PROVE  Cardinality(stack[i][1]..stack[i][2]) >= Cardinality(LaterThan(stack, i, left, hi))
    <2>1. left..hi \subseteq lo..hi
      BY <1>1, <1>2
    <2>2. LaterThan(stack, i, left, hi) \subseteq LaterThan(stack, i, lo, hi)
      BY <2>1 DEF LaterThan
    <2> QED BY <2>2, StillLogarithmic
  <1>5. PICK d \in 1..total_elems : NewFront(d, right)
    BY FrontAfterEnd
  <1>6. lo' = left /\ hi' = hi /\ stack' = stack /\ total_elems' = total_elems
    BY DEF ContinueWith, PartitionEnds
  <1>7. FrontBlock(d)'
    <2>1. Cut(d)' /\ d \in 1..total_elems' /\ d \in Int
      BY <1>5, <1>6 DEF NewFront
    <2>2. CASE d <= MAX_THRESH + 1 /\ d <= lo /\ \A i \in 2..Len(stack) : d <= stack[i][1]
      <3>1. d <= lo'
        BY <1>1, <1>2, <1>6, <2>1, <2>2
      <3> QED BY <1>6, <2>1, <2>2, <3>1 DEF FrontBlock
    <2>3. CASE lo = 0 /\ d = right + 1 /\ \A i \in 2..Len(stack) : d <= stack[i][1]
      <3>1. d <= lo' /\ d <= MAX_THRESH + 1
        BY <1>1, <1>2, <1>3, <1>6, <2>1, <2>3
      <3> QED BY <1>6, <2>1, <2>3, <3>1 DEF FrontBlock
    <2>4. CASE /\ d <= lo
               /\ \E n \in 2..Len(stack) :
                    /\ stack[n] = <<0, d - 1>>
                    /\ \A i \in 2..Len(stack) : i # n => d <= stack[i][1]
      <3>1. d <= lo'
        BY <1>1, <1>2, <1>6, <2>1, <2>4
      <3> QED BY <1>6, <2>1, <2>4, <3>1, Zenon DEF FrontBlock
    <2> QED BY <1>5, <2>2, <2>3, <2>4, Zenon DEF NewFront
  <1> QED BY <1>2, <1>3, <1>4, <1>7, StackFacts, ContinueInv

\* Only the first part of the partition is left.
LEMMA RightSmallInv ==
  ASSUME HarnessInv, Partitioning, NEW left, NEW right, PartitionEnds(left, right),
         ~(right - lo \in 0..MAX_THRESH), ContinueWith(lo, right, stack)
  PROVE  HarnessInv'
  <1>1. /\ left \in Int /\ lo + 1 <= left /\ left <= hi
        /\ right \in Int /\ lo <= right /\ right <= hi - 1 /\ right < left
    BY DEF PartitionEnds
  <1>2. lo \in Int /\ hi \in Int /\ lo \in Index /\ \A x \in lo..hi : x \in Index
    BY OnlyPartitioning
  <1>3. right \in Index /\ lo < right
    BY <1>1, <1>2, HarnessAssumption
  <1>4. ASSUME NEW i \in 2..Len(stack)
        PROVE  Cardinality(stack[i][1]..stack[i][2]) >= Cardinality(LaterThan(stack, i, lo, right))
    <2>1. lo..right \subseteq lo..hi
      BY <1>1, <1>2
    <2>2. LaterThan(stack, i, lo, right) \subseteq LaterThan(stack, i, lo, hi)
      BY <2>1 DEF LaterThan
    <2> QED BY <2>2, StillLogarithmic
  <1>5. PICK d \in 1..total_elems : NewFront(d, right)
    BY FrontAfterEnd
  <1>6. lo' = lo /\ hi' = right /\ stack' = stack /\ total_elems' = total_elems
    BY DEF ContinueWith, PartitionEnds
  <1>7. FrontBlock(d)'
    <2>1. Cut(d)' /\ d \in 1..total_elems' /\ d \in Int
      BY <1>5, <1>6 DEF NewFront
    <2>2. CASE d <= MAX_THRESH + 1 /\ d <= lo /\ \A i \in 2..Len(stack) : d <= stack[i][1]
      BY <1>6, <2>1, <2>2 DEF FrontBlock
    <2>3. CASE lo = 0 /\ d = right + 1 /\ \A i \in 2..Len(stack) : d <= stack[i][1]
      <3>1. lo' = 0 /\ hi' = d - 1
        BY <1>1, <1>6, <2>3
      <3> QED BY <1>6, <2>1, <2>3, <3>1 DEF FrontBlock
    <2>4. CASE /\ d <= lo
               /\ \E n \in 2..Len(stack) :
                    /\ stack[n] = <<0, d - 1>>
                    /\ \A i \in 2..Len(stack) : i # n => d <= stack[i][1]
      BY <1>6, <2>1, <2>4, Zenon DEF FrontBlock
    <2> QED BY <1>5, <2>2, <2>3, <2>4, Zenon DEF NewFront
  <1> QED BY <1>2, <1>3, <1>4, <1>7, StackFacts, ContinueInv

\* s is the stack with a..b on top, at n.
Pushed(s, n, a, b) ==
  /\ s \in Seq(Int \X Int) /\ n \in Int /\ Len(s) = n /\ n \in 2..Len(s)
  /\ s[n][1] = a /\ s[n][2] = b /\ s[n] = <<a, b>>
  /\ \A i \in 2..Len(s) : i = n \/ i \in 2..Len(stack)
  /\ \A i \in 2..Len(stack) : s[i] = stack[i] /\ i # n /\ i \in 2..Len(s)

\* Appending an entry pushes it.
LEMMA PushedFacts ==
  ASSUME HarnessInv, Partitioning, NEW a \in Int, NEW b \in Int,
         NEW s, s = Append(stack, <<a, b>>), NEW n, n = Len(stack) + 1
  PROVE  Pushed(s, n, a, b)
  <1>1. stack \in Seq(Int \X Int) /\ Len(stack) \in Nat /\ Len(stack) >= 1
    BY StackFacts
  <1>2. PICK e : e = <<a, b>>
    OBVIOUS
  <1>3. e \in Int \X Int /\ e[1] = a /\ e[2] = b /\ s = Append(stack, e)
    BY <1>2
  <1>4. /\ s \in Seq(Int \X Int) /\ Len(s) = n /\ s[n] = e
        /\ \A i \in 1..Len(stack) : s[i] = stack[i]
    BY <1>1, <1>3
  <1>5. n \in Int /\ n \in 2..Len(s) /\ \A i \in 2..Len(s) : i = n \/ i \in 2..Len(stack)
    BY <1>1, <1>4
  <1>6. \A i \in 2..Len(stack) : s[i] = stack[i] /\ i # n /\ i \in 2..Len(s)
    BY <1>1, <1>4, SMTT(30)
  <1> QED BY <1>2, <1>3, <1>4, <1>5, <1>6 DEF Pushed

\* Both parts are left: the larger one, a..b, is pushed.
LEMMA PushInv ==
  ASSUME HarnessInv, Partitioning, NEW left, NEW right, PartitionEnds(left, right),
         NEW low \in lo..hi, NEW high \in lo..hi, NEW a \in lo..hi, NEW b \in lo..hi,
         low < high, a < b, b - a >= high - low,
         \/ low = lo /\ high = right /\ right < a
         \/ a = lo /\ b = right /\ right < low,
         ContinueWith(low, high, Append(stack, <<a, b>>))
  PROVE  HarnessInv'
  <1>1. /\ lo \in Int /\ hi \in Int /\ \A x \in lo..hi : x \in Index
        /\ low \in Int /\ high \in Int /\ a \in Int /\ b \in Int /\ right \in Int
        /\ low \in Index /\ high \in Index /\ a \in Index /\ b \in Index
        /\ Len(stack) \in Nat
    BY OnlyPartitioning DEF PartitionEnds
  <1>2. PICK s : s = Append(stack, <<a, b>>)
    OBVIOUS
  <1>3. PICK n : n = Len(stack) + 1
    OBVIOUS
  <1>4. /\ s \in Seq(Int \X Int) /\ n \in Int /\ Len(s) = n /\ n \in 2..Len(s)
        /\ s[n][1] = a /\ s[n][2] = b /\ s[n] = <<a, b>>
        /\ \A i \in 2..Len(s) : i = n \/ i \in 2..Len(stack)
        /\ \A i \in 2..Len(stack) : s[i] = stack[i] /\ i # n /\ i \in 2..Len(s)
    <2>1. a \in Int /\ b \in Int
      BY <1>1
    <2>2. s = Append(stack, <<a, b>>) /\ n = Len(stack) + 1
      BY <1>2, <1>3
    <2>3. Pushed(s, n, a, b)
      BY <2>1, <2>2, PushedFacts
    <2> QED BY <2>3, Zenon DEF Pushed
  <1>5. ASSUME NEW i \in 2..Len(s)
        PROVE  s[i][1] \in Index /\ s[i][2] \in Index /\ s[i][1] < s[i][2]
    <2>1. CASE i = n
      BY <1>1, <1>4, <2>1
    <2>2. CASE i \in 2..Len(stack)
      BY <1>4, <2>2, StackFacts
    <2> QED BY <1>4, <2>1, <2>2
  <1>6. ASSUME NEW i \in 2..Len(s)
        PROVE  Cardinality(s[i][1]..s[i][2]) >= Cardinality(LaterThan(s, i, low, high))
    <2>1. CASE i = n
      <3>1. (i + 1)..Len(s) = {}
        BY <1>4, <2>1
      <3>2. LaterThan(s, i, low, high) = low..high
        BY <3>1 DEF LaterThan
      <3>3. Cardinality(low..high) = high - low + 1 /\ Cardinality(a..b) = b - a + 1
        BY <1>1, FS_Interval
      <3>4. b - a + 1 >= high - low + 1
        BY <1>1
      <3> QED BY <1>4, <2>1, <3>2, <3>3, <3>4
    <2>2. CASE i \in 2..Len(stack)
      <3>1. low..high \subseteq lo..hi /\ a..b \subseteq lo..hi
        BY <1>1
      <3>2. ASSUME NEW x \in LaterThan(s, i, low, high)
            PROVE  x \in LaterThan(stack, i, lo, hi)
        <4>1. CASE x \in low..high
          BY <3>1, <4>1 DEF LaterThan
        <4>2. CASE \E j \in (i + 1)..Len(s) : x \in s[j][1]..s[j][2]
          <5>1. PICK j \in (i + 1)..Len(s) : x \in s[j][1]..s[j][2]
            BY <4>2
          <5>2. CASE j = n
            BY <1>4, <3>1, <5>1, <5>2 DEF LaterThan
          <5>3. CASE j # n
            <6>1. j \in (i + 1)..Len(stack) /\ j \in 2..Len(stack)
              BY <1>1, <1>3, <1>4, <2>2, <5>3
            <6>2. s[j] = stack[j]
              BY <1>4, <6>1
            <6> QED BY <5>1, <6>1, <6>2 DEF LaterThan
          <5> QED BY <5>2, <5>3
        <4> QED BY <4>1, <4>2 DEF LaterThan
      <3>3. s[i] = stack[i] /\ LaterThan(s, i, low, high) \subseteq LaterThan(stack, i, lo, hi)
        BY <1>4, <2>2, <3>2
      <3> QED BY <2>2, <3>3, StillLogarithmic
    <2> QED BY <1>4, <2>1, <2>2
  <1>7. PICK d \in 1..total_elems : NewFront(d, right)
    BY FrontAfterEnd
  <1>8. lo' = low /\ hi' = high /\ stack' = s /\ total_elems' = total_elems
    BY <1>2 DEF ContinueWith, PartitionEnds
  <1>9. Cut(d)' /\ d \in 1..total_elems' /\ d \in Int
    BY <1>7, <1>8 DEF NewFront
  <1>10. ASSUME d <= lo PROVE d <= low /\ d <= a
    BY <1>1, <1>9, <1>10
  <1>11. FrontBlock(d)'
    <2>1. CASE d <= MAX_THRESH + 1 /\ d <= lo /\ \A i \in 2..Len(stack) : d <= stack[i][1]
      <3>1. ASSUME NEW i \in 2..Len(s) PROVE d <= s[i][1]
        BY <1>4, <1>10, <2>1
      <3> QED BY <1>8, <1>9, <1>10, <2>1, <3>1 DEF FrontBlock
    <2>2. CASE /\ lo = 0 /\ d = right + 1 /\ \A i \in 2..Len(stack) : d <= stack[i][1]
               /\ low = lo /\ high = right /\ right < a
      <3>1. lo' = 0 /\ hi' = d - 1 /\ d <= a
        BY <1>1, <1>8, <1>9, <2>2
      <3>2. ASSUME NEW i \in 2..Len(s) PROVE d <= s[i][1]
        BY <1>4, <2>2, <3>1
      <3> QED BY <1>8, <1>9, <3>1, <3>2 DEF FrontBlock
    <2>3. CASE /\ lo = 0 /\ d = right + 1 /\ \A i \in 2..Len(stack) : d <= stack[i][1]
               /\ a = lo /\ b = right /\ right < low
      <3>1. d <= lo' /\ s[n] = <<0, d - 1>>
        <4>1. d <= lo' /\ a = 0 /\ b = d - 1
          BY <1>1, <1>8, <1>9, <2>3
        <4> QED BY <1>4, <4>1
      <3>2. \A i \in 2..Len(s) : i # n => d <= s[i][1]
        BY <1>4, <2>3
      <3> QED BY <1>4, <1>8, <1>9, <3>1, <3>2 DEF FrontBlock
    <2>4. CASE /\ d <= lo
               /\ \E m \in 2..Len(stack) :
                    /\ stack[m] = <<0, d - 1>>
                    /\ \A i \in 2..Len(stack) : i # m => d <= stack[i][1]
      <3>1. PICK m \in 2..Len(stack) :
              /\ stack[m] = <<0, d - 1>>
              /\ \A i \in 2..Len(stack) : i # m => d <= stack[i][1]
        BY <2>4
      <3>2. d <= low /\ d <= a
        BY <1>10, <2>4
      <3>3. m \in 2..Len(s) /\ s[m] = <<0, d - 1>>
        BY <1>4, <3>1
      <3>4. ASSUME NEW i \in 2..Len(s), i # m PROVE d <= s[i][1]
        BY <1>4, <3>1, <3>2, <3>4
      <3> QED BY <1>8, <1>9, <3>2, <3>3, <3>4 DEF FrontBlock
    <2> QED BY <1>7, <2>1, <2>2, <2>3, <2>4, Zenon DEF NewFront
  <1>12. ContinueWith(low, high, s) /\ Len(s) >= 1
    BY <1>2, <1>4
  <1> QED BY <1>1, <1>4, <1>5, <1>6, <1>11, <1>12, ContinueInv

\* Both parts are small: the last partition pushed is next.
LEMMA PopInv ==
  ASSUME HarnessInv, Partitioning, NEW left, NEW right, PartitionEnds(left, right),
         right - lo <= MAX_THRESH, Pop, Len(stack) # 1
  PROVE  HarnessInv'
  <1>1. /\ stack \in Seq(Int \X Int) /\ Len(stack) \in Nat /\ Len(stack) >= 2
        /\ lo \in Int /\ hi \in Int
    <2>1. /\ stack \in Seq(Int \X Int) /\ lo \in Int /\ hi \in Int
      BY OnlyPartitioning
    <2>2. PICK n : n = Len(stack)
      OBVIOUS
    <2>3. n \in Nat /\ n >= 1
      BY <2>2, OnlyPartitioning
    <2>4. n # 1
      BY <2>2
    <2>5. n >= 2
      BY <2>3, <2>4
    <2> QED BY <2>1, <2>2, <2>3, <2>5
  <1>2. PICK n : n = Len(stack)
    OBVIOUS
  <1>3. PICK s : s = SubSeq(stack, 1, n - 1)
    OBVIOUS
  <1>4. PICK low : low = stack[n][1]
    OBVIOUS
  <1>5. PICK high : high = stack[n][2]
    OBVIOUS
  <1>6. ContinueWith(low, high, s)
    BY <1>2, <1>3, <1>4, <1>5, Zenon DEF Pop
  <1>7. n \in 2..Len(stack) /\ n \in Int
    BY <1>1, <1>2
  <1>8. low \in Index /\ high \in Index /\ low < high /\ low \in Int
    BY <1>4, <1>5, <1>7, StackFacts
  <1>9. /\ s \in Seq(Int \X Int) /\ Len(s) = n - 1 /\ Len(s) >= 1
        /\ \A i \in 2..Len(s) : s[i] = stack[i] /\ i \in 2..Len(stack) /\ i # n
    <2>1. n \in Nat /\ n >= 2 /\ n - 1 \in 1..Len(stack)
      BY <1>1, <1>2
    <2>2. s \in Seq(Int \X Int) /\ Len(s) = n - 1 /\ \A i \in 1..n-1 : s[i] = stack[i]
      BY <1>1, <1>3, <2>1, SMTT(30)
    <2> QED BY <1>2, <2>1, <2>2
  <1>10. \A i \in 2..Len(s) : s[i][1] \in Index /\ s[i][2] \in Index /\ s[i][1] < s[i][2]
    BY <1>9, StackFacts
  <1>11. ASSUME NEW i \in 2..Len(s)
         PROVE  Cardinality(s[i][1]..s[i][2]) >= Cardinality(LaterThan(s, i, low, high))
    <2>1. ASSUME NEW x \in LaterThan(s, i, low, high) PROVE x \in LaterThan(stack, i, lo, hi)
      <3>1. n \in (i + 1)..Len(stack) /\ i \in Int
        BY <1>2, <1>7, <1>9
      <3>2. CASE x \in low..high
        BY <1>4, <1>5, <3>1, <3>2 DEF LaterThan
      <3>3. CASE \E j \in (i + 1)..Len(s) : x \in s[j][1]..s[j][2]
        <4>1. PICK j \in (i + 1)..Len(s) : x \in s[j][1]..s[j][2]
          BY <3>3
        <4>2. j \in 2..Len(s) /\ j \in (i + 1)..Len(stack)
          BY <1>1, <1>2, <1>9
        <4>3. s[j] = stack[j]
          BY <1>9, <4>2
        <4> QED BY <4>1, <4>2, <4>3 DEF LaterThan
      <3> QED BY <3>2, <3>3 DEF LaterThan
    <2>2. s[i] = stack[i] /\ i \in 2..Len(stack)
          /\ LaterThan(s, i, low, high) \subseteq LaterThan(stack, i, lo, hi)
      BY <1>9, <2>1
    <2> QED BY <2>2, StillLogarithmic
  <1>12. PICK d \in 1..total_elems : NewFront(d, right)
    BY FrontAfterEnd
  <1>13. lo' = low /\ hi' = high /\ stack' = s /\ total_elems' = total_elems
    BY <1>6 DEF ContinueWith, PartitionEnds
  <1>14. Cut(d)' /\ d \in 1..total_elems' /\ d \in Int
    BY <1>12, <1>13 DEF NewFront
  <1>15. FrontBlock(d)'
    <2>1. ASSUME d <= MAX_THRESH + 1, \A i \in 2..Len(stack) : d <= stack[i][1]
          PROVE  FrontBlock(d)'
      <3>1. d <= lo' /\ \A i \in 2..Len(s) : d <= s[i][1]
        BY <1>4, <1>7, <1>9, <1>13, <2>1
      <3> QED BY <1>13, <1>14, <2>1, <3>1 DEF FrontBlock
    <2>2. CASE lo = 0 /\ d = right + 1 /\ \A i \in 2..Len(stack) : d <= stack[i][1]
      <3>1. d <= MAX_THRESH + 1
        BY <1>14, <2>2, HarnessAssumption DEF PartitionEnds
      <3> QED BY <2>1, <2>2, <3>1
    <2>3. CASE /\ d <= lo
               /\ \E m \in 2..Len(stack) :
                    /\ stack[m] = <<0, d - 1>>
                    /\ \A i \in 2..Len(stack) : i # m => d <= stack[i][1]
      <3>1. PICK m \in 2..Len(stack) :
              /\ stack[m] = <<0, d - 1>>
              /\ \A i \in 2..Len(stack) : i # m => d <= stack[i][1]
        BY <2>3
      <3>2. CASE m = n
        <4>1. lo' = 0 /\ hi' = d - 1
          BY <1>4, <1>5, <1>13, <3>1, <3>2
        <4>2. \A i \in 2..Len(s) : d <= s[i][1]
          BY <1>9, <3>1, <3>2
        <4> QED BY <1>13, <1>14, <4>1, <4>2 DEF FrontBlock
      <3>3. CASE m # n
        <4>1. m \in 2..Len(s)
          BY <1>1, <1>2, <1>9, <3>3
        <4>2. d <= lo' /\ s[m] = <<0, d - 1>>
          BY <1>4, <1>7, <1>9, <1>13, <3>1, <3>3, <4>1
        <4>3. \A i \in 2..Len(s) : i # m => d <= s[i][1]
          BY <1>9, <3>1
        <4> QED BY <1>13, <1>14, <4>1, <4>2, <4>3 DEF FrontBlock
      <3> QED BY <3>2, <3>3
    <2> QED BY <1>12, <2>1, <2>2, <2>3, Zenon DEF NewFront
  <1> QED BY <1>6, <1>8, <1>9, <1>10, <1>11, <1>15, ContinueInv

\* Nothing is left on the stack: the insertion sort begins, and the smallest
\* element is among the first MAX_THRESH + 1.
LEMMA LastPopInv ==
  ASSUME HarnessInv, Partitioning, NEW left, NEW right, PartitionEnds(left, right),
         right - lo <= MAX_THRESH, Pop, Len(stack) = 1
  PROVE  HarnessInv'
  <1>1. /\ TypeInv /\ lo \in Int /\ hi \in Int /\ total_elems \in Nat /\ lo >= 0 /\ lo < hi
        /\ hi < total_elems /\ result = -1
    BY OnlyPartitioning
  <1>2. pc' = "minimum" /\ tmp_ptr' = 0 /\ run_ptr' = 1
    BY <1>1 DEF Pop, StartInsertion
  <1>3. /\ array' \in [Index -> Key] /\ SameElements' /\ Index' = Index
        /\ UNCHANGED <<total_elems, original, result>>
    BY DEF PartitionEnds, Index, searchVars
  <1>4. TypeInv'
    BY <1>1, <1>2, <1>3 DEF TypeInv
  <1>5. PICK d \in 1..total_elems : NewFront(d, right)
    BY FrontAfterEnd
  <1>6. MAX_THRESH \in Nat \ {0} /\ thresh' = thresh /\ thresh \in Int /\ thresh >= 1
        /\ (thresh = MAX_THRESH \/ thresh = total_elems - 1)
    BY <1>1, <1>3, HarnessAssumption DEF thresh, Smallest, end_ptr
  <1>7. d <= MAX_THRESH + 1 /\ Cut(d)'
    <2>1. CASE lo = 0 /\ d = right + 1
      BY <1>5, <1>6, <2>1 DEF PartitionEnds, NewFront
    <2>2. CASE d <= MAX_THRESH + 1
      BY <1>5, <2>2 DEF NewFront
    <2>3. CASE \E m \in 2..Len(stack) : TRUE
      BY <2>3
    <2> QED BY <1>5, <2>1, <2>2, <2>3 DEF NewFront
  <1>8. d \in 1..thresh+1
    BY <1>1, <1>6, <1>7
  <1>9. MinimumSought'
    <2>1. run_ptr' \in 1..thresh+1 /\ tmp_ptr' \in 0..run_ptr'-1
      BY <1>2, <1>6
    <2>2. ASSUME NEW x \in 0..run_ptr'-1 PROVE array'[tmp_ptr'] <= array'[x]
      <3>1. x = 0 /\ array'[0] \in Int
        <4>1. 0 \in Index
          BY <1>1 DEF Index
        <4>2. array'[0] \in Key
          BY <1>3, <4>1
        <4>3. x = 0
          BY <1>2
        <4> QED BY <4>2, <4>3, HarnessAssumption
      <3> QED BY <1>2, <3>1
    <2>3. total_elems' >= 1
      BY <1>1, <1>3
    <2> QED BY <1>6, <1>7, <1>8, <2>1, <2>2, <2>3 DEF MinimumSought
  <1>10. ~Partitioning'
    BY <1>2 DEF Partitioning, Medians
  <1>11. /\ CurrentPartition' /\ Stacked' /\ MedianOfThree' /\ Partitioned' /\ Front'
         /\ StackIsLogarithmic' /\ Inserting' /\ SortedAfterwards' /\ Searching'
         /\ SearchFindsKey'
    BY <1>1, <1>2, <1>3, <1>10
       DEF CurrentPartition, Stacked, MedianOfThree, Partitioned, Front, StackIsLogarithmic,
           Inserting, SortedAfterwards, Searching, SearchFindsKey
  <1> QED BY <1>3, <1>4, <1>9, <1>11 DEF HarnessInv

\* The steps of the right pointer keep the invariant.
LEMMA CollapseRightInv ==
  ASSUME HarnessInv, CollapseRight PROVE HarnessInv'
  <1>1. CASE mid # right_ptr /\ Less(mid, right_ptr)
    BY <1>1, RightMovesInv
  <1>2. CASE ~(mid # right_ptr /\ Less(mid, right_ptr))
    <2>1. PICK left : left = IF left_ptr <= right_ptr THEN left_ptr + 1 ELSE left_ptr
      OBVIOUS
    <2>2. PICK right : right = IF left_ptr <= right_ptr THEN right_ptr - 1 ELSE right_ptr
      OBVIOUS
    <2>3. CASE left_ptr # right_ptr /\ left <= right
      BY <1>2, <2>1, <2>2, <2>3, MeetContinuesInv, Zenon
    <2>4. CASE ~(left_ptr # right_ptr /\ left <= right)
      <3>1. PartitionEnds(left, right) /\ NextPartition(left, right)
        BY <1>2, <2>1, <2>2, <2>4, MeetEnds, Zenon
      <3>2. Partitioning
        BY PointerFacts DEF CollapseRight
      <3>3. /\ lo \in Int /\ hi \in Int /\ left \in Int /\ right \in Int
            /\ lo + 1 <= left /\ left <= hi /\ lo <= right /\ right <= hi - 1 /\ right < left
            /\ MAX_THRESH \in Nat \ {0}
        BY <3>1, <3>2, OnlyPartitioning, HarnessAssumption DEF PartitionEnds
      <3>4. CASE right - lo \in 0..MAX_THRESH
        <4>1. right - lo <= MAX_THRESH
          BY <3>3, <3>4
        <4>2. CASE hi - left \in 0..MAX_THRESH
          BY <3>1, <3>2, <3>4, <4>1, <4>2, PopInv, LastPopInv DEF NextPartition
        <4>3. CASE ~(hi - left \in 0..MAX_THRESH)
          BY <3>1, <3>2, <3>4, <4>1, <4>3, LeftSmallInv DEF NextPartition
        <4> QED BY <4>2, <4>3
      <3>5. CASE ~(right - lo \in 0..MAX_THRESH)
        <4>1. CASE hi - left \in 0..MAX_THRESH
          BY <3>1, <3>2, <3>5, <4>1, RightSmallInv DEF NextPartition
        <4>2. CASE ~(hi - left \in 0..MAX_THRESH)
          <5>1. lo < right /\ left < hi
            BY <3>3, <3>5, <4>2
          <5>2. lo \in lo..hi /\ hi \in lo..hi /\ left \in lo..hi /\ right \in lo..hi
            BY <3>3
          <5>3. CASE right - lo > hi - left
            <6>1. ContinueWith(left, hi, Append(stack, <<lo, right>>))
              BY <3>1, <3>5, <4>2, <5>3 DEF NextPartition
            <6>2. right - lo >= hi - left /\ right < left
              BY <3>3, <5>3
            <6> QED BY <3>1, <3>2, <5>1, <5>2, <6>1, <6>2, PushInv
          <5>4. CASE ~(right - lo > hi - left)
            <6>1. ContinueWith(lo, right, Append(stack, <<left, hi>>))
              BY <3>1, <3>5, <4>2, <5>4 DEF NextPartition
            <6>2. hi - left >= right - lo /\ right < left
              BY <3>3, <5>4
            <6> QED BY <3>1, <3>2, <5>1, <5>2, <6>1, <6>2, PushInv
          <5> QED BY <5>3, <5>4
        <4> QED BY <4>1, <4>2
      <3> QED BY <3>4, <3>5
    <2> QED BY <2>3, <2>4
  <1> QED BY <1>1, <1>2

(***************************************************************************)
(* Insertion sort.                                                         *)
(***************************************************************************)

\* The conjuncts about quicksort say nothing once it is over.
LEMMA AfterQuicksort ==
  ASSUME pc' \notin Phases
  PROVE  /\ CurrentPartition' /\ Stacked' /\ MedianOfThree' /\ Partitioned' /\ Front'
         /\ StackIsLogarithmic'
  <1>1. ~Partitioning' /\ pc' \notin Medians /\ pc' \notin {"left", "right"}
    BY DEF Partitioning, Phases
  <1> QED BY <1>1 DEF CurrentPartition, Stacked, MedianOfThree, Partitioned, Front,
                      StackIsLogarithmic, Medians

\* Up to thresh, every element is there.
LEMMA ThreshFacts ==
  ASSUME TypeInv, total_elems >= 1
  PROVE  /\ thresh \in Int /\ 0 <= thresh /\ thresh < total_elems /\ end_ptr = total_elems - 1
         /\ end_ptr \in Int
  <1>1. total_elems \in Nat
    BY IndexFacts
  <1> QED BY <1>1, HarnessAssumption DEF thresh, Smallest, end_ptr

\* The search for the smallest element, and what it comes to.
LEMMA FindMinimumInv ==
  ASSUME HarnessInv, FindMinimum PROVE HarnessInv'
  <1>1. pc = "minimum" /\ UNCHANGED <<total_elems, original, result>>
    BY DEF FindMinimum, searchVars
  <1>2. /\ TypeInv /\ SameElements /\ result = -1 /\ total_elems >= 1
        /\ run_ptr \in 1..thresh+1 /\ tmp_ptr \in 0..run_ptr-1
        /\ \A i \in 0..run_ptr-1 : array[tmp_ptr] <= array[i]
        /\ \E c \in 1..thresh+1 : Cut(c)
    BY <1>1 DEF HarnessInv, MinimumSought, Searching
  <1>3. /\ total_elems \in Nat /\ thresh \in Int /\ 0 <= thresh /\ thresh < total_elems
        /\ end_ptr = total_elems - 1 /\ end_ptr \in Int
    BY <1>2, ThreshFacts, IndexFacts
  <1>4. run_ptr \in Int /\ tmp_ptr \in Int /\ tmp_ptr \in Index /\ 0 \in Index
        /\ Index' = Index /\ thresh' = thresh
    BY <1>1, <1>2, <1>3 DEF Index, thresh, end_ptr
  <1>5. CASE run_ptr <= thresh
    <2>1. /\ tmp_ptr' = IF Less(run_ptr, tmp_ptr) THEN run_ptr ELSE tmp_ptr
          /\ run_ptr' = run_ptr + 1 /\ array' = array /\ pc' = pc
      BY <1>5 DEF FindMinimum
    <2>2. run_ptr \in Index
      BY <1>2, <1>3, <1>4, <1>5 DEF Index
    <2>3. /\ tmp_ptr' \in Index /\ tmp_ptr' \in 0..run_ptr
          /\ array[tmp_ptr'] <= array[run_ptr] /\ array[tmp_ptr'] <= array[tmp_ptr]
      <3>1. CASE Less(run_ptr, tmp_ptr)
        <4>1. tmp_ptr' = run_ptr /\ run_ptr \in 0..run_ptr
          BY <1>2, <1>4, <2>1, <3>1
        <4> QED BY <1>2, <1>4, <2>2, <3>1, <4>1, LessFacts
      <3>2. CASE ~Less(run_ptr, tmp_ptr)
        <4>1. tmp_ptr' = tmp_ptr /\ tmp_ptr \in 0..run_ptr
          BY <1>2, <1>4, <2>1, <3>2
        <4> QED BY <1>2, <1>4, <2>2, <3>2, <4>1, LessFacts
      <3> QED BY <3>1, <3>2
    <2>4. ASSUME NEW x \in 0..run_ptr PROVE array[tmp_ptr'] <= array[x]
      <3>1. CASE x = run_ptr
        BY <2>3, <3>1
      <3>2. CASE x # run_ptr
        <4>1. x \in 0..run_ptr-1 /\ x \in Index
          BY <1>2, <1>3, <1>4, <3>2 DEF Index
        <4>2. array[tmp_ptr] <= array[x]
          BY <1>2, <4>1
        <4>3. array[tmp_ptr] \in Int /\ array[x] \in Int /\ array[tmp_ptr'] \in Int
          BY <1>2, <1>4, <2>3, <4>1, IndexFacts
        <4> QED BY <2>3, <4>2, <4>3
      <3> QED BY <3>1, <3>2
    <2>5. /\ run_ptr' \in 1..thresh+1 /\ run_ptr' - 1 = run_ptr
      BY <1>2, <1>3, <1>4, <1>5, <2>1
    <2>6. \E c \in 1..thresh+1 : Cut(c)'
      BY <1>2, <1>4, <2>1 DEF Cut
    <2>7. MinimumSought'
      BY <1>1, <1>2, <1>4, <2>1, <2>3, <2>4, <2>5, <2>6 DEF MinimumSought
    <2>8. TypeInv' /\ SameElements'
      BY <1>1, <1>2, <1>4, <2>1 DEF TypeInv, SameElements
    <2>9. Inserting' /\ SortedAfterwards' /\ Searching' /\ SearchFindsKey' /\ pc' \notin Phases
      BY <1>1, <1>2, <2>1
         DEF Inserting, SortedAfterwards, Searching, SearchFindsKey, Phases, Medians
    <2> QED BY <2>7, <2>8, <2>9, AfterQuicksort DEF HarnessInv
  <1>6. CASE ~(run_ptr <= thresh)
    <2>1. /\ array' = SWAP(tmp_ptr, 0) /\ run_ptr' = 2 /\ tmp_ptr' = 1
          /\ pc' = IF 2 <= end_ptr THEN "insert" ELSE "sorted"
      BY <1>6 DEF FindMinimum
    <2>2. ASSUME NEW x \in Index PROVE array[tmp_ptr] <= array[x]
      <3>0. x \in Int /\ 0 <= x /\ run_ptr = thresh + 1
        BY <1>2, <1>3, <1>4, <1>6, IndexFacts
      <3>1. CASE x <= thresh
        <4>1. x \in 0..run_ptr-1
          BY <1>3, <3>0, <3>1
        <4> QED BY <1>2, <4>1
      <3>2. CASE ~(x <= thresh)
        <4>1. PICK c \in 1..thresh+1 : Cut(c)
          BY <1>2
        <4>2. 0 < c /\ c <= x
          BY <1>3, <3>0, <3>2
        <4>3. array[0] <= array[x]
          BY <1>4, <4>1, <4>2 DEF Cut
        <4>4. 0 \in 0..run_ptr-1
          BY <1>2, <1>4
        <4>5. array[tmp_ptr] <= array[0]
          BY <1>2, <4>4
        <4>6. array[tmp_ptr] \in Int /\ array[0] \in Int /\ array[x] \in Int
          BY <1>2, <1>4, IndexFacts
        <4> QED BY <4>3, <4>5, <4>6
      <3> QED BY <3>1, <3>2
    <2>3. /\ array' \in [Index -> Key] /\ array'[0] = array[tmp_ptr]
          /\ array'[tmp_ptr] = array[0]
          /\ \A x \in Index : x # tmp_ptr /\ x # 0 => array'[x] = array[x]
      BY <1>2, <1>4, <2>1, SwapFacts
    <2>4. ASSUME NEW x \in Index PROVE array'[0] <= array'[x] /\ array'[x] <= array'[x]
      <3>1. CASE x = tmp_ptr \/ x = 0
        <4>1. array[0] \in Int /\ array[tmp_ptr] \in Int
          BY <1>2, <1>4, IndexFacts
        <4>2. array'[x] = array[0] \/ array'[x] = array[tmp_ptr]
          BY <2>3, <3>1
        <4> QED BY <1>4, <2>2, <2>3, <4>1, <4>2
      <3>2. CASE x # tmp_ptr /\ x # 0
        <4>1. array[x] \in Int
          BY <1>2, IndexFacts
        <4> QED BY <2>2, <2>3, <3>2, <4>1
      <3> QED BY <3>1, <3>2
    <2>5. TypeInv'
      BY <1>1, <1>2, <1>4, <2>1, <2>3 DEF TypeInv
    <2>6. SameElements'
      BY <1>1, <1>2, <1>4, <2>1, SwapKeepsElements
    <2>7. ASSUME NEW x \in Index, NEW y \in Index, x <= y, y < 2 PROVE array'[x] <= array'[y]
      <3>1. x = 0 \/ x = y
        BY <1>2, <2>7, IndexFacts
      <3> QED BY <2>4, <3>1
    <2>8. CASE 2 <= end_ptr
      <3>1. pc' = "insert" /\ end_ptr' = end_ptr
        BY <1>1, <2>1, <2>8 DEF end_ptr
      <3>2. run_ptr' \in 2..end_ptr /\ tmp_ptr' \in 0..run_ptr'-1 /\ tmp_ptr'+1..run_ptr'-1 = {}
        BY <1>3, <2>1, <2>8
      <3>3. Inserting'
        BY <1>4, <2>1, <2>4, <2>7, <3>1, <3>2 DEF Inserting, Sorted
      <3>4. MinimumSought' /\ SortedAfterwards' /\ Searching' /\ SearchFindsKey'
            /\ pc' \notin Phases
        BY <1>1, <1>2, <3>1
           DEF MinimumSought, SortedAfterwards, Searching, SearchFindsKey, Phases, Medians
      <3> QED BY <2>5, <2>6, <3>3, <3>4, AfterQuicksort DEF HarnessInv
    <2>9. CASE ~(2 <= end_ptr)
      <3>1. pc' = "sorted"
        BY <2>1, <2>9
      <3>2. \A x \in Index : x < 2
        BY <1>2, <1>3, <2>9, IndexFacts
      <3>3. SortedAfterwards'
        BY <1>4, <2>7, <3>2 DEF SortedAfterwards, Sorted
      <3>4. MinimumSought' /\ Inserting' /\ Searching' /\ SearchFindsKey'
            /\ pc' \notin Phases
        BY <1>1, <1>2, <3>1
           DEF MinimumSought, Inserting, Searching, SearchFindsKey, Phases, Medians
      <3> QED BY <2>5, <2>6, <3>3, <3>4, AfterQuicksort DEF HarnessInv
    <2> QED BY <2>8, <2>9
  <1> QED BY <1>5, <1>6

\* An element that is inserted where the search for its place has ended extends
\* the sorted part.
LEMMA RotateSorts ==
  ASSUME TypeInv, NEW t \in Index, NEW r \in Index, t < r, array' = Rotate(t + 1, r),
         total_elems' = total_elems, Sorted(r), array[t] <= array[r],
         \A i \in Index : t < i /\ i < r => array[r] < array[i]
  PROVE  Sorted(r + 1)'
  <1>1. t \in Int /\ r \in Int /\ 0 <= t /\ r < total_elems /\ t + 1 \in Index
        /\ total_elems \in Nat /\ t + 1 <= r
    BY IndexFacts
  <1>2. PICK t1 \in Index : t1 = t + 1
    BY <1>1
  <1>3. /\ array'[t1] = array[r]
        /\ \A x \in Index : t1 < x /\ x <= r => array'[x] = array[x - 1]
        /\ \A x \in Index : x < t1 \/ r < x => array'[x] = array[x]
    BY <1>1, <1>2, RotateFacts
  <1>4. SUFFICES ASSUME NEW x \in Index, NEW y \in Index, x <= y, y < r + 1
                 PROVE  array'[x] <= array'[y]
    BY DEF Sorted, Index
  <1>5. x \in Int /\ y \in Int /\ 0 <= x /\ y <= r
    BY <1>1, <1>4, IndexFacts
  <1>6. array[t] \in Int /\ array[r] \in Int /\ \A z \in Index : array[z] \in Int
    BY IndexFacts
  <1>7. \A i, j \in Index : i <= j /\ j < r => array[i] <= array[j]
    BY DEF Sorted
  <1>8. CASE y <= t
    <2>1. array'[x] = array[x] /\ array'[y] = array[y] /\ y < r
      BY <1>1, <1>2, <1>3, <1>4, <1>5, <1>8
    <2> QED BY <1>4, <1>7, <2>1
  <1>9. CASE y = t1
    <2>1. array'[y] = array[r]
      BY <1>3, <1>9
    <2>2. CASE x = t1
      BY <1>3, <1>6, <2>1, <2>2
    <2>3. CASE x <= t
      <3>1. array'[x] = array[x]
        BY <1>1, <1>2, <1>3, <1>5, <2>3
      <3>2. array[x] <= array[t]
        BY <1>7, <2>3
      <3> QED BY <1>6, <2>1, <3>1, <3>2
    <2> QED BY <1>1, <1>2, <1>4, <1>5, <1>9, <2>2, <2>3
  <1>10. CASE t1 < y
    <2>1. PICK z \in Index : z = y - 1
      BY <1>1, <1>2, <1>5, <1>10, IndexFacts
    <2>2. array'[y] = array[z] /\ t < z /\ z < r
      BY <1>1, <1>2, <1>3, <1>5, <1>10, <2>1
    <2>3. CASE x <= t
      <3>1. array'[x] = array[x] /\ x <= z
        BY <1>1, <1>2, <1>3, <1>5, <2>1, <2>2, <2>3
      <3> QED BY <1>7, <2>2, <3>1
    <2>4. CASE x = t1
      <3>1. array'[x] = array[r] /\ array[r] < array[z]
        BY <1>3, <2>2, <2>4
      <3> QED BY <1>6, <2>2, <3>1
    <2>5. CASE t1 < x
      <3>1. PICK w \in Index : w = x - 1
        BY <1>1, <1>2, <1>5, <2>5, IndexFacts
      <3>2. array'[x] = array[w] /\ w <= z
        BY <1>1, <1>2, <1>3, <1>4, <1>5, <2>1, <2>5, <3>1
      <3> QED BY <1>7, <2>2, <3>2
    <2> QED BY <1>1, <1>2, <1>5, <2>3, <2>4, <2>5
  <1> QED BY <1>1, <1>2, <1>5, <1>8, <1>9, <1>10

\* The search for the place of an element ends at the first one at the latest,
\* and moves the element there.
LEMMA InsertInv ==
  ASSUME HarnessInv, Insert PROVE HarnessInv'
  <1>1. pc = "insert" /\ UNCHANGED <<total_elems, original, result>>
    BY DEF Insert, searchVars
  <1>2. /\ TypeInv /\ SameElements /\ result = -1
        /\ run_ptr \in 2..end_ptr /\ tmp_ptr \in 0..run_ptr-1
        /\ Sorted(run_ptr)
        /\ \A i \in Index : array[0] <= array[i]
        /\ \A i \in tmp_ptr+1..run_ptr-1 : array[run_ptr] < array[i]
    BY <1>1 DEF HarnessInv, Inserting, Searching
  <1>3. total_elems \in Nat
    BY <1>2, IndexFacts
  <1>4. /\ run_ptr \in Int /\ tmp_ptr \in Int /\ 2 <= run_ptr /\ run_ptr < total_elems
        /\ 0 <= tmp_ptr /\ tmp_ptr < run_ptr
    BY <1>2, <1>3 DEF end_ptr
  <1>5. /\ run_ptr \in Index /\ tmp_ptr \in Index /\ 0 \in Index /\ Index' = Index
        /\ end_ptr' = end_ptr
    BY <1>1, <1>3, <1>4 DEF Index, end_ptr
  <1>6. CASE Less(run_ptr, tmp_ptr)
    <2>1. tmp_ptr' = tmp_ptr - 1 /\ UNCHANGED <<array, run_ptr, pc>>
      BY <1>6 DEF Insert
    <2>2. array[run_ptr] < array[tmp_ptr]
      BY <1>2, <1>5, <1>6, LessFacts
    <2>3. tmp_ptr # 0
      <3>1. array[0] <= array[run_ptr] /\ array[0] \in Int /\ array[run_ptr] \in Int
        BY <1>2, <1>5, IndexFacts
      <3> QED BY <2>2, <3>1
    <2>4. tmp_ptr' \in 0..run_ptr-1
      BY <1>4, <2>1, <2>3
    <2>5. ASSUME NEW i \in tmp_ptr'+1..run_ptr-1 PROVE array[run_ptr] < array[i]
      <3>1. i = tmp_ptr \/ i \in tmp_ptr+1..run_ptr-1
        BY <1>4, <2>1
      <3> QED BY <1>2, <2>2, <3>1
    <2>6. Inserting'
      BY <1>1, <1>2, <1>5, <2>1, <2>4, <2>5 DEF Inserting, Sorted
    <2>7. TypeInv' /\ SameElements'
      BY <1>1, <1>2, <1>5, <2>1 DEF TypeInv, SameElements
    <2>8. MinimumSought' /\ SortedAfterwards' /\ Searching' /\ SearchFindsKey'
          /\ pc' \notin Phases
      BY <1>1, <1>2, <2>1
         DEF MinimumSought, SortedAfterwards, Searching, SearchFindsKey, Phases, Medians
    <2> QED BY <2>6, <2>7, <2>8, AfterQuicksort DEF HarnessInv
  <1>7. CASE ~Less(run_ptr, tmp_ptr)
    <2>1. /\ array' = Rotate(tmp_ptr + 1, run_ptr) /\ run_ptr' = run_ptr + 1
          /\ tmp_ptr' = run_ptr /\ pc' = IF run_ptr + 1 <= end_ptr THEN "insert" ELSE "sorted"
      BY <1>7 DEF Insert
    <2>2. array[tmp_ptr] <= array[run_ptr]
      BY <1>2, <1>5, <1>7, LessFacts
    <2>3. ASSUME NEW i \in Index, tmp_ptr < i, i < run_ptr PROVE array[run_ptr] < array[i]
      <3>1. i \in tmp_ptr+1..run_ptr-1
        BY <1>2, <1>4, <2>3, IndexFacts
      <3> QED BY <1>2, <3>1
    <2>4. PICK r \in Index : r = run_ptr
      BY <1>5
    <2>5. PICK t \in Index : t = tmp_ptr
      BY <1>5
    <2>6. Sorted(r + 1)'
      BY <1>1, <1>2, <1>4, <2>1, <2>2, <2>3, <2>4, <2>5, RotateSorts
    <2>7. PICK t1 \in Index : t1 = tmp_ptr + 1
      BY <1>3, <1>4 DEF Index
    <2>8. t1 <= r /\ array' = Rotate(t1, r) /\ 0 < t1 /\ t1 \in Int /\ r \in Int
      BY <1>4, <2>1, <2>4, <2>7
    <2>9. /\ array' \in [Index -> Key] /\ array'[t1] = array[r]
          /\ \A x \in Index : t1 < x /\ x <= r => array'[x] = array[x - 1]
          /\ \A x \in Index : x < t1 \/ r < x => array'[x] = array[x]
      BY <1>2, <2>8, RotateFacts
    <2>10. ASSUME NEW x \in Index PROVE array'[0] <= array'[x]
      <3>1. array'[0] = array[0]
        BY <1>5, <2>8, <2>9
      <3>2. x \in Int /\ 0 <= x /\ x < total_elems
        BY <1>2, IndexFacts
      <3>3. \E y \in Index : array'[x] = array[y]
        <4>1. CASE x = t1
          BY <2>9, <4>1
        <4>2. CASE t1 < x /\ x <= r
          <5>1. x - 1 \in Index
            BY <1>3, <2>8, <3>2, <4>2 DEF Index
          <5> QED BY <2>9, <4>2, <5>1
        <4>3. CASE x < t1 \/ r < x
          BY <2>9, <4>3
        <4> QED BY <2>8, <3>2, <4>1, <4>2, <4>3
      <3> QED BY <1>2, <3>1, <3>3
    <2>11. SameElements'
      BY <1>1, <1>2, <2>8, RotateKeepsElements
    <2>12. TypeInv'
      BY <1>1, <1>2, <1>5, <2>1, <2>9 DEF TypeInv
    <2>13. CASE run_ptr + 1 <= end_ptr
      <3>1. pc' = "insert"
        BY <2>1, <2>13
      <3>2. run_ptr' = r + 1 /\ run_ptr' \in 2..end_ptr /\ tmp_ptr' \in 0..run_ptr'-1
            /\ tmp_ptr'+1..run_ptr'-1 = {}
        BY <1>3, <1>4, <2>1, <2>4, <2>13 DEF end_ptr
      <3>3. Inserting'
        BY <1>5, <2>6, <2>10, <3>1, <3>2 DEF Inserting
      <3>4. MinimumSought' /\ SortedAfterwards' /\ Searching' /\ SearchFindsKey'
            /\ pc' \notin Phases
        BY <1>1, <1>2, <3>1
           DEF MinimumSought, SortedAfterwards, Searching, SearchFindsKey, Phases, Medians
      <3> QED BY <2>11, <2>12, <3>3, <3>4, AfterQuicksort DEF HarnessInv
    <2>14. CASE ~(run_ptr + 1 <= end_ptr)
      <3>1. pc' = "sorted"
        BY <2>1, <2>14
      <3>2. r + 1 = total_elems /\ total_elems' = total_elems
        BY <1>1, <1>3, <1>4, <2>4, <2>14 DEF end_ptr
      <3>3. SortedAfterwards'
        BY <2>6, <3>2 DEF SortedAfterwards
      <3>4. MinimumSought' /\ Inserting' /\ Searching' /\ SearchFindsKey'
            /\ pc' \notin Phases
        BY <1>1, <1>2, <3>1
           DEF MinimumSought, Inserting, Searching, SearchFindsKey, Phases, Medians
      <3> QED BY <2>11, <2>12, <3>3, <3>4, AfterQuicksort DEF HarnessInv
    <2> QED BY <2>13, <2>14
  <1> QED BY <1>6, <1>7

(***************************************************************************)
(* Binary search.                                                          *)
(***************************************************************************)

\* The search starts with the whole array.
LEMMA bsearchInv ==
  ASSUME HarnessInv, NEW k \in Key, bsearch(k) PROVE HarnessInv'
  <1>1. /\ pc = "sorted" /\ key' = k /\ l' = 0 /\ u' = total_elems
        /\ pc' = IF total_elems = 0 THEN "returned" ELSE "search"
        /\ UNCHANGED <<total_elems, original, array, result>>
    BY DEF bsearch, sortVars
  <1>2. /\ TypeInv /\ SameElements /\ result = -1 /\ Sorted(total_elems)
    BY <1>1 DEF HarnessInv, SortedAfterwards, Searching
  <1>3. total_elems \in Nat /\ Index' = Index
    BY <1>1, <1>2, IndexFacts DEF Index
  <1>4. TypeInv' /\ SameElements' /\ SortedAfterwards'
    BY <1>1, <1>2, <1>3 DEF TypeInv, SameElements, SortedAfterwards, Sorted
  <1>5. MinimumSought' /\ Inserting' /\ pc' \notin Phases
    BY <1>1 DEF MinimumSought, Inserting, Phases, Medians
  <1>6. CASE total_elems = 0
    <2>1. pc' = "returned" /\ Index = {}
      BY <1>1, <1>6 DEF Index
    <2>2. Searching' /\ SearchFindsKey'
      BY <1>1, <1>2, <1>3, <2>1 DEF Searching, SearchFindsKey
    <2> QED BY <1>4, <1>5, <2>2, AfterQuicksort DEF HarnessInv
  <1>7. CASE total_elems # 0
    <2>1. pc' = "search" /\ l' \in Index /\ u' \in 1..total_elems /\ l' < u'
      BY <1>1, <1>3, <1>7 DEF Index
    <2>2. \A i \in Index : ~(i < l') /\ ~(u' <= i)
      BY <1>1, <1>2, <1>3, IndexFacts
    <2>3. Searching' /\ SearchFindsKey'
      BY <1>1, <1>2, <1>3, <2>1, <2>2 DEF Searching, SearchFindsKey
    <2> QED BY <1>4, <1>5, <2>3, AfterQuicksort DEF HarnessInv
  <1> QED BY <1>6, <1>7

\* A comparison with the key finds it or narrows the range.
LEMMA CompareKeyInv ==
  ASSUME HarnessInv, CompareKey PROVE HarnessInv'
  <1>1. /\ pc = "search" /\ UNCHANGED <<total_elems, original, array, key>>
        /\ l' = IF key > array[idx] THEN idx + 1 ELSE l
        /\ u' = IF key < array[idx] THEN idx ELSE u
        /\ result' = IF key = array[idx] THEN idx ELSE result
        /\ pc' = IF key # array[idx] /\ l' < u' THEN "search" ELSE "returned"
    BY DEF CompareKey, sortVars
  <1>2. /\ TypeInv /\ SameElements /\ result = -1 /\ Sorted(total_elems)
        /\ key \in Key /\ l \in Index /\ u \in 1..total_elems /\ l < u
        /\ \A i \in Index : i < l => array[i] < key
        /\ \A i \in Index : u <= i => key < array[i]
    BY <1>1 DEF HarnessInv, SortedAfterwards, Searching
  <1>3. total_elems \in Nat /\ Index' = Index /\ key \in Int /\ l \in Int /\ u \in Int
        /\ 0 <= l /\ u <= total_elems
    BY <1>1, <1>2, IndexFacts, HarnessAssumption DEF Index
  <1>4. PICK m : m = idx
    OBVIOUS
  <1>5. m \in Int /\ l <= m /\ m < u /\ m \in Index /\ array[m] \in Int
    <2>1. m \in Int /\ l <= m /\ m < u
      BY <1>2, <1>3, <1>4 DEF idx
    <2>2. m \in Index
      BY <1>3, <2>1 DEF Index
    <2> QED BY <1>2, <2>1, <2>2, IndexFacts
  <1>6. TypeInv' /\ SameElements' /\ SortedAfterwards'
    BY <1>1, <1>2, <1>3 DEF TypeInv, SameElements, SortedAfterwards, Sorted
  <1>7. MinimumSought' /\ Inserting' /\ pc' \notin Phases
    BY <1>1 DEF MinimumSought, Inserting, Phases, Medians
  <1>8. CASE key = array[m]
    <2>1. pc' = "returned" /\ result' = m /\ m # -1
      BY <1>1, <1>3, <1>4, <1>5, <1>8
    <2>2. Searching' /\ SearchFindsKey'
      BY <1>1, <1>3, <1>5, <1>8, <2>1 DEF Searching, SearchFindsKey
    <2> QED BY <1>6, <1>7, <2>2, AfterQuicksort DEF HarnessInv
  <1>9. CASE key # array[m]
    <2>1. /\ pc' = IF l' < u' THEN "search" ELSE "returned"
          /\ result' = -1
      BY <1>1, <1>2, <1>4, <1>9
    <2>2. \A i, j \in Index : i <= j => array[i] <= array[j]
      BY <1>2, IndexFacts DEF Sorted
    <2>3. \/ key > array[m] /\ l' = m + 1 /\ u' = u
          \/ key < array[m] /\ l' = l /\ u' = m
      BY <1>1, <1>3, <1>4, <1>5, <1>9
    <2>4. l' \in Int /\ u' \in Int /\ 0 <= l' /\ u' <= total_elems
      BY <1>3, <1>5, <2>3
    <2>5. ASSUME NEW i \in Index, i < l' PROVE array[i] < key
      <3>0. i \in Int /\ array[i] \in Int
        BY <1>2, IndexFacts
      <3>1. CASE i < l
        BY <1>2, <3>1
      <3>2. CASE ~(i < l)
        <4>1. key > array[m] /\ i <= m
          BY <1>3, <1>5, <2>3, <2>5, <3>0, <3>2
        <4>2. array[i] <= array[m]
          BY <1>5, <2>2, <4>1
        <4> QED BY <1>3, <1>5, <3>0, <4>1, <4>2
      <3> QED BY <3>1, <3>2
    <2>6. ASSUME NEW i \in Index, u' <= i PROVE key < array[i]
      <3>0. i \in Int /\ array[i] \in Int
        BY <1>2, IndexFacts
      <3>1. CASE u <= i
        BY <1>2, <3>1
      <3>2. CASE ~(u <= i)
        <4>1. key < array[m] /\ m <= i
          BY <1>3, <1>5, <2>3, <2>6, <3>0, <3>2
        <4>2. array[m] <= array[i]
          BY <1>5, <2>2, <4>1
        <4> QED BY <1>3, <1>5, <3>0, <4>1, <4>2
      <3> QED BY <3>1, <3>2
    <2>7. CASE l' < u'
      <3>1. l' \in Index /\ u' \in 1..total_elems /\ pc' = "search"
        BY <1>3, <2>1, <2>4, <2>7 DEF Index
      <3>2. Searching' /\ SearchFindsKey'
        BY <1>1, <1>2, <1>3, <2>1, <2>5, <2>6, <2>7, <3>1 DEF Searching, SearchFindsKey
      <3> QED BY <1>6, <1>7, <3>2, AfterQuicksort DEF HarnessInv
    <2>8. CASE ~(l' < u')
      <3>1. pc' = "returned"
        BY <2>1, <2>8
      <3>2. ASSUME NEW i \in Index PROVE array[i] # key
        <4>1. i \in Int /\ array[i] \in Int
          BY <1>2, IndexFacts
        <4>2. i < l' \/ u' <= i
          BY <2>4, <2>8, <4>1
        <4>3. array[i] < key \/ key < array[i]
          BY <2>5, <2>6, <4>2
        <4> QED BY <1>3, <4>1, <4>3
      <3>3. Searching' /\ SearchFindsKey'
        BY <1>1, <1>3, <2>1, <3>1, <3>2 DEF Searching, SearchFindsKey
      <3> QED BY <1>6, <1>7, <3>3, AfterQuicksort DEF HarnessInv
    <2> QED BY <2>7, <2>8
  <1> QED BY <1>8, <1>9

(***************************************************************************)
(* The specification.                                                      *)
(***************************************************************************)

\* qsort is entered: the whole array is the partition, or it is small.
LEMMA InitInv ==
  ASSUME Init PROVE HarnessInv
  <1>1. /\ total_elems \in 0..MaxElems /\ original \in [Index -> Key] /\ array = original
        /\ lo = 0 /\ hi = end_ptr /\ mid = Median(0, end_ptr)
        /\ tmp_ptr = 0 /\ run_ptr = 1 /\ result = -1
    BY DEF Init
  <1>2. pc = CASE total_elems = 0 -> "sorted"
               [] total_elems > MAX_THRESH -> "median low"
               [] OTHER -> "minimum"
    BY Zenon DEF Init
  <1>3. total_elems \in Nat /\ MAX_THRESH \in Nat /\ MAX_THRESH >= 1
    BY <1>1, HarnessAssumption
  <1>4. /\ total_elems = 0 => pc = "sorted"
        /\ total_elems > MAX_THRESH => pc = "median low"
        /\ total_elems # 0 /\ ~(total_elems > MAX_THRESH) => pc = "minimum"
    <2>1. CASE total_elems = 0
      <3>1. ~(total_elems > MAX_THRESH)
        BY <1>3, <2>1
      <3> QED BY <1>2, <2>1, <3>1, Zenon
    <2>2. CASE total_elems > MAX_THRESH
      <3>1. total_elems # 0
        BY <1>3, <2>2
      <3> QED BY <1>2, <2>2, <3>1, Zenon
    <2>3. CASE total_elems # 0 /\ ~(total_elems > MAX_THRESH)
      BY <1>2, <2>3, Zenon
    <2> QED BY <2>1, <2>2, <2>3
  <1>5. TypeInv /\ SameElements
    BY <1>1, <1>3, <1>4 DEF TypeInv, SameElements
  <1>6. \A c \in Int : c >= total_elems => Cut(c)
    BY <1>3, <1>5, IndexFacts DEF Cut
  <1>7. pc # "search" /\ pc # "returned"
    BY <1>3, <1>4
  <1>8. Searching /\ SearchFindsKey
    BY <1>1, <1>7 DEF Searching, SearchFindsKey
  <1>9. CASE total_elems > MAX_THRESH
    <2>1. stack \in Seq(Int \X Int) /\ Len(stack) = 1
      <3>1. PICK e : e = <<-1, -1>>
        OBVIOUS
      <3>2. stack = <<e>>
        BY <3>1, Zenon DEF Init
      <3>3. e \in Int \X Int
        BY <3>1
      <3> QED BY <3>2, <3>3
    <2>2. pc = "median low" /\ Partitioning
      BY <1>4, <1>9 DEF Partitioning, Medians
    <2>3. total_elems \in 1..total_elems
      BY <1>3, <1>9
    <2>4. hi = total_elems - 1
      BY <1>1 DEF end_ptr
    <2>5. hi \in Int /\ 1 <= hi
      BY <1>3, <1>9, <2>4
    <2>6. 2..Len(stack) = {}
      BY <2>1
    <2>7. PICK h : h = hi \div 2
      OBVIOUS
    <2>8. h \in Int /\ 0 <= h /\ h < hi /\ mid = h
      <3>1. h \in Int /\ 0 <= h /\ h < hi
        BY <2>7, <2>5
      <3>2. mid = 0 + (hi - 0) \div 2
        BY <1>1 DEF Median
      <3>3. hi - 0 = hi
        BY <2>5
      <3>4. mid = 0 + h
        BY <2>7, <3>2, <3>3
      <3> QED BY <3>1, <3>4
    <2>9. CurrentPartition
      <3>1. lo = 0
        BY <1>1
      <3>2. lo \in Index /\ hi \in Index /\ mid \in Index
        BY <1>3, <2>8, <2>4, <2>5, <3>1 DEF Index
      <3>3. lo < hi /\ lo <= mid /\ mid <= hi /\ mid < hi
        BY <2>8, <2>5, <3>1
      <3> QED BY <3>2, <3>3 DEF CurrentPartition
    <2>10. Stacked
      <3>1. \A i \in 2..Len(stack) : FALSE
        BY <2>6
      <3>2. Len(stack) >= 1
        BY <2>1
      <3> QED BY <2>1, <3>1, <3>2, Zenon DEF Stacked
    <2>11. FrontBlock(total_elems)
      <3>1. Cut(total_elems)
        BY <1>3, <1>6
      <3>2. lo = 0
        BY <1>1
      <3> QED BY <2>6, <2>3, <2>4, <3>1, <3>2 DEF FrontBlock
    <2>12. Front
      BY <2>11, <2>3 DEF Front
    <2>13. StackIsLogarithmic /\ MedianOfThree /\ Partitioned
      BY <2>2, <2>6 DEF StackIsLogarithmic, MedianOfThree, Partitioned
    <2>14. MinimumSought /\ Inserting /\ SortedAfterwards
      BY <2>2 DEF MinimumSought, Inserting, SortedAfterwards
    <2> QED BY <1>5, <1>8, <2>9, <2>10, <2>12, <2>13, <2>14 DEF HarnessInv
  <1>10. CASE ~(total_elems > MAX_THRESH)
    <2>1. pc \in {"sorted", "minimum"} /\ ~Partitioning
      BY <1>4, <1>10 DEF Partitioning, Medians
    <2>2. CurrentPartition /\ Stacked /\ MedianOfThree /\ Partitioned /\ Front
          /\ StackIsLogarithmic /\ Inserting
      BY <2>1 DEF CurrentPartition, Stacked, MedianOfThree, Partitioned, Front,
                  StackIsLogarithmic, Inserting
    <2>3. SortedAfterwards
      <3>1. pc = "sorted" => Index = {}
        BY <1>3, <1>4, <1>10 DEF Index
      <3> QED BY <1>7, <3>1 DEF SortedAfterwards, Sorted
    <2>4. MinimumSought
      <3>1. SUFFICES ASSUME pc = "minimum" PROVE MinimumSought
        BY DEF MinimumSought
      <3>2. total_elems >= 1 /\ thresh + 1 = total_elems /\ thresh \in Int
        BY <1>3, <1>4, <1>10, <3>1 DEF thresh, Smallest, end_ptr
      <3>3. run_ptr \in 1..thresh+1 /\ tmp_ptr \in 0..run_ptr-1
        BY <1>1, <1>3, <3>2
      <3>4. total_elems \in 1..thresh+1 /\ Cut(total_elems)
        BY <1>3, <1>6, <3>2
      <3>5. ASSUME NEW i \in 0..run_ptr-1 PROVE array[tmp_ptr] <= array[i]
        <4>1. i = 0 /\ tmp_ptr = 0 /\ 0 \in Index
          BY <1>1, <1>3, <3>2 DEF Index
        <4>2. array[0] \in Int
          BY <1>5, <4>1, IndexFacts
        <4> QED BY <4>1, <4>2
      <3> QED BY <3>2, <3>3, <3>4, <3>5 DEF MinimumSought
    <2> QED BY <1>5, <1>8, <2>2, <2>3, <2>4 DEF HarnessInv
  <1> QED BY <1>9, <1>10

\* A step that changes nothing.
LEMMA StutterInv ==
  ASSUME HarnessInv, UNCHANGED vars PROVE HarnessInv'
  <1>1. UNCHANGED <<total_elems, original, pc, array, lo, hi, mid, left_ptr, right_ptr, stack,
                    tmp_ptr, run_ptr, key, l, u, result>>
    BY DEF vars, sortVars, searchVars
  <1>2. Index' = Index /\ Partitioning' = Partitioning /\ thresh' = thresh
        /\ end_ptr' = end_ptr
    BY <1>1 DEF Index, Partitioning, thresh, end_ptr
  <1>3. TypeInv' /\ SameElements' /\ CurrentPartition' /\ Stacked' /\ MedianOfThree'
        /\ Partitioned'
    BY <1>1, <1>2 DEF HarnessInv, TypeInv, SameElements, CurrentPartition, Stacked,
                      MedianOfThree, Partitioned
  <1>4. Front' /\ StackIsLogarithmic'
    <2>1. StackIsLogarithmic'
      BY <1>1 DEF HarnessInv, StackIsLogarithmic
    <2>2. ASSUME NEW c, FrontBlock(c) PROVE FrontBlock(c)'
      <3>1. Cut(c)'
        BY <1>1, <1>2, <2>2 DEF FrontBlock, Cut
      <3> QED BY <1>1, <2>2, <3>1 DEF FrontBlock
    <2>3. Front'
      BY <1>1, <1>2, <2>2 DEF HarnessInv, Front
    <2> QED BY <2>1, <2>3
  <1>5. MinimumSought' /\ Inserting' /\ SortedAfterwards' /\ Searching' /\ SearchFindsKey'
    BY <1>1, <1>2 DEF HarnessInv, MinimumSought, Cut, Inserting, SortedAfterwards, Sorted,
                      Searching, SearchFindsKey
  <1> QED BY <1>3, <1>4, <1>5 DEF HarnessInv

\* The inductive invariant holds in every state of qsort and bsearch.
THEOREM HarnessInvariance == Spec => []HarnessInv
  <1>1. Init => HarnessInv
    BY InitInv
  <1>2. HarnessInv /\ [Next]_vars => HarnessInv'
    BY StutterInv, MedianLowInv, MedianHighInv, MedianAgainInv, CollapseLeftInv,
       CollapseRightInv, FindMinimumInv, InsertInv, bsearchInv, CompareKeyInv DEF Next
  <1> QED BY <1>1, <1>2, PTL DEF Spec

\* qsort sorts: its result is in ascending order and has the elements of the
\* array it was called with, for every array and every MAX_THRESH.
THEOREM QsortSorts == Spec => []SortedPermutation
  <1>1. HarnessInv => SortedPermutation
    <2> SUFFICES ASSUME HarnessInv, pc = "sorted"
                 PROVE  /\ \A i, j \in Index : i <= j => array[i] <= array[j]
                        /\ \A k \in Key : Count(array, k) = Count(original, k)
      BY DEF SortedPermutation
    <2>1. TypeInv /\ SameElements /\ Sorted(total_elems)
      BY DEF HarnessInv, SortedAfterwards
    <2>2. \A j \in Index : j < total_elems
      BY <2>1, IndexFacts
    <2> QED BY <2>1, <2>2 DEF SameElements, Sorted
  <1> QED BY <1>1, HarnessInvariance, PTL

\* No comparison of qsort or bsearch reads outside of the array.
THEOREM QsortStaysInBounds == Spec => []AccessesInBounds
  <1>1. HarnessInv => AccessesInBounds
    <2> SUFFICES ASSUME HarnessInv PROVE Accessed \subseteq Index
      BY DEF AccessesInBounds
    <2>1. TypeInv /\ total_elems \in Nat
      BY IndexFacts DEF HarnessInv
    <2>2. CASE pc \in {"median low", "median again"}
      <3>1. Partitioning /\ pc # "median high" /\ pc # "left" /\ pc # "right" /\ pc # "minimum"
            /\ pc # "insert" /\ pc # "search"
        BY <2>2 DEF Partitioning, Medians
      <3>2. Accessed = {mid, lo}
        BY <2>2, <3>1, Zenon DEF Accessed
      <3> QED BY <3>1, <3>2, OnlyPartitioning
    <2>3. CASE pc = "median high"
      <3>1. Partitioning /\ pc \notin {"median low", "median again"} /\ pc # "left"
            /\ pc # "right" /\ pc # "minimum" /\ pc # "insert" /\ pc # "search"
        BY <2>3 DEF Partitioning, Medians
      <3>2. Accessed = {hi, mid}
        BY <2>3, <3>1, Zenon DEF Accessed
      <3> QED BY <3>1, <3>2, OnlyPartitioning
    <2>4. CASE pc = "left"
      <3>1. pc \notin {"median low", "median again"} /\ pc # "median high"
            /\ pc # "right" /\ pc # "minimum" /\ pc # "insert" /\ pc # "search"
        BY <2>4
      <3>2. Accessed = IF left_ptr # mid THEN {left_ptr, mid} ELSE {}
        BY <2>4, <3>1, Zenon DEF Accessed
      <3> QED BY <2>4, <3>2, PointerFacts, OnlyPartitioning
    <2>5. CASE pc = "right"
      <3>1. pc \notin {"median low", "median again"} /\ pc # "median high"
            /\ pc # "left" /\ pc # "minimum" /\ pc # "insert" /\ pc # "search"
        BY <2>5
      <3>2. Accessed = (IF mid # right_ptr THEN {mid, right_ptr} ELSE {})
                       \cup (IF left_ptr < right_ptr THEN {left_ptr, right_ptr} ELSE {})
        BY <2>5, <3>1, Zenon DEF Accessed
      <3> QED BY <2>5, <3>2, PointerFacts, OnlyPartitioning
    <2>6. CASE pc = "minimum"
      <3>1. pc \notin {"median low", "median again"} /\ pc # "median high"
            /\ pc # "left" /\ pc # "right" /\ pc # "insert" /\ pc # "search"
        BY <2>6
      <3>2. Accessed = IF run_ptr <= thresh THEN {run_ptr, tmp_ptr} ELSE {tmp_ptr}
        BY <2>6, <3>1, Zenon DEF Accessed
      <3>3. total_elems >= 1 /\ run_ptr \in 1..thresh+1 /\ tmp_ptr \in 0..run_ptr-1
        BY <2>6 DEF HarnessInv, MinimumSought
      <3>4. tmp_ptr \in Index /\ (run_ptr <= thresh => run_ptr \in Index)
        BY <2>1, <3>3, ThreshFacts DEF Index
      <3> QED BY <3>2, <3>4
    <2>7. CASE pc = "insert"
      <3>1. pc \notin {"median low", "median again"} /\ pc # "median high"
            /\ pc # "left" /\ pc # "right" /\ pc # "minimum" /\ pc # "search"
        BY <2>7
      <3>2. Accessed = {run_ptr, tmp_ptr}
        BY <2>7, <3>1, Zenon DEF Accessed
      <3>3. run_ptr \in 2..end_ptr /\ tmp_ptr \in 0..run_ptr-1
        BY <2>7 DEF HarnessInv, Inserting
      <3>4. run_ptr \in Index /\ tmp_ptr \in Index
        BY <2>1, <3>3 DEF Index, end_ptr
      <3> QED BY <3>2, <3>4
    <2>8. CASE pc = "search"
      <3>1. pc \notin {"median low", "median again"} /\ pc # "median high"
            /\ pc # "left" /\ pc # "right" /\ pc # "minimum" /\ pc # "insert"
        BY <2>8
      <3>2. Accessed = {idx}
        BY <2>8, <3>1, Zenon DEF Accessed
      <3>3. l \in Index /\ u \in 1..total_elems /\ l < u
        BY <2>8 DEF HarnessInv, Searching
      <3>4. idx \in Index
        BY <2>1, <3>3 DEF Index, idx
      <3> QED BY <3>2, <3>4
    <2>9. CASE pc \in {"sorted", "returned"}
      <3>1. pc \notin {"median low", "median again"} /\ pc # "median high" /\ pc # "search"
            /\ pc # "left" /\ pc # "right" /\ pc # "minimum" /\ pc # "insert"
        BY <2>9
      <3>2. Accessed = {}
        BY <3>1, Zenon DEF Accessed
      <3> QED BY <3>2
    <2> QED BY <2>1, <2>2, <2>3, <2>4, <2>5, <2>6, <2>7, <2>8, <2>9 DEF TypeInv
  <1> QED BY <1>1, HarnessInvariance, PTL

\* A partition on the stack of qsort is at least as large as all that follows it:
\* the stack grows with the logarithm of the number of elements only.
THEOREM QsortStackBound == Spec => []StackIsLogarithmic
  <1>1. HarnessInv => StackIsLogarithmic
    BY DEF HarnessInv
  <1> QED BY <1>1, HarnessInvariance, PTL

\* bsearch returns an element equal to the key if and only if there is one.
THEOREM BsearchCorrect == Spec => []SearchFindsKey
  <1>1. HarnessInv => SearchFindsKey
    BY DEF HarnessInv
  <1> QED BY <1>1, HarnessInvariance, PTL
=============================================================================
