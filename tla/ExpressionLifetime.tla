------------------------- MODULE ExpressionLifetime -------------------------
(***************************************************************************)
(* Who keeps symbolic expressions alive (GarbageCollection.cpp and the     *)
(* three backends' Runtime.cpp).  The program holds expressions as raw     *)
(* pointers, in registers, in the shadow memory and in regions that it has *)
(* registered.  Every backend remembers the expressions it has given out;  *)
(* a collection makes it forget those that neither the shadow memory nor   *)
(* a registered region refers to.                                          *)
(*                                                                         *)
(* The expressions themselves belong to a library: Z3, Qsym, or a wrapped  *)
(* Rust runtime.  It keeps an expression, and the expressions it is built  *)
(* from, as long as somebody has a reference, then frees it and uses its   *)
(* address again for the next expression.                                  *)
(*                                                                         *)
(* Collections are asked for by the program, at a moment when it has no    *)
(* expressions in registers; that is the contract of _sym_collect_garbage. *)
(***************************************************************************)
EXTENDS Integers, Sequences, FiniteSets, FiniteSetsExt

CONSTANTS
  Backend,      \* the backends to look at
  NumAddresses, \* bound: size of the library's heap
  Offset,       \* offsets of input bytes, 0..k
  Page,         \* slots of the shadow memory
  Region,       \* slots of regions that can be registered
  Threshold,    \* garbageCollectionThreshold
  MaxHeld,      \* bound: expressions in registers
  MaxHeight     \* bound: height of an expression

ASSUME LifetimeAssumption ==
  /\ Backend \subseteq {"simple", "qsym", "rust"}
  /\ NumAddresses \in Nat /\ MaxHeld \in Nat /\ MaxHeight \in Nat
  /\ Offset \subseteq Nat /\ Offset = 0..(Cardinality(Offset) - 1)
  /\ Page \cap Region = {}

Address == 1..NumAddresses
Slot == Page \cup Region
Free == [op |-> "free", name |-> 0, args |-> <<>>]
Null == [addr |-> 0, width |-> 0]

VARIABLES
  backend,               \* the backend the program is linked with
  heap,                  \* address -> node: an operation and its arguments
  allocatedExpressions,  \* expressions the backend remembers
  references,            \* addresses of other references the backend owns
  stdinBytes,            \* simple backend: the variables of the input bytes
  expressionRegions,     \* registered regions
  held,                  \* expressions in the program's registers
  root,                  \* slot -> the expression it holds, or Null
  meaning                \* slot -> what that expression meant when stored

libraryVars == <<heap, allocatedExpressions, references>>
clientVars == <<held, root, meaning>>
lifetimeVars == <<backend, libraryVars, stdinBytes, expressionRegions, clientVars>>

(***************************************************************************)
(* The library: nodes, their meaning, and reference counting.              *)
(***************************************************************************)

Node(op, args) == [op |-> op, name |-> 0, args |-> args]
Variable(name) == [op |-> "byte", name |-> name, args |-> <<>>]

\* The term rooted at an address: addresses replaced by what they stand for.
TermsOfHeight[h \in Nat] ==
  [a \in Address |->
     <<heap[a].op, heap[a].name,
       [k \in DOMAIN heap[a].args |->
          IF h = 0 THEN <<>> ELSE TermsOfHeight[h - 1][heap[a].args[k]]]>>]

Term(a) == TermsOfHeight[MaxHeight][a]

Heights[h \in Nat] ==
  {a \in Address : \A k \in DOMAIN heap[a].args :
                     h > 0 /\ heap[a].args[k] \in Heights[h - 1]}

Height(a) == Min({h \in 0..MaxHeight : a \in Heights[h]})

\* Addresses that are kept by references to those in S.
Kept(S, h) ==
  LET Closed(T) == \A a \in T : \A k \in DOMAIN h[a].args : h[a].args[k] \in T
  IN  {a \in Address : \A T \in SUBSET Address : S \subseteq T /\ Closed(T) => a \in T}

Owned(allocated, refs) == {e.addr : e \in allocated} \cup refs

\* The heap after a step that leaves these references.
Settle(h, allocated, refs) ==
  /\ allocatedExpressions' = allocated
  /\ references' = refs
  /\ heap' = [a \in Address |->
       IF a \in Kept(Owned(allocated, refs), h) THEN h[a] ELSE Free]

\* Where the library puts a node: the same node is the same expression.
Place(n) ==
  LET same == {a \in Address : heap[a] = n}
      free == {a \in Address : heap[a] = Free}
  IN  IF same # {} THEN same
      ELSE IF free # {} THEN {Min(free)} ELSE {}

(***************************************************************************)
(* Widths.  Constants stand for the widest expression that a single call   *)
(* creates, a 128-bit integer; Booleans have width 0.  Extensions add one  *)
(* byte, truncations leave one.                                            *)
(***************************************************************************)

NodeWidths[h \in Nat] ==
  [a \in Address |->
     LET W(k) == IF h = 0 THEN 0 ELSE NodeWidths[h - 1][heap[a].args[k]]
     IN  CASE heap[a].op = "byte" -> 8
           [] heap[a].op = "integer128" -> 128
           [] heap[a].op \in {"not", "add"} -> W(1)
           [] heap[a].op = "extend" -> W(1) + 8
           [] heap[a].op = "truncate" -> 8
           [] heap[a].op = "concat" -> W(1) + W(2)
           [] OTHER -> 0]

\* The number of bits of the value an expression stands for.
TrueWidth(a) == NodeWidths[MaxHeight][a]

\* Faulty variant: a concatenation is as wide as its first part.
FirstWidth(w, v) == w

\* symexpr: the Rust wrapper stores the width in the low byte of the
\* expression and computes it from the operands' widths.
ConcatWidth(w, v) == (w + v) % 256

(***************************************************************************)
(* What a builder does with the node it has created: the client gets the   *)
(* expression e; the backend now remembers the set allocated and owns the  *)
(* references refs.                                                        *)
(***************************************************************************)

Give(n, e, allocated, refs) ==
  /\ Cardinality(held \cup {e}) <= MaxHeld
  /\ held' = held \cup {e}
  /\ Settle([heap EXCEPT ![e.addr] = n], allocated, refs)
  /\ UNCHANGED <<backend, expressionRegions, root, meaning>>

Expr(a, w) == [addr |-> a, width |-> w]

\* The program uses expressions that it holds, of bounded height, and only
\* combines what belongs together.
Operands == {e \in held : e # Null /\ Height(e.addr) < MaxHeight}
BitVectors == {e \in Operands : TrueWidth(e.addr) > 0}
SameWidth(e, f) == TrueWidth(e.addr) = TrueWidth(f.addr)

(***************************************************************************)
(* The simple backend.                                                     *)
(***************************************************************************)

\* registerExpression: a reference is taken for an expression that is not
\* remembered; no reference is ever given back.
SimpleRegister(n, w) ==
  /\ backend = "simple"
  /\ \E a \in Place(n) :
       LET e == Expr(a, w)
           new == e \notin allocatedExpressions
       IN  Give(n, e, allocatedExpressions \cup {e},
                IF new THEN references \cup {a} ELSE references)
  /\ UNCHANGED stdinBytes

SimpleConstant == SimpleRegister(Node("integer128", <<>>), 128)

SimpleUnary(e) == SimpleRegister(Node("not", <<e.addr>>), e.width)

SimpleExtend(e) == SimpleRegister(Node("extend", <<e.addr>>), e.width + 8)

SimpleTruncate(e) == SimpleRegister(Node("truncate", <<e.addr>>), 8)

SimpleBinary(e, f) ==
  SimpleRegister(Node("add", <<e.addr, f.addr>>), e.width)

SimpleCompare(e, f) == SimpleRegister(Node("equal", <<e.addr, f.addr>>), 0)

SimpleConcat(e, f) ==
  SimpleRegister(Node("concat", <<e.addr, f.addr>>), e.width + f.width)

\* A byte is a variable named after the number of bytes so far.  Offsets that
\* have been skipped have no expression.
SimpleInputByte(offset) ==
  /\ backend = "simple"
  /\ IF offset < Len(stdinBytes)
     THEN /\ Cardinality(held \cup {stdinBytes[offset + 1]}) <= MaxHeld
          /\ held' = held \cup {stdinBytes[offset + 1]}
          /\ UNCHANGED <<backend, libraryVars, stdinBytes, expressionRegions, root, meaning>>
     ELSE \E a \in Place(Variable(Len(stdinBytes))) :
            /\ Give(Variable(Len(stdinBytes)), Expr(a, 8), allocatedExpressions,
                    references \cup {a})
            /\ stdinBytes' = [k \in 1..(offset + 1) |->
                 IF k <= Len(stdinBytes) THEN stdinBytes[k]
                 ELSE IF k = offset + 1 THEN Expr(a, 8) ELSE Null]

(***************************************************************************)
(* The QSYM backend: the backend's map holds a shared pointer to every     *)
(* expression it remembers.  Operands are looked up in the map, which      *)
(* throws if they are not there.                                           *)
(***************************************************************************)

QsymRegister(n, w, operands) ==
  /\ backend = "qsym"
  /\ operands \subseteq allocatedExpressions
  /\ \E a \in Place(n) :
       Give(n, Expr(a, w), allocatedExpressions \cup {Expr(a, w)}, references)
  /\ UNCHANGED stdinBytes

QsymConstant == QsymRegister(Node("integer128", <<>>), 128, {})

QsymUnary(e) == QsymRegister(Node("not", <<e.addr>>), e.width, {e})

QsymExtend(e) == QsymRegister(Node("extend", <<e.addr>>), e.width + 8, {e})

QsymTruncate(e) == QsymRegister(Node("truncate", <<e.addr>>), 8, {e})

QsymBinary(e, f) ==
  QsymRegister(Node("add", <<e.addr, f.addr>>), e.width, {e, f})

QsymCompare(e, f) == QsymRegister(Node("equal", <<e.addr, f.addr>>), 0, {e, f})

QsymConcat(e, f) ==
  QsymRegister(Node("concat", <<e.addr, f.addr>>), e.width + f.width, {e, f})

QsymInputByte(offset) == QsymRegister(Variable(offset), 8, {})

(***************************************************************************)
(* The Rust backend: an expression is the wrapped runtime's identifier,    *)
(* packed together with a width.  The wrapped runtime keeps an expression  *)
(* until it is told that it is unreachable.                                *)
(***************************************************************************)

RustRegister(n, w) ==
  /\ backend = "rust"
  /\ \E a \in Place(n) :
       Give(n, Expr(a, w), allocatedExpressions \cup {Expr(a, w)}, references)
  /\ UNCHANGED stdinBytes

RustConstant == RustRegister(Node("integer128", <<>>), 128)

RustUnary(e) == RustRegister(Node("not", <<e.addr>>), e.width)

RustExtend(e) == RustRegister(Node("extend", <<e.addr>>), ConcatWidth(e.width, 8))

RustTruncate(e) == RustRegister(Node("truncate", <<e.addr>>), 8)

RustBinary(e, f) ==
  RustRegister(Node("add", <<e.addr, f.addr>>), e.width)

RustCompare(e, f) == RustRegister(Node("equal", <<e.addr, f.addr>>), 0)

RustConcat(e, f) ==
  RustRegister(Node("concat", <<e.addr, f.addr>>), ConcatWidth(e.width, f.width))

RustInputByte(offset) == RustRegister(Variable(offset), 8)

(***************************************************************************)
(* The program: it moves expressions between registers, the shadow memory  *)
(* and the regions it has registered (empty, before it uses them).         *)
(***************************************************************************)

Store(s, e) ==
  /\ s \in Page \cup expressionRegions
  /\ e \in held \cup {Null}
  /\ root' = [root EXCEPT ![s] = e]
  /\ meaning' = [meaning EXCEPT ![s] = IF e = Null THEN <<>> ELSE Term(e.addr)]
  /\ UNCHANGED <<backend, libraryVars, stdinBytes, expressionRegions, held>>

Load(s) ==
  /\ Cardinality(held \cup {root[s]}) <= MaxHeld
  /\ held' = held \cup {root[s]}
  /\ UNCHANGED <<backend, libraryVars, stdinBytes, expressionRegions, root, meaning>>

Forget(e) ==
  /\ held' = held \ {e}
  /\ UNCHANGED <<backend, libraryVars, stdinBytes, expressionRegions, root, meaning>>

registerExpressionRegion(r) ==
  /\ expressionRegions' = expressionRegions \cup {r}
  /\ UNCHANGED <<backend, libraryVars, stdinBytes, clientVars>>

(***************************************************************************)
(* Collections.                                                            *)
(***************************************************************************)

\* Faulty variant: the shadow memory is not searched.
RegionsOnly == {root[s] : s \in expressionRegions} \ {Null}

\* The registered regions and all shadow pages.
collectReachableExpressions == {root[s] : s \in Page \cup expressionRegions} \ {Null}

MayCollect(b) ==
  /\ backend = b
  /\ held = {}
  /\ Cardinality(allocatedExpressions) >= Threshold
  /\ UNCHANGED <<backend, stdinBytes, expressionRegions, clientVars>>

\* The set forgets the expressions, the references remain.
SimpleCollect ==
  /\ MayCollect("simple")
  /\ Settle(heap, allocatedExpressions \cap collectReachableExpressions, references)

\* Faulty variant: all expressions are erased, reachable ones too.
EraseAll ==
  /\ MayCollect("qsym")
  /\ Settle(heap, {}, references)

QsymCollect ==
  /\ MayCollect("qsym")
  /\ Settle(heap, allocatedExpressions \cap collectReachableExpressions, references)

\* Faulty variant: the identifiers are only forgotten, not reported.
RustCollectSilently ==
  /\ MayCollect("rust")
  /\ Settle(heap, allocatedExpressions \cap collectReachableExpressions,
            {e.addr : e \in allocatedExpressions})

\* _rsym_expression_unreachable: the wrapped runtime releases them.
RustCollect ==
  /\ MayCollect("rust")
  /\ Settle(heap, allocatedExpressions \cap collectReachableExpressions, references)

(***************************************************************************)
(* Specification.                                                          *)
(***************************************************************************)

LifetimeInit ==
  /\ backend \in Backend
  /\ heap = [a \in Address |-> Free]
  /\ allocatedExpressions = {}
  /\ references = {}
  /\ stdinBytes = <<>>
  /\ expressionRegions = {}
  /\ held = {}
  /\ root = [s \in Slot |-> Null]
  /\ meaning = [s \in Slot |-> <<>>]

LifetimeNext ==
  \/ SimpleConstant \/ QsymConstant \/ RustConstant
  \/ \E offset \in Offset :
       SimpleInputByte(offset) \/ QsymInputByte(offset) \/ RustInputByte(offset)
  \/ \E e \in BitVectors :
       \/ SimpleUnary(e) \/ QsymUnary(e) \/ RustUnary(e)
       \/ SimpleExtend(e) \/ QsymExtend(e) \/ RustExtend(e)
       \/ TrueWidth(e.addr) > 8 /\ (SimpleTruncate(e) \/ QsymTruncate(e) \/ RustTruncate(e))
  \/ \E e, f \in Operands : SameWidth(e, f) /\
       (SimpleCompare(e, f) \/ QsymCompare(e, f) \/ RustCompare(e, f))
  \/ \E e, f \in BitVectors :
       \/ SimpleConcat(e, f) \/ QsymConcat(e, f) \/ RustConcat(e, f)
       \/ SameWidth(e, f) /\
            (SimpleBinary(e, f) \/ QsymBinary(e, f) \/ RustBinary(e, f))
  \/ \E s \in Slot :
       \/ \E e \in held \cup {Null} : Store(s, e)
       \/ Load(s)
  \/ \E e \in held : Forget(e)
  \/ \E r \in Region : registerExpressionRegion(r)
  \/ SimpleCollect \/ QsymCollect \/ RustCollect

LifetimeSpec == LifetimeInit /\ [][LifetimeNext]_lifetimeVars

(***************************************************************************)
(* Properties.                                                             *)
(***************************************************************************)

InUse == (held \cup {root[s] : s \in Slot}) \ {Null}

\* Whatever the program still has, in a register or in memory, can be used:
\* the QSYM backend finds it in its map (and does not throw), the Rust backend
\* has not told its runtime that it is unreachable, and Z3 has not freed it.
ExpressionsStayUsable ==
  \A e \in InUse : IF backend = "simple" THEN heap[e.addr] # Free
                   ELSE e \in allocatedExpressions

\* An expression in the shadow memory or in a registered region means what it
\* meant when it was stored, whatever was collected in the meantime and
\* whatever addresses have been used again.
RootsKeepMeaning ==
  \A s \in Slot : root[s] # Null => Term(root[s].addr) = meaning[s]

\* A collection leaves nothing on the heap but what the program can still
\* reach.  (Not so in the simple backend, which keeps its references.)
CollectionFrees ==
  [][QsymCollect \/ RustCollect =>
       {a \in Address : heap'[a] # Free} =
         Kept({e.addr : e \in collectReachableExpressions}, heap)]_lifetimeVars

\* The width that an expression carries is the number of bits of the value it
\* describes (rust_backend/README.md: "maintaining the correct bit widths"),
\* up to the 255 bits that the packed byte can tell, whatever it was built
\* from and however often its address has been used.
WidthsAreMaintained ==
  \A e \in InUse : TrueWidth(e.addr) < 256 => e.width = TrueWidth(e.addr)
=============================================================================
