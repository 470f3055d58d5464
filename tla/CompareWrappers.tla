--------------------------- MODULE CompareWrappers --------------------------
(***************************************************************************)
(* The wrappers of libc's comparing functions (runtime/LibcWrappers.cpp).  *)
(* libc computes the result; the wrapper describes how it came about by a  *)
(* path constraint.  PathConstraints relies on the callers of              *)
(* _sym_push_path_constraint for two things: that taken says whether the   *)
(* current input satisfies the constraint, and that the constraint is what *)
(* the program's behaviour depends on.                                     *)
(*                                                                         *)
(* A byte of a string is a constant or a byte of the program's input; an   *)
(* expression is evaluated on any input, and a constraint is the set of    *)
(* inputs that satisfy it.  The arguments are concrete, but for the        *)
(* character of strchr.  An earlier call may have had a symbolic third     *)
(* argument of 64 bits, whose expression stays in its slot until the next  *)
(* call that has three arguments.                                          *)
(*                                                                         *)
(* Two wrappers build expressions from operands of the wrong sort.  In the *)
(* simple backend, which passes them to Z3, such a call is the program's   *)
(* last: the handler of Z3's errors fails an assertion.  QSYM's builder    *)
(* and the Rust runtime are not part of the repository: there the call may *)
(* end the program, too, or give the expression its obvious meaning.       *)
(***************************************************************************)
EXTENDS Integers, Sequences, FiniteSetsExt

CONSTANTS
  Char,       \* values of a byte, ASCII codes
  ConstChar,  \* bound: those that bytes have which are not from the input
  InputLen,   \* length of the program's input
  BufferSize, \* size of the buffers with their terminator
  MaxLen,     \* bound: largest length argument
  None        \* the null expression; also no call

\* The wrappers modelled here.
Wrapper == {"memcmp", "bcmp", "strncmp", "strcmp", "strchr", "strncasecmp", "strcasecmp"}

ASSUME CompareAssumption ==
  /\ Char \subseteq 0..255 /\ ConstChar \subseteq Char /\ 0 \in ConstChar
  /\ InputLen \in Nat /\ BufferSize \in Nat \ {0} /\ MaxLen \in Nat
  /\ None \notin [fn : Wrapper, n : Nat]

Inputs == [0..InputLen-1 -> Char]

\* What a byte of memory holds: its shadow is null or an input byte.
Cell == [symbolic: {FALSE}, byte: ConstChar] \cup [symbolic: {TRUE}, offset: 0..InputLen-1]
Terminator == [symbolic |-> FALSE, byte |-> 0]
Symbolic == {c \in Cell : c.symbolic}
Buffers == {s \in [0..BufferSize-1 -> Cell] : s[BufferSize-1] = Terminator}

\* "external" stands for QSYM and Rust.
Backend == {"simple", "external"}

VARIABLES
  backend, \* the backend that the runtime is built with
  stopped, \* the error handler has ended the program
  a, b,    \* the two strings
  input,   \* the program's input
  slot,    \* the expression in the argument slot of the third parameter
  call,    \* the last call, or None
  pushed   \* the calls of _sym_push_path_constraint that it made

compareVars == <<backend, stopped, a, b, input, slot, call, pushed>>

Eval(c, i) == IF c.symbolic THEN i[c.offset] ELSE c.byte

isConcrete(s, n) == \A k \in 0..n-1 : ~s[k].symbolic

(***************************************************************************)
(* libc, on input i.                                                       *)
(***************************************************************************)

strlen(s, i) == Min({k \in 0..BufferSize-1 : Eval(s[k], i) = 0})

MemEqual(n, i) == \A k \in 0..n-1 : Eval(a[k], i) = Eval(b[k], i)

\* Strings are compared up to n bytes or the end of the shorter one.
Compared(n, i) == 0 .. Min({n, strlen(a, i) + 1, strlen(b, i) + 1}) - 1

StrEqual(n, i) == \A k \in Compared(n, i) : Eval(a[k], i) = Eval(b[k], i)

tolower(x) == IF x \in 65..90 THEN x + 32 ELSE x

StrCaseEqual(n, i) ==
  \A k \in Compared(n, i) : tolower(Eval(a[k], i)) = tolower(Eval(b[k], i))

\* The position of the first byte c in s; none if the string ends before.
Found(s, c, i) == {k \in 0..strlen(s, i) : Eval(s[k], i) = Eval(c, i)}

(***************************************************************************)
(* The wrappers.                                                           *)
(***************************************************************************)

Push(constraint, taken) == [constraint |-> constraint, taken |-> taken]

\* A call with length n has pushed what it pushes.
Pushes(fn, n, pushes) ==
  /\ call' = [fn |-> fn, n |-> n]
  /\ pushed' = pushes
  /\ UNCHANGED <<a, b, input, backend>>

Returns(fn, n, pushes) == Pushes(fn, n, pushes) /\ UNCHANGED stopped

\* handle_z3_error: the call has pushed what it pushes and does not return.
SortError(fn, n, pushes) == Pushes(fn, n, pushes) /\ stopped' = TRUE

\* The caller has set the expression of the concrete third argument.
ThirdArgument == slot' = None

\* _sym_concretize_size on the third argument, n.
ConcretizeSize(e, n) ==
  IF e = None THEN <<>> ELSE <<Push({i \in Inputs : Eval(e, i) = n}, TRUE)>>

\* allEqual: the first n bytes of a and b are equal.
AllEqual(n) == {i \in Inputs : \A k \in 0..n-1 : Eval(a[k], i) = Eval(b[k], i)}

memcmp(n) ==
  /\ ThirdArgument
  /\ Returns("memcmp", n,
       IF isConcrete(a, n) /\ isConcrete(b, n)
       THEN <<>>
       ELSE <<Push(AllEqual(n), MemEqual(n, input))>>)

bcmp(n) ==
  /\ ThirdArgument
  /\ Returns("bcmp", n,
       IF isConcrete(a, n) /\ isConcrete(b, n)
       THEN <<>>
       ELSE <<Push(AllEqual(n), MemEqual(n, input))>>)

\* Faulty variant: the terminator is not compared.
WithoutTerminator(n) == Min({n, strlen(a, input), strlen(b, input)})

\* How many bytes the comparison may have looked at.
real_len(n) == Min({n, strlen(a, input) + 1, strlen(b, input) + 1})

\* Faulty variant: the early return looks at one string only.
CompareOneSided(fn, n, size) ==
  Returns(fn, n, ConcretizeSize(size, n) \o
    IF isConcrete(a, real_len(n))
    THEN <<>>
    ELSE <<Push(AllEqual(real_len(n)), StrEqual(n, input))>>)

\* The body of strncmp; size is the expression that it finds for n.
CompareStrings(fn, n, size) ==
  Returns(fn, n, ConcretizeSize(size, n) \o
    IF isConcrete(a, real_len(n)) /\ isConcrete(b, real_len(n))
    THEN <<>>
    ELSE <<Push(AllEqual(real_len(n)), StrEqual(n, input))>>)

strncmp(n) == ThirdArgument /\ CompareStrings("strncmp", n, slot')

\* MAX(len_a, len_b) + 1
WholeStrings == Max({strlen(a, input), strlen(b, input)}) + 1

\* strcmp calls strncmp, but its caller has set only two arguments.
strcmp == CompareStrings("strcmp", WholeStrings, slot) /\ UNCHANGED slot

\* The character c is searched in a: it is pinned to its value, and no byte
\* before the result is equal to it.  Its expression has 32 bits and is pinned
\* by _sym_concretize_size, which compares it with a constant of 64.
strchr(c) ==
  LET found == Found(a, c, input)
      length == IF found # {} THEN Min(found) ELSE strlen(a, input)
      value == Push({i \in Inputs : Eval(c, i) = Eval(c, input)}, TRUE)
      Differs(k) == Push({i \in Inputs : Eval(a[k], i) # Eval(c, i)}, TRUE)
  IN  /\ \/ c.symbolic /\ SortError("strchr", length, <<>>)
         \/ /\ c.symbolic => backend # "simple"
            /\ Returns("strchr", length,
                 (IF c.symbolic THEN <<value>> ELSE <<>>) \o
                 (IF isConcrete(a, length) /\ ~c.symbolic
                  THEN <<>>
                  ELSE [k \in 1..length |-> Differs(k - 1)]))
      /\ UNCHANGED slot

\* a_is_case_sensitive_ascii
IsLetter(x) == (x > 65 /\ x < 90) \/ (x > 97 /\ x < 122)

\* x & ~0x20
ClearCase(x) == IF (x \div 32) % 2 = 1 THEN x - 32 ELSE x

\* character_is_equivalent.  The code joins conditions with _sym_build_or and
\* _sym_build_and, which are meant for bit vectors; this is what they yield in a
\* backend that takes a condition for a single bit.
Equivalent(x, y) == x = y \/ (IsLetter(x) /\ ClearCase(x) = ClearCase(y))

\* The first characters are compared exactly.
CaseEqual(n) ==
  {i \in Inputs : /\ Eval(a[0], i) = Eval(b[0], i)
                  /\ \A k \in 1..n-1 : Equivalent(Eval(a[k], i), Eval(b[k], i))}

\* From the second character on, Z3 is asked for the bvor and bvand of conditions.
IllSorted(n) ==
  real_len(n) > 1 /\ ~(isConcrete(a, real_len(n)) /\ isConcrete(b, real_len(n)))

CompareIgnoringCase(fn, n, size) ==
  \/ IllSorted(n) /\ SortError(fn, n, ConcretizeSize(size, n))
  \/ /\ IllSorted(n) => backend # "simple"
     /\ Returns(fn, n, ConcretizeSize(size, n) \o
          IF isConcrete(a, real_len(n)) /\ isConcrete(b, real_len(n))
          THEN <<>>
          ELSE <<Push(CaseEqual(real_len(n)), StrCaseEqual(n, input))>>)

strncasecmp(n) == ThirdArgument /\ CompareIgnoringCase("strncasecmp", n, slot')

strcasecmp == CompareIgnoringCase("strcasecmp", WholeStrings, slot) /\ UNCHANGED slot

-----------------------------------------------------------------------------

CompareInit ==
  /\ backend \in Backend /\ stopped = FALSE
  /\ a \in Buffers /\ b \in Buffers
  /\ input \in Inputs
  /\ slot \in Symbolic \cup {None}
  /\ call = None /\ pushed = <<>>

CompareNext ==
  /\ ~stopped
  /\ \/ \E n \in 0..BufferSize : memcmp(n) \/ bcmp(n)
     \/ \E n \in 0..MaxLen : strncmp(n) \/ strncasecmp(n)
     \/ strcmp \/ strcasecmp
     \/ \E c \in Cell : strchr(c)

CompareSpec == CompareInit /\ [][CompareNext]_compareVars

-----------------------------------------------------------------------------

\* strcmp and strcasecmp have concretized the expression that an earlier call
\* left in the slot; no caller of theirs sets a third argument.
StaleSize ==
  /\ call # None /\ call.fn \in {"strcmp", "strcasecmp"}
  /\ slot # None

\* The constraints that are about the strings.
Explanation == IF StaleSize THEN Tail(pushed) ELSE pushed

\* The case-insensitive functions take these letters of different case for
\* different characters: the first ones of the strings, and A and Z.
CaseMistaken ==
  /\ call # None /\ call.fn \in {"strncasecmp", "strcasecmp"}
  /\ \E k \in Compared(call.n, input) :
       LET x == Eval(a[k], input)
           y == Eval(b[k], input)
       IN  x # y /\ tolower(x) = tolower(y) /\ (k = 0 \/ tolower(x) \in {97, 122})

\* A constraint is pushed as taken exactly if the current input satisfies it:
\* the wrapper's account of the call agrees with what libc computed, also when
\* the strings go on after their end or the length exceeds them.  Otherwise the
\* solver would be left with a path that this execution does not follow.  The
\* exceptions are named above; of a call that ends the program, only what it has
\* pushed before counts.
InputAgreesWithPush ==
  \A k \in DOMAIN Explanation :
    CaseMistaken \/ (Explanation[k].taken <=> input \in Explanation[k].constraint)

SameLengths(i) == strlen(a, i) = strlen(a, input) /\ strlen(b, i) = strlen(b, input)

\* The result of the last call, as far as it is zero or not, on input i.
Equal(i) == IF call.fn \in {"strncmp", "strcmp"} THEN StrEqual(call.n, i)
                                                 ELSE MemEqual(call.n, i)

\* The constraint of a comparison is its outcome: an input that keeps the
\* lengths of the strings satisfies it iff the comparison yields equality, so
\* solving for the alternative flips the result and asserting the constraint
\* pins it.  A comparison that pushes nothing does not depend on the input.
ConstraintIsOutcome ==
  call # None /\ call.fn \in {"memcmp", "bcmp", "strncmp", "strcmp"} =>
    \A i \in {j \in Inputs : SameLengths(j)} :
      IF Explanation = <<>>
      THEN Equal(i) = Equal(input)
      ELSE i \in Explanation[1].constraint <=> Equal(i)
=============================================================================
