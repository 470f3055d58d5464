------------------------ MODULE LibcWrappers_proofs -------------------------
(***************************************************************************)
(* Proofs about the wrappers of libc: LibcInput, for every set of          *)
(* descriptors, every content and every length of the input and of the     *)
(* requests, and CompareWrappers, for every input, every buffer and every  *)
(* length.                                                                 *)
(***************************************************************************)
EXTENDS LibcInput, CompareWrappers, WellFoundedInduction, TLAPS

(***************************************************************************)
(* The inductive invariant.                                                *)
(***************************************************************************)

FileState == [file : Files, pos : Nat, foreign : Nat]

TypeInv ==
  /\ config \in Configurations
  /\ Len(content) \in 0..MaxLength
  /\ open \in [Handles -> FileState \cup {Closed}]
  /\ lost \in BOOLEAN

\* Seeking may leave the input behind its end, by one; reading never does.
PositionsInRange ==
  \A h \in Handles : IsOpen(h) /\ open[h].file = "input" => open[h].pos <= MaxLength + 1

\* The input of a program that has no input file, or reads it from memory, is
\* not behind a descriptor: the input file can be opened but is not tracked.
Tracking == config \notin {"StdinInput", "FileInput"} => inputFileDescriptor = -1

LibcInv ==
  TypeInv /\ PositionsInRange /\ Tracking /\ OffsetTracksPosition

(***************************************************************************)
(* Numbers of bytes.                                                       *)
(***************************************************************************)

\* A nonempty set of natural numbers has a least element.
LEMMA MinNat ==
  ASSUME NEW S, S \subseteq Nat, S # {}
  PROVE  Min(S) \in S /\ \A y \in S : Min(S) <= y
  <1> DEFINE less == {p \in Nat \X Nat : p[1] < p[2]}
  <1>1. IsWellFoundedOn(less, Nat)
    BY NatLessThanWellFounded, Zenon DEF OpToRel
  <1> HIDE DEF less
  <1>2. \E x \in S : \A y \in S : ~(<<y, x>> \in less)
    BY <1>1, WFMin
  <1>3. \A x, y \in Nat : <<y, x>> \in less <=> y < x
    BY DEF less
  <1>4. PICK x \in S : \A y \in S : ~(<<y, x>> \in less)
    BY <1>2
  <1>5. ASSUME NEW y \in S PROVE x <= y
    <2>1. x \in Nat /\ y \in Nat
      OBVIOUS
    <2>2. ~(y < x)
      BY <1>3, <1>4, <2>1
    <2> QED BY <2>1, <2>2
  <1> QED BY <1>5 DEF Min

\* Division with a remainder.
LEMMA DivMod ==
  ASSUME NEW x \in Int, NEW R \in Nat, R > 0
  PROVE  /\ x \div R \in Int /\ x % R \in 0..R-1
         /\ x = R * (x \div R) + (x % R)
  OBVIOUS

\* No other multiple of a number is closer to 0 than the number.
LEMMA Multiple ==
  ASSUME NEW R \in Nat, R > 0, NEW q \in Int, R * q < R, R * q > -R
  PROVE  q = 0
  <1>1. ASSUME q >= 1 PROVE FALSE
    <2>1. R * q >= R * 1
      BY <1>1
    <2> QED BY <2>1
  <1>2. ASSUME q <= -1 PROVE FALSE
    <2>1. R * q <= R * (-1)
      BY <1>2
    <2> QED BY <2>1
  <1> QED BY <1>1, <1>2

\* A counter that wraps around counts modulo its range.
LEMMA ModAdd ==
  ASSUME NEW x \in Int, NEW n \in Int, NEW R \in Nat, R > 0
  PROVE  ((x % R) + n) % R = (x + n) % R
  <1> DEFINE y == x % R
             k == x \div R
             u == (y + n) % R
             v == (x + n) % R
             p == (y + n) \div R
             q == (x + n) \div R
  <1>1. y \in Int /\ k \in Int /\ x = R * k + y
    BY DivMod
  <1>2. u \in 0..R-1 /\ p \in Int /\ y + n = R * p + u
    BY <1>1, DivMod
  <1>3. v \in 0..R-1 /\ q \in Int /\ x + n = R * q + v
    BY DivMod
  <1> HIDE DEF y, k, u, v, p, q
  <1>4. R * (q - k - p) = R * q - R * k - R * p
    BY <1>1, <1>2, <1>3
  <1>5. u - v = R * (q - k - p)
    <2>1. R * k \in Int /\ R * p \in Int /\ R * q \in Int
      BY <1>1, <1>2, <1>3
    <2> QED BY <1>1, <1>2, <1>3, <1>4, <2>1
  <1>6. q - k - p = 0
    <2>1. u - v < R /\ u - v > -R /\ q - k - p \in Int
      BY <1>1, <1>2, <1>3
    <2> QED BY <1>5, <2>1, Multiple
  <1>7. u = v
    BY <1>2, <1>3, <1>5, <1>6
  <1> QED BY <1>7 DEF y, u, v

\* The larger of two numbers.
LEMMA MaxTwo ==
  ASSUME NEW x \in Int, NEW y \in Int
  PROVE  Max({x, y}) = IF x >= y THEN x ELSE y
  <1>1. \E u \in {x, y} : \A v \in {x, y} : u >= v
    OBVIOUS
  <1>2. Max({x, y}) \in {x, y} /\ \A v \in {x, y} : Max({x, y}) >= v
    BY <1>1 DEF Max
  <1> QED BY <1>2

\* What is left of a file, from a position in it or behind its end.
LEMMA LeftFacts ==
  ASSUME TypeInv, NEW h \in Handles, IsOpen(h)
  PROVE  /\ open[h] \in FileState
         /\ open[h].pos \in Nat /\ open[h].foreign \in Nat
         /\ Position(h) \in Int /\ Position(h) = open[h].pos - open[h].foreign
         /\ Left(h) \in Nat
         /\ open[h].file = "input" =>
              Left(h) = IF open[h].pos < Len(content)
                        THEN open[h].foreign + Len(content) - open[h].pos
                        ELSE open[h].foreign
  <1>1. open[h] \in FileState
    BY DEF TypeInv, IsOpen
  <1>2. open[h].pos \in Nat /\ open[h].foreign \in Nat
    BY <1>1 DEF FileState
  <1>3. Position(h) \in Int /\ Position(h) = open[h].pos - open[h].foreign
    BY <1>2 DEF Position
  <1>4. Size(open[h].file) \in Nat
    BY LibcAssumption DEF Size, TypeInv
  <1> DEFINE rest == Size(open[h].file) - open[h].pos
  <1>5. Max({0, rest}) = IF 0 >= rest THEN 0 ELSE rest
    BY <1>2, <1>4, MaxTwo
  <1>6. Left(h) = open[h].foreign + IF 0 >= rest THEN 0 ELSE rest
    BY <1>5 DEF Left
  <1>7. Left(h) \in Nat
    BY <1>2, <1>4, <1>6
  <1>8. ASSUME open[h].file = "input"
        PROVE  Left(h) = IF open[h].pos < Len(content)
                         THEN open[h].foreign + Len(content) - open[h].pos
                         ELSE open[h].foreign
    <2>1. Size(open[h].file) = Len(content)
      BY <1>8 DEF Size
    <2> QED BY <1>2, <1>4, <1>6, <2>1
  <1> QED BY <1>1, <1>2, <1>3, <1>7, <1>8

\* The smaller of two counts.
LEMMA MinTwo ==
  ASSUME NEW x \in Nat, NEW y \in Nat
  PROVE  Min({x, y}) \in Nat /\ Min({x, y}) <= x /\ Min({x, y}) <= y
  <1>1. Min({x, y}) \in {x, y} /\ \A v \in {x, y} : Min({x, y}) <= v
    BY MinNat
  <1> QED BY <1>1

\* fgets consumes no more than there is.
LEMMA LineFacts ==
  ASSUME TypeInv, NEW h \in Handles, IsOpen(h), NEW n \in Nat, n > 0
  PROVE  LineLength(h, n) \in Nat /\ LineLength(h, n) <= Left(h)
  <1> DEFINE most == Min({n - 1, Left(h)})
             newlines == {i \in 1..most : NextIs(h, i, "newline")}
  <1>1. most \in Nat /\ most <= Left(h) /\ Left(h) \in Nat
    BY LeftFacts, MinTwo
  <1> HIDE DEF most
  <1>2. newlines \cup {most} \subseteq 0..most
    BY <1>1
  <1>3. LineLength(h, n) = Min(newlines \cup {most})
    BY DEF LineLength, most
  <1> HIDE DEF newlines
  <1>4. Min(newlines \cup {most}) \in newlines \cup {most}
    BY <1>1, <1>2, MinNat
  <1> QED BY <1>1, <1>2, <1>3, <1>4

(***************************************************************************)
(* The steps.                                                              *)
(***************************************************************************)

\* A number below the range of the offset's type is itself modulo the range.
LEMMA NoWrap ==
  ASSUME NEW p \in Nat, p <= MaxLength + 1
  PROVE  p % OffsetRange = p
  BY LibcAssumption

\* The type of inputOffset has values.
LEMMA RangePositive == OffsetRange \in Nat /\ OffsetRange > 0
  BY LibcAssumption

\* initLibcWrappers.
LEMMA LibcInit == Init => LibcInv
  <1> SUFFICES ASSUME Init PROVE LibcInv
    OBVIOUS
  <1>1. Len(content) \in 0..MaxLength
    <2>1. PICK n \in 0..MaxLength : content \in [1..n -> Byte]
      BY DEF Init
    <2>2. content \in Seq(Byte) /\ Len(content) = n
      BY <2>1, LibcAssumption
    <2> QED BY <2>1, <2>2
  <1>2. /\ config \in Configurations /\ lost \in BOOLEAN /\ inputOffset = 0
        /\ inputFileDescriptor = IF config = "StdinInput" THEN 0 ELSE -1
        /\ open = [h \in Handles |-> IF h = 0 /\ config = "StdinInput"
                                     THEN [file |-> "input", pos |-> 0, foreign |-> 0]
                                     ELSE Closed]
    BY DEF Init
  <1>3. [file |-> "input", pos |-> 0, foreign |-> 0] \in FileState
    BY DEF FileState, Files
  <1>4. TypeInv
    BY <1>1, <1>2, <1>3 DEF TypeInv
  <1>5. \A h \in Handles : IsOpen(h) => open[h].pos = 0 /\ Position(h) = 0 /\ h = 0
    BY <1>2 DEF IsOpen, Position
  <1>6. PositionsInRange /\ Tracking
    BY <1>2, <1>5, LibcAssumption DEF PositionsInRange, Tracking
  <1>7. OffsetTracksPosition
    <2>1. 0 % OffsetRange = 0
      BY NoWrap, LibcAssumption
    <2> QED BY <1>2, <1>5, <2>1 DEF OffsetTracksPosition, ReadingInput
  <1> QED BY <1>4, <1>6, <1>7 DEF LibcInv

\* A descriptor gets another position; the offset follows if it is the input's.
LEMMA MoveStep ==
  ASSUME LibcInv, NEW h \in Handles, IsOpen(h), NEW p \in Nat, NEW foreign \in Nat,
         SetPosition(h, p, foreign),
         open[h].file = "input" => p <= MaxLength + 1,
         lost' \in BOOLEAN,
         UNCHANGED <<config, content, inputFileDescriptor>>,
         IF h = inputFileDescriptor
         THEN ~lost' /\ open[h].file = "input" =>
                inputOffset' = (p - foreign) % OffsetRange
         ELSE UNCHANGED <<inputOffset, lost>>
  PROVE  LibcInv'
  <1>1. TypeInv /\ open[h] \in FileState
    BY LeftFacts DEF LibcInv
  <1> DEFINE f == [file |-> open[h].file, pos |-> p, foreign |-> foreign]
  <1>2. f \in FileState /\ f.file = open[h].file /\ f.pos = p /\ f.foreign = foreign
    BY <1>1 DEF FileState
  <1>3. open' = [open EXCEPT ![h] = f]
    BY Zenon DEF SetPosition
  <1> HIDE DEF f
  <1>4. /\ open'[h] = f
        /\ \A g \in Handles : g # h => open'[g] = open[g]
        /\ open' \in [Handles -> FileState \cup {Closed}]
    BY <1>1, <1>2, <1>3 DEF TypeInv
  <1>5. TypeInv'
    BY <1>1, <1>4 DEF TypeInv
  <1>6. open'[h] # Closed
    BY <1>2, <1>4, LibcAssumption DEF FileState
  <1>7. PositionsInRange'
    BY <1>2, <1>4 DEF LibcInv, PositionsInRange, IsOpen
  <1>8. Tracking'
    BY DEF LibcInv, Tracking
  <1>9. OffsetTracksPosition'
    <2> SUFFICES ASSUME inputFileDescriptor \in Handles,
                        open'[inputFileDescriptor] # Closed,
                        open'[inputFileDescriptor].file = "input", ~lost'
                 PROVE  inputOffset' = (open'[inputFileDescriptor].pos
                                         - open'[inputFileDescriptor].foreign) % OffsetRange
      BY DEF OffsetTracksPosition, ReadingInput, IsOpen, Position
    <2>1. CASE h = inputFileDescriptor
      BY <1>2, <1>4, <2>1
    <2>2. CASE h # inputFileDescriptor
      <3>1. open'[inputFileDescriptor] = open[inputFileDescriptor]
        BY <1>4, <2>2
      <3> QED BY <2>2, <3>1
           DEF LibcInv, OffsetTracksPosition, ReadingInput, IsOpen, Position
    <2> QED BY <2>1, <2>2
  <1> QED BY <1>5, <1>7, <1>8, <1>9 DEF LibcInv

\* A call reads n bytes and accounts for m.
LEMMA AccountStep ==
  ASSUME LibcInv, NEW h \in Handles, IsOpen(h), NEW n \in Nat, n <= Left(h),
         NEW m, Account(h, n, m)
  PROVE  LibcInv'
  <1> DEFINE pos == open[h].pos
             foreign == open[h].foreign
             p == IF n >= foreign THEN pos + (n - foreign) ELSE pos
             f == IF foreign >= n THEN foreign - n ELSE 0
  <1>1. /\ TypeInv /\ pos \in Nat /\ foreign \in Nat /\ Left(h) \in Nat
        /\ Position(h) \in Int /\ Position(h) = pos - foreign
        /\ open[h].file = "input" =>
             Left(h) = IF pos < Len(content) THEN foreign + Len(content) - pos ELSE foreign
    BY LeftFacts DEF LibcInv
  <1>2. Len(content) \in 0..MaxLength /\ MaxLength \in Nat /\ lost \in BOOLEAN
    BY <1>1, LibcAssumption DEF TypeInv
  <1>3. /\ Max({0, n - foreign}) = IF 0 >= n - foreign THEN 0 ELSE n - foreign
        /\ Max({0, foreign - n}) = IF 0 >= foreign - n THEN 0 ELSE foreign - n
    BY <1>1, MaxTwo
  <1> HIDE DEF pos, foreign
  <1>4. pos + Max({0, n - foreign}) = p /\ Max({0, foreign - n}) = f
    BY <1>1, <1>3
  <1>5. p \in Nat /\ f \in Nat /\ p - f = Position(h) + n
    BY <1>1
  <1>6. ASSUME open[h].file = "input" PROVE p <= MaxLength + 1
    <2>1. pos <= MaxLength + 1
      BY <1>6 DEF LibcInv, PositionsInRange, pos
    <2>2. Left(h) = IF pos < Len(content) THEN foreign + Len(content) - pos ELSE foreign
      BY <1>1, <1>6
    <2>3. CASE n >= foreign
      BY <1>1, <1>2, <2>1, <2>2, <2>3
    <2>4. CASE ~(n >= foreign)
      BY <2>1, <2>4
    <2> QED BY <2>3, <2>4
  <1>7. /\ SetPosition(h, p, f) /\ UNCHANGED <<config, content, inputFileDescriptor>>
        /\ IF h = inputFileDescriptor
           THEN inputOffset' = (inputOffset + m) % OffsetRange /\ lost' = (lost \/ n # m)
           ELSE UNCHANGED <<inputOffset, lost>>
    BY <1>4 DEF Account, pos, foreign
  <1>8. lost' \in BOOLEAN
    BY <1>2, <1>7
  <1>9. ASSUME h = inputFileDescriptor, ~lost', open[h].file = "input"
        PROVE  inputOffset' = (p - f) % OffsetRange
    <2>1. ~lost /\ n = m
      BY <1>2, <1>7, <1>9
    <2>2. inputOffset = Position(h) % OffsetRange
      BY <1>9, <2>1 DEF LibcInv, OffsetTracksPosition, ReadingInput
    <2>3. inputOffset' = ((Position(h) % OffsetRange) + n) % OffsetRange
      BY <1>7, <1>9, <2>1, <2>2
    <2>4. inputOffset' = (Position(h) + n) % OffsetRange
      BY <1>1, <2>3, ModAdd, RangePositive
    <2> HIDE DEF p, f
    <2> QED BY <1>5, <2>4
  <1> HIDE DEF p, f
  <1>10. IF h = inputFileDescriptor
         THEN ~lost' /\ open[h].file = "input" => inputOffset' = (p - f) % OffsetRange
         ELSE UNCHANGED <<inputOffset, lost>>
    BY <1>7, <1>9
  <1> QED BY <1>5, <1>6, <1>7, <1>8, <1>10, MoveStep

\* read, fread, fgets and getc read no more than is left.
LEMMA ReadStep ==
  ASSUME LibcInv, NEW h \in Handles, NEW n \in Nat, Read(h, n)
  PROVE  LibcInv'
  <1>1. IsOpen(h) /\ TypeInv
    BY DEF Read, LibcInv
  <1>2. Left(h) \in Nat
    BY <1>1, LeftFacts
  <1>3. Min({n, Left(h)}) \in Nat /\ Min({n, Left(h)}) <= Left(h)
    BY <1>2, MinTwo
  <1>4. PICK result \in 0..Min({n, Left(h)}) : Account(h, result, result)
    BY DEF Read
  <1>5. result \in Nat /\ result <= Left(h)
    BY <1>2, <1>3, <1>4
  <1> QED BY <1>1, <1>4, <1>5, AccountStep

\* See ReadStep.
LEMMA FreadStep ==
  ASSUME LibcInv, NEW h \in Handles, NEW size \in Nat, NEW nmemb \in Nat,
         Fread(h, size, nmemb)
  PROVE  LibcInv'
  <1> DEFINE n == Min({size * nmemb, Left(h)})
  <1>1. IsOpen(h) /\ TypeInv /\ Account(h, n, (n \div size) * size)
    BY DEF Fread, LibcInv
  <1>2. Left(h) \in Nat /\ size * nmemb \in Nat
    BY <1>1, LeftFacts
  <1>3. n \in Nat /\ n <= Left(h)
    BY <1>2, MinTwo
  <1> HIDE DEF n
  <1> DEFINE m == (n \div size) * size
  <1> HIDE DEF m
  <1>4. Account(h, n, m)
    BY <1>1 DEF m
  <1> QED BY <1>1, <1>3, <1>4, AccountStep

\* See ReadStep.
LEMMA FgetsStep ==
  ASSUME LibcInv, NEW h \in Handles, NEW n \in Nat, Fgets(h, n)
  PROVE  LibcInv'
  <1>1. IsOpen(h) /\ n > 0 /\ TypeInv
    BY DEF Fgets, LibcInv
  <1>2. LineLength(h, n) \in Nat /\ LineLength(h, n) <= Left(h)
    BY <1>1, LineFacts
  <1>3. PICK length \in StrLengths(h, n) : Account(h, LineLength(h, n), length)
    BY DEF Fgets
  <1> QED BY <1>1, <1>2, <1>3, AccountStep

\* See ReadStep.
LEMMA GetcStep ==
  ASSUME LibcInv, NEW h \in Handles, Getc(h)
  PROVE  LibcInv'
  <1>1. IsOpen(h) /\ TypeInv
    BY DEF Getc, LibcInv
  <1>2. Left(h) \in Nat
    BY <1>1, LeftFacts
  <1>3. \E n \in Nat : n <= Left(h) /\ Account(h, n, n)
    BY <1>2 DEF Getc
  <1> QED BY <1>1, <1>3, AccountStep

\* ungetc steps back in the file or puts a foreign byte before the rest: one byte
\* less in both cases, below the beginning too.
LEMMA UngetcStep ==
  ASSUME LibcInv, NEW h \in Handles, Ungetc(h)
  PROVE  LibcInv'
  <1>1. /\ IsOpen(h) /\ TypeInv
        /\ lost' = lost /\ UNCHANGED <<config, content, inputFileDescriptor>>
        /\ inputOffset' = IF h = inputFileDescriptor
                          THEN (inputOffset - 1) % OffsetRange ELSE inputOffset
    BY DEF Ungetc, LibcInv
  <1>2. /\ open[h].pos \in Nat /\ open[h].foreign \in Nat
        /\ Position(h) \in Int /\ Position(h) = open[h].pos - open[h].foreign
    BY <1>1, LeftFacts
  <1>3. PICK p \in Nat, f \in Nat :
          /\ SetPosition(h, p, f) /\ p <= open[h].pos
          /\ p - f = Position(h) + (-1)
    <2>1. CASE /\ open[h].foreign = 0 /\ open[h].pos \in 1..Size(open[h].file)
               /\ SetPosition(h, open[h].pos - 1, 0)
      <3>1. /\ open[h].pos - 1 \in Nat /\ open[h].pos - 1 <= open[h].pos
            /\ (open[h].pos - 1) - 0 = Position(h) + (-1)
        BY <1>2, <2>1
      <3> QED BY <2>1, <3>1
    <2>2. CASE SetPosition(h, open[h].pos, open[h].foreign + 1)
      <3>1. /\ open[h].foreign + 1 \in Nat /\ open[h].pos <= open[h].pos
            /\ open[h].pos - (open[h].foreign + 1) = Position(h) + (-1)
        BY <1>2
      <3> QED BY <1>2, <2>2, <3>1
    <2> QED BY <2>1, <2>2 DEF Ungetc
  <1>4. open[h].file = "input" => p <= MaxLength + 1
    <2>1. open[h].file = "input" => open[h].pos <= MaxLength + 1
      BY <1>1 DEF LibcInv, PositionsInRange
    <2> QED BY <1>2, <1>3, <2>1, LibcAssumption
  <1>5. ASSUME h = inputFileDescriptor, ~lost', open[h].file = "input"
        PROVE  inputOffset' = (p - f) % OffsetRange
    <2>1. inputOffset = Position(h) % OffsetRange
      BY <1>1, <1>5 DEF LibcInv, OffsetTracksPosition, ReadingInput
    <2>2. Position(h) % OffsetRange \in Int
      BY <1>2, RangePositive, DivMod
    <2>3. inputOffset - 1 = inputOffset + (-1)
      BY <2>1, <2>2
    <2>4. inputOffset' = ((Position(h) % OffsetRange) + (-1)) % OffsetRange
      BY <1>1, <1>5, <2>1, <2>3
    <2>5. Position(h) \in Int /\ -1 \in Int
      BY <1>2
    <2>6. ((Position(h) % OffsetRange) + (-1)) % OffsetRange
            = (Position(h) + (-1)) % OffsetRange
      BY ONLY <2>5, ModAdd, RangePositive
    <2> QED BY <1>3, <2>4, <2>6
  <1>6. lost' \in BOOLEAN
    BY <1>1 DEF TypeInv
  <1>7. IF h = inputFileDescriptor
        THEN ~lost' /\ open[h].file = "input" => inputOffset' = (p - f) % OffsetRange
        ELSE UNCHANGED <<inputOffset, lost>>
    BY <1>1, <1>5
  <1> QED BY <1>1, <1>3, <1>4, <1>6, <1>7, MoveStep

\* lseek, fseek and rewind ask for the position that they have set.
LEMMA SeekStep ==
  ASSUME LibcInv, NEW h \in Handles, IsOpen(h), NEW p \in 0..MaxLength+1, Seek(h, p)
  PROVE  LibcInv'
  <1>1. p \in Nat /\ p <= MaxLength + 1
    BY LibcAssumption
  <1>2. (p - 0) % OffsetRange = p
    <2>1. p - 0 = p
      BY <1>1
    <2> QED BY <1>1, <2>1, NoWrap
  <1>3. /\ SetPosition(h, p, 0) /\ UNCHANGED <<config, content, inputFileDescriptor>>
        /\ lost' \in BOOLEAN
        /\ IF h = inputFileDescriptor
           THEN inputOffset' = p
           ELSE UNCHANGED <<inputOffset, lost>>
    BY DEF Seek, LibcInv, TypeInv
  <1>4. IF h = inputFileDescriptor
        THEN ~lost' /\ open[h].file = "input" => inputOffset' = (p - 0) % OffsetRange
        ELSE UNCHANGED <<inputOffset, lost>>
    BY <1>2, <1>3
  <1> QED BY <1>1, <1>3, <1>4, MoveStep

\* open and fopen: the new descriptor is at the beginning of its file.
LEMMA OpenStep ==
  ASSUME LibcInv, NEW file \in Files, Open(file)
  PROVE  LibcInv'
  <1> DEFINE f == [file |-> file, pos |-> 0, foreign |-> 0]
  <1>1. f \in FileState /\ f.file = file /\ f.pos = 0 /\ f.foreign = 0
    BY DEF FileState
  <1>2. PICK h \in Handles :
          /\ h >= 0 /\ ~IsOpen(h)
          /\ open' = [open EXCEPT ![h] = f]
          /\ maybeSetInputFile(h, file)
    BY Zenon DEF Open
  <1> HIDE DEF f
  <1>3. TypeInv /\ config' = config /\ content' = content
        /\ (config = "StdinInput" => file # "input")
    BY DEF LibcInv, Open
  <1>4. /\ open'[h] = f /\ open[h] = Closed
        /\ \A g \in Handles : g # h => open'[g] = open[g]
        /\ open' \in [Handles -> FileState \cup {Closed}]
    BY <1>1, <1>2, <1>3 DEF TypeInv, IsOpen
  <1>5. lost' \in BOOLEAN
    BY <1>2, <1>3 DEF maybeSetInputFile, TypeInv
  <1>6. TypeInv'
    BY <1>3, <1>4, <1>5 DEF TypeInv
  <1>7. PositionsInRange'
    <2> SUFFICES ASSUME NEW g \in Handles, open'[g] # Closed, open'[g].file = "input"
                 PROVE  open'[g].pos <= MaxLength + 1
      BY DEF PositionsInRange, IsOpen
    <2>1. CASE g = h
      BY <1>1, <1>4, <2>1, LibcAssumption
    <2>2. CASE g # h
      BY <1>4, <2>2 DEF LibcInv, PositionsInRange, IsOpen
    <2> QED BY <2>1, <2>2
  <1>8. Tracking'
    BY <1>2, <1>3 DEF LibcInv, Tracking, maybeSetInputFile
  <1>9. OffsetTracksPosition'
    <2> SUFFICES ASSUME inputFileDescriptor' \in Handles,
                        open'[inputFileDescriptor'] # Closed,
                        open'[inputFileDescriptor'].file = "input", ~lost'
                 PROVE  inputOffset' = (open'[inputFileDescriptor'].pos
                                         - open'[inputFileDescriptor'].foreign) % OffsetRange
      BY DEF OffsetTracksPosition, ReadingInput, IsOpen, Position
    <2>1. CASE config = "FileInput" /\ file \in {"input", "namesake"}
      <3>1. inputFileDescriptor' = h /\ inputOffset' = 0
        BY <1>2, <2>1 DEF maybeSetInputFile
      <3>2. (0 - 0) % OffsetRange = 0
        BY NoWrap, LibcAssumption
      <3> QED BY <1>1, <1>4, <3>1, <3>2
    <2>2. CASE ~(config = "FileInput" /\ file \in {"input", "namesake"})
      <3>1. UNCHANGED <<inputFileDescriptor, inputOffset, lost>>
        BY <1>2, <2>2 DEF maybeSetInputFile
      <3>2. inputFileDescriptor # h
        BY <1>1, <1>2, <1>3, <1>4, <2>2, <3>1 DEF LibcInv, Tracking
      <3>3. open'[inputFileDescriptor] = open[inputFileDescriptor]
        BY <1>4, <3>1, <3>2
      <3> QED BY <3>1, <3>3
           DEF LibcInv, OffsetTracksPosition, ReadingInput, IsOpen, Position
    <2> QED BY <2>1, <2>2
  <1> QED BY <1>6, <1>7, <1>8, <1>9 DEF LibcInv

\* Nobody is told about close.
LEMMA CloseStep ==
  ASSUME LibcInv, NEW h \in Handles, Close(h)
  PROVE  LibcInv'
  <1>1. /\ TypeInv /\ open' = [open EXCEPT ![h] = Closed]
        /\ UNCHANGED <<config, content, inputFileDescriptor, inputOffset, lost>>
    BY DEF LibcInv, Close
  <1>2. /\ open'[h] = Closed
        /\ \A g \in Handles : g # h => open'[g] = open[g]
        /\ open' \in [Handles -> FileState \cup {Closed}]
    BY <1>1 DEF TypeInv
  <1>3. TypeInv'
    BY <1>1, <1>2 DEF TypeInv
  <1>4. PositionsInRange' /\ Tracking'
    BY <1>1, <1>2 DEF LibcInv, PositionsInRange, Tracking, IsOpen, Position
  <1>5. OffsetTracksPosition'
    BY <1>1, <1>2 DEF LibcInv, OffsetTracksPosition, ReadingInput, IsOpen, Position
  <1> QED BY <1>3, <1>4, <1>5 DEF LibcInv

\* The wrappers keep their invariant.
THEOREM LibcInvariance == Spec => []LibcInv
  <1>1. LibcInv /\ [Next]_vars => LibcInv'
    <2> SUFFICES ASSUME LibcInv, [Next]_vars PROVE LibcInv'
      OBVIOUS
    <2> USE LibcAssumption
    <2>1. CASE \E file \in Files : Open(file)
      BY <2>1, OpenStep
    <2>2. ASSUME NEW h \in Handles, Close(h) \/ Getc(h) \/ Ungetc(h) PROVE LibcInv'
      BY <2>2, CloseStep, GetcStep, UngetcStep
    <2>3. ASSUME NEW h \in Handles, Rewind(h) PROVE LibcInv'
      <3>1. 0 \in 0..MaxLength+1
        OBVIOUS
      <3> QED BY <2>3, <3>1, SeekStep DEF Rewind
    <2>4. ASSUME NEW h \in Handles, NEW n \in 0..MaxCount, Read(h, n) \/ Fgets(h, n)
          PROVE  LibcInv'
      <3>1. n \in Nat
        OBVIOUS
      <3> QED BY <2>4, <3>1, ReadStep, FgetsStep
    <2>5. ASSUME NEW h \in Handles, NEW size \in 1..MaxCount, NEW nmemb \in 1..MaxCount,
                 Fread(h, size, nmemb)
          PROVE  LibcInv'
      <3>1. size \in Nat /\ nmemb \in Nat
        OBVIOUS
      <3> QED BY <2>5, <3>1, FreadStep
    <2>6. ASSUME NEW h \in Handles, NEW offset \in -1..1,
                 NEW whence \in {"SEEK_SET", "SEEK_CUR", "SEEK_END"},
                 Lseek(h, offset, whence)
          PROVE  LibcInv'
      <3> DEFINE base == CASE whence = "SEEK_SET" -> 0
                           [] whence = "SEEK_CUR" -> Position(h)
                           [] whence = "SEEK_END" -> Size(open[h].file)
                 p == base + offset
      <3>1. IsOpen(h) /\ p \in 0..MaxLength+1 /\ Seek(h, p)
        BY <2>6, Zenon DEF Lseek
      <3> HIDE DEF p
      <3> QED BY <3>1, SeekStep
    <2>7. CASE UNCHANGED vars
      BY <2>7 DEF vars, LibcInv, TypeInv, PositionsInRange, Tracking,
                  OffsetTracksPosition, ReadingInput, IsOpen, Position
    <2> QED BY <2>1, <2>2, <2>3, <2>4, <2>5, <2>6, <2>7 DEF Next
  <1> QED BY <1>1, LibcInit, PTL DEF Spec

\* inputOffset is the position in the input, as its comment says
\* (LibcWrappers.cpp:41), unless fgets or fread lost count.
THEOREM OffsetCorrect == Spec => []OffsetTracksPosition
  <1>1. LibcInv => OffsetTracksPosition
    BY DEF LibcInv
  <1> QED BY <1>1, LibcInvariance, PTL

\* A label is the offset of its byte, unless a byte that the program pushed back
\* is read again.
RightLabel(k) ==
  \/ k[1] = k[2]
  \/ k[2] = -1 /\ open[inputFileDescriptor].foreign > 0

\* Bytes read from the input are labelled with their offsets.
LEMMA AccountLabels ==
  ASSUME LibcInv, NEW h \in Handles, IsOpen(h), NEW n \in Nat, n <= Left(h),
         NEW m, Account(h, n, m), ReadingInput, ~lost, ~lost'
  PROVE  \A k \in marks' : RightLabel(k)
  <1>1. CASE h # inputFileDescriptor
    BY <1>1 DEF Account
  <1>2. CASE h = inputFileDescriptor
    <2>1. /\ n = m /\ inputOffset = Position(h) % OffsetRange /\ open[h].file = "input"
      BY <1>2 DEF Account, LibcInv, OffsetTracksPosition, ReadingInput
    <2>2. /\ TypeInv /\ open[h].pos \in Nat /\ open[h].foreign \in Nat
          /\ Position(h) \in Int /\ Position(h) = open[h].pos - open[h].foreign
          /\ Left(h) = IF open[h].pos < Len(content)
                       THEN open[h].foreign + Len(content) - open[h].pos
                       ELSE open[h].foreign
      BY <2>1, LeftFacts DEF LibcInv
    <2>3. Len(content) \in 0..MaxLength /\ MaxLength \in Nat
      BY <2>2, LibcAssumption DEF TypeInv
    <2>4. marks' = {<<Label(i, m), IF i < n THEN Offset(h, i) ELSE -1>> : i \in 0..m-1}
      BY <1>2 DEF Account
    <2>5. ASSUME NEW i \in 0..m-1
          PROVE  /\ i < n
                 /\ \/ Label(i, m) = Offset(h, i)
                    \/ Offset(h, i) = -1 /\ open[h].foreign > 0
      <3>1. i \in Nat /\ i < n
        BY <2>1
      <3>2. CASE i < open[h].foreign
        <4>1. ~(i >= open[h].foreign) /\ open[h].foreign > 0
          BY <2>2, <3>1, <3>2
        <4>2. Offset(h, i) = -1
          BY <4>1 DEF Offset
        <4> QED BY <3>1, <4>1, <4>2
      <3>3. CASE ~(i < open[h].foreign)
        <4> DEFINE pos == open[h].pos
                   foreign == open[h].foreign
        <4>1. pos \in Nat /\ foreign \in Nat /\ i >= foreign /\ Position(h) = pos - foreign
          BY <2>2, <3>1, <3>3
        <4>2. Left(h) = IF pos < Len(content) THEN foreign + Len(content) - pos ELSE foreign
          BY <2>2
        <4>3. Offset(h, i) = Position(h) + i
          BY <2>1, <4>1 DEF Offset
        <4> HIDE DEF pos, foreign
        <4>4. Position(h) + i \in Nat /\ Position(h) + i <= MaxLength + 1
          BY <2>3, <3>1, <4>1, <4>2
        <4>5. Label(i, m) = ((Position(h) % OffsetRange) + i) % OffsetRange
          BY <2>1 DEF Label
        <4>6. Label(i, m) = (Position(h) + i) % OffsetRange
          <5>1. Position(h) \in Int /\ i \in Int
            BY <2>2, <3>1
          <5>2. ((Position(h) % OffsetRange) + i) % OffsetRange
                  = (Position(h) + i) % OffsetRange
            BY ONLY <5>1, ModAdd, RangePositive
          <5> QED BY <4>5, <5>2
        <4>7. Label(i, m) = Position(h) + i
          BY <4>4, <4>6, NoWrap
        <4> QED BY <3>1, <4>3, <4>7
      <3> QED BY <3>2, <3>3
    <2> QED BY <1>2, <2>4, <2>5 DEF RightLabel
  <1> QED BY <1>1, <1>2

\* What a step of the wrappers labels.
LEMMA StepLabels ==
  ASSUME LibcInv, Next, ReadingInput, ~lost, ~lost'
  PROVE  \A k \in marks' : RightLabel(k)
  <1>1. CASE \E file \in Files : Open(file)
    BY <1>1 DEF Open
  <1>2. ASSUME NEW h \in Handles, Close(h) \/ Ungetc(h) \/ Rewind(h)
        PROVE  marks' = {}
    BY <1>2 DEF Close, Ungetc, Rewind, Seek
  <1>3. ASSUME NEW h \in Handles, NEW offset, NEW whence, Lseek(h, offset, whence)
        PROVE  marks' = {}
    BY <1>3 DEF Lseek, Seek
  <1>4. ASSUME NEW h \in Handles, IsOpen(h)
        PROVE  TypeInv /\ Left(h) \in Nat
    BY <1>4, LeftFacts DEF LibcInv
  <1>5. ASSUME NEW h \in Handles, Getc(h)
        PROVE  \A k \in marks' : RightLabel(k)
    <2>1. IsOpen(h) /\ \E n \in Nat : n <= Left(h) /\ Account(h, n, n)
      BY <1>4, <1>5 DEF Getc
    <2> QED BY <2>1, AccountLabels
  <1>6. ASSUME NEW h \in Handles, NEW n \in 0..MaxCount, Read(h, n)
        PROVE  \A k \in marks' : RightLabel(k)
    <2>1. IsOpen(h) /\ \E r \in 0..Min({n, Left(h)}) : Account(h, r, r)
      BY <1>6 DEF Read
    <2>2. Left(h) \in Nat /\ n \in Nat
      BY <1>4, <2>1
    <2>3. Min({n, Left(h)}) \in Nat /\ Min({n, Left(h)}) <= Left(h)
      BY <2>2, MinTwo
    <2>4. \E r \in Nat : r <= Left(h) /\ Account(h, r, r)
      BY <2>1, <2>2, <2>3
    <2> QED BY <2>1, <2>4, AccountLabels
  <1>7. ASSUME NEW h \in Handles, NEW n \in 0..MaxCount, Fgets(h, n)
        PROVE  \A k \in marks' : RightLabel(k)
    <2>1. /\ IsOpen(h) /\ n > 0 /\ n \in Nat
          /\ \E length \in StrLengths(h, n) : Account(h, LineLength(h, n), length)
      BY <1>7 DEF Fgets
    <2>2. LineLength(h, n) \in Nat /\ LineLength(h, n) <= Left(h)
      BY <1>4, <2>1, LineFacts
    <2> QED BY <2>1, <2>2, AccountLabels
  <1>8. ASSUME NEW h \in Handles, NEW size \in 1..MaxCount, NEW nmemb \in 1..MaxCount,
               Fread(h, size, nmemb)
        PROVE  \A k \in marks' : RightLabel(k)
    <2> DEFINE n == Min({size * nmemb, Left(h)})
               m == (n \div size) * size
    <2>1. IsOpen(h) /\ Account(h, n, m)
      BY <1>8 DEF Fread
    <2>2. Left(h) \in Nat /\ size * nmemb \in Nat
      BY <1>4, <2>1
    <2>3. n \in Nat /\ n <= Left(h)
      BY <2>2, MinTwo
    <2> HIDE DEF n, m
    <2> QED BY <2>1, <2>3, AccountLabels
  <1> QED BY <1>1, <1>2, <1>3, <1>5, <1>6, <1>7, <1>8 DEF Next

\* Every byte that a wrapper makes symbolic gets its own offset as its label, as
\* long as the wrapper has not lost count (inputOffset++ per byte) and the byte is
\* not one that the program pushed back.
THEOREM LabelsCorrect == Spec => LabelsAreOffsets
  <1>1. LibcInv /\ [Next]_vars =>
          [ReadingInput /\ ~lost /\ ~lost' =>
             \A m \in marks' : \/ m[1] = m[2]
                               \/ m[2] = -1 /\ open[inputFileDescriptor].foreign > 0]_vars
    BY StepLabels DEF RightLabel
  <1> QED BY <1>1, LibcInvariance, PTL DEF Spec, LabelsAreOffsets

(***************************************************************************)
(* CompareWrappers: a call's constraints are explained in the state that   *)
(* the call leaves, so the invariant is what does not change, together     *)
(* with the properties.                                                    *)
(***************************************************************************)

CompareTypeInv ==
  /\ a \in Buffers /\ b \in Buffers
  /\ input \in Inputs
  /\ slot \in Symbolic \cup {None}

CompareInv == CompareTypeInv /\ InputAgreesWithPush /\ ConstraintIsOutcome

\* A byte of a buffer has a value on every input, which only depends on the
\* input if it is symbolic.
LEMMA EvalFacts ==
  ASSUME NEW s \in Buffers, NEW k \in 0..BufferSize-1
  PROVE  /\ \A i \in Inputs : Eval(s[k], i) \in 0..255
         /\ ~s[k].symbolic => \A i, j : Eval(s[k], i) = Eval(s[k], j)
  <1>1. s[k] \in Cell
    BY DEF Buffers
  <1>2. CASE s[k] \in [symbolic: {FALSE}, byte: ConstChar]
    BY <1>2, CompareAssumption DEF Eval
  <1>3. CASE s[k] \in [symbolic: {TRUE}, offset: 0..InputLen-1]
    BY <1>3, CompareAssumption DEF Eval, Inputs
  <1> QED BY <1>1, <1>2, <1>3 DEF Cell

\* The length of a string in a buffer.
LEMMA StrlenFacts ==
  ASSUME NEW s \in Buffers, NEW i \in Inputs
  PROVE  strlen(s, i) \in 0..BufferSize-1
  <1> DEFINE S == {k \in 0..BufferSize-1 : Eval(s[k], i) = 0}
  <1>1. BufferSize - 1 \in S
    BY CompareAssumption DEF Buffers, Terminator, Eval
  <1>2. S \subseteq Nat /\ S # {}
    BY <1>1
  <1>3. S \subseteq 0..BufferSize-1
    OBVIOUS
  <1>4. strlen(s, i) = Min(S)
    BY DEF strlen
  <1> HIDE DEF S
  <1> QED BY <1>2, <1>3, <1>4, MinNat

\* How many bytes of the strings are compared, at most n.
LEMMA ComparedFacts ==
  ASSUME CompareTypeInv, NEW n \in Nat, NEW i \in Inputs
  PROVE  LET m == Min({n, strlen(a, i) + 1, strlen(b, i) + 1})
         IN  m \in 0..BufferSize /\ m <= n /\ (n > 0 => m > 0)
  <1>1. strlen(a, i) \in 0..BufferSize-1 /\ strlen(b, i) \in 0..BufferSize-1
    BY StrlenFacts DEF CompareTypeInv
  <1> DEFINE S == {n, strlen(a, i) + 1, strlen(b, i) + 1}
  <1>2. S \subseteq Nat /\ S # {} /\ BufferSize \in Nat
    BY <1>1, CompareAssumption
  <1>3. Min(S) \in S /\ \A y \in S : Min(S) <= y
    BY <1>2, MinNat
  <1> QED BY <1>1, <1>2, <1>3

\* The properties, of a call of fn with length n that is explained by acc.
Mistaken(fn, n) ==
  /\ fn \in {"strncasecmp", "strcasecmp"}
  /\ \E k \in Compared(n, input) :
       LET x == Eval(a[k], input)
           y == Eval(b[k], input)
       IN  x # y /\ tolower(x) = tolower(y) /\ (k = 0 \/ tolower(x) \in {97, 122})

Agrees(fn, n, acc) ==
  \A k \in DOMAIN acc :
    Mistaken(fn, n) \/ (acc[k].taken <=> input \in acc[k].constraint)

EqualOn(fn, n, i) == IF fn \in {"strncmp", "strcmp"} THEN StrEqual(n, i) ELSE MemEqual(n, i)

Outcome(fn, n, acc) ==
  fn \in {"memcmp", "bcmp", "strncmp", "strcmp"} =>
    \A i \in {j \in Inputs : SameLengths(j)} :
      IF acc = <<>> THEN EqualOn(fn, n, i) = EqualOn(fn, n, input)
                    ELSE i \in acc[1].constraint <=> EqualOn(fn, n, i)

\* If what a call pushed is explained in this state, the invariant holds in the
\* state that the call leaves.
LEMMA CallExplained ==
  ASSUME CompareTypeInv, NEW fn \in Wrapper, NEW n \in Nat, NEW pushes, NEW acc,
         Pushes(fn, n, pushes), slot' \in Symbolic \cup {None},
         acc = IF fn \in {"strcmp", "strcasecmp"} /\ slot' # None
               THEN Tail(pushes) ELSE pushes,
         Agrees(fn, n, acc), Outcome(fn, n, acc)
  PROVE  CompareInv'
  <1>1. /\ call' = [fn |-> fn, n |-> n] /\ pushed' = pushes
        /\ a' = a /\ b' = b /\ input' = input
    BY DEF Pushes
  <1>2. call' # None /\ call'.fn = fn /\ call'.n = n
    BY <1>1, CompareAssumption
  <1>3. CompareTypeInv'
    BY <1>1, Zenon DEF CompareTypeInv
  <1>4. Explanation' = acc
    BY <1>1, <1>2, Zenon DEF Explanation, StaleSize
  <1>5. CaseMistaken' <=> Mistaken(fn, n)
    BY <1>1, <1>2, ZenonT(40) DEF CaseMistaken, Mistaken, Compared, strlen
  <1>6. InputAgreesWithPush'
    BY <1>1, <1>4, <1>5, Zenon DEF InputAgreesWithPush, Agrees
  <1>7. \A i : Equal(i)' = EqualOn(fn, n, i)
    BY <1>1, <1>2, Zenon DEF Equal, EqualOn, StrEqual, MemEqual, Compared, strlen
  <1>8. \A i : SameLengths(i)' <=> SameLengths(i)
    BY <1>1, Zenon DEF SameLengths, strlen
  <1>9. ConstraintIsOutcome'
    <2> SUFFICES ASSUME fn \in {"memcmp", "bcmp", "strncmp", "strcmp"},
                        NEW i \in Inputs, SameLengths(i)'
                 PROVE  IF acc = <<>> THEN Equal(i)' = Equal(input)'
                        ELSE i \in acc[1].constraint <=> Equal(i)'
      BY <1>2, <1>4, Zenon DEF ConstraintIsOutcome
    <2>1. IF acc = <<>> THEN EqualOn(fn, n, i) = EqualOn(fn, n, input)
          ELSE i \in acc[1].constraint <=> EqualOn(fn, n, i)
      BY <1>8, Zenon DEF Outcome
    <2>2. Equal(input)' = EqualOn(fn, n, input)
      BY <1>1, <1>2, Zenon DEF Equal, EqualOn, StrEqual, MemEqual, Compared, strlen
    <2> QED BY <1>7, <2>1, <2>2, Zenon
  <1> QED BY <1>3, <1>6, <1>9, Zenon DEF CompareInv

\* A call that pushes at most the constraint C, besides a stale size.
LEMMA OneConstraint ==
  ASSUME CompareTypeInv, NEW fn \in Wrapper, NEW n \in Nat, NEW pushes, NEW acc,
         NEW C, NEW taken, NEW concrete \in BOOLEAN,
         Pushes(fn, n, pushes), slot' \in Symbolic \cup {None},
         acc = IF concrete THEN <<>> ELSE <<Push(C, taken)>>,
         acc = IF fn \in {"strcmp", "strcasecmp"} /\ slot' # None
               THEN Tail(pushes) ELSE pushes,
         ~concrete => Mistaken(fn, n) \/ (taken <=> input \in C),
         fn \in {"memcmp", "bcmp", "strncmp", "strcmp"} =>
           \A i \in Inputs : SameLengths(i) =>
             IF concrete THEN EqualOn(fn, n, i) = EqualOn(fn, n, input)
                         ELSE i \in C <=> EqualOn(fn, n, i)
  PROVE  CompareInv'
  <1>1. CASE concrete
    <2>1. acc = <<>>
      BY <1>1
    <2>2. Agrees(fn, n, acc)
      BY <2>1 DEF Agrees
    <2>3. Outcome(fn, n, acc)
      BY <1>1, <2>1, Zenon DEF Outcome
    <2> QED BY <2>2, <2>3, CallExplained, Zenon
  <1>2. CASE ~concrete
    <2> DEFINE p == Push(C, taken)
    <2>1. p.constraint = C /\ p.taken = taken
      BY DEF Push
    <2>2. acc = <<p>>
      BY <1>2
    <2> HIDE DEF p
    <2>3. DOMAIN acc = {1} /\ acc[1] = p /\ acc # <<>>
      BY <2>2
    <2>4. Agrees(fn, n, acc)
      BY <1>2, <2>1, <2>3, Zenon DEF Agrees
    <2>5. Outcome(fn, n, acc)
      BY <1>2, <2>1, <2>3, Zenon DEF Outcome
    <2> QED BY <2>4, <2>5, CallExplained, Zenon
  <1> QED BY <1>1, <1>2

\* Bytes without a shadow have the same value on every input.
LEMMA ConcreteBytes ==
  ASSUME CompareTypeInv, NEW m \in 0..BufferSize, isConcrete(a, m), isConcrete(b, m),
         NEW i \in Inputs, NEW k \in 0..m-1
  PROVE  Eval(a[k], i) = Eval(a[k], input) /\ Eval(b[k], i) = Eval(b[k], input)
  <1>1. k \in 0..BufferSize-1
    BY CompareAssumption
  <1>2. ~a[k].symbolic /\ ~b[k].symbolic
    BY Zenon DEF isConcrete
  <1>3. a \in Buffers /\ b \in Buffers
    BY DEF CompareTypeInv
  <1> QED BY <1>1, <1>2, <1>3, EvalFacts

\* memcmp and bcmp: all bytes are compared, whatever they are.
LEMMA MemoryCompared ==
  ASSUME CompareTypeInv, NEW fn \in {"memcmp", "bcmp"}, NEW n \in 0..BufferSize,
         ThirdArgument,
         Pushes(fn, n, IF isConcrete(a, n) /\ isConcrete(b, n)
                       THEN <<>>
                       ELSE <<Push(AllEqual(n), MemEqual(n, input))>>)
  PROVE  CompareInv'
  <1> DEFINE concrete == isConcrete(a, n) /\ isConcrete(b, n)
             acc == IF concrete THEN <<>> ELSE <<Push(AllEqual(n), MemEqual(n, input))>>
  <1>1. n \in Nat /\ fn \in Wrapper /\ fn \notin {"strcmp", "strcasecmp", "strncmp"}
    <2>1. fn \in Wrapper
      BY DEF Wrapper
    <2>2. n \in Nat
      BY CompareAssumption
    <2> QED BY <2>1, <2>2
  <1>2. slot' \in Symbolic \cup {None}
    BY DEF ThirdArgument
  <1>3. input \in Inputs
    BY DEF CompareTypeInv
  <1>4. \A i \in Inputs : i \in AllEqual(n) <=> MemEqual(n, i)
    BY Zenon DEF AllEqual, MemEqual
  <1>5. \A i : EqualOn(fn, n, i) = MemEqual(n, i)
    BY <1>1, Zenon DEF EqualOn
  <1>6. ASSUME concrete, NEW i \in Inputs PROVE MemEqual(n, i) = MemEqual(n, input)
    <2>1. \A k \in 0..n-1 : /\ Eval(a[k], i) = Eval(a[k], input)
                            /\ Eval(b[k], i) = Eval(b[k], input)
      BY <1>6, ConcreteBytes
    <2> QED BY <2>1, Zenon DEF MemEqual
  <1>7. Pushes(fn, n, acc)
    OBVIOUS
  <1>8. concrete \in BOOLEAN
    BY Zenon DEF isConcrete
  <1>9. acc = IF concrete THEN <<>> ELSE <<Push(AllEqual(n), MemEqual(n, input))>>
    OBVIOUS
  <1> HIDE DEF acc, concrete
  <1>10. acc = IF fn \in {"strcmp", "strcasecmp"} /\ slot' # None THEN Tail(acc) ELSE acc
    BY <1>1
  <1>11. ~concrete => Mistaken(fn, n) \/ (MemEqual(n, input) <=> input \in AllEqual(n))
    BY <1>3, <1>4
  <1>12. fn \in {"memcmp", "bcmp", "strncmp", "strcmp"} =>
         \A i \in Inputs : SameLengths(i) =>
           IF concrete THEN EqualOn(fn, n, i) = EqualOn(fn, n, input)
                       ELSE i \in AllEqual(n) <=> EqualOn(fn, n, i)
    BY <1>4, <1>5, <1>6, Zenon
  <1> QED BY <1>1, <1>2, <1>7, <1>8, <1>9, <1>10, <1>11, <1>12, OneConstraint, SMTT(60)

\* The explanation of a call that may have concretized a stale size first.
LEMMA WithoutSize ==
  ASSUME NEW size, NEW n, NEW S, NEW acc \in Seq(S)
  PROVE  /\ size = None => ConcretizeSize(size, n) \o acc = acc
         /\ size # None => Tail(ConcretizeSize(size, n) \o acc) = acc
  <1> DEFINE q == Push({i \in Inputs : Eval(size, i) = n}, TRUE)
             T == S \cup {q}
  <1>2. size = None => ConcretizeSize(size, n) = <<>>
    BY DEF ConcretizeSize
  <1>3. size # None => ConcretizeSize(size, n) = <<q>>
    BY DEF ConcretizeSize
  <1> HIDE DEF q
  <1>1. acc \in Seq(T) /\ <<q>> \in Seq(T)
    OBVIOUS
  <1> HIDE DEF T
  <1>4. <<>> \o acc = acc
    BY <1>1
  <1>5. Tail(<<q>> \o acc) = acc
    <2> DEFINE s == <<q>> \o acc
    <2>1. s \in Seq(T) /\ Len(s) = Len(acc) + 1 /\ \A k \in 1..Len(acc) : s[k + 1] = acc[k]
      BY <1>1
    <2> HIDE DEF s
    <2>2. /\ Tail(s) \in Seq(T) /\ Len(Tail(s)) = Len(acc)
          /\ \A k \in 1..Len(acc) : Tail(s)[k] = acc[k]
      BY <1>1, <2>1
    <2>3. Tail(s) = acc
      BY <1>1, <2>2
    <2> QED BY <2>3 DEF s
  <1> QED BY <1>2, <1>3, <1>4, <1>5

\* A wrapper that describes the first m = real_len(n) bytes by one constraint,
\* after it has concretized the size it finds.
LEMMA StringsExplained ==
  ASSUME CompareTypeInv, NEW fn \in Wrapper, NEW n \in Nat, NEW C, NEW taken,
         NEW concrete \in BOOLEAN,
         slot' \in Symbolic \cup {None},
         fn \notin {"strcmp", "strcasecmp"} => slot' = None,
         Pushes(fn, n, ConcretizeSize(slot', n) \o
                         IF concrete THEN <<>> ELSE <<Push(C, taken)>>),
         ~concrete => Mistaken(fn, n) \/ (taken <=> input \in C),
         fn \in {"memcmp", "bcmp", "strncmp", "strcmp"} =>
           \A i \in Inputs : SameLengths(i) =>
             IF concrete THEN EqualOn(fn, n, i) = EqualOn(fn, n, input)
                         ELSE i \in C <=> EqualOn(fn, n, i)
  PROVE  CompareInv'
  <1> DEFINE p == Push(C, taken)
             acc == IF concrete THEN <<>> ELSE <<p>>
             pushes == ConcretizeSize(slot', n) \o acc
  <1>2. acc = IF concrete THEN <<>> ELSE <<Push(C, taken)>>
    OBVIOUS
  <1>3. Pushes(fn, n, pushes)
    OBVIOUS
  <1> HIDE DEF p
  <1>1. acc \in Seq({p})
    <2>1. <<>> \in Seq({p}) /\ <<p>> \in Seq({p})
      OBVIOUS
    <2> QED BY <2>1
  <1> HIDE DEF acc
  <1>4. /\ slot' = None => pushes = acc
        /\ slot' # None => Tail(pushes) = acc
    <2>1. \A e : /\ e = None => ConcretizeSize(e, n) \o acc = acc
                 /\ e # None => Tail(ConcretizeSize(e, n) \o acc) = acc
      BY <1>1, WithoutSize, Zenon
    <2> QED BY <2>1, Zenon
  <1> HIDE DEF pushes
  <1>5. acc = IF fn \in {"strcmp", "strcasecmp"} /\ slot' # None
              THEN Tail(pushes) ELSE pushes
    BY <1>4
  <1> QED BY <1>2, <1>3, <1>5, OneConstraint, SMTT(60)

\* The bytes that real_len(n) counts are those that libc compares, also on
\* another input that keeps the lengths.
LEMMA RealLen ==
  ASSUME CompareTypeInv, NEW n \in Nat
  PROVE  /\ real_len(n) \in 0..BufferSize
         /\ Compared(n, input) = 0..real_len(n)-1
         /\ \A i \in Inputs : SameLengths(i) => Compared(n, i) = 0..real_len(n)-1
  <1>1. real_len(n) \in 0..BufferSize
    BY ComparedFacts DEF real_len, CompareTypeInv
  <1>2. Compared(n, input) = 0..real_len(n)-1
    BY Zenon DEF Compared, real_len
  <1>3. \A i \in Inputs : SameLengths(i) => Compared(n, i) = 0..real_len(n)-1
    BY Zenon DEF SameLengths, Compared, real_len
  <1> QED BY <1>1, <1>2, <1>3

\* strncmp and strcmp.
LEMMA StringsCompared ==
  ASSUME CompareTypeInv, NEW fn \in {"strncmp", "strcmp"}, NEW n \in Nat,
         slot' \in Symbolic \cup {None}, fn = "strncmp" => slot' = None,
         CompareStrings(fn, n, slot')
  PROVE  CompareInv'
  <1> DEFINE m == real_len(n)
             concrete == isConcrete(a, m) /\ isConcrete(b, m)
  <1>1. /\ fn \in Wrapper
        /\ fn \notin {"strcmp", "strcasecmp"} => slot' = None
    BY DEF Wrapper
  <1>2. /\ Pushes(fn, n, ConcretizeSize(slot', n) \o
                           IF concrete THEN <<>> ELSE <<Push(AllEqual(m), StrEqual(n, input))>>)
        /\ concrete \in BOOLEAN
    BY Zenon DEF CompareStrings, isConcrete, Returns
  <1> HIDE DEF m
  <1>3. /\ m \in 0..BufferSize /\ Compared(n, input) = 0..m-1
        /\ \A i \in Inputs : SameLengths(i) => Compared(n, i) = 0..m-1
    BY RealLen DEF m
  <1>4. input \in Inputs
    BY DEF CompareTypeInv
  <1>5. \A i \in Inputs : SameLengths(i) => (i \in AllEqual(m) <=> StrEqual(n, i))
    BY <1>3, Zenon DEF AllEqual, StrEqual
  <1>6. StrEqual(n, input) <=> input \in AllEqual(m)
    BY <1>3, <1>4, Zenon DEF AllEqual, StrEqual
  <1>7. ASSUME concrete, NEW i \in Inputs, SameLengths(i)
        PROVE  StrEqual(n, i) = StrEqual(n, input)
    <2>1. \A k \in 0..m-1 : /\ Eval(a[k], i) = Eval(a[k], input)
                            /\ Eval(b[k], i) = Eval(b[k], input)
      BY <1>3, <1>7, ConcreteBytes
    <2> QED BY <1>3, <1>7, <2>1, Zenon DEF StrEqual
  <1>8. \A i : EqualOn(fn, n, i) = StrEqual(n, i)
    BY Zenon DEF EqualOn
  <1> HIDE DEF concrete
  <1>9. \A i \in Inputs : SameLengths(i) =>
          IF concrete THEN EqualOn(fn, n, i) = EqualOn(fn, n, input)
                      ELSE i \in AllEqual(m) <=> EqualOn(fn, n, i)
    BY <1>5, <1>7, <1>8, Zenon
  <1> QED BY <1>1, <1>2, <1>6, <1>9, StringsExplained

\* Two characters that are neither the first ones nor A and Z: the constraint
\* is right about them.
LEMMA CaseIsRight ==
  \A x, y \in 0..255 :
    /\ Equivalent(x, y) => tolower(x) = tolower(y)
    /\ tolower(x) = tolower(y) /\ ~(x # y /\ tolower(x) \in {97, 122}) => Equivalent(x, y)
  <1> SUFFICES ASSUME NEW x \in 0..255, NEW y \in 0..255
               PROVE  /\ Equivalent(x, y) => tolower(x) = tolower(y)
                      /\ tolower(x) = tolower(y) /\ ~(x # y /\ tolower(x) \in {97, 122})
                           => Equivalent(x, y)
    OBVIOUS
  <1>1. ASSUME NEW u \in 0..255
        PROVE  ClearCase(u) = IF u \in 32..63 \/ u \in 96..127 \/ u \in 160..191 \/ u \in 224..255
                              THEN u - 32 ELSE u
    BY DEF ClearCase
  <1>2. IsLetter(x) <=> x \in 66..89 \/ x \in 98..121
    BY DEF IsLetter
  <1>3. ASSUME IsLetter(x), ClearCase(x) = ClearCase(y) PROVE tolower(x) = tolower(y)
    <2>2. CASE x \in 66..89
      <3>1. ClearCase(x) = x
        BY <1>1, <2>2
      <3>2. y = x \/ y = x + 32
        <4>1. ClearCase(y) = y \/ ClearCase(y) = y - 32
          BY <1>1
        <4>2. ClearCase(y) = x
          BY <1>3, <3>1
        <4> QED BY <2>2, <4>1, <4>2
      <3> QED BY <2>2, <3>2 DEF tolower
    <2>3. CASE x \in 98..121
      <3>1. ClearCase(x) = x - 32
        BY <1>1, <2>3
      <3>2. y = x \/ y = x - 32
        <4>1. ClearCase(y) = y \/ ClearCase(y) = y - 32
          BY <1>1
        <4>2. ClearCase(y) = x - 32
          BY <1>3, <3>1
        <4> QED BY <2>3, <4>1, <4>2
      <3> QED BY <2>3, <3>2 DEF tolower
    <2> QED BY <1>2, <1>3, <2>2, <2>3
  <1>4. ASSUME tolower(x) = tolower(y), ~(x # y /\ tolower(x) \in {97, 122}), x # y
        PROVE  IsLetter(x) /\ ClearCase(x) = ClearCase(y)
    BY <1>1, <1>2, <1>4 DEF tolower
  <1> QED BY <1>3, <1>4, Zenon DEF Equivalent

\* A call that ends the program has pushed at most a stale size.
LEMMA SizeAlone ==
  ASSUME NEW e, NEW n
  PROVE  ConcretizeSize(e, n) \o <<>> = ConcretizeSize(e, n)
  <1> DEFINE q == Push({i \in Inputs : Eval(e, i) = n}, TRUE)
  <1>1. ConcretizeSize(e, n) = IF e = None THEN <<>> ELSE <<q>>
    BY DEF ConcretizeSize
  <1> HIDE DEF q
  <1>2. ConcretizeSize(e, n) \in Seq({q})
    <2>1. <<>> \in Seq({q}) /\ <<q>> \in Seq({q})
      OBVIOUS
    <2> QED BY <1>1, <2>1
  <1> DEFINE s == ConcretizeSize(e, n)
  <1> HIDE DEF s
  <1>3. s \in Seq({q})
    BY <1>2 DEF s
  <1>4. s \o <<>> = s
    BY <1>3
  <1> QED BY <1>4 DEF s

\* strncasecmp and strcasecmp: the constraint is right on this input unless it
\* is about letters that CaseMistaken names.
LEMMA CaseIgnored ==
  ASSUME CompareTypeInv, NEW fn \in {"strncasecmp", "strcasecmp"}, NEW n \in Nat,
         slot' \in Symbolic \cup {None}, fn = "strncasecmp" => slot' = None,
         CompareIgnoringCase(fn, n, slot')
  PROVE  CompareInv'
  <1> DEFINE m == real_len(n)
             concrete == isConcrete(a, m) /\ isConcrete(b, m)
  <1>1. /\ fn \in Wrapper /\ fn \notin {"memcmp", "bcmp", "strncmp", "strcmp"}
        /\ fn \notin {"strcmp", "strcasecmp"} => slot' = None
    BY DEF Wrapper
  <1>2. /\ \/ SortError(fn, n, ConcretizeSize(slot', n))
           \/ Returns(fn, n, ConcretizeSize(slot', n) \o
                              IF concrete THEN <<>>
                              ELSE <<Push(CaseEqual(m), StrCaseEqual(n, input))>>)
        /\ concrete \in BOOLEAN
    BY Zenon DEF CompareIgnoringCase, isConcrete
  <1> HIDE DEF m
  <1>3. m \in 0..BufferSize /\ Compared(n, input) = 0..m-1
    BY RealLen DEF m
  <1>4. input \in Inputs /\ a \in Buffers /\ b \in Buffers
    BY DEF CompareTypeInv
  <1>5. ASSUME ~concrete, ~Mistaken(fn, n)
        PROVE  StrCaseEqual(n, input) <=> input \in CaseEqual(m)
    <2> DEFINE x(k) == Eval(a[k], input)
               y(k) == Eval(b[k], input)
    <2>1. m > 0
      <3>1. CASE m = 0
        BY <1>5, <3>1 DEF isConcrete
      <3> QED BY <1>3, <3>1
    <2>2. \A k \in 0..m-1 : k \in 0..BufferSize-1
      BY <1>3, CompareAssumption
    <2>3. \A k \in 0..m-1 : x(k) \in 0..255 /\ y(k) \in 0..255
      BY <1>4, <2>2, EvalFacts
    <2>4. ASSUME NEW k \in 0..m-1
          PROVE  ~(x(k) # y(k) /\ tolower(x(k)) = tolower(y(k))
                     /\ (k = 0 \/ tolower(x(k)) \in {97, 122}))
      <3> SUFFICES ASSUME x(k) # y(k), tolower(x(k)) = tolower(y(k)),
                          k = 0 \/ tolower(x(k)) \in {97, 122}
                   PROVE  Mistaken(fn, n)
        BY <1>5
      <3>1. k \in Compared(n, input)
        BY <1>3
      <3> QED BY <3>1, Zenon DEF Mistaken
    <2>5. StrCaseEqual(n, input) <=> \A k \in 0..m-1 : tolower(x(k)) = tolower(y(k))
      BY <1>3, Zenon DEF StrCaseEqual
    <2>6. input \in CaseEqual(m) <=> x(0) = y(0) /\ \A k \in 1..m-1 : Equivalent(x(k), y(k))
      BY <1>4, Zenon DEF CaseEqual
    <2> HIDE DEF x, y
    <2>7. \A k \in 0..m-1 : k = 0 \/ k \in 1..m-1
      BY <1>3
    <2>8. 0 \in 0..m-1 /\ \A k \in 1..m-1 : k \in 0..m-1 /\ k # 0
      BY <1>3, <2>1
    <2>9. ASSUME StrCaseEqual(n, input) PROVE input \in CaseEqual(m)
      <3>1. x(0) = y(0)
        BY <2>4, <2>5, <2>8, <2>9, Zenon
      <3>2. ASSUME NEW k \in 1..m-1 PROVE Equivalent(x(k), y(k))
        <4>1. k \in 0..m-1
          BY <2>8
        <4>2. x(k) \in 0..255 /\ y(k) \in 0..255
          BY <2>3, <4>1
        <4>3. tolower(x(k)) = tolower(y(k)) /\ ~(x(k) # y(k) /\ tolower(x(k)) \in {97, 122})
          BY <2>4, <2>5, <2>9, <4>1, Zenon
        <4> QED BY <4>2, <4>3, CaseIsRight
      <3> QED BY <2>6, <3>1, <3>2
    <2>10. ASSUME input \in CaseEqual(m) PROVE StrCaseEqual(n, input)
      <3>1. ASSUME NEW k \in 0..m-1 PROVE tolower(x(k)) = tolower(y(k))
        <4>1. CASE k = 0
          BY <2>6, <2>10, <4>1, Zenon
        <4>2. CASE k \in 1..m-1
          <5>1. Equivalent(x(k), y(k))
            BY <2>6, <2>10, <4>2, Zenon
          <5>2. x(k) \in 0..255 /\ y(k) \in 0..255
            BY <2>3
          <5> QED BY <5>1, <5>2, CaseIsRight DEF Equivalent
        <4> QED BY <2>7, <4>1, <4>2
      <3> QED BY <2>5, <3>1
    <2> QED BY <2>9, <2>10
  <1> HIDE DEF concrete
  <1>6. ~concrete => Mistaken(fn, n) \/ (StrCaseEqual(n, input) <=> input \in CaseEqual(m))
    BY <1>5
  <1>7. CASE SortError(fn, n, ConcretizeSize(slot', n))
    <2>1. Pushes(fn, n, ConcretizeSize(slot', n) \o
                          IF TRUE THEN <<>> ELSE <<Push({}, TRUE)>>)
      BY <1>7, SizeAlone DEF SortError
    <2> QED BY <1>1, <2>1, StringsExplained
  <1>8. CASE Returns(fn, n, ConcretizeSize(slot', n) \o
                            IF concrete THEN <<>>
                            ELSE <<Push(CaseEqual(m), StrCaseEqual(n, input))>>)
    <2>1. Pushes(fn, n, ConcretizeSize(slot', n) \o
                          IF concrete THEN <<>>
                          ELSE <<Push(CaseEqual(m), StrCaseEqual(n, input))>>)
      BY <1>8, Zenon DEF Returns
    <2> QED BY <1>1, <1>2, <1>6, <2>1, StringsExplained
  <1> QED BY <1>2, <1>7, <1>8

\* strchr: every constraint holds on this input, that no byte before the
\* result is the character included.
LEMMA CharacterSought ==
  ASSUME CompareTypeInv, NEW c \in Cell, strchr(c)
  PROVE  CompareInv'
  <1> DEFINE found == Found(a, c, input)
             length == IF found # {} THEN Min(found) ELSE strlen(a, input)
             value == Push({i \in Inputs : Eval(c, i) = Eval(c, input)}, TRUE)
             Differs(k) == Push({i \in Inputs : Eval(a[k], i) # Eval(c, i)}, TRUE)
             first == IF c.symbolic THEN <<value>> ELSE <<>>
             second == IF isConcrete(a, length) /\ ~c.symbolic
                       THEN <<>> ELSE [k \in 1..length |-> Differs(k - 1)]
             True(p) == p.taken /\ input \in p.constraint
  <1>1. /\ SortError("strchr", length, <<>>) \/ Returns("strchr", length, first \o second)
        /\ slot' = slot
    BY Zenon DEF strchr
  <1>2. input \in Inputs /\ a \in Buffers /\ slot \in Symbolic \cup {None}
    BY DEF CompareTypeInv
  <1>3. strlen(a, input) \in Nat
    BY <1>2, StrlenFacts
  <1>4. found = {k \in 0..strlen(a, input) : Eval(a[k], input) = Eval(c, input)}
    BY DEF Found
  <1> HIDE DEF found
  <1>5. length \in 0..strlen(a, input) /\ \A k \in found : length <= k
    <2>1. CASE found = {}
      BY <1>3, <2>1
    <2>2. CASE found # {}
      <3>1. found \subseteq Nat
        BY <1>3, <1>4
      <3>2. Min(found) \in found /\ \A k \in found : Min(found) <= k
        BY <2>2, <3>1, MinNat
      <3>3. found \subseteq 0..strlen(a, input)
        BY <1>4
      <3> QED BY <2>2, <3>2, <3>3
    <2> QED BY <2>1, <2>2
  <1> HIDE DEF length
  <1>6. True(value)
    BY <1>2 DEF Push
  <1>7. ASSUME NEW k \in 1..length PROVE True(Differs(k - 1))
    <2>1. k - 1 \in 0..strlen(a, input) /\ k - 1 \notin found
      BY <1>3, <1>5
    <2>2. Eval(a[k - 1], input) # Eval(c, input)
      BY <1>4, <2>1, Zenon
    <2> QED BY <1>2, <2>2 DEF Push
  <1> HIDE DEF value, Differs
  <1> DEFINE P == {value} \cup {Differs(k - 1) : k \in 1..length}
  <1>8. first \in Seq(P) /\ second \in Seq(P)
    <2>1. <<>> \in Seq(P) /\ <<value>> \in Seq(P)
      OBVIOUS
    <2>2. [k \in 1..length |-> Differs(k - 1)] \in Seq(P)
      <3>1. length \in Nat /\ \A k \in 1..length : Differs(k - 1) \in P
        BY <1>3, <1>5
      <3> HIDE DEF P
      <3> QED BY <3>1
    <2> QED BY <2>1, <2>2
  <1>9. \A p \in P : True(p)
    BY <1>6, <1>7, Zenon
  <1> HIDE DEF first, second, P
  <1>10. \A k \in DOMAIN (first \o second) : (first \o second)[k] \in P
    BY <1>8
  <1>11. Agrees("strchr", length, first \o second)
    BY <1>9, <1>10, Zenon DEF Agrees
  <1>12. Outcome("strchr", length, first \o second)
    BY DEF Outcome
  <1>13. length \in Nat /\ "strchr" \in Wrapper
    BY <1>3, <1>5 DEF Wrapper
  <1> DEFINE acc == first \o second
  <1> HIDE DEF acc
  <1>14. CASE SortError("strchr", length, <<>>)
    <2>1. Pushes("strchr", length, <<>>) /\ slot' \in Symbolic \cup {None}
      BY <1>1, <1>2, <1>14 DEF SortError
    <2>2. Agrees("strchr", length, <<>>) /\ Outcome("strchr", length, <<>>)
      BY DEF Agrees, Outcome
    <2>3. <<>> = IF "strchr" \in {"strcmp", "strcasecmp"} /\ slot' # None
                 THEN Tail(<<>>) ELSE <<>>
      OBVIOUS
    <2> QED BY <1>13, <2>1, <2>2, <2>3, CallExplained
  <1>15. CASE Returns("strchr", length, first \o second)
    <2>1. acc = IF "strchr" \in {"strcmp", "strcasecmp"} /\ slot' # None THEN Tail(acc) ELSE acc
      OBVIOUS
    <2>2. /\ Pushes("strchr", length, acc) /\ slot' \in Symbolic \cup {None}
          /\ Agrees("strchr", length, acc) /\ Outcome("strchr", length, acc)
      BY <1>1, <1>2, <1>11, <1>12, <1>15, Zenon DEF acc, Returns
    <2> QED BY <1>13, <2>1, <2>2, CallExplained
  <1> QED BY <1>1, <1>14, <1>15

\* Before the first call, nothing has been pushed.
LEMMA CompareInitInv ==
  ASSUME CompareInit
  PROVE  CompareInv
  <1>1. CompareTypeInv /\ call = None /\ pushed = <<>>
    BY DEF CompareInit, CompareTypeInv
  <1>2. Explanation = <<>>
    BY <1>1, Zenon DEF Explanation, StaleSize
  <1>3. InputAgreesWithPush
    BY <1>2 DEF InputAgreesWithPush
  <1>4. ConstraintIsOutcome
    BY <1>1, Zenon DEF ConstraintIsOutcome
  <1> QED BY <1>1, <1>3, <1>4 DEF CompareInv

\* Every call.
LEMMA CompareNextInv ==
  ASSUME CompareInv, [CompareNext]_compareVars
  PROVE  CompareInv'
  <1>1. CompareTypeInv
    BY DEF CompareInv
  <1>2. WholeStrings \in Nat
    <2>1. strlen(a, input) \in Nat /\ strlen(b, input) \in Nat
      BY <1>1, StrlenFacts DEF CompareTypeInv
    <2>2. Max({strlen(a, input), strlen(b, input)}) \in Nat
      BY <2>1, MaxTwo
    <2> QED BY <2>2 DEF WholeStrings
  <1>3. slot \in Symbolic \cup {None}
    BY <1>1 DEF CompareTypeInv
  <1>4. \A n \in 0..MaxLen : n \in Nat
    BY CompareAssumption
  <1>5. CASE \E n \in 0..BufferSize : memcmp(n) \/ bcmp(n)
    BY <1>1, <1>5, MemoryCompared DEF memcmp, bcmp, Returns
  <1>6. CASE \E n \in 0..MaxLen : strncmp(n)
    BY <1>1, <1>4, <1>6, StringsCompared DEF strncmp, ThirdArgument
  <1>7. CASE \E n \in 0..MaxLen : strncasecmp(n)
    BY <1>1, <1>4, <1>7, CaseIgnored DEF strncasecmp, ThirdArgument
  <1>8. CASE strcmp
    <2>1. slot' = slot /\ CompareStrings("strcmp", WholeStrings, slot')
      BY <1>8 DEF strcmp
    <2> QED BY <1>1, <1>2, <1>3, <2>1, StringsCompared
  <1>9. CASE strcasecmp
    <2>1. slot' = slot /\ CompareIgnoringCase("strcasecmp", WholeStrings, slot')
      BY <1>9 DEF strcasecmp
    <2> QED BY <1>1, <1>2, <1>3, <2>1, CaseIgnored
  <1>10. CASE \E c \in Cell : strchr(c)
    BY <1>1, <1>10, CharacterSought
  <1>11. CASE UNCHANGED compareVars
    <2>1. /\ a' = a /\ b' = b /\ input' = input
          /\ slot' = slot /\ call' = call /\ pushed' = pushed
      BY <1>11 DEF compareVars
    <2>2. CompareTypeInv'
      BY <1>1, <2>1, Zenon DEF CompareTypeInv
    <2>3. Explanation' = Explanation
      BY <2>1, Zenon DEF Explanation, StaleSize
    <2>4. CaseMistaken' <=> CaseMistaken
      BY <2>1, ZenonT(40) DEF CaseMistaken, Compared, strlen
    <2>5. InputAgreesWithPush'
      BY <2>1, <2>3, <2>4, Zenon DEF CompareInv, InputAgreesWithPush
    <2>6. \A i : /\ Equal(i)' = Equal(i)
                 /\ SameLengths(i)' <=> SameLengths(i)
      BY <2>1, Zenon DEF Equal, StrEqual, MemEqual, Compared, SameLengths, strlen
    <2>7. Equal(input)' = Equal(input)
      BY <2>1, Zenon DEF Equal, StrEqual, MemEqual, Compared, strlen
    <2>8. ConstraintIsOutcome'
      <3> SUFFICES ASSUME call # None, call.fn \in {"memcmp", "bcmp", "strncmp", "strcmp"},
                          NEW i \in Inputs, SameLengths(i)'
                   PROVE  IF Explanation = <<>> THEN Equal(i)' = Equal(input)'
                          ELSE i \in Explanation[1].constraint <=> Equal(i)'
        BY <2>1, <2>3, Zenon DEF ConstraintIsOutcome
      <3>1. IF Explanation = <<>> THEN Equal(i) = Equal(input)
            ELSE i \in Explanation[1].constraint <=> Equal(i)
        BY <2>6, Zenon DEF CompareInv, ConstraintIsOutcome
      <3> QED BY <2>6, <2>7, <3>1, Zenon
    <2> QED BY <2>2, <2>5, <2>8, Zenon DEF CompareInv
  <1> QED BY <1>5, <1>6, <1>7, <1>8, <1>9, <1>10, <1>11 DEF CompareNext

\* What the wrappers of the comparing functions keep true after every call.
THEOREM CompareInvariance == CompareSpec => []CompareInv
  <1>1. CompareInit => CompareInv
    BY CompareInitInv
  <1>2. CompareInv /\ [CompareNext]_compareVars => CompareInv'
    BY CompareNextInv
  <1> QED BY <1>1, <1>2, PTL DEF CompareSpec

\* However long the strings, the input and the length argument are, a wrapper
\* pushes a constraint as taken exactly if the input satisfies it, but for the
\* exceptions that the property names.  A call that strncasecmp (569, 592) or
\* strchr (439) ends by an error of sorts pushes no such constraint.
THEOREM PushesAgree == CompareSpec => []InputAgreesWithPush
  <1>1. CompareInv => InputAgreesWithPush
    BY DEF CompareInv
  <1> QED BY <1>1, CompareInvariance, PTL

\* On every input that keeps the lengths of the strings, the constraint of a
\* comparison is its outcome.
THEOREM ConstraintsAreOutcomes == CompareSpec => []ConstraintIsOutcome
  <1>1. CompareInv => ConstraintIsOutcome
    BY DEF CompareInv
  <1> QED BY <1>1, CompareInvariance, PTL
=============================================================================
