------------------------------ MODULE LibcInput -----------------------------
(***************************************************************************)
(* Where symbolic data comes from: the wrappers of the input functions in  *)
(* runtime/LibcWrappers.cpp, which track the file descriptor of the        *)
(* symbolic input and the position in it, and label every byte they read   *)
(* with the offset that the backend will know it by.                       *)
(*                                                                         *)
(* The files, the descriptors and the C library's streams are external;    *)
(* they are modelled as the wrappers see them.  A file is the sequence of  *)
(* its bytes, of which only newline and NUL matter.  A descriptor and the  *)
(* stream opened on it share one position: programs that mix read(2) and   *)
(* stdio on one descriptor are left out.  A byte that the program pushes   *)
(* back is the one that was just read, or a foreign one that the file does *)
(* not have at this place; foreign bytes are text.                         *)
(***************************************************************************)
EXTENDS Integers, Sequences, FiniteSetsExt

CONSTANTS
  Handles,    \* file descriptors that the process can get; a stream without
              \* a descriptor has handle -1, the result of fileno for it
  MaxLength,  \* bound: longest input
  MaxCount,   \* bound: largest length argument
  MaxPushBack, \* bound: most foreign bytes pushed back on a stream
  OffsetRange, \* the type of inputOffset counts modulo this, 2^64 in the code
  Closed      \* state of an unused descriptor

\* The input, a file whose path contains the name of the input, and others.
Files == {"input", "namesake", "other"}

ASSUME LibcAssumption ==
  /\ Handles \subseteq Int
  /\ MaxLength \in Nat /\ MaxCount \in Nat
  /\ MaxPushBack \in Nat
  /\ OffsetRange \in Nat /\ OffsetRange > MaxLength + 1
  /\ Closed \notin [file : Files, pos : Nat, foreign : Nat]

Byte == {"text", "newline", "NUL"}

\* g_config.input
Configurations == {"NoInput", "StdinInput", "FileInput", "MemoryInput"}

VARIABLES
  config,               \* g_config.input
  content,              \* the bytes of the input
  open,                 \* descriptor -> the file and position behind it
  inputFileDescriptor,
  inputOffset,
  marks,   \* <<label, offset>> of the bytes that the last call made symbolic;
           \* offset is -1 for a byte that was not read from the input
  lost     \* history: a call read other bytes than it accounted for

vars == <<config, content, open, inputFileDescriptor, inputOffset, marks, lost>>

IsOpen(h) == open[h] # Closed
SetPosition(h, p, foreign) ==
  open' = [open EXCEPT ![h] = [file |-> @.file, pos |-> p, foreign |-> foreign]]

\* What ftell reports: every byte that was pushed back counts, so that the
\* position is negative after a push-back at the beginning of the file.
Position(h) == open[h].pos - open[h].foreign

\* Bytes left to read; other files have some bytes, too.
Size(file) == IF file = "input" THEN Len(content) ELSE MaxCount
Left(h) == open[h].foreign + Max({0, Size(open[h].file) - open[h].pos})

\* The offset in the input of the i-th byte to be read from h, -1 if the byte is
\* not from the input.
Offset(h, i) ==
  IF open[h].file = "input" /\ i >= open[h].foreign THEN Position(h) + i ELSE -1

(***************************************************************************)
(* Accounting.                                                             *)
(***************************************************************************)

\* Faulty variant: the offset is advanced before the byte is labelled.
LabelAfterwards(i, m) == (inputOffset + m + i) % OffsetRange

\* The label of the i-th of m bytes: inputOffset++ per byte.
Label(i, m) == (inputOffset + i) % OffsetRange

\* A call on h read n bytes, the foreign ones first, and accounts for m.
Account(h, n, m) ==
  /\ SetPosition(h, open[h].pos + Max({0, n - open[h].foreign}),
                    Max({0, open[h].foreign - n}))
  /\ IF h = inputFileDescriptor
     THEN /\ marks' = {<<Label(i, m), IF i < n THEN Offset(h, i) ELSE -1>> : i \in 0..m-1}
          /\ inputOffset' = (inputOffset + m) % OffsetRange
          /\ lost' = (lost \/ n # m)
     ELSE marks' = {} /\ UNCHANGED <<inputOffset, lost>>
  /\ UNCHANGED <<config, content, inputFileDescriptor>>

\* Faulty variant: the wrapper only passes the call on.
SeekUnnoticed(h, p) ==
  /\ SetPosition(h, p, 0)
  /\ marks' = {}
  /\ UNCHANGED <<config, content, inputFileDescriptor, inputOffset, lost>>

\* A call moved h to position p; the wrapper asks where it is.
Seek(h, p) ==
  /\ SetPosition(h, p, 0)
  /\ marks' = {}
  /\ IF h = inputFileDescriptor
     THEN inputOffset' = p /\ lost' = FALSE
     ELSE UNCHANGED <<inputOffset, lost>>
  /\ UNCHANGED <<config, content, inputFileDescriptor>>

(***************************************************************************)
(* The wrappers.                                                           *)
(***************************************************************************)

\* The file opened as h may be the configured input file: its path contains the
\* name (strstr).
maybeSetInputFile(h, file) ==
  IF config = "FileInput" /\ file \in {"input", "namesake"}
  THEN inputFileDescriptor' = h /\ inputOffset' = 0 /\ lost' = FALSE
  ELSE UNCHANGED <<inputFileDescriptor, inputOffset, lost>>

\* open, fopen and fopen64 return the lowest free descriptor.  Standard input
\* cannot be opened again by name.
Open(file) ==
  /\ config = "StdinInput" => file # "input"
  /\ \E h \in Handles :
       /\ h >= 0 /\ ~IsOpen(h) /\ \A g \in Handles : g < h => g < 0 \/ IsOpen(g)
       /\ open' = [open EXCEPT ![h] = [file |-> file, pos |-> 0, foreign |-> 0]]
       /\ maybeSetInputFile(h, file)
  /\ marks' = {}
  /\ UNCHANGED <<config, content>>

\* There is no wrapper of close.
Close(h) ==
  /\ IsOpen(h)
  /\ open' = [open EXCEPT ![h] = Closed]
  /\ marks' = {}
  /\ UNCHANGED <<config, content, inputFileDescriptor, inputOffset, lost>>

\* read may return less than is left.  It knows nothing of bytes pushed back.
Read(h, n) ==
  /\ IsOpen(h) /\ h >= 0 /\ open[h].foreign = 0
  /\ \E result \in 0..Min({n, Left(h)}) : Account(h, result, result)

\* fread consumes a partial item at the end of the file but counts whole ones.
Fread(h, size, nmemb) ==
  /\ IsOpen(h)
  /\ LET n == Min({size * nmemb, Left(h)}) IN
       Account(h, n, (n \div size) * size)

\* The i-th byte to be read from h is c; i counts from 1 here.
NextIs(h, i, c) ==
  /\ open[h].file = "input" /\ i > open[h].foreign
  /\ content[Position(h) + i] = c

\* The bytes that fgets(str, n, stream) consumes: up to a newline.
LineLength(h, n) ==
  LET most == Min({n - 1, Left(h)})
      newlines == {i \in 1..most : NextIs(h, i, "newline")}
  IN  Min(newlines \cup {most})

\* strlen(str) after the call: the bytes before the first NUL that was read,
\* or what an earlier string in str has if fgets failed and left str alone.
StrLengths(h, n) ==
  LET length == LineLength(h, n)
      nuls == {i \in 1..length : NextIs(h, i, "NUL")}
  IN  IF length = 0 /\ n > 1 THEN 0..MaxCount
      ELSE {IF nuls = {} THEN length ELSE Min(nuls) - 1}

\* The wrapper does not look at the result of fgets.
Fgets(h, n) ==
  /\ IsOpen(h) /\ n > 0
  /\ \E strlen \in StrLengths(h, n) : Account(h, LineLength(h, n), strlen)

\* getc, fgetc and getchar.
Getc(h) ==
  /\ IsOpen(h)
  /\ IF Left(h) > 0 THEN Account(h, 1, 1) ELSE Account(h, 0, 0)

\* ungetc steps back over the byte that was just read, if it is given this byte,
\* or puts a foreign one before what is left.  The wrapper counts one byte less
\* in both cases, below the beginning too; if ungetc fails nothing changes.
Ungetc(h) ==
  /\ IsOpen(h)
  /\ \/ /\ open[h].foreign = 0 /\ open[h].pos \in 1..Size(open[h].file)
        /\ SetPosition(h, open[h].pos - 1, 0)
     \/ /\ open[h].foreign < MaxPushBack
        /\ SetPosition(h, open[h].pos, open[h].foreign + 1)
  /\ marks' = {}
  /\ inputOffset' = IF h = inputFileDescriptor
                    THEN (inputOffset - 1) % OffsetRange
                    ELSE inputOffset
  /\ UNCHANGED <<config, content, inputFileDescriptor, lost>>

Rewind(h) == IsOpen(h) /\ Seek(h, 0)

\* lseek, fseek, fseeko and their variants: whence is the position that the
\* offset is relative to.  A negative target is an error: nothing changes.
Lseek(h, offset, whence) ==
  /\ IsOpen(h)
  /\ LET base == CASE whence = "SEEK_SET" -> 0
                   [] whence = "SEEK_CUR" -> Position(h)
                   [] whence = "SEEK_END" -> Size(open[h].file)
     IN  /\ base + offset \in 0..MaxLength+1
         /\ Seek(h, base + offset)

\* initLibcWrappers; standard input is the input file in the stdin case.
Init ==
  /\ config \in Configurations
  /\ content \in UNION {[1..n -> Byte] : n \in 0..MaxLength}
  /\ open = [h \in Handles |-> IF h = 0 /\ config = "StdinInput"
                               THEN [file |-> "input", pos |-> 0, foreign |-> 0]
                               ELSE Closed]
  /\ inputFileDescriptor = IF config = "StdinInput" THEN 0 ELSE -1
  /\ inputOffset = 0
  /\ marks = {}
  /\ lost = FALSE

Next ==
  \/ \E file \in Files : Open(file)
  \/ \E h \in Handles :
       \/ Close(h) \/ Getc(h) \/ Ungetc(h) \/ Rewind(h)
       \/ \E n \in 0..MaxCount : Read(h, n) \/ Fgets(h, n)
       \/ \E size, nmemb \in 1..MaxCount : Fread(h, size, nmemb)
       \/ \E offset \in -1..1, whence \in {"SEEK_SET", "SEEK_CUR", "SEEK_END"} :
            Lseek(h, offset, whence)

Spec == Init /\ [][Next]_vars

-----------------------------------------------------------------------------

ReadingInput ==
  /\ inputFileDescriptor \in Handles
  /\ IsOpen(inputFileDescriptor)
  /\ open[inputFileDescriptor].file = "input"

\* "The current position in the (symbolic) input" (LibcWrappers.cpp:41) is the
\* position of the input's descriptor after any sequence of opens, reads,
\* push-backs and seeks, unless fgets or fread lost count; a seek recovers.  A
\* position before the beginning is known by its value modulo the range.
OffsetTracksPosition ==
  ReadingInput /\ ~lost =>
    inputOffset = Position(inputFileDescriptor) % OffsetRange

\* Every byte that a call makes symbolic is labelled with its own offset in
\* the input, as long as the call neither starts nor ends out of step.  The
\* exception are foreign bytes that the program pushed back: reading them again
\* makes them symbolic although they are not from the input.
LabelsAreOffsets ==
  [][ReadingInput /\ ~lost /\ ~lost' =>
       \A m \in marks' : \/ m[1] = m[2]
                         \/ m[2] = -1 /\ open[inputFileDescriptor].foreign > 0]_vars

=============================================================================
