---------------------------- MODULE PureConcolic ----------------------------
(***************************************************************************)
(* util/pure_concolic_execution.sh: run an instrumented program on one     *)
(* generation of inputs after the other.  A generation consists of the     *)
(* test cases generated by the previous one and of the files that have     *)
(* appeared in the input directory.                                        *)
(*                                                                         *)
(* A file is a name and a content.  The program's test cases are numbered  *)
(* from the start in each run and go to a directory that is never emptied, *)
(* where a run replaces those of earlier runs with the same number.  A     *)
(* run that takes too long is killed, after any number of test cases.      *)
(***************************************************************************)
EXTENDS Integers, Sequences, FiniteSets, Functions

CONSTANTS
  Content,    \* contents of inputs
  Name,       \* names of files in the input directory
  Hash,       \* content -> the name it is given by copy_with_unique_name
  Occurs,     \* pairs of names: the first one occurs in the second one
  TestCases,  \* content -> the test cases a run on it generates
  Absent      \* no file

ASSUME PureConcolicAssumption ==
  /\ \A c, d \in Content : Hash[c] = Hash[d] => c = d
  /\ TestCases \in [Content -> Seq(Content)]
  /\ Absent \notin Content

File(n, c) == [name |-> n, content |-> c]

VARIABLES
  in,         \* the input directory: name -> content, or Absent
  next,       \* files of the next generation
  cur,        \* files of this generation that are still to be run
  symcc_out,  \* test cases by number
  out,        \* contents exported to the output directory
  analyzed_inputs,  \* names of the files that have been run
  pc,         \* "import", "run" or "wait"
  ran         \* contents that have been run

vars == <<in, next, cur, symcc_out, out, analyzed_inputs, pc, ran>>

(***************************************************************************)
(* Someone puts a file into the input directory.  A name that is a hash is *)
(* used for the content with that hash.                                    *)
(***************************************************************************)

NewFile(n, c) ==
  /\ in[n] = Absent
  /\ \A d \in Content : n = Hash[d] => d = c
  /\ in' = [in EXCEPT ![n] = c]
  /\ UNCHANGED <<next, cur, symcc_out, out, analyzed_inputs, pc, ran>>

(***************************************************************************)
(* The script.                                                             *)
(***************************************************************************)

\* grep finds the name in the list, possibly as a part of another name.
Known(n) == \E a \in analyzed_inputs : n = a \/ <<n, a>> \in Occurs

\* Files that maybe_import adds to the next generation.
Imported ==
  {File(n, in[n]) : n \in {m \in Name : /\ in[m] # Absent
                                        /\ ~Known(m)
                                        /\ \A f \in next : f.name # m}}

\* Faulty variant: the directory of the next generation is emptied first.
InitializeGenerationEmpty ==
  /\ pc = "import"
  /\ cur' = Imported
  /\ next' = {}
  /\ pc' = IF cur' = {} THEN "wait" ELSE "run"
  /\ UNCHANGED <<in, symcc_out, out, analyzed_inputs, ran>>

InitializeGeneration ==
  /\ pc = "import"
  /\ cur' = next \cup Imported
  /\ next' = {}
  /\ pc' = IF cur' = {} THEN "wait" ELSE "run"
  /\ UNCHANGED <<in, symcc_out, out, analyzed_inputs, ran>>

\* "Waiting for more input..."
Wait ==
  /\ pc = "wait"
  /\ pc' = "import"
  /\ UNCHANGED <<in, next, cur, symcc_out, out, analyzed_inputs, ran>>

\* The output directory after a run that has written the given test cases.
Overwritten(written) ==
  [i \in 1..(IF Len(written) > Len(symcc_out) THEN Len(written) ELSE Len(symcc_out)) |->
     IF i <= Len(written) THEN written[i] ELSE symcc_out[i]]

\* Faulty variant: the input directory is listed once more to record its files.
RunRecordListed(f, k) ==
  /\ pc = "run"
  /\ symcc_out' = Overwritten(SubSeq(TestCases[f.content], 1, k))
  /\ next' = next \cup {File(Hash[c], c) : c \in Range(symcc_out')}
  /\ out' = out \cup Range(symcc_out')
  /\ analyzed_inputs' = analyzed_inputs \cup {n \in Name : in[n] # Absent}
  /\ ran' = ran \cup {f.content}
  /\ cur' = cur \ {f}
  /\ pc' = IF cur' = {} THEN "import" ELSE "run"
  /\ UNCHANGED in

\* The program is run on f and writes its first k test cases; everything in
\* the output directory becomes part of the next generation and is exported.
Run(f, k) ==
  /\ pc = "run"
  /\ symcc_out' = Overwritten(SubSeq(TestCases[f.content], 1, k))
  /\ next' = next \cup {File(Hash[c], c) : c \in Range(symcc_out')}
  /\ out' = out \cup Range(symcc_out')
  /\ analyzed_inputs' = analyzed_inputs \cup {f.name}
  /\ ran' = ran \cup {f.content}
  /\ cur' = cur \ {f}
  /\ pc' = IF cur' = {} THEN "import" ELSE "run"
  /\ UNCHANGED in

(***************************************************************************)
(* Specification.  The script is a loop in which every command ends, the   *)
(* runs of the program because of the time limit.                          *)
(***************************************************************************)

Init ==
  /\ in = [n \in Name |-> Absent]
  /\ next = {}
  /\ cur = {}
  /\ symcc_out = <<>>
  /\ out = {}
  /\ analyzed_inputs = {}
  /\ pc = "import"
  /\ ran = {}

Script ==
  \/ InitializeGeneration
  \/ Wait
  \/ \E f \in cur : \E k \in 0..Len(TestCases[f.content]) : Run(f, k)

Next == Script \/ \E n \in Name, c \in Content : NewFile(n, c)

Fairness == WF_vars(Script)

Spec == Init /\ [][Next]_vars /\ Fairness

(***************************************************************************)
(* Properties.                                                             *)
(***************************************************************************)

\* A file in the input directory is excused if its name is part of the name of
\* a file that has been run: maybe_import takes it for that file.
Mistaken(n) == \E a \in analyzed_inputs : n # a /\ <<n, a>> \in Occurs

\* The program is run on every file in the input directory, whenever it
\* appears, unless it is mistaken for another one.
EveryInputIsRun ==
  \A n \in Name : \A c \in Content :
    in[n] = c ~> (c \in ran \/ Mistaken(n))

\* The program is run on every test case it has generated, although test cases
\* of later runs replace it in the output directory.
GeneratedInputsAreRun ==
  \A c \in Content : c \in out ~> c \in ran
=============================================================================
