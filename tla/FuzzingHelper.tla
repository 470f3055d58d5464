---------------------------- MODULE FuzzingHelper ----------------------------
(***************************************************************************)
(* util/symcc_fuzzing_helper: the process that lets SymCC work beside a    *)
(* fuzzer.  It takes the most promising input of AFL's queue, runs SymCC   *)
(* on it, measures the coverage of every generated test case with          *)
(* afl-showmap, and puts the interesting ones into a queue of its own,     *)
(* from which AFL imports them.                                            *)
(*                                                                         *)
(* AFL runs concurrently and changes its queue at any time.  Any copy of a *)
(* file may fail, before or after the target has been created.             *)
(***************************************************************************)
EXTENDS Integers, FiniteSetsExt, Functions

CONSTANTS
  File,         \* inputs of AFL's queue, named by their IDs
  Proper,       \* the files whose name starts with "id:" and six more characters
  NewCoverage,  \* the files whose name ends in "+cov"
  FromSeed,     \* the files whose name contains "orig:"
  Size,         \* the size of every file
  Edge,         \* bits of AFL's coverage map
  MaxTests,     \* most test cases that one execution of SymCC generates
  Partial,      \* content of a file whose copy failed half-way
  None          \* no input is selected

\* What afl-showmap finds out about a test case: its coverage, or that the
\* target hangs or crashes on it.
Testcase ==
  [result: {"Success"}, edges: SUBSET Edge] \cup [result: {"Hang", "Crash"}, edges: {{}}]

\* The content of an archived input.
Archived(f) == [input |-> f]

ASSUME FuzzingHelperAssumption ==
  /\ File \subseteq Nat /\ IsFiniteSet(File)
  /\ Proper \subseteq File /\ NewCoverage \subseteq File /\ FromSeed \subseteq File
  /\ Size \in [File -> Nat]
  /\ MaxTests \in Nat
  /\ None \notin File
  /\ Partial \notin Testcase \cup {Archived(f) : f \in File}

VARIABLES
  afl,              \* AFL's queue: which files are still to come, queued or removed
  current_bitmap,   \* the cumulative coverage
  processed_files,  \* the inputs analyzed so far
  queue, hangs, crashes,  \* test-case directories
  stats,            \* number of successful and of failed executions
  pc,               \* where the helper is in its main loop
  listed,           \* the unseen files that read_dir has reported
  input,            \* the selected input
  num_tests,        \* test cases of this execution still to be looked at
  killed,           \* SymCC was killed on this input
  failed            \* history: test cases that could not be copied

dirs == <<queue, hangs, crashes>>
vars == <<afl, current_bitmap, dirs, processed_files, stats, pc, listed, input,
          num_tests, killed, failed>>

(***************************************************************************)
(* The choice of an input.                                                 *)
(***************************************************************************)

aflQueue == {f \in File : afl[f] = "queued"}

\* The smallest score, which a file gets that disappears before it is scored.
minimum == [new_coverage |-> 0, derived_from_seed |-> 0,
            file_size |-> -1 - Max({Size[f] : f \in File} \cup {0}), base_name |-> -1]

TestcaseScore(f) ==
  IF f \notin aflQueue THEN minimum
  ELSE [new_coverage |-> IF f \in NewCoverage THEN 1 ELSE 0,
        derived_from_seed |-> IF f \in FromSeed THEN 1 ELSE 0,
        file_size |-> -Size[f],
        base_name |-> f]

\* Faulty variant: the fields are compared in another order.
SeedsFirst(s, t) ==
  LET order == <<"derived_from_seed", "new_coverage", "file_size", "base_name">> IN
  \/ s = t
  \/ \E i \in 1..4 : /\ s[order[i]] < t[order[i]]
                     /\ \A j \in 1..i-1 : s[order[j]] = t[order[j]]

\* The derived lexical order on scores.
AtMost(s, t) ==
  LET order == <<"new_coverage", "derived_from_seed", "file_size", "base_name">> IN
  \/ s = t
  \/ \E i \in 1..4 : /\ s[order[i]] < t[order[i]]
                     /\ \A j \in 1..i-1 : s[order[j]] = t[order[j]]

\* Faulty variants: seen files come back; and so does no file with a lower ID.
WholeQueue == aflQueue
NewerFiles == {f \in aflQueue : \A g \in processed_files : f > g}

\* The filter of best_new_testcase.
Unseen == aflQueue \ processed_files

\* read_dir, in best_new_testcase.  With no new file, the helper
\* sleeps and looks again.
ListQueue ==
  /\ pc = "idle"
  /\ listed' = Unseen
  /\ pc' = IF listed' = {} THEN "idle" ELSE "score"
  /\ UNCHANGED <<afl, current_bitmap, dirs, processed_files, stats, input,
                 num_tests, killed, failed>>

\* max_by_key of best_new_testcase.
SelectBest ==
  /\ pc = "score"
  /\ \E f \in listed :
       /\ \A g \in listed : AtMost(TestcaseScore(g), TestcaseScore(f))
       /\ input' = f
  /\ pc' = "run"
  /\ UNCHANGED <<afl, current_bitmap, dirs, processed_files, stats, listed,
                 num_tests, killed, failed>>

(***************************************************************************)
(* Test-case directories.                                                  *)
(***************************************************************************)

EmptyDir == [files |-> [name \in {} |-> Partial], current_id |-> 0]

\* The directory with the given content in its next file.
WithFile(d, content, parent) ==
  LET name == <<d.current_id, parent>> IN
  [d EXCEPT !.files = [n \in DOMAIN d.files \cup {name} |->
                         IF n = name THEN content ELSE d.files[n]]]

\* Faulty variant: the ID is not advanced.
CopyUnderSameId(t, d, parent) ==
  {[dir |-> d, ok |-> FALSE]} \cup
  (IF parent \in Proper THEN {[dir |-> WithFile(d, t, parent), ok |-> TRUE]} ELSE {})

\* The possible outcomes of copy_testcase.
copy_testcase(t, d, parent) ==
  {[dir |-> d, ok |-> FALSE]} \cup
  (IF parent \in Proper
   THEN {[dir |-> WithFile(d, Partial, parent), ok |-> FALSE],
         [dir |-> [WithFile(d, t, parent) EXCEPT !.current_id = @ + 1], ok |-> TRUE]}
   ELSE {})

Content(d) == Range(d.files) \ {Partial}

(***************************************************************************)
(* The analysis of one input.                                              *)
(***************************************************************************)

\* The program returns from main with an error.
Stop ==
  /\ pc' = "stopped"
  /\ UNCHANGED <<processed_files, stats, listed, input, num_tests, killed>>

\* SymCC::run: the input is copied, SymCC runs on the copy, and the output
\* directory holds the generated test cases.
Run ==
  /\ pc = "run"
  /\ input \in aflQueue
  /\ num_tests' \in 0..MaxTests
  /\ killed' \in BOOLEAN
  /\ pc' = "tests"
  /\ UNCHANGED <<afl, current_bitmap, dirs, processed_files, stats, listed,
                 input, failed>>

\* The input has disappeared, or something else goes wrong on the way.
RunFails ==
  /\ pc = "run"
  /\ Stop
  /\ UNCHANGED <<afl, current_bitmap, dirs, failed>>

\* Faulty variants: only entirely new coverage counts; and any coverage does.
MergeDisjoint(map, edges) ==
  [map |-> map \cup edges, interesting |-> edges \cap map = {} /\ edges # {}]
MergeAny(map, edges) == [map |-> map \cup edges, interesting |-> edges # {}]

\* AflMap::merge: the map that results, and whether it has changed.
merge(map, edges) == [map |-> map \cup edges, interesting |-> ~(edges \subseteq map)]

\* A copy that is part of process_new_testcase: an error ends it early.
NoteFailure(t, ok) == failed' = IF ok THEN failed ELSE failed \cup {t}

NewTestcase(t) ==
  /\ t.result = "Success"
  /\ LET m == merge(current_bitmap, t.edges) IN
     /\ current_bitmap' = m.map
     /\ IF m.interesting
        THEN \E c \in copy_testcase(t, queue, input) :
               queue' = c.dir /\ NoteFailure(t, c.ok)
        ELSE UNCHANGED <<queue, failed>>
  /\ UNCHANGED <<hangs, crashes>>

\* A test case that afl-showmap times out on is ignored.
HangingTestcase(t) ==
  /\ t.result = "Hang"
  /\ UNCHANGED <<current_bitmap, dirs, failed>>

\* Faulty variant: crashing test cases are only reported.
ReportCrash(t) ==
  /\ t.result = "Crash"
  /\ \E c \in copy_testcase(t, crashes, input) :
       crashes' = c.dir /\ NoteFailure(t, c.ok)
  /\ UNCHANGED <<current_bitmap, queue, hangs>>

CrashingTestcase(t) ==
  /\ t.result = "Crash"
  /\ \E c \in copy_testcase(t, crashes, input) :
       /\ crashes' = c.dir
       /\ IF c.ok
          THEN \E q \in copy_testcase(t, queue, input) :
                 queue' = q.dir /\ NoteFailure(t, q.ok)
          ELSE UNCHANGED queue /\ NoteFailure(t, FALSE)
  /\ UNCHANGED <<current_bitmap, hangs>>

\* afl-showmap does not run, or its map cannot be loaded.
ShowmapFails == UNCHANGED <<current_bitmap, dirs, failed>>

\* One iteration of the loop in test_input.
ProcessNewTestcase(t) ==
  /\ pc = "tests" /\ num_tests > 0
  /\ NewTestcase(t) \/ HangingTestcase(t) \/ CrashingTestcase(t) \/ ShowmapFails
  /\ num_tests' = num_tests - 1
  /\ UNCHANGED <<afl, processed_files, stats, pc, listed, input, killed>>

\* afl-showmap dies or returns a code other than 0, 1 and 2: panic.
ShowmapPanics ==
  /\ pc = "tests" /\ num_tests > 0
  /\ Stop
  /\ UNCHANGED <<afl, current_bitmap, dirs, failed>>

add_execution(s) ==
  IF killed THEN [s EXCEPT !.failed_count = @ + 1] ELSE [s EXCEPT !.total_count = @ + 1]

\* The end of test_input.
FinishInput ==
  /\ pc = "tests" /\ num_tests = 0
  /\ processed_files' = processed_files \cup {input}
  /\ stats' = add_execution(stats)
  /\ pc' = "idle" /\ listed' = {} /\ input' = None /\ killed' = FALSE
  /\ IF killed
     THEN \E c \in copy_testcase(Archived(input), hangs, input) : c.ok /\ hangs' = c.dir
     ELSE UNCHANGED hangs
  /\ UNCHANGED <<afl, current_bitmap, queue, crashes, num_tests, failed>>

\* An input that SymCC was killed on cannot be archived.
ArchiveFails ==
  /\ pc = "tests" /\ num_tests = 0 /\ killed
  /\ \E c \in copy_testcase(Archived(input), hangs, input) : ~c.ok /\ hangs' = c.dir
  /\ Stop
  /\ UNCHANGED <<afl, current_bitmap, queue, crashes, failed>>

(***************************************************************************)
(* AFL.                                                                    *)
(***************************************************************************)

AflAdds(f) == afl[f] = "unknown" /\ afl' = [afl EXCEPT ![f] = "queued"]
AflRemoves(f) == afl[f] = "queued" /\ afl' = [afl EXCEPT ![f] = "removed"]

Afl(f) ==
  /\ AflAdds(f) \/ AflRemoves(f)
  /\ UNCHANGED <<current_bitmap, dirs, processed_files, stats, pc, listed,
                 input, num_tests, killed, failed>>

-----------------------------------------------------------------------------

\* main has checked that AFL's queue exists and that its own directory does
\* not, and has created the latter.
Init ==
  /\ afl \in [File -> {"unknown", "queued"}]
  /\ current_bitmap = {}
  /\ processed_files = {}
  /\ queue = EmptyDir /\ hangs = EmptyDir /\ crashes = EmptyDir
  /\ stats = [total_count |-> 0, failed_count |-> 0]
  /\ pc = "idle" /\ listed = {} /\ input = None /\ num_tests = 0 /\ killed = FALSE
  /\ failed = {}

Helper ==
  \/ ListQueue \/ SelectBest \/ Run \/ RunFails
  \/ \E t \in Testcase : ProcessNewTestcase(t)
  \/ ShowmapPanics \/ FinishInput \/ ArchiveFails

Next == Helper \/ \E f \in File : Afl(f)

\* The helper's loop runs on its own; the programs that it waits for run under
\* time limits (timeout -k 5 90 and afl-showmap -t 5000).
Spec == Init /\ [][Next]_vars /\ WF_vars(Helper)

-----------------------------------------------------------------------------

\* Every coverage bit that merge has recorded, and that will therefore never
\* make a test case interesting again, is covered by a test case of the queue,
\* unless enqueuing one failed.  (process_new_testcase merges first and copies
\* then.)
CoverageIsQueued ==
  current_bitmap \subseteq UNION {t.edges : t \in Content(queue) \cup failed}

\* A test case that enters the queue for its coverage covers something that no
\* earlier one does: AFL never imports a redundant test case from SymCC.
QueuedTestcasesAreNew ==
  \A n \in {m \in DOMAIN queue.files : queue.files[m] # Partial} :
    LET t == queue.files[n]
        earlier == {queue.files[m] : m \in {k \in DOMAIN queue.files : k[1] < n[1]}}
    IN  t.result = "Success" =>
          ~(t.edges \subseteq UNION {s.edges : s \in earlier \ {Partial}})

\* No later copy overwrites a test case that was stored, retries after failed
\* copies included.
TestcasesAreKept ==
  [][\A i \in DOMAIN dirs : \A n \in DOMAIN dirs[i].files :
       dirs[i].files[n] # Partial =>
         n \in DOMAIN dirs'[i].files /\ dirs'[i].files[n] = dirs[i].files[n]]_vars

\* A crashing test case is reported and also enqueued, unless that failed.
CrashesAreQueued == Content(crashes) \subseteq Content(queue) \cup failed

\* No input is analyzed twice: the statistics count as many executions as
\* there are processed inputs, and the failed ones are those in hangs, even
\* when archiving the last one failed half-way.
EachInputCountedOnce ==
  /\ stats.total_count + stats.failed_count = Cardinality(processed_files)
  /\ stats.failed_count = Cardinality(Content(hangs))

\* An input without new coverage is run only if no input with new coverage
\* was there to choose when the scores were compared; files that vanish in
\* between do not hide one.
NewCoverageFirst ==
  pc = "run" /\ input \notin NewCoverage => listed \cap aflQueue \cap NewCoverage = {}

\* Every input that AFL queues is analyzed, unless AFL removes it or the helper
\* has given up.
EveryInputAnalyzed ==
  \A f \in File : f \in aflQueue ~>
    (f \in processed_files \/ f \notin aflQueue \/ pc = "stopped")
=============================================================================
