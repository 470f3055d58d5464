------------------------ MODULE FuzzingHelper_proofs ------------------------
(***************************************************************************)
(* Proofs about FuzzingHelper, for every queue of AFL, every coverage map  *)
(* and every number of test cases.                                         *)
(***************************************************************************)
EXTENDS FuzzingHelper, FiniteSetTheorems, TLAPS

(***************************************************************************)
(* The inductive invariant.                                                *)
(***************************************************************************)

\* A directory whose complete files have contents in S.  Its complete files
\* have used-up IDs; a file of the next ID is the rest of a copy that failed.
Dir(d, S) ==
  /\ DOMAIN d.files \subseteq Nat \X File
  /\ d \in [files : [DOMAIN d.files -> S \cup {Partial}], current_id : Nat]
  /\ \A n \in DOMAIN d.files :
       /\ n[1] <= d.current_id
       /\ d.files[n] # Partial => n[1] < d.current_id

ArchivedInputs(S) == {Archived(f) : f \in S}

TypeInv ==
  /\ afl \in [File -> {"unknown", "queued", "removed"}]
  /\ processed_files \subseteq File
  /\ Dir(queue, Testcase) /\ Dir(crashes, Testcase)
  /\ Dir(hangs, ArchivedInputs(File))
  /\ stats \in [total_count : Nat, failed_count : Nat]
  /\ pc \in {"idle", "score", "run", "tests", "stopped"}
  /\ listed \subseteq File
  /\ killed \in BOOLEAN
  /\ failed \subseteq Testcase

\* The files under consideration are unseen, and AFL will not add them again.
UnseenInput ==
  /\ pc \in {"score", "run"} => \A f \in listed : afl[f] # "unknown"
  /\ pc = "score" => listed \subseteq File \ processed_files
  /\ pc \in {"run", "tests"} => input \in File \ processed_files

\* Nothing enters the queue without entering the map.
QueueIsMerged == \A t \in Content(queue) : t.edges \subseteq current_bitmap

\* Every execution is counted, and what is in hangs was processed.
Counted ==
  /\ EachInputCountedOnce
  /\ Content(hangs) \subseteq ArchivedInputs(processed_files)
  /\ IsFiniteSet(Content(hangs))

\* What the directories, the map and the failed copies have to do with each other.
DataInv ==
  QueueIsMerged /\ CoverageIsQueued /\ QueuedTestcasesAreNew /\ CrashesAreQueued

HelperInv == TypeInv /\ UnseenInput /\ Counted /\ NewCoverageFirst /\ DataInv

(***************************************************************************)
(* What a copy does to a directory.                                        *)
(***************************************************************************)

\* The directory e results from d by a copy of t that succeeds or fails:
\* complete files stay, and the only new one holds t under the next ID.
Grows(d, e, ok, t) ==
  /\ \A n \in DOMAIN d.files :
       d.files[n] # Partial => n \in DOMAIN e.files /\ e.files[n] = d.files[n]
  /\ \A n \in DOMAIN e.files :
       e.files[n] # Partial =>
         \/ n \in DOMAIN d.files /\ d.files[n] = e.files[n]
         \/ ok /\ e.files[n] = t /\ n[1] = d.current_id
  /\ ok => \E n \in DOMAIN e.files : e.files[n] = t

\* A new file, in the fields of the directory.
LEMMA WithFileFields ==
  ASSUME NEW d, NEW S, Dir(d, S), NEW content \in S \cup {Partial}, NEW parent \in File
  PROVE  LET w == WithFile(d, content, parent)
             name == <<d.current_id, parent>>
         IN  /\ name \in Nat \X File
             /\ \E D \in SUBSET (Nat \X File) :
                  w \in [files : [D -> S \cup {Partial}], current_id : Nat]
             /\ w.current_id = d.current_id
             /\ DOMAIN w.files = DOMAIN d.files \cup {name}
             /\ w.files[name] = content
             /\ \A n \in DOMAIN d.files : n # name => w.files[n] = d.files[n]
  <1> DEFINE name == <<d.current_id, parent>>
             g == [n \in DOMAIN d.files \cup {name} |->
                     IF n = name THEN content ELSE d.files[n]]
             w == WithFile(d, content, parent)
  <1>1. PICK D \in SUBSET (Nat \X File) :
          d \in [files : [D -> S \cup {Partial}], current_id : Nat]
    BY DEF Dir
  <1>2. d.files \in [D -> S \cup {Partial}] /\ d.current_id \in Nat
    BY <1>1
  <1>3. name \in Nat \X File
    BY <1>2
  <1>4. w = [d EXCEPT !.files = g]
    BY Zenon DEF WithFile
  <1> HIDE DEF name
  <1>5. g \in [D \cup {name} -> S \cup {Partial}]
    BY <1>2
  <1>6. /\ DOMAIN g = DOMAIN d.files \cup {name}
        /\ g[name] = content
        /\ \A n \in DOMAIN d.files : n # name => g[n] = d.files[n]
    OBVIOUS
  <1> HIDE DEF g, w
  <1>7. /\ w.files = g /\ w.current_id = d.current_id
        /\ w \in [files : [D \cup {name} -> S \cup {Partial}], current_id : Nat]
    BY <1>1, <1>4, <1>5
  <1>8. D \cup {name} \in SUBSET (Nat \X File)
    BY <1>3
  <1> QED BY <1>3, <1>6, <1>7, <1>8 DEF name, w

\* A copy of t leaves a directory, with t in it if the copy succeeds.
LEMMA CopyFacts ==
  ASSUME NEW d, NEW S, Dir(d, S), Partial \notin S, NEW t \in S, NEW parent \in File,
         NEW c \in copy_testcase(t, d, parent)
  PROVE  c.ok \in BOOLEAN /\ Dir(c.dir, S) /\ Grows(d, c.dir, c.ok, t)
  <1> DEFINE name == <<d.current_id, parent>>
             v == WithFile(d, Partial, parent)
             w == WithFile(d, t, parent)
             x == [w EXCEPT !.current_id = @ + 1]
  <1>1. \/ c = [dir |-> d, ok |-> FALSE]
        \/ c = [dir |-> v, ok |-> FALSE]
        \/ c = [dir |-> x, ok |-> TRUE]
    BY Zenon DEF copy_testcase
  <1>2. PICK D \in SUBSET (Nat \X File) :
          d \in [files : [D -> S \cup {Partial}], current_id : Nat]
    BY DEF Dir
  <1>3. d.current_id \in Nat /\ DOMAIN d.files = D
    BY <1>2
  <1>4. \A n \in DOMAIN d.files :
          /\ n[1] \in Nat /\ n[1] <= d.current_id
          /\ d.files[n] # Partial => n[1] < d.current_id
    BY <1>3 DEF Dir
  <1>5. name \in Nat \X File /\ name[1] = d.current_id
    BY <1>3
  <1>6. d.files[name] = Partial \/ name \notin DOMAIN d.files
    BY <1>3, <1>4, <1>5
  <1>7. CASE c = [dir |-> d, ok |-> FALSE]
    <2>1. c.dir = d /\ c.ok = FALSE
      BY <1>7
    <2> QED BY <2>1 DEF Grows
  <1>8. CASE c = [dir |-> v, ok |-> FALSE]
    <2>1. c.dir = v /\ c.ok = FALSE
      BY <1>8
    <2>2. /\ \E E \in SUBSET (Nat \X File) :
                v \in [files : [E -> S \cup {Partial}], current_id : Nat]
          /\ v.current_id = d.current_id
          /\ DOMAIN v.files = DOMAIN d.files \cup {name}
          /\ v.files[name] = Partial
          /\ \A n \in DOMAIN d.files : n # name => v.files[n] = d.files[n]
      BY WithFileFields
    <2> HIDE DEF v, name
    <2>3. Dir(v, S)
      <3>1. PICK E \in SUBSET (Nat \X File) :
              v \in [files : [E -> S \cup {Partial}], current_id : Nat]
        BY <2>2
      <3>2. DOMAIN v.files = E
        BY <3>1
      <3>3. v \in [files : [DOMAIN v.files -> S \cup {Partial}], current_id : Nat]
        BY <3>1, <3>2
      <3>4. \A n \in DOMAIN v.files :
              n[1] <= v.current_id /\ (v.files[n] # Partial => n[1] < v.current_id)
        BY <2>2, <1>3, <1>4, <1>5
      <3> QED BY <3>2, <3>3, <3>4 DEF Dir
    <2>4. Grows(d, v, FALSE, t)
      BY <2>2, <1>6 DEF Grows
    <2> QED BY <2>1, <2>3, <2>4
  <1>9. CASE c = [dir |-> x, ok |-> TRUE]
    <2>1. c.dir = x /\ c.ok = TRUE
      BY <1>9
    <2>2. /\ \E E \in SUBSET (Nat \X File) :
                w \in [files : [E -> S \cup {Partial}], current_id : Nat]
          /\ w.current_id = d.current_id
          /\ DOMAIN w.files = DOMAIN d.files \cup {name}
          /\ w.files[name] = t
          /\ \A n \in DOMAIN d.files : n # name => w.files[n] = d.files[n]
      BY WithFileFields
    <2> HIDE DEF w, name
    <2>3. PICK E \in SUBSET (Nat \X File) :
            w \in [files : [E -> S \cup {Partial}], current_id : Nat]
      BY <2>2
    <2>4. /\ x \in [files : [E -> S \cup {Partial}], current_id : Nat]
          /\ x.files = w.files /\ x.current_id = w.current_id + 1
      BY <2>3
    <2> HIDE DEF x
    <2>5. Dir(x, S)
      BY <2>2, <2>4, <1>3, <1>4, <1>5 DEF Dir
    <2>6. Grows(d, x, TRUE, t)
      BY <2>2, <2>4, <1>5, <1>6 DEF Grows
    <2> QED BY <2>1, <2>5, <2>6
  <1> QED BY <1>1, <1>7, <1>8, <1>9

\* The complete files after a copy.
LEMMA ContentGrows ==
  ASSUME NEW d, NEW e, NEW ok \in BOOLEAN, NEW t, t # Partial, Grows(d, e, ok, t)
  PROVE  Content(e) = Content(d) \cup (IF ok THEN {t} ELSE {})
  <1>1. \A c : c \in Content(d) <=> c # Partial /\ \E n \in DOMAIN d.files : d.files[n] = c
    BY DEF Content, Range
  <1>2. \A c : c \in Content(e) <=> c # Partial /\ \E n \in DOMAIN e.files : e.files[n] = c
    BY DEF Content, Range
  <1>3. Content(d) \subseteq Content(e)
    BY <1>1, <1>2 DEF Grows
  <1>4. Content(e) \subseteq Content(d) \cup (IF ok THEN {t} ELSE {})
    BY <1>1, <1>2 DEF Grows
  <1>5. ok => t \in Content(e)
    BY <1>2 DEF Grows
  <1> QED BY <1>3, <1>4, <1>5

\* The content of a directory, and of a new one.
LEMMA DirContent ==
  ASSUME NEW d, NEW S, Dir(d, S)
  PROVE  Content(d) \subseteq S
  BY DEF Dir, Content, Range

\* A fresh directory is well formed and has no files.
LEMMA EmptyDirFacts ==
  ASSUME NEW S
  PROVE  Dir(EmptyDir, S) /\ Content(EmptyDir) = {} /\ DOMAIN EmptyDir.files = {}
  <1>1. EmptyDir.files = [name \in {} |-> Partial] /\ EmptyDir.current_id = 0
    BY DEF EmptyDir
  <1>2. DOMAIN EmptyDir.files = {}
    BY <1>1
  <1>3. EmptyDir \in [files : [{} -> S \cup {Partial}], current_id : Nat]
    BY DEF EmptyDir
  <1>4. {} \in SUBSET (Nat \X File)
    OBVIOUS
  <1> QED BY <1>2, <1>3, <1>4 DEF Dir, Content, Range

\* QueuedTestcasesAreNew for any directory: every successful test case has an
\* edge that none with a smaller ID has.
New(d) ==
  \A n \in DOMAIN d.files :
    d.files[n] # Partial /\ d.files[n].result = "Success" =>
      \E x \in d.files[n].edges : \A m \in DOMAIN d.files :
        m[1] < n[1] /\ d.files[m] # Partial => x \notin d.files[m].edges

\* The property of a run, as one of a directory.
LEMMA NewIsQueued == QueuedTestcasesAreNew <=> New(queue)
  BY DEF QueuedTestcasesAreNew, New

\* A copied test case that covers something new keeps a directory non-redundant.
LEMMA NewAfterCopy ==
  ASSUME NEW d, NEW e, NEW S, NEW ok \in BOOLEAN, NEW t \in S, t # Partial,
         Dir(d, S), Dir(e, S), Grows(d, e, ok, t), New(d),
         t.result = "Success" => \E x \in t.edges : \A s \in Content(d) : x \notin s.edges
  PROVE  New(e)
  <1>1. d.current_id \in Nat
    BY DEF Dir
  <1>2. \A n \in DOMAIN d.files :
          n[1] \in Nat /\ (d.files[n] # Partial => n[1] < d.current_id)
    BY DEF Dir
  <1>3. \A n \in DOMAIN d.files : d.files[n] # Partial => d.files[n] \in Content(d)
    BY DEF Content, Range
  <1>4. \A n \in DOMAIN e.files :
          e.files[n] # Partial =>
            \/ n \in DOMAIN d.files /\ d.files[n] = e.files[n]
            \/ e.files[n] = t /\ n[1] = d.current_id
    BY DEF Grows
  <1> SUFFICES ASSUME NEW n \in DOMAIN e.files, e.files[n] # Partial,
                      e.files[n].result = "Success"
               PROVE  \E x \in e.files[n].edges : \A m \in DOMAIN e.files :
                        m[1] < n[1] /\ e.files[m] # Partial => x \notin e.files[m].edges
    BY DEF New
  <1>5. CASE n \in DOMAIN d.files /\ d.files[n] = e.files[n]
    <2>1. PICK x \in d.files[n].edges : \A m \in DOMAIN d.files :
            m[1] < n[1] /\ d.files[m] # Partial => x \notin d.files[m].edges
      BY <1>5 DEF New
    <2>2. ASSUME NEW m \in DOMAIN e.files, m[1] < n[1], e.files[m] # Partial
          PROVE  x \notin e.files[m].edges
      <3>1. ~(m[1] = d.current_id)
        BY <1>1, <1>2, <1>5, <2>2
      <3> QED BY <1>4, <2>1, <2>2, <3>1
    <2> QED BY <1>5, <2>1, <2>2
  <1>6. CASE e.files[n] = t /\ n[1] = d.current_id
    <2>1. PICK x \in t.edges : \A s \in Content(d) : x \notin s.edges
      BY <1>6
    <2>2. ASSUME NEW m \in DOMAIN e.files, m[1] < n[1], e.files[m] # Partial
          PROVE  x \notin e.files[m].edges
      <3>1. ~(m[1] = d.current_id)
        BY <1>1, <1>6, <2>2
      <3> QED BY <1>3, <1>4, <2>1, <2>2, <3>1
    <2> QED BY <1>6, <2>1, <2>2
  <1> QED BY <1>4, <1>5, <1>6

(***************************************************************************)
(* The steps of the helper.                                                *)
(***************************************************************************)

\* What is stored does not change in steps that copy and merge nothing.
LEMMA DataUnchanged ==
  ASSUME DataInv, UNCHANGED <<current_bitmap, queue, crashes, failed>>
  PROVE  DataInv'
  BY DEF DataInv, QueueIsMerged, CoverageIsQueued, QueuedTestcasesAreNew,
         CrashesAreQueued, Content

\* Steps that neither analyze nor count keep the statistics exact.
LEMMA CountedUnchanged ==
  ASSUME Counted, UNCHANGED <<hangs, stats, processed_files>>
  PROVE  Counted'
  BY DEF Counted, EachInputCountedOnce, Content

\* The helper starts in the invariant.
LEMMA InitInv == Init => HelperInv
  <1> SUFFICES ASSUME Init PROVE HelperInv
    OBVIOUS
  <1> USE DEF Init
  <1>1. TypeInv
    BY EmptyDirFacts DEF TypeInv
  <1>2. UnseenInput /\ NewCoverageFirst
    BY DEF UnseenInput, NewCoverageFirst
  <1>3. Content(queue) = {} /\ Content(crashes) = {} /\ Content(hangs) = {}
    BY EmptyDirFacts
  <1>4. Counted
    BY <1>3, FS_EmptySet DEF Counted, EachInputCountedOnce
  <1>5. New(queue)
    BY EmptyDirFacts DEF New
  <1>6. DataInv
    BY <1>3, <1>5, NewIsQueued DEF DataInv, QueueIsMerged, CoverageIsQueued, CrashesAreQueued
  <1> QED BY <1>1, <1>2, <1>4, <1>6 DEF HelperInv

\* Listing the queue of AFL keeps the invariant.
LEMMA ListQueueInv ==
  ASSUME HelperInv, ListQueue
  PROVE  HelperInv'
  <1> USE DEF HelperInv, ListQueue, dirs
  <1>1. TypeInv'
    BY DEF TypeInv, Unseen, aflQueue
  <1>2. UnseenInput' /\ NewCoverageFirst'
    BY DEF UnseenInput, NewCoverageFirst, Unseen, aflQueue
  <1>3. Counted' /\ DataInv'
    BY CountedUnchanged, DataUnchanged
  <1> QED BY <1>1, <1>2, <1>3

\* A file with new coverage that is still there has a larger score than any
\* without.
LEMMA ScoreOrder ==
  ASSUME NEW f \in File, NEW g \in aflQueue, g \in NewCoverage, f \notin NewCoverage,
         AtMost(TestcaseScore(g), TestcaseScore(f))
  PROVE  FALSE
  <1> DEFINE s == TestcaseScore(g)
             t == TestcaseScore(f)
             order == <<"new_coverage", "derived_from_seed", "file_size", "base_name">>
  <1>1. s.new_coverage = 1
    BY DEF TestcaseScore
  <1>2. t.new_coverage = 0
    BY DEF TestcaseScore, minimum
  <1>3. order[1] = "new_coverage"
    OBVIOUS
  <1> HIDE DEF s, t
  <1>0. s # t
    BY <1>1, <1>2
  <1>4. PICK i \in 1..4 : /\ s[order[i]] < t[order[i]]
                          /\ \A j \in 1..i-1 : s[order[j]] = t[order[j]]
    BY <1>0, Zenon DEF AtMost, s, t
  <1> HIDE DEF order
  <1>5. CASE i = 1
    BY <1>1, <1>2, <1>3, <1>4, <1>5
  <1>6. CASE i # 1
    <2>1. 1 \in 1..i-1
      BY <1>6
    <2> QED BY <1>1, <1>2, <1>3, <1>4, <2>1
  <1> QED BY <1>5, <1>6

\* Choosing the best listed input keeps the invariant.
LEMMA SelectBestInv ==
  ASSUME HelperInv, SelectBest
  PROVE  HelperInv'
  <1> USE DEF HelperInv, SelectBest, dirs
  <1>1. TypeInv'
    BY DEF TypeInv
  <1>2. UnseenInput'
    BY DEF UnseenInput, TypeInv
  <1>3. NewCoverageFirst'
    <2>1. PICK f \in listed :
            /\ \A g \in listed : AtMost(TestcaseScore(g), TestcaseScore(f))
            /\ input' = f
      OBVIOUS
    <2>2. \A g \in listed : g \in aflQueue /\ g \in NewCoverage => f \in NewCoverage
      BY <2>1, ScoreOrder DEF TypeInv
    <2> QED BY <2>1, <2>2 DEF NewCoverageFirst, aflQueue
  <1>4. Counted' /\ DataInv'
    BY CountedUnchanged, DataUnchanged
  <1> QED BY <1>1, <1>2, <1>3, <1>4

\* An execution of SymCC keeps the invariant.
LEMMA RunInv ==
  ASSUME HelperInv, Run \/ RunFails \/ ShowmapPanics
  PROVE  HelperInv'
  <1> USE DEF HelperInv, Run, RunFails, ShowmapPanics, Stop, dirs
  <1>1. TypeInv'
    BY DEF TypeInv
  <1>2. UnseenInput' /\ NewCoverageFirst'
    BY DEF UnseenInput, NewCoverageFirst
  <1>3. Counted' /\ DataInv'
    BY CountedUnchanged, DataUnchanged
  <1> QED BY <1>1, <1>2, <1>3

\* AFL keeps the invariant, whatever it does to its queue.
LEMMA AflInv ==
  ASSUME HelperInv, NEW f \in File, Afl(f)
  PROVE  HelperInv'
  <1> USE DEF HelperInv, Afl, AflAdds, AflRemoves, dirs
  <1>1. TypeInv'
    BY DEF TypeInv
  <1>2. UnseenInput'
    BY DEF UnseenInput, TypeInv
  <1>3. NewCoverageFirst'
    BY DEF UnseenInput, NewCoverageFirst, TypeInv, aflQueue
  <1>4. Counted' /\ DataInv'
    BY CountedUnchanged, DataUnchanged
  <1> QED BY <1>1, <1>2, <1>3, <1>4

(***************************************************************************)
(* The test cases of an execution.                                         *)
(***************************************************************************)

\* What afl-showmap reports about a generated test case.
LEMMA TestcaseFacts ==
  ASSUME NEW t \in Testcase
  PROVE  /\ t # Partial
         /\ t.result \in {"Success", "Hang", "Crash"}
         /\ t.result = "Crash" => t.edges = {}
  BY FuzzingHelperAssumption DEF Testcase

\* A copy of a generated test case, by its effect.
LEMMA TestcaseCopy ==
  ASSUME NEW d, Dir(d, Testcase), NEW t \in Testcase, NEW parent \in File,
         NEW c \in copy_testcase(t, d, parent)
  PROVE  /\ c.ok \in BOOLEAN
         /\ Dir(c.dir, Testcase)
         /\ Grows(d, c.dir, c.ok, t)
         /\ Content(c.dir) = Content(d) \cup (IF c.ok THEN {t} ELSE {})
  <1>1. Partial \notin Testcase
    BY FuzzingHelperAssumption
  <1>2. c.ok \in BOOLEAN /\ Dir(c.dir, Testcase) /\ Grows(d, c.dir, c.ok, t)
    BY <1>1, CopyFacts
  <1>3. Content(c.dir) = Content(d) \cup (IF c.ok THEN {t} ELSE {})
    <2> DEFINE e == c.dir
               ok == c.ok
    <2>1. t # Partial /\ ok \in BOOLEAN /\ Grows(d, e, ok, t)
      BY <1>1, <1>2
    <2> HIDE DEF e, ok
    <2>2. Content(e) = Content(d) \cup (IF ok THEN {t} ELSE {})
      BY <2>1, ContentGrows
    <2> QED BY <2>2 DEF e, ok
  <1> QED BY <1>2, <1>3

\* The typing and the data of a step that processes a test case.
StoreStep ==
  /\ Dir(queue', Testcase) /\ Dir(crashes', Testcase)
  /\ failed' \subseteq Testcase
  /\ DataInv'

\* A successful test case: the bitmap and the queue grow together.
LEMMA NewTestcaseStores ==
  ASSUME TypeInv, DataInv, input \in File, NEW t \in Testcase, NewTestcase(t)
  PROVE  StoreStep
  <1>1. t.result = "Success" /\ hangs' = hangs /\ crashes' = crashes
    BY DEF NewTestcase
  <1>2. current_bitmap' = current_bitmap \cup t.edges
    BY DEF NewTestcase, merge
  <1>3. CASE t.edges \subseteq current_bitmap
    <2>1. queue' = queue /\ failed' = failed
      BY <1>3 DEF NewTestcase, merge
    <2>2. current_bitmap' = current_bitmap
      BY <1>2, <1>3
    <2>3. DataInv'
      BY <1>1, <2>1, <2>2, DataUnchanged
    <2> QED BY <1>1, <2>1, <2>3 DEF StoreStep, TypeInv
  <1>4. CASE ~(t.edges \subseteq current_bitmap)
    <2>1. PICK c \in copy_testcase(t, queue, input) : queue' = c.dir /\ NoteFailure(t, c.ok)
      BY <1>4 DEF NewTestcase, merge
    <2> DEFINE ok == c.ok
    <2>2. /\ ok \in BOOLEAN /\ Dir(queue', Testcase) /\ Grows(queue, queue', ok, t)
          /\ Content(queue') = Content(queue) \cup (IF ok THEN {t} ELSE {})
      BY <2>1, TestcaseCopy DEF TypeInv
    <2>3. failed' = IF ok THEN failed ELSE failed \cup {t}
      BY <2>1 DEF NoteFailure
    <2> HIDE DEF ok
    <2>4. Content(queue)' = Content(queue) \cup (IF ok THEN {t} ELSE {})
      BY <2>2 DEF Content
    <2>5. QueueIsMerged'
      BY <1>2, <2>2, <2>4 DEF QueueIsMerged, DataInv
    <2>6. CoverageIsQueued'
      <3>1. Content(queue)' \cup failed' = Content(queue) \cup failed \cup {t}
        BY <2>2, <2>3, <2>4
      <3> QED BY <1>2, <3>1 DEF CoverageIsQueued, DataInv
    <2>7. CrashesAreQueued'
      <3>1. Content(crashes)' = Content(crashes)
        BY <1>1 DEF Content
      <3> QED BY <2>2, <2>3, <2>4, <3>1 DEF CrashesAreQueued, DataInv
    <2>8. New(queue)'
      <3>1. New(queue)
        BY NewIsQueued DEF DataInv
      <3>2. \E x \in t.edges : \A s \in Content(queue) : x \notin s.edges
        BY <1>4 DEF DataInv, QueueIsMerged
      <3>3. New(queue')
        BY <2>2, <3>1, <3>2, NewAfterCopy, TestcaseFacts DEF TypeInv
      <3> QED BY <3>3 DEF New
    <2>9. QueuedTestcasesAreNew'
      BY <2>8, NewIsQueued, PTL
    <2>10. failed' \subseteq Testcase
      BY <2>2, <2>3 DEF TypeInv
    <2> QED BY <1>1, <2>2, <2>5, <2>6, <2>7, <2>9, <2>10 DEF StoreStep, DataInv, TypeInv
  <1> QED BY <1>3, <1>4

\* A crashing test case goes to two directories, the second only after the first.
LEMMA CrashingTestcaseStores ==
  ASSUME TypeInv, DataInv, input \in File, NEW t \in Testcase, CrashingTestcase(t)
  PROVE  StoreStep
  <1>1. /\ t.result = "Crash" /\ t.edges = {} /\ t.result # "Success"
        /\ hangs' = hangs /\ current_bitmap' = current_bitmap
    BY TestcaseFacts DEF CrashingTestcase
  <1>2. PICK c \in copy_testcase(t, crashes, input) :
          /\ crashes' = c.dir
          /\ IF c.ok
             THEN \E q \in copy_testcase(t, queue, input) :
                    queue' = q.dir /\ NoteFailure(t, q.ok)
             ELSE UNCHANGED queue /\ NoteFailure(t, FALSE)
    BY DEF CrashingTestcase
  <1>3. /\ c.ok \in BOOLEAN /\ Dir(crashes', Testcase)
        /\ Content(crashes') = Content(crashes) \cup (IF c.ok THEN {t} ELSE {})
    BY <1>2, TestcaseCopy DEF TypeInv
  <1>4. Content(crashes)' \subseteq Content(crashes) \cup {t}
    BY <1>3 DEF Content
  <1>5. New(queue)
    BY NewIsQueued DEF DataInv
  <1>6. /\ Dir(queue', Testcase) /\ New(queue)'
        /\ failed \subseteq failed' /\ failed' \subseteq failed \cup {t}
        /\ Content(queue) \subseteq Content(queue)'
        /\ Content(queue)' \subseteq Content(queue) \cup {t}
        /\ c.ok => t \in Content(queue)' \cup failed'
    <2>1. CASE c.ok
      <3>1. PICK q \in copy_testcase(t, queue, input) : queue' = q.dir /\ NoteFailure(t, q.ok)
        BY <1>2, <2>1
      <3> DEFINE ok == q.ok
      <3>2. /\ ok \in BOOLEAN /\ Dir(queue', Testcase) /\ Grows(queue, queue', ok, t)
            /\ Content(queue') = Content(queue) \cup (IF ok THEN {t} ELSE {})
        BY <3>1, TestcaseCopy DEF TypeInv
      <3>3. failed' = IF ok THEN failed ELSE failed \cup {t}
        BY <3>1 DEF NoteFailure
      <3> HIDE DEF ok
      <3>4. Content(queue)' = Content(queue) \cup (IF ok THEN {t} ELSE {})
        BY <3>2 DEF Content
      <3>5. New(queue')
        BY <1>1, <1>5, <3>2, NewAfterCopy, TestcaseFacts DEF TypeInv
      <3>6. New(queue)'
        BY <3>5 DEF New
      <3> QED BY <3>2, <3>3, <3>4, <3>6
    <2>2. CASE ~c.ok
      <3>1. queue' = queue /\ NoteFailure(t, FALSE)
        BY <1>2, <2>2
      <3>2. failed' = failed \cup {t}
        BY <3>1 DEF NoteFailure
      <3>3. Dir(queue', Testcase) /\ New(queue)' /\ Content(queue)' = Content(queue)
        BY <1>5, <3>1 DEF New, Content, TypeInv
      <3> QED BY <2>2, <3>2, <3>3
    <2> QED BY <2>1, <2>2
  <1>7. QueueIsMerged'
    BY <1>1, <1>6 DEF QueueIsMerged, DataInv
  <1>8. CoverageIsQueued'
    BY <1>1, <1>6 DEF CoverageIsQueued, DataInv
  <1>9. CrashesAreQueued'
    <2>1. Content(crashes)' = Content(crashes) \cup (IF c.ok THEN {t} ELSE {})
      BY <1>3 DEF Content
    <2> QED BY <1>3, <1>6, <2>1 DEF CrashesAreQueued, DataInv
  <1>10. QueuedTestcasesAreNew'
    BY <1>6, NewIsQueued, PTL
  <1>11. failed' \subseteq Testcase
    BY <1>6 DEF TypeInv
  <1> QED BY <1>3, <1>6, <1>7, <1>8, <1>9, <1>10, <1>11 DEF StoreStep, DataInv

\* process_new_testcase keeps the invariant, for every verdict and failure.
LEMMA ProcessNewTestcaseInv ==
  ASSUME HelperInv, NEW t \in Testcase, ProcessNewTestcase(t)
  PROVE  HelperInv'
  <1> USE DEF HelperInv
  <1>1. /\ pc = "tests"
        /\ UNCHANGED <<afl, processed_files, stats, pc, listed, input, killed>>
    BY DEF ProcessNewTestcase
  <1>2. input \in File
    BY <1>1 DEF UnseenInput
  <1>3. hangs' = hangs
    BY DEF ProcessNewTestcase, NewTestcase, HangingTestcase, CrashingTestcase,
           ShowmapFails, dirs
  <1>4. StoreStep
    <2>1. CASE NewTestcase(t)
      BY <1>2, <2>1, NewTestcaseStores
    <2>2. CASE CrashingTestcase(t)
      BY <1>2, <2>2, CrashingTestcaseStores
    <2>3. CASE HangingTestcase(t) \/ ShowmapFails
      <3>1. UNCHANGED <<current_bitmap, queue, crashes, failed>>
        BY <2>3 DEF HangingTestcase, ShowmapFails, dirs
      <3>2. DataInv'
        BY <3>1, DataUnchanged
      <3> QED BY <3>1, <3>2 DEF StoreStep, TypeInv
    <2> QED BY <2>1, <2>2, <2>3 DEF ProcessNewTestcase
  <1>5. TypeInv'
    BY <1>1, <1>3, <1>4 DEF TypeInv, StoreStep
  <1>6. UnseenInput' /\ NewCoverageFirst'
    BY <1>1 DEF UnseenInput, NewCoverageFirst
  <1>7. Counted'
    BY <1>1, <1>3, CountedUnchanged
  <1> QED BY <1>4, <1>5, <1>6, <1>7 DEF StoreStep

(***************************************************************************)
(* The end of an execution.                                                *)
(***************************************************************************)

\* A copy of the input into hangs, by its effect.
LEMMA ArchiveCopy ==
  ASSUME TypeInv, input \in File,
         NEW c \in copy_testcase(Archived(input), hangs, input), hangs' = c.dir
  PROVE  /\ c.ok \in BOOLEAN
         /\ Dir(hangs', ArchivedInputs(File))
         /\ Grows(hangs, hangs', c.ok, Archived(input))
         /\ Content(hangs)' = Content(hangs) \cup (IF c.ok THEN {Archived(input)} ELSE {})
  <1>1. Partial \notin ArchivedInputs(File) /\ Archived(input) \in ArchivedInputs(File)
    BY FuzzingHelperAssumption DEF ArchivedInputs
  <1>2. Dir(hangs, ArchivedInputs(File))
    BY DEF TypeInv
  <1>3. /\ c.ok \in BOOLEAN /\ Dir(c.dir, ArchivedInputs(File))
        /\ Grows(hangs, c.dir, c.ok, Archived(input))
    BY <1>1, <1>2, CopyFacts
  <1>4. Content(c.dir) = Content(hangs) \cup (IF c.ok THEN {Archived(input)} ELSE {})
    <2> DEFINE e == c.dir
               ok == c.ok
               t == Archived(input)
    <2>1. t # Partial /\ ok \in BOOLEAN /\ Grows(hangs, e, ok, t)
      BY <1>1, <1>3
    <2> HIDE DEF e, ok, t
    <2>2. Content(e) = Content(hangs) \cup (IF ok THEN {t} ELSE {})
      BY <2>1, ContentGrows
    <2> QED BY <2>2 DEF e, ok, t
  <1>5. Content(hangs)' = Content(c.dir)
    BY DEF Content
  <1> QED BY <1>3, <1>4, <1>5

\* Finishing an input, with its archiving, keeps the invariant.
LEMMA FinishInputInv ==
  ASSUME HelperInv, FinishInput
  PROVE  HelperInv'
  <1> USE DEF HelperInv
  <1>1. /\ pc = "tests" /\ pc' = "idle" /\ listed' = {} /\ killed' = FALSE
        /\ processed_files' = processed_files \cup {input}
        /\ stats' = add_execution(stats)
        /\ UNCHANGED <<afl, current_bitmap, queue, crashes, failed>>
    BY DEF FinishInput
  <1>2. input \in File /\ input \notin processed_files
    BY <1>1 DEF UnseenInput
  <1>3. IsFiniteSet(processed_files)
    BY FuzzingHelperAssumption, FS_Subset DEF TypeInv
  <1>4. Cardinality(processed_files') = Cardinality(processed_files) + 1
    BY <1>1, <1>2, <1>3, FS_AddElement
  <1>5. Cardinality(processed_files) \in Nat /\ Cardinality(Content(hangs)) \in Nat
    BY <1>3, FS_CardinalityType DEF Counted
  <1>6. /\ Dir(hangs', ArchivedInputs(File))
        /\ Content(hangs)' \subseteq ArchivedInputs(processed_files')
        /\ IsFiniteSet(Content(hangs)')
        /\ Cardinality(Content(hangs)') = Cardinality(Content(hangs)) + IF killed THEN 1 ELSE 0
    <2>1. CASE killed
      <3>1. PICK c \in copy_testcase(Archived(input), hangs, input) : c.ok /\ hangs' = c.dir
        BY <2>1 DEF FinishInput
      <3>2. /\ Dir(hangs', ArchivedInputs(File))
            /\ Content(hangs)' = Content(hangs) \cup {Archived(input)}
        BY <1>2, <3>1, ArchiveCopy
      <3>3. Archived(input) \notin ArchivedInputs(processed_files)
        BY <1>2 DEF ArchivedInputs, Archived
      <3>4. Archived(input) \notin Content(hangs) /\ IsFiniteSet(Content(hangs))
        BY <3>3 DEF Counted
      <3>5. /\ IsFiniteSet(Content(hangs)')
            /\ Cardinality(Content(hangs)') = Cardinality(Content(hangs)) + 1
        BY <3>2, <3>4, FS_AddElement
      <3>6. Content(hangs)' \subseteq ArchivedInputs(processed_files')
        BY <1>1, <3>2 DEF Counted, ArchivedInputs
      <3> QED BY <2>1, <3>2, <3>5, <3>6
    <2>2. CASE ~killed
      <3>1. hangs' = hangs
        BY <2>2 DEF FinishInput
      <3>2. Content(hangs)' = Content(hangs)
        BY <3>1 DEF Content
      <3>3. Content(hangs)' \subseteq ArchivedInputs(processed_files')
        BY <1>1, <3>2 DEF Counted, ArchivedInputs
      <3> QED BY <1>5, <2>2, <3>1, <3>2, <3>3 DEF Counted, TypeInv
    <2> QED BY <2>1, <2>2 DEF TypeInv
  <1>7. /\ stats' \in [total_count : Nat, failed_count : Nat]
        /\ stats'.total_count = stats.total_count + IF killed THEN 0 ELSE 1
        /\ stats'.failed_count = stats.failed_count + IF killed THEN 1 ELSE 0
    <2>1. CASE killed
      BY <1>1, <2>1 DEF add_execution, TypeInv
    <2>2. CASE ~killed
      BY <1>1, <2>2 DEF add_execution, TypeInv
    <2> QED BY <2>1, <2>2 DEF TypeInv
  <1>8. TypeInv'
    BY <1>1, <1>2, <1>6, <1>7 DEF TypeInv
  <1>9. UnseenInput' /\ NewCoverageFirst'
    BY <1>1 DEF UnseenInput, NewCoverageFirst
  <1>10. Counted'
    <2>1. stats'.total_count + stats'.failed_count = Cardinality(processed_files')
      BY <1>4, <1>5, <1>7 DEF Counted, EachInputCountedOnce, TypeInv
    <2>2. stats'.failed_count = Cardinality(Content(hangs)')
      BY <1>6, <1>7 DEF Counted, EachInputCountedOnce
    <2> QED BY <1>6, <2>1, <2>2 DEF Counted, EachInputCountedOnce
  <1>11. DataInv'
    BY <1>1, DataUnchanged
  <1> QED BY <1>8, <1>9, <1>10, <1>11

\* A failing archive stops the helper within the invariant.
LEMMA ArchiveFailsInv ==
  ASSUME HelperInv, ArchiveFails
  PROVE  HelperInv'
  <1> USE DEF HelperInv
  <1>1. /\ pc = "tests" /\ pc' = "stopped"
        /\ UNCHANGED <<afl, current_bitmap, queue, crashes, failed, processed_files,
                       stats, listed, input, num_tests, killed>>
    BY DEF ArchiveFails, Stop
  <1>2. input \in File
    BY <1>1 DEF UnseenInput
  <1>3. PICK c \in copy_testcase(Archived(input), hangs, input) : ~c.ok /\ hangs' = c.dir
    BY DEF ArchiveFails
  <1>4. Dir(hangs', ArchivedInputs(File)) /\ Content(hangs)' = Content(hangs)
    BY <1>2, <1>3, ArchiveCopy
  <1>5. TypeInv'
    BY <1>1, <1>4 DEF TypeInv
  <1>6. UnseenInput' /\ NewCoverageFirst'
    BY <1>1 DEF UnseenInput, NewCoverageFirst
  <1>7. Counted'
    BY <1>1, <1>4 DEF Counted, EachInputCountedOnce
  <1>8. DataInv'
    BY <1>1, DataUnchanged
  <1> QED BY <1>5, <1>6, <1>7, <1>8

(***************************************************************************)
(* Theorems.                                                               *)
(***************************************************************************)

\* Every step keeps the invariant.
LEMMA NextInv == HelperInv /\ [Next]_vars => HelperInv'
  <1> SUFFICES ASSUME HelperInv, [Next]_vars PROVE HelperInv'
    OBVIOUS
  <1>1. CASE Next
    BY <1>1, ListQueueInv, SelectBestInv, RunInv, ProcessNewTestcaseInv, FinishInputInv,
       ArchiveFailsInv, AflInv DEF Next, Helper
  <1>2. CASE UNCHANGED vars
    <2>1. UNCHANGED <<afl, current_bitmap, queue, hangs, crashes, processed_files, stats,
                      pc, listed, input, num_tests, killed, failed>>
      BY <1>2 DEF vars, dirs
    <2>2. TypeInv'
      BY <2>1 DEF HelperInv, TypeInv
    <2>3. UnseenInput' /\ NewCoverageFirst'
      BY <2>1 DEF HelperInv, UnseenInput, NewCoverageFirst, aflQueue
    <2>4. Counted' /\ DataInv'
      BY <2>1, CountedUnchanged, DataUnchanged DEF HelperInv
    <2> QED BY <2>2, <2>3, <2>4 DEF HelperInv
  <1> QED BY <1>1, <1>2

\* The invariant that the others follow from: what the helper's map, its queue,
\* its crashes and its statistics have to do with each other at every moment.
THEOREM HelperInvariance == Spec => []HelperInv
  BY InitInv, NextInv, PTL DEF Spec

\* The coverage in the bitmap, which no later test case is interesting for,
\* belongs to test cases that AFL can import, except where a copy failed.
THEOREM CoverageCorrect == Spec => []CoverageIsQueued
  <1>1. HelperInv => CoverageIsQueued
    BY DEF HelperInv, DataInv
  <1> QED BY <1>1, HelperInvariance, PTL

\* AFL is never given a test case whose coverage the earlier ones have.
THEOREM QueueNotRedundant == Spec => []QueuedTestcasesAreNew
  <1>1. HelperInv => QueuedTestcasesAreNew
    BY DEF HelperInv, DataInv
  <1> QED BY <1>1, HelperInvariance, PTL

\* Every stored crash also reaches AFL, except where the second copy failed.
THEOREM CrashesReachQueue == Spec => []CrashesAreQueued
  <1>1. HelperInv => CrashesAreQueued
    BY DEF HelperInv, DataInv
  <1> QED BY <1>1, HelperInvariance, PTL

\* The statistics agree with the inputs analyzed and with those in hangs.
THEOREM StatisticsCorrect == Spec => []EachInputCountedOnce
  <1>1. HelperInv => EachInputCountedOnce
    BY DEF HelperInv, Counted
  <1> QED BY <1>1, HelperInvariance, PTL

\* The scores prefer new coverage, however AFL changes its queue meanwhile.
THEOREM SelectionCorrect == Spec => []NewCoverageFirst
  <1>1. HelperInv => NewCoverageFirst
    BY DEF HelperInv
  <1> QED BY <1>1, HelperInvariance, PTL

\* No complete file of d is lost or changed in e.
Keeps(d, e) ==
  \A n \in DOMAIN d.files :
    d.files[n] # Partial => n \in DOMAIN e.files /\ e.files[n] = d.files[n]

\* Every step keeps the complete files of all directories.
LEMMA StepKeeps ==
  ASSUME HelperInv, Next
  PROVE  Keeps(queue, queue') /\ Keeps(hangs, hangs') /\ Keeps(crashes, crashes')
  <1>0. /\ \A d : Keeps(d, d)
        /\ \A d, e, ok, t : Grows(d, e, ok, t) => Keeps(d, e)
    BY DEF Keeps, Grows
  <1> USE DEF HelperInv
  <1>1. CASE ListQueue \/ SelectBest \/ Run \/ RunFails \/ ShowmapPanics
               \/ \E f \in File : Afl(f)
    BY <1>0, <1>1 DEF ListQueue, SelectBest, Run, RunFails, ShowmapPanics, Afl, dirs
  <1>2. ASSUME NEW t \in Testcase, ProcessNewTestcase(t)
        PROVE  Keeps(queue, queue') /\ Keeps(hangs, hangs') /\ Keeps(crashes, crashes')
    <2>1. input \in File /\ Dir(queue, Testcase) /\ Dir(crashes, Testcase)
      BY <1>2 DEF ProcessNewTestcase, UnseenInput, TypeInv
    <2>2. \A c \in copy_testcase(t, queue, input) : Keeps(queue, c.dir)
      BY <1>0, <2>1, TestcaseCopy
    <2>3. \A c \in copy_testcase(t, crashes, input) : Keeps(crashes, c.dir)
      BY <1>0, <2>1, TestcaseCopy
    <2>4. CASE NewTestcase(t)
      BY <1>0, <2>2, <2>4 DEF NewTestcase
    <2>5. CASE CrashingTestcase(t)
      BY <1>0, <2>2, <2>3, <2>5 DEF CrashingTestcase
    <2>6. CASE HangingTestcase(t) \/ ShowmapFails
      BY <1>0, <2>6 DEF HangingTestcase, ShowmapFails, dirs
    <2> QED BY <1>2, <2>4, <2>5, <2>6 DEF ProcessNewTestcase
  <1>3. CASE FinishInput \/ ArchiveFails
    <2>1. input \in File
      BY <1>3 DEF FinishInput, ArchiveFails, UnseenInput
    <2>2. queue' = queue /\ crashes' = crashes
      BY <1>3 DEF FinishInput, ArchiveFails
    <2>3. \/ hangs' = hangs
          \/ \E c \in copy_testcase(Archived(input), hangs, input) : hangs' = c.dir
      BY <1>3 DEF FinishInput, ArchiveFails
    <2>4. Keeps(hangs, hangs')
      BY <1>0, <2>1, <2>3, ArchiveCopy
    <2> QED BY <1>0, <2>2, <2>4
  <1> QED BY <1>1, <1>2, <1>3 DEF Next, Helper

\* A test case that was stored completely stays as it is for ever, although
\* failed copies leave files behind that later copies may replace.
THEOREM StoredForever == Spec => TestcasesAreKept
  <1> DEFINE Kept == \A i \in DOMAIN dirs : \A n \in DOMAIN dirs[i].files :
                       dirs[i].files[n] # Partial =>
                         n \in DOMAIN dirs'[i].files /\ dirs'[i].files[n] = dirs[i].files[n]
  <1>1. ASSUME HelperInv, Next
        PROVE  Kept
    <2>1. Keeps(queue, queue') /\ Keeps(hangs, hangs') /\ Keeps(crashes, crashes')
      BY <1>1, StepKeeps
    <2>2. /\ DOMAIN dirs = {1, 2, 3}
          /\ dirs[1] = queue /\ dirs[2] = hangs /\ dirs[3] = crashes
          /\ dirs'[1] = queue' /\ dirs'[2] = hangs' /\ dirs'[3] = crashes'
      BY DEF dirs
    <2> QED BY <2>1, <2>2 DEF Keeps
  <1>2. HelperInv /\ [Next]_vars => [Kept]_vars
    BY <1>1
  <1> QED BY <1>2, HelperInvariance, PTL DEF Spec, TestcasesAreKept
=============================================================================
