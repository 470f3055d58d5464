-------------------------- MODULE Backends_proofs ---------------------------
(***************************************************************************)
(* Proofs about the backends: PathConstraints, for every set of inputs,    *)
(* every number of cases of a switch and every number of decisions, and    *)
(* ExpressionLifetime, for every size of the heap, of the program's memory *)
(* and of an expression.                                                   *)
(***************************************************************************)
EXTENDS PathConstraints, ExpressionLifetime, WellFoundedInduction, TLAPS

(***************************************************************************)
(* The inductive invariant.                                                *)
(***************************************************************************)

Calls == [constraint : SUBSET InputSpace, taken : BOOLEAN]

TypeInv ==
  /\ input \in InputSpace
  /\ solver \subseteq InputSpace
  /\ cache \in Seq(Calls)
  /\ taken_constraint \in 0..NumCases
  /\ index \in 0..NumCases+1
  /\ switch \in Switches \cup {NoSwitch}
  /\ call \in Calls
  /\ pc \in {"program", "case", "loop", "solve", "assert"}
  /\ generated \subseteq InputSpace
  /\ path \subseteq InputSpace
  /\ wanted \subseteq SUBSET InputSpace
  /\ timedOut \in BOOLEAN

Pushing == pc \in {"solve", "assert"}

\* What _sym_push_path_constraint is called with is what the input does.
CallIsOutcome == Pushing => call.taken = (input \in call.constraint)

\* Outside of a switch the cache is empty.
NoSwitchState ==
  switch = NoSwitch =>
    /\ cache = <<>> /\ taken_constraint = 0
    /\ pc \in {"program", "solve", "assert"}

\* What the current switch selects for the current input.
outcome == switch[input]

CaseCall(k) ==
  [constraint |-> CaseSet(switch, k), taken |-> input \in CaseSet(switch, k)]

\* The cases are in the cache in their order, all of them in the loop.
CacheState ==
  switch # NoSwitch =>
    /\ pc # "program"
    /\ \A k \in 1..Len(cache) : cache[k] = CaseCall(k)
    /\ pc = "case" => /\ Len(cache) = index /\ index < NumCases
                      /\ taken_constraint = 0
    /\ pc # "case" =>
         /\ Len(cache) = NumCases
         /\ taken_constraint = IF outcome \in 1..index THEN outcome ELSE 0

\* The loop pushes a case that was not taken, or at its end the taken one.
PushedCase ==
  switch # NoSwitch /\ Pushing =>
    \/ index \in 1..NumCases /\ index # outcome /\ call = CaseCall(index)
    \/ index = NumCases + 1 /\ outcome # 0 /\ call = CaseCall(outcome)

\* The cases whose negation has been asserted are the ones before the loop's
\* index that were not taken.
Excluded ==
  switch # NoSwitch /\ pc # "case" =>
    \A k \in 1..NumCases :
      k # outcome /\ (k < index \/ (k = index /\ pc = "loop")) =>
        solver \cap CaseSet(switch, k) = {}

\* Behind the last call of the loop the taken case has been asserted.
TakenAsserted ==
  switch # NoSwitch /\ pc = "loop" /\ index = NumCases + 1 =>
    solver \subseteq CaseSet(switch, outcome)

\* The path condition is what the solver will hold when the decision is over.
PathInProgress ==
  path = IF switch = NoSwitch
         THEN IF Pushing THEN solver \cap Actual(call) ELSE solver
         ELSE solver \cap CaseSet(switch, outcome)

\* The alternatives of the current decision that have not been tried yet.
OpenCases ==
  {k \in 0..NumCases :
     /\ switch # NoSwitch /\ k # outcome
     /\ pc = "case" \/ k > index \/ (k = 0 /\ index <= NumCases)}

OpenAlternatives ==
  {CaseSet(switch, k) : k \in OpenCases}
    \cup (IF pc = "solve" THEN {Alternative(call)} ELSE {})

\* The alternatives still open are wanted.
OpenAreWanted ==
  \A a \in OpenAlternatives : solver \cap a # {} => solver \cap a \in wanted

\* What is wanted has been generated or is open.
WantedState ==
  \A w \in wanted :
    /\ w # {}
    /\ timedOut \/ w \cap generated # {} \/ \E a \in OpenAlternatives : w = solver \cap a

PathInv ==
  /\ TypeInv
  /\ InputSatisfiesPath /\ InternalAssertionsHold /\ GeneratedInputsDiverge
  /\ CallIsOutcome /\ NoSwitchState /\ CacheState /\ PushedCase
  /\ Excluded /\ TakenAsserted
  /\ PathInProgress /\ OpenAreWanted /\ WantedState

(***************************************************************************)
(* Facts about calls and cases.                                            *)
(***************************************************************************)

\* A call's two sides are the inputs that go the same way and the others.
LEMMA Sides ==
  ASSUME TypeInv, NEW c \in Calls, c.taken = (input \in c.constraint)
  PROVE  /\ input \in Actual(c)
         /\ \A i \in InputSpace : i \in Alternative(c) <=> i \notin Actual(c)
         /\ \A i \in InputSpace :
              i \in Actual(c) <=> (i \in c.constraint <=> input \in c.constraint)
         /\ Actual(c) \subseteq InputSpace /\ Alternative(c) \subseteq InputSpace
  BY DEF TypeInv, Calls, Actual, Alternative

\* The cases of a switch partition the inputs.
LEMMA CaseFacts ==
  ASSUME TypeInv, switch # NoSwitch
  PROVE  /\ switch \in Switches /\ outcome \in 0..NumCases
         /\ \A k \in 0..NumCases :
              /\ CaseSet(switch, k) \subseteq InputSpace
              /\ \A i \in InputSpace : i \in CaseSet(switch, k) <=> switch[i] = k
              /\ input \in CaseSet(switch, k) <=> k = outcome
              /\ CaseCall(k) \in Calls
              /\ CaseCall(k).constraint = CaseSet(switch, k)
              /\ CaseCall(k).taken = (k = outcome)
  BY DEF TypeInv, Switches, CaseSet, outcome, CaseCall, Calls

(***************************************************************************)
(* The steps.                                                              *)
(***************************************************************************)

\* _sym_initialize.
LEMMA PathInit == Init => PathInv
  <1> SUFFICES ASSUME Init PROVE PathInv
    OBVIOUS
  <1>1. TypeInv
    <2>1. call \in Calls
      BY DEF Init, Calls
    <2>2. cache \in Seq(Calls)
      BY DEF Init
    <2>3. taken_constraint \in 0..NumCases /\ index \in 0..NumCases+1
      BY PathAssumption DEF Init
    <2>4. /\ input \in InputSpace /\ solver \subseteq InputSpace
          /\ switch \in Switches \cup {NoSwitch}
          /\ pc \in {"program", "case", "loop", "solve", "assert"}
          /\ generated \subseteq InputSpace /\ path \subseteq InputSpace
          /\ wanted \subseteq SUBSET InputSpace
      BY DEF Init
    <2>5. timedOut \in BOOLEAN
      BY DEF Init
    <2> QED BY <2>1, <2>2, <2>3, <2>4, <2>5, Zenon DEF TypeInv
  <1>2. InputSatisfiesPath /\ InternalAssertionsHold /\ GeneratedInputsDiverge
    BY DEF Init, InputSatisfiesPath, InternalAssertionsHold, GeneratedInputsDiverge
  <1>3. CallIsOutcome /\ NoSwitchState /\ CacheState /\ PushedCase
        /\ Excluded /\ TakenAsserted
    BY DEF Init, CallIsOutcome, NoSwitchState, CacheState, PushedCase, Excluded,
           TakenAsserted, Pushing
  <1>4. PathInProgress
    BY DEF Init, PathInProgress, Pushing
  <1>5. OpenAlternatives = {}
    BY DEF Init, OpenAlternatives, OpenCases
  <1>6. OpenAreWanted /\ WantedState
    BY <1>5 DEF Init, OpenAreWanted, WantedState
  <1> QED BY <1>1, <1>2, <1>3, <1>4, <1>6 DEF PathInv

\* A decision between two sides, and the call that pushes it.
LEMMA TwoWayStep ==
  ASSUME PathInv, Returned, NEW c \in SUBSET InputSpace,
         Decide({c, InputSpace \ c}),
         call' = [constraint |-> c, taken |-> input \in c], pc' = "solve",
         UNCHANGED <<input, solver, switchVars, generated, failed, timedOut>>
  PROVE  PathInv'
  <1>1. TypeInv /\ switch = NoSwitch /\ pc = "program" /\ failed = "none"
    BY DEF PathInv, Returned, At, CacheState
  <1>2. /\ input' = input /\ solver' = solver /\ cache' = cache
        /\ taken_constraint' = taken_constraint /\ index' = index
        /\ switch' = switch /\ generated' = generated /\ failed' = failed
        /\ timedOut' = timedOut
    BY DEF switchVars
  <1>3. /\ call' \in Calls /\ call'.constraint = c /\ call'.taken = (input \in c)
    BY DEF Calls
  <1>4. path = solver
    BY <1>1 DEF PathInv, PathInProgress, Pushing
  <1>5. /\ path' = {i \in path : i \in c <=> input \in c}
    BY <1>1 DEF Decide, TypeInv
  <1>6. path' = solver \cap Actual(call')
    BY <1>1, <1>3, <1>4, <1>5 DEF TypeInv, Actual
  <1> DEFINE alt == solver \cap Alternative(call')
  <1>7. wanted' = wanted \cup ({alt} \ {{}})
    <2>1. {d \in {c, InputSpace \ c} : input \notin d} = {Alternative(call')}
      BY <1>1, <1>3 DEF TypeInv, Alternative
    <2>2. {path \cap d : d \in {d \in {c, InputSpace \ c} : input \notin d}} = {alt}
      BY <1>4, <2>1
    <2> QED BY <2>2 DEF Decide
  <1>8. OpenAlternatives = {} /\ OpenAlternatives' = {Alternative(call')}
    BY <1>1, <1>2 DEF OpenAlternatives, OpenCases, Alternative
  <1>9. TypeInv'
    <2>1. alt \subseteq InputSpace
      BY <1>1 DEF TypeInv
    <2>2. wanted' \subseteq SUBSET InputSpace
      BY <1>1, <1>7, <2>1 DEF TypeInv
    <2> QED BY <1>1, <1>2, <1>3, <1>5, <2>2 DEF TypeInv
  <1>10. /\ InputSatisfiesPath' /\ InternalAssertionsHold' /\ CallIsOutcome'
         /\ NoSwitchState' /\ CacheState' /\ PushedCase' /\ Excluded' /\ TakenAsserted'
    BY <1>1, <1>2, <1>3
       DEF PathInv, InputSatisfiesPath, InternalAssertionsHold, CallIsOutcome,
           NoSwitchState, CacheState, PushedCase, Excluded, TakenAsserted
  <1>11. GeneratedInputsDiverge'
    BY <1>2, <1>7 DEF PathInv, GeneratedInputsDiverge
  <1>12. PathInProgress'
    BY <1>1, <1>2, <1>6 DEF PathInProgress, Pushing, Actual
  <1>13. OpenAreWanted'
    BY <1>2, <1>7, <1>8 DEF OpenAreWanted
  <1>14. WantedState'
    <2> SUFFICES ASSUME NEW w \in wanted'
                 PROVE  /\ w # {}
                        /\ timedOut \/ w \cap generated # {} \/ w = alt
      BY <1>2, <1>8 DEF WantedState
    <2>1. CASE w \in wanted
      BY <1>8, <2>1 DEF PathInv, WantedState
    <2>2. CASE w \in {alt} \ {{}}
      BY <2>2
    <2> QED BY <1>7, <2>1, <2>2
  <1> QED BY <1>9, <1>10, <1>11, <1>12, <1>13, <1>14 DEF PathInv

\* A decision among the cases of a switch.
LEMMA SwitchStep ==
  ASSUME PathInv, NEW s \in Switches, Switch(s)
  PROVE  PathInv'
  <1>1. TypeInv /\ switch = NoSwitch /\ pc = "program" /\ failed = "none"
    BY DEF PathInv, Returned, At, CacheState, Switch
  <1>2. /\ input' = input /\ solver' = solver /\ cache' = cache
        /\ taken_constraint' = taken_constraint /\ index' = 0
        /\ switch' = s /\ generated' = generated /\ failed' = failed
        /\ timedOut' = timedOut /\ call' = call /\ pc' = "case"
    BY DEF Switch
  <1>3. /\ s # NoSwitch /\ s[input] \in 0..NumCases
        /\ \A i \in InputSpace, k \in 0..NumCases : i \in CaseSet(s, k) <=> s[i] = k
        /\ \A k \in 0..NumCases : CaseSet(s, k) \subseteq InputSpace
    BY <1>1, PathAssumption DEF Switches, TypeInv, CaseSet
  <1>4. path = solver /\ cache = <<>> /\ taken_constraint = 0
    BY <1>1 DEF PathInv, PathInProgress, Pushing, NoSwitchState
  <1> DEFINE cases == {CaseSet(s, k) : k \in 0..NumCases}
             others == {k \in 0..NumCases : k # s[input]}
  <1>5. path' = solver \cap CaseSet(s, s[input])
    <2>1. path' = {i \in path : \A c \in cases : i \in c <=> input \in c}
      BY DEF Switch, Decide
    <2>2. ASSUME NEW i \in InputSpace
          PROVE  (\A c \in cases : i \in c <=> input \in c) <=> s[i] = s[input]
      BY <1>1, <1>3 DEF TypeInv
    <2>3. \A i \in solver : i \in CaseSet(s, s[input]) <=> s[i] = s[input]
      BY <1>1, <1>3 DEF TypeInv
    <2> HIDE DEF cases
    <2> QED BY <1>1, <1>4, <2>1, <2>2, <2>3 DEF TypeInv
  <1>6. \A w : w \in wanted' <=>
               \/ w \in wanted
               \/ w # {} /\ \E k \in others : w = solver \cap CaseSet(s, k)
    <2>1. wanted' = wanted \cup ({path \cap c : c \in {d \in cases : input \notin d}}
                                   \ {{}})
      BY DEF Switch, Decide
    <2>2. \A d : (d \in cases /\ input \notin d) <=>
                 \E k \in others : d = CaseSet(s, k)
      BY <1>1, <1>3 DEF TypeInv
    <2> HIDE DEF cases, others
    <2> QED BY <1>4, <2>1, <2>2
  <1>7. OpenAlternatives = {}
    BY <1>1 DEF OpenAlternatives, OpenCases
  <1>8. OpenAlternatives' = {CaseSet(s, k) : k \in others}
    <2>1. OpenCases' = others
      BY <1>2, <1>3 DEF OpenCases, outcome
    <2> QED BY <1>2, <2>1 DEF OpenAlternatives, CaseSet
  <1>9. TypeInv'
    <2>1. wanted' \subseteq SUBSET InputSpace
      BY <1>1, <1>3, <1>6 DEF TypeInv
    <2>2. path' \subseteq InputSpace
      BY <1>1, <1>5 DEF TypeInv
    <2> QED BY <1>1, <1>2, <2>1, <2>2, PathAssumption DEF TypeInv
  <1>10. /\ InputSatisfiesPath' /\ InternalAssertionsHold' /\ CallIsOutcome'
         /\ NoSwitchState' /\ PushedCase' /\ Excluded' /\ TakenAsserted'
    BY <1>1, <1>2, <1>3
       DEF PathInv, InputSatisfiesPath, InternalAssertionsHold, CallIsOutcome,
           NoSwitchState, PushedCase, Excluded, TakenAsserted, Pushing
  <1>11. CacheState'
    BY <1>2, <1>4, PathAssumption DEF CacheState
  <1>12. GeneratedInputsDiverge'
    BY <1>2, <1>6 DEF PathInv, GeneratedInputsDiverge
  <1>13. PathInProgress'
    BY <1>2, <1>3, <1>5 DEF PathInProgress, outcome, CaseSet
  <1> HIDE DEF others
  <1>14. OpenAreWanted'
    BY <1>2, <1>6, <1>8 DEF OpenAreWanted
  <1>15. WantedState'
    <2> SUFFICES ASSUME NEW w \in wanted'
                 PROVE  /\ w # {}
                        /\ \/ timedOut \/ w \cap generated # {}
                           \/ \E a \in OpenAlternatives' : w = solver \cap a
      BY <1>2 DEF WantedState
    <2>1. CASE w \in wanted
      BY <1>7, <2>1 DEF PathInv, WantedState
    <2>2. CASE w # {} /\ \E k \in others : w = solver \cap CaseSet(s, k)
      BY <1>8, <2>2
    <2> QED BY <1>6, <2>1, <2>2
  <1> QED BY <1>9, <1>10, <1>11, <1>12, <1>13, <1>14, <1>15 DEF PathInv

\* _sym_push_switch_constraint caches a case.
LEMMA CacheCaseStep == PathInv /\ CacheCase => PathInv'
  <1> SUFFICES ASSUME PathInv, CacheCase PROVE PathInv'
    OBVIOUS
  <1>1. TypeInv /\ switch # NoSwitch /\ pc = "case" /\ failed = "none"
    BY DEF PathInv, At, NoSwitchState, CacheCase
  <1>2. /\ Len(cache) = index /\ index < NumCases /\ taken_constraint = 0
        /\ cache \in Seq(Calls) /\ index \in Nat /\ NumCases \in Nat
        /\ \A k \in 1..Len(cache) : cache[k] = CaseCall(k)
    BY <1>1, PathAssumption DEF PathInv, CacheState, TypeInv
  <1>3. index = 0 => cache = <<>>
    BY <1>2
  <1>4. /\ cache' = Append(cache, CaseCall(index + 1))
        /\ IF index = NumCases - 1
           THEN index' = 0 /\ pc' = "loop"
           ELSE index' = index + 1 /\ pc' = pc
        /\ failed' = failed
    BY <1>3 DEF CacheCase, CaseCall
  <1>5. /\ input' = input /\ solver' = solver /\ taken_constraint' = taken_constraint
        /\ switch' = switch /\ generated' = generated /\ timedOut' = timedOut
        /\ call' = call /\ path' = path /\ wanted' = wanted
    BY DEF CacheCase, history
  <1>6. outcome \in 0..NumCases /\ outcome' = outcome /\ CaseCall(index + 1) \in Calls
        /\ \A k \in 0..NumCases : CaseCall(k)' = CaseCall(k)
    BY <1>1, <1>2, <1>5, CaseFacts DEF outcome, CaseCall, CaseSet
  <1> DEFINE c == CaseCall(index + 1)
  <1> HIDE DEF c
  <1>7. /\ cache' \in Seq(Calls) /\ Len(cache') = index + 1
        /\ \A k \in 1..index : cache'[k] = cache[k]
        /\ cache'[index + 1] = CaseCall(index + 1)
    <2>1. c \in Calls /\ cache' = Append(cache, c)
      BY <1>4, <1>6 DEF c
    <2>2. /\ cache' \in Seq(Calls) /\ Len(cache') = index + 1
          /\ \A k \in 1..index : cache'[k] = cache[k]
          /\ cache'[index + 1] = c
      BY <1>2, <2>1
    <2> QED BY <2>2 DEF c
  <1>8. TypeInv'
    BY <1>1, <1>2, <1>4, <1>5, <1>7 DEF TypeInv
  <1>9. /\ InputSatisfiesPath' /\ InternalAssertionsHold' /\ CallIsOutcome'
        /\ NoSwitchState' /\ PushedCase' /\ GeneratedInputsDiverge'
    BY <1>1, <1>4, <1>5
       DEF PathInv, InputSatisfiesPath, InternalAssertionsHold, CallIsOutcome,
           NoSwitchState, PushedCase, Pushing, GeneratedInputsDiverge
  <1>10. CacheState'
    <2>1. \A k \in 1..Len(cache') : cache'[k] = CaseCall(k)'
      BY <1>2, <1>6, <1>7
    <2>2. pc' # "program" /\ switch' # NoSwitch
      BY <1>1, <1>4, <1>5
    <2>3. pc' = "case" => Len(cache') = index' /\ index' < NumCases /\ taken_constraint' = 0
      BY <1>2, <1>4, <1>5, <1>7
    <2>4. pc' # "case" => Len(cache') = NumCases /\ index' = 0 /\ taken_constraint' = 0
      BY <1>1, <1>2, <1>4, <1>5, <1>7
    <2>5. outcome' \notin 1..0
      BY <1>6
    <2> QED BY <2>1, <2>2, <2>3, <2>4, <2>5 DEF CacheState
  <1>11. Excluded' /\ TakenAsserted'
    BY <1>1, <1>2, <1>4 DEF Excluded, TakenAsserted
  <1>12. PathInProgress'
    BY <1>1, <1>5, <1>6 DEF PathInv, PathInProgress, CaseSet
  <1>13. OpenAlternatives' = OpenAlternatives
    <2>1. OpenCases' = OpenCases
      BY <1>1, <1>2, <1>4, <1>5, <1>6 DEF OpenCases
    <2> QED BY <1>1, <1>4, <1>5, <2>1 DEF OpenAlternatives, CaseSet
  <1>14. OpenAreWanted' /\ WantedState'
    BY <1>5, <1>13 DEF PathInv, OpenAreWanted, WantedState
  <1> QED BY <1>8, <1>9, <1>10, <1>11, <1>12, <1>14 DEF PathInv

\* What holds of a switch in the loop over its cases.
LEMMA LoopFacts ==
  ASSUME PathInv, At("loop")
  PROVE  /\ TypeInv /\ switch # NoSwitch /\ pc = "loop" /\ failed = "none"
         /\ Len(cache) = NumCases /\ NumCases \in Nat /\ NumCases > 0 /\ index \in Nat
         /\ \A k \in 1..NumCases : cache[k] = CaseCall(k)
         /\ taken_constraint = IF outcome \in 1..index THEN outcome ELSE 0
         /\ outcome \in 0..NumCases
  <1>1. TypeInv /\ switch # NoSwitch /\ pc = "loop" /\ failed = "none"
    BY DEF PathInv, At, NoSwitchState
  <1>2. outcome \in 0..NumCases
    BY <1>1, CaseFacts
  <1> QED BY <1>1, <1>2, PathAssumption DEF PathInv, CacheState, TypeInv

\* The loop pushes a case that was not taken, or remembers the taken one.
LEMMA PushNotTakenStep == PathInv /\ PushNotTaken => PathInv'
  <1> SUFFICES ASSUME PathInv, PushNotTaken PROVE PathInv'
    OBVIOUS
  <1>1. /\ TypeInv /\ switch # NoSwitch /\ pc = "loop" /\ failed = "none"
        /\ Len(cache) = NumCases /\ NumCases \in Nat /\ NumCases > 0 /\ index \in Nat
        /\ \A k \in 1..NumCases : cache[k] = CaseCall(k)
        /\ taken_constraint = IF outcome \in 1..index THEN outcome ELSE 0
        /\ outcome \in 0..NumCases
    BY LoopFacts DEF PushNotTaken
  <1>2. index < NumCases /\ cache[index + 1] = CaseCall(index + 1)
    <2>1. index < Len(cache)
      BY Zenon DEF PushNotTaken
    <2>2. index < NumCases /\ index + 1 \in 1..NumCases
      BY <1>1, <2>1
    <2> QED BY <1>1, <2>2
  <1>3. /\ input' = input /\ solver' = solver /\ cache' = cache
        /\ switch' = switch /\ generated' = generated /\ timedOut' = timedOut
        /\ path' = path /\ wanted' = wanted
    BY DEF PushNotTaken, history
  <1>4. /\ outcome' = outcome
        /\ \A k \in 0..NumCases : CaseCall(k)' = CaseCall(k)
        /\ \A k \in 0..NumCases : CaseSet(switch, k)' = CaseSet(switch, k)
    BY <1>3 DEF outcome, CaseCall, CaseSet
  <1>5. /\ CaseCall(index + 1) \in Calls
        /\ CaseCall(index + 1).taken = (index + 1 = outcome)
        /\ CaseCall(index + 1).constraint = CaseSet(switch, index + 1)
        /\ input \in CaseSet(switch, index + 1) <=> index + 1 = outcome
    BY <1>1, <1>2, CaseFacts
  <1>6. /\ GeneratedInputsDiverge' /\ InputSatisfiesPath' /\ NoSwitchState'
    BY <1>1, <1>3 DEF PathInv, GeneratedInputsDiverge, InputSatisfiesPath, NoSwitchState
  <1>7. PathInProgress'
    BY <1>1, <1>3, <1>4 DEF PathInv, PathInProgress, CaseSet
  <1>8. CASE index + 1 # outcome
    <2>1. /\ call' = CaseCall(index + 1) /\ pc' = "solve" /\ index' = index + 1
          /\ taken_constraint' = taken_constraint /\ failed' = failed
      BY <1>2, <1>5, <1>8 DEF PushNotTaken
    <2>2. TypeInv'
      BY <1>1, <1>2, <1>3, <1>5, <2>1 DEF TypeInv
    <2>3. InternalAssertionsHold'
      BY <1>1, <2>1 DEF InternalAssertionsHold
    <2>4. CallIsOutcome'
      BY <1>3, <1>5, <1>8, <2>1 DEF CallIsOutcome
    <2>5. CacheState'
      BY <1>1, <1>3, <1>4, <1>8, <2>1 DEF CacheState
    <2>6. PushedCase'
      BY <1>1, <1>2, <1>4, <1>8, <2>1 DEF PushedCase
    <2>7. Excluded' /\ TakenAsserted'
      <3>1. \A k \in 1..NumCases :
              k # outcome /\ k <= index => solver \cap CaseSet(switch, k) = {}
        BY <1>1 DEF PathInv, Excluded
      <3> QED BY <1>1, <1>2, <1>3, <1>4, <2>1, <3>1 DEF Excluded, TakenAsserted
    <2>8. Alternative(call') = CaseSet(switch, index + 1)
      BY <1>5, <1>8, <2>1 DEF Alternative
    <2>9. OpenAlternatives' = OpenAlternatives
      <3>1. \A k : k \in OpenCases <=> k \in OpenCases' \/ k = index + 1
        BY <1>1, <1>2, <1>3, <1>4, <1>8, <2>1 DEF OpenCases
      <3>2. \A a : a \in OpenAlternatives <=> \E k \in OpenCases : a = CaseSet(switch, k)
        BY <1>1 DEF OpenAlternatives
      <3>3. \A a : a \in OpenAlternatives' <=>
              a = Alternative(call') \/ \E k \in OpenCases' : a = CaseSet(switch, k)
        BY <1>3, <2>1 DEF OpenAlternatives, CaseSet, Alternative
      <3> QED BY <2>8, <3>1, <3>2, <3>3
    <2>10. OpenAreWanted' /\ WantedState'
      BY <1>3, <2>9 DEF PathInv, OpenAreWanted, WantedState
    <2> QED BY <1>6, <1>7, <2>2, <2>3, <2>4, <2>5, <2>6, <2>7, <2>10 DEF PathInv
  <1>9. CASE index + 1 = outcome
    <2>1. taken_constraint = 0
      BY <1>1, <1>9
    <2>2. /\ call' = call /\ pc' = pc /\ index' = index + 1
          /\ taken_constraint' = index + 1 /\ failed' = failed
      BY <1>2, <1>5, <1>9, <2>1 DEF PushNotTaken
    <2>3. TypeInv'
      BY <1>1, <1>2, <1>3, <2>2 DEF TypeInv
    <2>4. InternalAssertionsHold' /\ CallIsOutcome' /\ PushedCase'
      BY <1>1, <2>2 DEF InternalAssertionsHold, CallIsOutcome, PushedCase, Pushing
    <2>5. CacheState'
      BY <1>1, <1>2, <1>3, <1>4, <1>9, <2>2 DEF CacheState
    <2>6. Excluded' /\ TakenAsserted'
      <3>1. \A k \in 1..NumCases :
              k # outcome /\ k <= index => solver \cap CaseSet(switch, k) = {}
        BY <1>1 DEF PathInv, Excluded
      <3> QED BY <1>1, <1>2, <1>3, <1>4, <1>9, <2>2, <3>1 DEF Excluded, TakenAsserted
    <2>7. OpenAlternatives' = OpenAlternatives
      <3>1. OpenCases' = OpenCases
        BY <1>1, <1>2, <1>3, <1>4, <1>9, <2>2 DEF OpenCases
      <3> QED BY <1>1, <1>3, <2>2, <3>1 DEF OpenAlternatives, CaseSet
    <2>8. OpenAreWanted' /\ WantedState'
      BY <1>3, <2>7 DEF PathInv, OpenAreWanted, WantedState
    <2> QED BY <1>6, <1>7, <2>3, <2>4, <2>5, <2>6, <2>8 DEF PathInv
  <1> QED BY <1>8, <1>9

\* After the loop, the taken case is pushed: what is left of its alternative is
\* the default of the switch.
LEMMA PushTakenStep == PathInv /\ PushTaken => PathInv'
  <1> SUFFICES ASSUME PathInv, PushTaken PROVE PathInv'
    OBVIOUS
  <1>1. /\ TypeInv /\ switch # NoSwitch /\ pc = "loop" /\ failed = "none"
        /\ Len(cache) = NumCases /\ NumCases \in Nat /\ NumCases > 0 /\ index \in Nat
        /\ \A k \in 1..NumCases : cache[k] = CaseCall(k)
        /\ taken_constraint = IF outcome \in 1..index THEN outcome ELSE 0
        /\ outcome \in 0..NumCases
    BY LoopFacts DEF PushTaken
  <1>2. /\ index = NumCases /\ taken_constraint # 0
        /\ pc' = "solve" /\ index' = NumCases + 1 /\ call' = cache[taken_constraint]
    BY <1>1 DEF PushTaken
  <1>3. taken_constraint = outcome /\ outcome \in 1..NumCases /\ call' = CaseCall(outcome)
    BY <1>1, <1>2
  <1>4. /\ input' = input /\ solver' = solver /\ cache' = cache
        /\ switch' = switch /\ generated' = generated /\ timedOut' = timedOut
        /\ path' = path /\ wanted' = wanted /\ failed' = failed
        /\ taken_constraint' = taken_constraint
    BY DEF PushTaken, history
  <1>5. /\ outcome' = outcome
        /\ \A k \in 0..NumCases : CaseCall(k)' = CaseCall(k)
        /\ \A k \in 0..NumCases : CaseSet(switch, k)' = CaseSet(switch, k)
    BY <1>4 DEF outcome, CaseCall, CaseSet
  <1>6. /\ CaseCall(outcome) \in Calls
        /\ CaseCall(outcome).taken = TRUE
        /\ CaseCall(outcome).constraint = CaseSet(switch, outcome)
        /\ input \in CaseSet(switch, outcome)
        /\ \A k \in 0..NumCases :
             \A i \in InputSpace : i \in CaseSet(switch, k) <=> switch[i] = k
        /\ \A i \in InputSpace : switch[i] \in 0..NumCases
    BY <1>1, CaseFacts DEF Switches
  <1>7. TypeInv'
    BY <1>1, <1>2, <1>3, <1>4, <1>6 DEF TypeInv
  <1>8. /\ GeneratedInputsDiverge' /\ InputSatisfiesPath' /\ NoSwitchState'
        /\ InternalAssertionsHold'
    BY <1>1, <1>4 DEF PathInv, GeneratedInputsDiverge, InputSatisfiesPath,
                      NoSwitchState, InternalAssertionsHold
  <1>9. PathInProgress'
    BY <1>1, <1>4, <1>5 DEF PathInv, PathInProgress, CaseSet
  <1>10. CallIsOutcome'
    BY <1>3, <1>4, <1>6 DEF CallIsOutcome
  <1>11. CacheState'
    BY <1>1, <1>2, <1>3, <1>4, <1>5 DEF CacheState
  <1>12. PushedCase'
    BY <1>1, <1>2, <1>3, <1>5 DEF PushedCase
  <1>13. \A k \in 1..NumCases : k # outcome => solver \cap CaseSet(switch, k) = {}
    BY <1>1, <1>2 DEF PathInv, Excluded
  <1>14. Excluded' /\ TakenAsserted'
    BY <1>2, <1>4, <1>5, <1>13 DEF Excluded, TakenAsserted
  <1>15. solver \cap Alternative(call') = solver \cap CaseSet(switch, 0)
    <2>1. Alternative(call') = InputSpace \ CaseSet(switch, outcome)
      BY <1>3, <1>6 DEF Alternative
    <2>2. ASSUME NEW i \in solver
          PROVE  i \notin CaseSet(switch, outcome) <=> i \in CaseSet(switch, 0)
      <3>1. i \in InputSpace /\ switch[i] \in 0..NumCases
        BY <1>1, <1>6 DEF TypeInv
      <3>2. i \in CaseSet(switch, switch[i])
        BY <1>6, <3>1
      <3>3. switch[i] # outcome => switch[i] = 0
        BY <1>13, <3>1, <3>2
      <3>4. /\ i \in CaseSet(switch, outcome) <=> switch[i] = outcome
            /\ i \in CaseSet(switch, 0) <=> switch[i] = 0
        BY <1>1, <1>6, <3>1
      <3> QED BY <1>3, <3>3, <3>4
    <2>3. solver \subseteq InputSpace
      BY <1>1 DEF TypeInv
    <2> QED BY <2>1, <2>2, <2>3
  <1>16. OpenAlternatives = {CaseSet(switch, 0)}
    <2>1. OpenCases = {0}
      BY <1>1, <1>2, <1>3 DEF OpenCases
    <2> QED BY <1>1, <2>1 DEF OpenAlternatives
  <1>17. OpenAlternatives' = {Alternative(call')}
    <2>1. OpenCases' = {}
      BY <1>1, <1>2, <1>4 DEF OpenCases
    <2> QED BY <1>2, <2>1 DEF OpenAlternatives, Alternative
  <1>18. OpenAreWanted' /\ WantedState'
    BY <1>4, <1>15, <1>16, <1>17 DEF PathInv, OpenAreWanted, WantedState
  <1> QED BY <1>7, <1>8, <1>9, <1>10, <1>11, <1>12, <1>14, <1>18 DEF PathInv

\* The switch is over: the solver holds the path condition.
LEMMA ClearCacheStep == PathInv /\ ClearCache => PathInv'
  <1> SUFFICES ASSUME PathInv, ClearCache PROVE PathInv'
    OBVIOUS
  <1>1. /\ TypeInv /\ switch # NoSwitch /\ pc = "loop" /\ failed = "none"
        /\ Len(cache) = NumCases /\ NumCases \in Nat /\ NumCases > 0 /\ index \in Nat
        /\ taken_constraint = IF outcome \in 1..index THEN outcome ELSE 0
        /\ outcome \in 0..NumCases
    BY LoopFacts DEF ClearCache
  <1>2. index = NumCases + (IF taken_constraint = 0 THEN 0 ELSE 1)
    BY <1>1 DEF ClearCache
  <1>3. /\ input' = input /\ solver' = solver /\ call' = call
        /\ generated' = generated /\ timedOut' = timedOut
        /\ path' = path /\ wanted' = wanted /\ failed' = failed
        /\ cache' = <<>> /\ taken_constraint' = 0 /\ index' = 0
        /\ switch' = NoSwitch /\ pc' = "program"
    BY DEF ClearCache, history
  <1>4. solver \subseteq CaseSet(switch, outcome)
    <2>1. CASE taken_constraint = 0
      <3>1. outcome = 0 /\ index = NumCases
        BY <1>1, <1>2, <2>1
      <3>2. \A k \in 1..NumCases : solver \cap CaseSet(switch, k) = {}
        BY <1>1, <3>1 DEF PathInv, Excluded
      <3> SUFFICES ASSUME NEW i \in solver PROVE i \in CaseSet(switch, 0)
        BY <3>1
      <3>3. i \in InputSpace /\ switch[i] \in 0..NumCases
        BY <1>1, CaseFacts DEF TypeInv, Switches
      <3>4. i \in CaseSet(switch, switch[i])
        BY <1>1, <3>3, CaseFacts
      <3>5. switch[i] \notin 1..NumCases
        BY <3>2, <3>4
      <3>6. switch[i] = 0
        BY <1>1, <3>3, <3>5
      <3> QED BY <3>4, <3>6
    <2>2. CASE taken_constraint # 0
      BY <1>1, <1>2, <2>2 DEF PathInv, TakenAsserted
    <2> QED BY <2>1, <2>2
  <1>5. path = solver
    BY <1>1, <1>4 DEF PathInv, PathInProgress
  <1>6. TypeInv'
    <2>1. cache' \in Seq(Calls)
      BY <1>3
    <2>2. taken_constraint' \in 0..NumCases /\ index' \in 0..NumCases+1
      BY <1>1, <1>3
    <2> QED BY <1>1, <1>3, <2>1, <2>2 DEF TypeInv
  <1>7. /\ GeneratedInputsDiverge' /\ InputSatisfiesPath' /\ NoSwitchState'
        /\ InternalAssertionsHold' /\ CallIsOutcome' /\ CacheState' /\ PushedCase'
        /\ Excluded' /\ TakenAsserted'
    BY <1>1, <1>3
       DEF PathInv, GeneratedInputsDiverge, InputSatisfiesPath, NoSwitchState,
           InternalAssertionsHold, CallIsOutcome, CacheState, PushedCase, Pushing,
           Excluded, TakenAsserted
  <1>8. PathInProgress'
    BY <1>3, <1>5 DEF PathInProgress, Pushing
  <1>9. OpenAlternatives = {} /\ OpenAlternatives' = {}
    <2>1. OpenCases = {}
      BY <1>1, <1>2 DEF OpenCases
    <2>2. OpenCases' = {}
      BY <1>3 DEF OpenCases
    <2> QED BY <1>1, <1>3, <2>1, <2>2 DEF OpenAlternatives
  <1>10. OpenAreWanted' /\ WantedState'
    BY <1>3, <1>9 DEF PathInv, OpenAreWanted, WantedState
  <1> QED BY <1>6, <1>7, <1>8, <1>10 DEF PathInv

\* _sym_push_path_constraint returns to its caller: what the call settles.  The
\* actual constraint has been asserted, or it is one that holds of every input.
LEMMA PushReturns ==
  ASSUME PathInv, Pushing, pc' = Caller, solver' = solver \cap Actual(call),
         input' = input, UNCHANGED switchVars, call' = call, path' = path
  PROVE  /\ NoSwitchState' /\ CallIsOutcome' /\ CacheState' /\ PushedCase'
         /\ Excluded' /\ TakenAsserted' /\ PathInProgress' /\ InputSatisfiesPath'
         /\ OpenAlternatives' = {CaseSet(switch, k) : k \in OpenCases}
         /\ \A a \in OpenAlternatives' : solver' \cap a = solver \cap a
  <1>1. /\ TypeInv /\ call \in Calls /\ call.taken = (input \in call.constraint)
        /\ NumCases \in Nat /\ index \in Nat
    BY PathAssumption DEF PathInv, CallIsOutcome, TypeInv
  <1>2. /\ input \in Actual(call) /\ Actual(call) \subseteq InputSpace
        /\ \A i \in InputSpace : i \in Alternative(call) <=> i \notin Actual(call)
    BY <1>1, Sides
  <1>3. /\ cache' = cache /\ taken_constraint' = taken_constraint /\ index' = index
        /\ switch' = switch
    BY DEF switchVars
  <1>4. /\ pc' = IF switch = NoSwitch THEN "program" ELSE "loop"
        /\ pc' \in {"program", "loop"} /\ pc \in {"solve", "assert"}
    BY DEF Caller, Pushing
  <1>5. InputSatisfiesPath'
    BY <1>2 DEF PathInv, InputSatisfiesPath
  <1>6. CallIsOutcome' /\ PushedCase'
    BY <1>4 DEF CallIsOutcome, PushedCase, Pushing
  <1>7. CASE switch = NoSwitch
    <2>1. NoSwitchState' /\ CacheState' /\ Excluded' /\ TakenAsserted'
      BY <1>3, <1>4, <1>7
         DEF PathInv, NoSwitchState, CacheState, Excluded, TakenAsserted
    <2>2. PathInProgress'
      BY <1>3, <1>4, <1>7 DEF PathInv, PathInProgress, Pushing
    <2>3. OpenCases = {} /\ OpenCases' = {}
      BY <1>3, <1>7 DEF OpenCases
    <2>4. OpenAlternatives' = {} /\ {CaseSet(switch, k) : k \in OpenCases} = {}
      BY <1>4, <2>3 DEF OpenAlternatives
    <2> QED BY <1>5, <1>6, <2>1, <2>2, <2>4
  <1>8. CASE switch # NoSwitch
    <2>1. /\ outcome \in 0..NumCases /\ outcome' = outcome
          /\ \A k \in 0..NumCases : CaseCall(k)' = CaseCall(k)
          /\ \A k \in 0..NumCases : CaseSet(switch, k)' = CaseSet(switch, k)
      BY <1>1, <1>3, <1>8, CaseFacts DEF outcome, CaseCall, CaseSet
    <2>2. \A k \in 0..NumCases :
            /\ CaseSet(switch, k) \subseteq InputSpace
            /\ \A i \in InputSpace : i \in CaseSet(switch, k) <=> switch[i] = k
            /\ CaseCall(k).constraint = CaseSet(switch, k)
            /\ CaseCall(k).taken = (k = outcome)
      BY <1>1, <1>8, CaseFacts
    <2>3. NoSwitchState'
      BY <1>3, <1>8 DEF NoSwitchState
    <2>4. CacheState'
      <3>1. pc # "case"
        BY <1>4
      <3>2. /\ Len(cache) = NumCases
            /\ \A k \in 1..NumCases : cache[k] = CaseCall(k)
            /\ taken_constraint = IF outcome \in 1..index THEN outcome ELSE 0
        BY <1>8, <3>1 DEF PathInv, CacheState
      <3> QED BY <1>3, <1>4, <1>8, <2>1, <3>2 DEF CacheState
    <2>5. /\ CaseSet(switch, outcome) \subseteq Actual(call)
          /\ index \in 1..NumCases => /\ index # outcome
                                      /\ Actual(call) = InputSpace \ CaseSet(switch, index)
          /\ index \notin 1..NumCases =>
               index = NumCases + 1 /\ Actual(call) = CaseSet(switch, outcome)
      <3>1. CASE index \in 1..NumCases /\ index # outcome /\ call = CaseCall(index)
        <4>1. /\ call.constraint = CaseSet(switch, index)
              /\ call.taken = (index = outcome)
          BY <2>2, <3>1
        <4>2. Actual(call) = InputSpace \ CaseSet(switch, index)
          BY <3>1, <4>1 DEF Actual
        <4> QED BY <2>1, <2>2, <3>1, <4>2
      <3>2. CASE index = NumCases + 1 /\ outcome # 0 /\ call = CaseCall(outcome)
        <4>1. Actual(call) = CaseSet(switch, outcome)
          BY <2>1, <2>2, <3>2 DEF Actual
        <4> QED BY <1>1, <3>2, <4>1
      <3> QED BY <1>8, <3>1, <3>2 DEF PathInv, PushedCase
    <2>6. PathInProgress'
      <3>1. path = solver \cap CaseSet(switch, outcome)
        BY <1>8 DEF PathInv, PathInProgress
      <3>2. path' = solver' \cap CaseSet(switch, outcome)
        BY <2>5, <3>1
      <3> QED BY <1>3, <1>8, <2>1, <3>2 DEF PathInProgress
    <2>7. Excluded'
      <3> SUFFICES ASSUME NEW k \in 1..NumCases, k # outcome, k <= index
                   PROVE  solver' \cap CaseSet(switch, k) = {}
        BY <1>1, <1>3, <1>4, <2>1 DEF Excluded
      <3>1. CASE k = index
        BY <2>5, <3>1
      <3>2. CASE k < index
        <4>1. solver \cap CaseSet(switch, k) = {}
          BY <1>4, <1>8, <3>2 DEF PathInv, Excluded
        <4> QED BY <4>1
      <3> QED BY <1>1, <3>1, <3>2
    <2>8. TakenAsserted'
      BY <1>1, <1>3, <2>1, <2>5 DEF TakenAsserted
    <2>9. OpenCases' = OpenCases
      BY <1>1, <1>3, <1>4, <1>8, <2>1 DEF OpenCases
    <2>10. OpenAlternatives' = {CaseSet(switch, k) : k \in OpenCases}
      BY <1>3, <1>4, <2>9 DEF OpenAlternatives, CaseSet
    <2>11. ASSUME NEW k \in OpenCases
           PROVE  solver' \cap CaseSet(switch, k) = solver \cap CaseSet(switch, k)
      <3>1. /\ k \in 0..NumCases /\ k # outcome /\ k # index
            /\ k > index \/ (k = 0 /\ index <= NumCases)
        BY <1>1, <1>4, <2>5 DEF OpenCases
      <3>2. index \in 1..NumCases
        BY <1>1, <2>5, <3>1
      <3>3. Actual(call) = InputSpace \ CaseSet(switch, index)
        BY <2>5, <3>2
      <3>4. CaseSet(switch, k) \subseteq InputSpace \ CaseSet(switch, index)
        BY <2>2, <3>1, <3>2
      <3> QED BY <3>3, <3>4
    <2> QED BY <1>5, <1>6, <2>3, <2>4, <2>6, <2>7, <2>8, <2>10, <2>11
  <1> QED BY <1>7, <1>8

\* A constraint that Z3_simplify reduces to true or false.
LEMMA TrivialStep == PathInv /\ Trivial => PathInv'
  <1> SUFFICES ASSUME PathInv, Trivial PROVE PathInv'
    OBVIOUS
  <1>1. /\ TypeInv /\ call \in Calls /\ call.taken = (input \in call.constraint)
        /\ pc = "solve" /\ failed = "none" /\ Pushing
        /\ call.constraint \in {{}, InputSpace}
    BY DEF PathInv, CallIsOutcome, TypeInv, Trivial, At, Pushing
  <1>2. call.taken = (call.constraint = InputSpace)
    BY <1>1 DEF TypeInv
  <1>3. /\ pc' = Caller /\ failed' = failed /\ input' = input /\ solver' = solver
        /\ UNCHANGED switchVars /\ call' = call /\ generated' = generated
        /\ path' = path /\ wanted' = wanted /\ timedOut' = timedOut
    BY <1>2 DEF Trivial, history
  <1>4. Actual(call) = InputSpace /\ Alternative(call) = {}
    BY <1>1, <1>2 DEF Actual, Alternative
  <1>5. solver' = solver \cap Actual(call)
    BY <1>1, <1>3, <1>4 DEF TypeInv
  <1>6. /\ NoSwitchState' /\ CallIsOutcome' /\ CacheState' /\ PushedCase'
        /\ Excluded' /\ TakenAsserted' /\ PathInProgress' /\ InputSatisfiesPath'
        /\ OpenAlternatives' = {CaseSet(switch, k) : k \in OpenCases}
    BY <1>1, <1>3, <1>5, PushReturns
  <1>7. TypeInv'
    BY <1>1, <1>3 DEF TypeInv, switchVars, Caller
  <1>8. InternalAssertionsHold' /\ GeneratedInputsDiverge'
    BY <1>3 DEF PathInv, InternalAssertionsHold, GeneratedInputsDiverge
  <1>9. \A a : a \in OpenAlternatives <=> a \in OpenAlternatives' \/ a = {}
    BY <1>1, <1>4, <1>6 DEF OpenAlternatives
  <1>10. OpenAreWanted' /\ WantedState'
    BY <1>3, <1>9 DEF PathInv, OpenAreWanted, WantedState
  <1> QED BY <1>6, <1>7, <1>8, <1>10 DEF PathInv

\* The alternative is solved for and the solver is as before.
LEMMA SolveStep == PathInv /\ SolveAlternative => PathInv'
  <1> SUFFICES ASSUME PathInv, SolveAlternative PROVE PathInv'
    OBVIOUS
  <1>1. /\ TypeInv /\ pc = "solve" /\ failed = "none" /\ pc' = "assert"
        /\ timedOut \in BOOLEAN
    BY DEF PathInv, SolveAlternative, At, TypeInv
  <1>2. /\ input' = input /\ solver' = solver /\ cache' = cache
        /\ taken_constraint' = taken_constraint /\ index' = index
        /\ switch' = switch /\ call' = call /\ failed' = failed
        /\ path' = path /\ wanted' = wanted
    BY DEF SolveAlternative, history, switchVars
  <1> DEFINE s == solver \cap Alternative(call)
  <1>3. \/ /\ s # {} /\ \E model \in s : generated' = generated \cup {model}
           /\ timedOut' = timedOut
        \/ generated' = generated /\ timedOut' = timedOut /\ s = {}
        \/ generated' = generated /\ timedOut' = TRUE
    <2>1. PICK result \in CheckResults(s) :
            /\ IF result = "true"
               THEN \E model \in s : generated' = generated \cup {model}
               ELSE UNCHANGED generated
            /\ timedOut' = (timedOut \/ result = "undef")
      BY DEF SolveAlternative
    <2>2. \/ result = "true" /\ s # {}
          \/ result = "false" /\ s = {}
          \/ result = "undef"
      BY <2>1 DEF CheckResults
    <2> HIDE DEF s
    <2> QED BY <1>1, <2>1, <2>2
  <1>4. s \subseteq InputSpace
    BY <1>1 DEF TypeInv
  <1>5. OpenCases' = OpenCases /\ OpenAlternatives' = {CaseSet(switch, k) : k \in OpenCases}
    <2>1. OpenCases' = OpenCases
      BY <1>1, <1>2 DEF OpenCases, outcome
    <2> QED BY <1>1, <1>2, <2>1 DEF OpenAlternatives, CaseSet
  <1>6. \A a : a \in OpenAlternatives <=> a \in OpenAlternatives' \/ a = Alternative(call)
    BY <1>1, <1>5 DEF OpenAlternatives
  <1>7. TypeInv'
    <2>1. generated' \subseteq InputSpace /\ timedOut' \in BOOLEAN
      BY <1>1, <1>3, <1>4 DEF TypeInv
    <2> QED BY <1>1, <1>2, <2>1 DEF TypeInv
  <1>8. /\ InputSatisfiesPath' /\ CallIsOutcome' /\ NoSwitchState' /\ TakenAsserted'
    BY <1>1, <1>2 DEF PathInv, InputSatisfiesPath, CallIsOutcome, NoSwitchState,
                      TakenAsserted, Pushing
  <1>9. InternalAssertionsHold'
    BY <1>1, <1>2 DEF InternalAssertionsHold
  <1>10. CacheState' /\ PushedCase' /\ Excluded'
    BY <1>1, <1>2 DEF PathInv, CacheState, PushedCase, Excluded, Pushing, outcome,
                      CaseCall, CaseSet
  <1>11. PathInProgress'
    BY <1>1, <1>2 DEF PathInv, PathInProgress, Pushing, outcome, CaseSet, Actual
  <1>12. s # {} => s \in wanted
    BY <1>6 DEF PathInv, OpenAreWanted
  <1>13. GeneratedInputsDiverge'
    BY <1>2, <1>3, <1>12 DEF PathInv, GeneratedInputsDiverge
  <1>14. OpenAreWanted'
    BY <1>2, <1>6 DEF PathInv, OpenAreWanted
  <1>15. WantedState'
    <2> SUFFICES ASSUME NEW w \in wanted
                 PROVE  /\ w # {}
                        /\ \/ timedOut' \/ w \cap generated' # {}
                           \/ \E a \in OpenAlternatives' : w = solver \cap a
      BY <1>2 DEF WantedState
    <2>1. /\ w # {}
          /\ \/ timedOut \/ w \cap generated # {} \/ w = s
             \/ \E a \in OpenAlternatives' : w = solver \cap a
      BY <1>6 DEF PathInv, WantedState
    <2> HIDE DEF s
    <2> QED BY <1>1, <1>3, <2>1
  <1> QED BY <1>7, <1>8, <1>9, <1>10, <1>11, <1>13, <1>14, <1>15 DEF PathInv

\* The actual constraint is asserted.
LEMMA AssertStep == PathInv /\ AssertActual => PathInv'
  <1> SUFFICES ASSUME PathInv, AssertActual PROVE PathInv'
    OBVIOUS
  <1>1. /\ TypeInv /\ pc = "assert" /\ failed = "none" /\ Pushing
        /\ timedOut \in BOOLEAN
    BY DEF PathInv, TypeInv, AssertActual, At, Pushing
  <1>2. /\ pc' = Caller /\ solver' = solver \cap Actual(call) /\ input' = input
        /\ UNCHANGED switchVars /\ call' = call /\ generated' = generated
        /\ path' = path /\ wanted' = wanted
    BY DEF AssertActual, history
  <1>3. /\ NoSwitchState' /\ CallIsOutcome' /\ CacheState' /\ PushedCase'
        /\ Excluded' /\ TakenAsserted' /\ PathInProgress' /\ InputSatisfiesPath'
        /\ OpenAlternatives' = {CaseSet(switch, k) : k \in OpenCases}
        /\ \A a \in OpenAlternatives' : solver' \cap a = solver \cap a
    BY <1>1, <1>2, PushReturns
  <1>4. solver' # {}
    BY <1>3 DEF InputSatisfiesPath
  <1>5. \/ failed' = "none" /\ timedOut' = timedOut
        \/ failed' = "Asserting infeasible path constraint" /\ timedOut' = TRUE
    <2>1. PICK result \in CheckResults(solver') :
            /\ failed' = IF result = "true" THEN "none"
                         ELSE "Asserting infeasible path constraint"
            /\ timedOut' = (timedOut \/ result = "undef")
      BY DEF AssertActual
    <2>2. result \in {"true", "undef"}
      BY <1>4, <2>1 DEF CheckResults
    <2> QED BY <1>1, <2>1, <2>2
  <1>6. TypeInv'
    BY <1>1, <1>2, <1>5 DEF TypeInv, switchVars, Caller
  <1>7. InternalAssertionsHold' /\ GeneratedInputsDiverge'
    BY <1>2, <1>4, <1>5 DEF PathInv, InternalAssertionsHold, GeneratedInputsDiverge
  <1>8. OpenAlternatives' = OpenAlternatives
    BY <1>1, <1>3 DEF OpenAlternatives
  <1>9. OpenAreWanted' /\ WantedState'
    <2>1. OpenAreWanted'
      BY <1>2, <1>3, <1>8 DEF PathInv, OpenAreWanted
    <2>2. timedOut => timedOut'
      BY <1>5
    <2>3. \A a \in OpenAlternatives' : solver' \cap a = solver \cap a
      BY <1>3
    <2>4. WantedState'
      <3> SUFFICES ASSUME NEW w \in wanted
                   PROVE  /\ w # {}
                          /\ \/ timedOut' \/ w \cap generated # {}
                             \/ \E a \in OpenAlternatives' : w = solver' \cap a
        BY <1>2 DEF WantedState
      <3>1. /\ w # {}
            /\ \/ timedOut \/ w \cap generated # {}
               \/ \E a \in OpenAlternatives' : w = solver \cap a
        BY <1>8 DEF PathInv, WantedState
      <3> QED BY <2>2, <2>3, <3>1
    <2> QED BY <2>1, <2>4
  <1> QED BY <1>3, <1>6, <1>7, <1>9 DEF PathInv

\* A step that changes nothing.
LEMMA PathStutter == PathInv /\ UNCHANGED vars => PathInv'
  <1> SUFFICES ASSUME PathInv, UNCHANGED vars PROVE PathInv'
    OBVIOUS
  <1>1. /\ input' = input /\ solver' = solver /\ cache' = cache
        /\ taken_constraint' = taken_constraint /\ index' = index /\ switch' = switch
        /\ call' = call /\ pc' = pc /\ generated' = generated /\ failed' = failed
        /\ path' = path /\ wanted' = wanted /\ timedOut' = timedOut
    BY DEF vars, switchVars, history
  <1>2. TypeInv'
    BY <1>1 DEF PathInv, TypeInv
  <1>3. InputSatisfiesPath' /\ InternalAssertionsHold' /\ GeneratedInputsDiverge'
    BY <1>1 DEF PathInv, InputSatisfiesPath, InternalAssertionsHold,
                GeneratedInputsDiverge
  <1>4. CallIsOutcome' /\ NoSwitchState' /\ CacheState' /\ PushedCase'
    BY <1>1 DEF PathInv, CallIsOutcome, NoSwitchState, CacheState, PushedCase, Pushing,
                outcome, CaseCall, CaseSet
  <1>5. Excluded' /\ TakenAsserted' /\ PathInProgress'
    BY <1>1 DEF PathInv, Excluded, TakenAsserted, PathInProgress, Pushing, outcome,
                CaseSet, Actual
  <1>6. OpenAlternatives' = OpenAlternatives
    BY <1>1 DEF OpenAlternatives, OpenCases, outcome, CaseSet, Alternative
  <1>7. OpenAreWanted' /\ WantedState'
    BY <1>1, <1>6 DEF PathInv, OpenAreWanted, WantedState
  <1> QED BY <1>2, <1>3, <1>4, <1>5, <1>7 DEF PathInv

\* The collection of path constraints keeps its invariant, whatever the program
\* decides and whether the solver answers in time or not.
THEOREM PathInvariance == Spec => []PathInv
  <1>1. PathInv /\ [Next]_vars => PathInv'
    <2> SUFFICES ASSUME PathInv, [Next]_vars PROVE PathInv'
      OBVIOUS
    <2>1. ASSUME NEW c \in SUBSET InputSpace, Branch(c) PROVE PathInv'
      <3>1. /\ Returned /\ Decide({c, InputSpace \ c}) /\ pc' = "solve"
            /\ call' = [constraint |-> c, taken |-> input \in c]
            /\ UNCHANGED <<input, solver, switchVars, generated, failed, timedOut>>
        BY <2>1, Zenon DEF Branch
      <3> QED BY <3>1, TwoWayStep
    <2>2. ASSUME NEW c \in SUBSET InputSpace, Concretize(c) PROVE PathInv'
      <3>1. /\ Returned /\ Decide({c, InputSpace \ c}) /\ pc' = "solve"
            /\ call' = [constraint |-> c, taken |-> TRUE] /\ input \in c
            /\ UNCHANGED <<input, solver, switchVars, generated, failed, timedOut>>
        BY <2>2, Zenon DEF Concretize
      <3>2. (input \in c) = TRUE
        BY <3>1
      <3>3. call' = [constraint |-> c, taken |-> input \in c]
        BY <3>1, <3>2, Zenon
      <3> QED BY <3>1, <3>3, TwoWayStep
    <2>3. ASSUME NEW s \in Switches, Switch(s) PROVE PathInv'
      BY <2>3, SwitchStep
    <2>4. CASE _sym_push_switch_constraint
      BY <2>4, CacheCaseStep, PushNotTakenStep, PushTakenStep, ClearCacheStep
         DEF _sym_push_switch_constraint
    <2>5. CASE _sym_push_path_constraint
      BY <2>5, TrivialStep, SolveStep, AssertStep DEF _sym_push_path_constraint
    <2>6. CASE UNCHANGED vars
      BY <2>6, PathStutter
    <2> QED BY <2>1, <2>2, <2>3, <2>4, <2>5, <2>6 DEF Next
  <1> QED BY <1>1, PathInit, PTL DEF Spec

\* The current input satisfies all that has been asserted, also between the
\* cases of a switch (_sym_push_path_constraint).
THEOREM PathFeasible == Spec => []InputSatisfiesPath
  <1>1. PathInv => InputSatisfiesPath
    BY DEF PathInv
  <1> QED BY <1>1, PathInvariance, PTL

\* When the program runs, the solver holds exactly the path condition
\* (_sym_push_path_constraint, _sym_push_switch_constraint).
THEOREM PathConditionExact == Spec => []SolverHoldsPathCondition
  <1>1. PathInv => SolverHoldsPathCondition
    <2> SUFFICES ASSUME PathInv, Returned PROVE solver = path
      BY DEF SolverHoldsPathCondition
    <2>1. pc = "program" /\ switch = NoSwitch
      BY DEF Returned, At, PathInv, CacheState
    <2> QED BY <2>1 DEF PathInv, PathInProgress, Pushing
  <1> QED BY <1>1, PathInvariance, PTL

\* No alternative of a branch, a concretization or a switch is missed unless the
\* solver gives up (_sym_push_switch_constraint pushes the taken case last).
THEOREM AlternativesComplete == Spec => []EveryAlternativeGenerated
  <1>1. PathInv => EveryAlternativeGenerated
    <2> SUFFICES ASSUME PathInv, Returned, ~timedOut, NEW w \in wanted
                 PROVE  w \cap generated # {}
      BY DEF EveryAlternativeGenerated
    <2>1. pc = "program" /\ switch = NoSwitch
      BY DEF Returned, At, PathInv, CacheState
    <2>2. OpenAlternatives = {}
      BY <2>1 DEF OpenAlternatives, OpenCases
    <2> QED BY <2>2 DEF PathInv, WantedState
  <1> QED BY <1>1, PathInvariance, PTL

\* Every generated input agrees with the execution up to a decision and goes
\* another way there.
THEOREM AlternativesDiverge == Spec => []GeneratedInputsDiverge
  <1>1. PathInv => GeneratedInputsDiverge
    BY DEF PathInv
  <1> QED BY <1>1, PathInvariance, PTL

\* The assertions of RuntimeCommon.cpp and simple_backend/Runtime.cpp hold, but
\* for the one that a timeout of the solver violates.
THEOREM AssertionsHold == Spec => []InternalAssertionsHold
  <1>1. PathInv => InternalAssertionsHold
    BY DEF PathInv
  <1> QED BY <1>1, PathInvariance, PTL

\* A nonempty set of natural numbers has a least element.
LEMMA LeastNat ==
  ASSUME NEW S, S \subseteq Nat, S # {}
  PROVE  \E x \in S : \A y \in S : x <= y
  <1> DEFINE less == {p \in Nat \X Nat : p[1] < p[2]}
  <1>1. IsWellFoundedOn(less, Nat)
    BY NatLessThanWellFounded, Zenon DEF OpToRel
  <1> HIDE DEF less
  <1>2. \E x \in S : \A y \in S : ~(<<y, x>> \in less)
    BY <1>1, WFMin
  <1>3. \A x, y \in Nat : <<y, x>> \in less <=> y < x
    BY DEF less
  <1>4. PICK x \in S : \A y \in S : ~(<<y, x>> \in less)
    BY <1>2
  <1>5. ASSUME NEW y \in S PROVE x <= y
    <2>1. x \in Nat /\ y \in Nat
      OBVIOUS
    <2>2. ~(y < x)
      BY <1>3, <1>4, <2>1
    <2> QED BY <2>1, <2>2
  <1> QED BY <1>5

\* Induction: a set of natural numbers that is not all of them has a least
\* number missing.
LEMMA LeastMissing ==
  ASSUME NEW S, \A n \in Nat : (\A m \in 0..n-1 : m \in S) => n \in S
  PROVE  \A n \in Nat : n \in S
  <1> SUFFICES ASSUME Nat \ S # {} PROVE FALSE
    OBVIOUS
  <1>1. PICK n \in Nat \ S : \A y \in Nat \ S : n <= y
    BY LeastNat
  <1>2. ASSUME NEW m \in 0..n-1 PROVE m \in S
    <2>1. m \in Nat /\ ~(n <= m)
      OBVIOUS
    <2> QED BY <1>1, <2>1
  <1> QED BY <1>1, <1>2

(***************************************************************************)
(* The functions that are recursive over the height of an expression.      *)
(***************************************************************************)

\* What they are at height h, from what they are below.
TermLayer(H, h, below) ==
  [a \in Address |->
     <<H[a].op, H[a].name,
       [k \in DOMAIN H[a].args |-> IF h = 0 THEN <<>> ELSE below[H[a].args[k]]]>>]

HeightLayer(H, h, below) ==
  {a \in Address : \A k \in DOMAIN H[a].args : h > 0 /\ H[a].args[k] \in below}

WidthLayer(H, h, below) ==
  [a \in Address |->
     LET W(k) == IF h = 0 THEN 0 ELSE below[H[a].args[k]]
     IN  CASE H[a].op = "byte" -> 8
           [] H[a].op = "integer128" -> 128
           [] H[a].op \in {"not", "add"} -> W(1)
           [] H[a].op = "extend" -> W(1) + 8
           [] H[a].op = "truncate" -> 8
           [] H[a].op = "concat" -> W(1) + W(2)
           [] OTHER -> 0]

\* The provers cannot be given an operator; they can be given its name.
Layer(what, H, h, below) ==
  IF what = "terms" THEN TermLayer(H, h, below)
  ELSE IF what = "heights" THEN HeightLayer(H, h, below)
  ELSE WidthLayer(H, h, below)

Layered(what, H, f) == \A h \in Nat : f[h] = Layer(what, H, h, f[h - 1])

\* Nothing is below the lowest layer.
LEMMA LowestLayer ==
  ASSUME NEW what, NEW H, NEW x, NEW y
  PROVE  Layer(what, H, 0, x) = Layer(what, H, 0, y)
  <1>1. TermLayer(H, 0, x) = TermLayer(H, 0, y)
    BY Zenon DEF TermLayer
  <1>2. HeightLayer(H, 0, x) = HeightLayer(H, 0, y)
    BY DEF HeightLayer
  <1>3. WidthLayer(H, 0, x) = WidthLayer(H, 0, y)
    BY Zenon DEF WidthLayer
  <1> QED BY <1>1, <1>2, <1>3, Zenon DEF Layer

\* There is a function that is built layer by layer.
LEMMA LayersExist ==
  ASSUME NEW what, NEW H
  PROVE  \E f : f = [h \in Nat |-> Layer(what, H, h, f[h - 1])]
  <1> DEFINE Built(g, n) == \A h \in 0..n : g[h] = Layer(what, H, h, g[h - 1])
             L(h, x) == Layer(what, H, h, x)
  <1>0. \A x, y : L(0, x) = L(0, y)
    BY LowestLayer
  <1> HIDE DEF L
  <1>1. \A n \in Nat : \E g : Built(g, n)
    <2> DEFINE S == {n \in Nat : \E g : Built(g, n)}
    <2>1. ASSUME NEW n \in Nat, \A m \in 0..n-1 : m \in S
          PROVE  n \in S
      <3>1. CASE n = 0
        <4> DEFINE g == [h \in {0} |-> L(0, 0)]
        <4>1. g[0] = L(0, g[0 - 1])
          BY <1>0
        <4> HIDE DEF g
        <4>2. Built(g, 0)
          BY <4>1 DEF L
        <4> QED BY <3>1, <4>2
      <3>2. CASE n > 0
        <4>1. n - 1 \in S
          BY <2>1, <3>2
        <4>2. PICK g : Built(g, n - 1)
          BY <4>1
        <4> DEFINE f == [h \in 0..n |-> IF h < n THEN g[h] ELSE L(n, g[n - 1])]
        <4>3. ASSUME NEW h \in 0..n PROVE f[h] = L(h, f[h - 1])
          <5>1. CASE h = n
            <6>1. f[h] = L(n, g[n - 1]) /\ f[n - 1] = g[n - 1]
              BY <3>2, <5>1
            <6> QED BY <5>1, <6>1
          <5>2. CASE h = 0
            <6>1. f[0] = g[0]
              BY <3>2
            <6>2. g[0] = L(0, g[0 - 1])
              BY <3>2, <4>2 DEF L
            <6>3. L(0, g[0 - 1]) = L(0, f[0 - 1])
              BY <1>0
            <6> HIDE DEF f
            <6> QED BY <5>2, <6>1, <6>2, <6>3
          <5>3. CASE h > 0 /\ h < n
            <6>1. f[h] = g[h] /\ f[h - 1] = g[h - 1]
              BY <5>3
            <6>2. g[h] = L(h, g[h - 1])
              BY <4>2, <5>3 DEF L
            <6> HIDE DEF f
            <6> QED BY <6>1, <6>2
          <5> QED BY <5>1, <5>2, <5>3
        <4> HIDE DEF f
        <4>4. Built(f, n)
          BY <4>3 DEF L
        <4> HIDE DEF Built
        <4> QED BY <4>4
      <3> QED BY <3>1, <3>2
    <2> HIDE DEF S
    <2>2. \A n \in Nat : n \in S
      BY <2>1, LeastMissing
    <2> QED BY <2>2 DEF S
  <1>2. ASSUME NEW n \in Nat, NEW m \in Nat, NEW f, NEW g, Built(f, n), Built(g, m),
               n <= m
        PROVE  \A h \in 0..n : f[h] = g[h]
    <2> DEFINE S == {h \in Nat : h <= n => f[h] = g[h]}
    <2>1. ASSUME NEW h \in Nat, \A k \in 0..h-1 : k \in S
          PROVE  h \in S
      <3> SUFFICES ASSUME h <= n PROVE f[h] = g[h]
        OBVIOUS
      <3>1. f[h] = L(h, f[h - 1]) /\ g[h] = L(h, g[h - 1])
        BY <1>2 DEF L
      <3>2. CASE h = 0
        BY <1>0, <3>1, <3>2, Zenon
      <3>3. CASE h > 0
        <4>1. f[h - 1] = g[h - 1]
          <5>1. h - 1 \in 0..h-1
            BY <3>3
          <5>2. h - 1 \in S
            BY <2>1, <5>1
          <5> QED BY <5>2
        <4> QED BY <3>1, <4>1
      <3> QED BY <3>2, <3>3
    <2> HIDE DEF S
    <2>2. \A h \in Nat : h \in S
      BY <2>1, LeastMissing
    <2> QED BY <2>2 DEF S
  <1> DEFINE G(n) == CHOOSE g : Built(g, n)
             f == [n \in Nat |-> G(n)[n]]
  <1>3. \A n \in Nat : Built(G(n), n)
    BY <1>1, Zenon
  <1> HIDE DEF G, Built
  <1>4. ASSUME NEW h \in Nat PROVE f[h] = L(h, f[h - 1])
    <2>1. Built(G(h), h)
      BY <1>3
    <2>2. G(h)[h] = L(h, G(h)[h - 1])
      BY <2>1 DEF Built, L
    <2>3. f[h] = G(h)[h]
      OBVIOUS
    <2>4. CASE h = 0
      <3> HIDE DEF f
      <3> QED BY <1>0, <2>2, <2>3, <2>4, Zenon
    <2>5. CASE h > 0
      <3>1. h - 1 \in Nat /\ h - 1 <= h /\ h - 1 \in 0..h-1
        BY <2>5
      <3>2. Built(G(h - 1), h - 1)
        BY <1>3, <3>1
      <3>3. \A k \in 0..h-1 : G(h - 1)[k] = G(h)[k]
        BY <1>2, <2>1, <3>1, <3>2
      <3>4. f[h - 1] = G(h)[h - 1]
        BY <3>1, <3>3
      <3> QED BY <2>2, <2>3, <3>4
    <2> QED BY <2>4, <2>5
  <1>5. f = [h \in Nat |-> L(h, f[h - 1])]
    <2> DEFINE F == [h \in Nat |-> L(h, f[h - 1])]
    <2>1. \A h \in Nat : F[h] = f[h]
      BY <1>4
    <2>2. DOMAIN f = Nat /\ f = [h \in DOMAIN f |-> f[h]]
      OBVIOUS
    <2> HIDE DEF f
    <2> QED BY <2>1, <2>2
  <1> HIDE DEF f
  <1> QED BY <1>5, Zenon DEF L

\* The heights, terms and widths of the model are such functions.
LEMMA TermsLayered == Layered("terms", heap, TermsOfHeight)
  <1> DEFINE T(g) == [h \in Nat |-> TermLayer(heap, h, g[h - 1])]
  <1>1. \A g, h : Layer("terms", heap, h, g[h - 1]) = TermLayer(heap, h, g[h - 1])
    BY Zenon DEF Layer
  <1>2. \A g : T(g) = [h \in Nat |-> Layer("terms", heap, h, g[h - 1])]
    BY <1>1
  <1>3. PICK f : f = [h \in Nat |-> Layer("terms", heap, h, f[h - 1])]
    BY LayersExist, Zenon
  <1>4. \E g : g = T(g)
    <2>1. f = T(f)
      BY <1>2, <1>3, Zenon
    <2> HIDE DEF T
    <2> QED BY <2>1, Zenon
  <1>5. TermsOfHeight = T(TermsOfHeight)
    BY <1>4, Zenon DEF TermsOfHeight, TermLayer
  <1> HIDE DEF T
  <1>6. TermsOfHeight = [h \in Nat |-> Layer("terms", heap, h, TermsOfHeight[h - 1])]
    BY <1>2, <1>5, Zenon
  <1> QED BY <1>6, Zenon DEF Layered

\* Heights satisfies its own equation.
LEMMA HeightsLayered == Layered("heights", heap, Heights)
  <1> DEFINE T(g) == [h \in Nat |-> HeightLayer(heap, h, g[h - 1])]
  <1>1. \A g, h : Layer("heights", heap, h, g[h - 1]) = HeightLayer(heap, h, g[h - 1])
    BY Zenon DEF Layer
  <1>2. \A g : T(g) = [h \in Nat |-> Layer("heights", heap, h, g[h - 1])]
    BY <1>1
  <1>3. PICK f : f = [h \in Nat |-> Layer("heights", heap, h, f[h - 1])]
    BY LayersExist, Zenon
  <1>4. \E g : g = T(g)
    <2>1. f = T(f)
      BY <1>2, <1>3, Zenon
    <2> HIDE DEF T
    <2> QED BY <2>1, Zenon
  <1>5. Heights = T(Heights)
    BY <1>4, Zenon DEF Heights, HeightLayer
  <1> HIDE DEF T
  <1>6. Heights = [h \in Nat |-> Layer("heights", heap, h, Heights[h - 1])]
    BY <1>2, <1>5, Zenon
  <1> QED BY <1>6, Zenon DEF Layered

\* NodeWidths satisfies its own equation.
LEMMA WidthsLayered == Layered("widths", heap, NodeWidths)
  <1> DEFINE T(g) == [h \in Nat |-> WidthLayer(heap, h, g[h - 1])]
  <1>1. \A g, h : Layer("widths", heap, h, g[h - 1]) = WidthLayer(heap, h, g[h - 1])
    BY Zenon DEF Layer
  <1>2. \A g : T(g) = [h \in Nat |-> Layer("widths", heap, h, g[h - 1])]
    BY <1>1
  <1>3. PICK f : f = [h \in Nat |-> Layer("widths", heap, h, f[h - 1])]
    BY LayersExist, Zenon
  <1>4. \E g : g = T(g)
    <2>1. f = T(f)
      BY <1>2, <1>3, Zenon
    <2> HIDE DEF T
    <2> QED BY <2>1, Zenon
  <1>5. NodeWidths = T(NodeWidths)
    BY <1>4, Zenon DEF NodeWidths, WidthLayer
  <1> HIDE DEF T
  <1>6. NodeWidths = [h \in Nat |-> Layer("widths", heap, h, NodeWidths[h - 1])]
    BY <1>2, <1>5, Zenon
  <1> QED BY <1>6, Zenon DEF Layered


\* One layer, unfolded.
LEMMA TermAt ==
  ASSUME NEW H, NEW f, Layered("terms", H, f), NEW h \in Nat, NEW a \in Address
  PROVE  f[h][a] = <<H[a].op, H[a].name,
           [k \in DOMAIN H[a].args |-> IF h = 0 THEN <<>> ELSE f[h - 1][H[a].args[k]]]>>
  <1>1. f[h] = TermLayer(H, h, f[h - 1])
    BY Zenon DEF Layered, Layer
  <1> QED BY <1>1, Zenon DEF TermLayer

\* An expression has height at most h if its operands have less.
LEMMA HeightAt ==
  ASSUME NEW H, NEW f, Layered("heights", H, f), NEW h \in Nat, NEW a \in Address
  PROVE  a \in f[h] <=> \A k \in DOMAIN H[a].args : h > 0 /\ H[a].args[k] \in f[h - 1]
  <1>1. f[h] = HeightLayer(H, h, f[h - 1])
    BY Zenon DEF Layered, Layer
  <1> QED BY <1>1, Zenon DEF HeightLayer

\* A node is v bits wide if its first operand has x and its second y bits.
HasWidth(op, x, y, v) ==
  /\ op = "byte" => v = 8
  /\ op = "integer128" => v = 128
  /\ op \in {"not", "add"} => v = x
  /\ op = "extend" => v = x + 8
  /\ op = "truncate" => v = 8
  /\ op = "concat" => v = x + y
  /\ op \notin {"byte", "integer128", "not", "add", "extend", "truncate", "concat"}
       => v = 0

\* The width of a node, from those of its operands.
LEMMA WidthAt ==
  ASSUME NEW H, NEW f, Layered("widths", H, f), NEW h \in Nat, NEW a \in Address
  PROVE  HasWidth(H[a].op, IF h = 0 THEN 0 ELSE f[h - 1][H[a].args[1]],
                  IF h = 0 THEN 0 ELSE f[h - 1][H[a].args[2]], f[h][a])
  <1> DEFINE W(k) == IF h = 0 THEN 0 ELSE f[h - 1][H[a].args[k]]
  <1>1. f[h] = WidthLayer(H, h, f[h - 1])
    <2>1. f[h] = Layer("widths", H, h, f[h - 1])
      BY Zenon DEF Layered
    <2>2. "widths" # "terms" /\ "widths" # "heights"
      OBVIOUS
    <2> QED BY <2>1, <2>2, Zenon DEF Layer
  <1>2. f[h][a] = CASE H[a].op = "byte" -> 8
                    [] H[a].op = "integer128" -> 128
                    [] H[a].op \in {"not", "add"} -> W(1)
                    [] H[a].op = "extend" -> W(1) + 8
                    [] H[a].op = "truncate" -> 8
                    [] H[a].op = "concat" -> W(1) + W(2)
                    [] OTHER -> 0
    BY <1>1, Zenon DEF WidthLayer
  <1> HIDE DEF W
  <1>3. HasWidth(H[a].op, W(1), W(2), f[h][a])
    BY <1>2, Zenon DEF HasWidth
  <1> QED BY <1>3, Zenon DEF W

(***************************************************************************)
(* Nodes, and what their height, term and width depend on.                 *)
(***************************************************************************)

Arity(op) == IF op \in {"not", "extend", "truncate"} THEN 1
             ELSE IF op \in {"add", "equal", "concat"} THEN 2 ELSE 0

IsNode(n) == /\ DOMAIN n.args = 1..Arity(n.op)
             /\ \A k \in DOMAIN n.args : n.args[k] \in Address

Closed(T, H) == \A a \in T : \A k \in DOMAIN H[a].args : H[a].args[k] \in T

\* Where two heaps agree, on addresses that refer to each other only, the
\* expressions are the same.
LEMMA SameTerms ==
  ASSUME NEW H, NEW G, NEW f, NEW g, NEW T \in SUBSET Address, Closed(T, H),
         \A a \in T : H[a] = G[a],
         Layered("terms", H, f), Layered("terms", G, g)
  PROVE  \A h \in Nat : \A a \in T : f[h][a] = g[h][a]
  <1> DEFINE S == {h \in Nat : \A a \in T : f[h][a] = g[h][a]}
  <1>1. ASSUME NEW h \in Nat, \A m \in 0..h-1 : m \in S
        PROVE  h \in S
    <2> SUFFICES ASSUME NEW a \in T PROVE f[h][a] = g[h][a]
      OBVIOUS
    <2> DEFINE A(k) == IF h = 0 THEN <<>> ELSE f[h - 1][H[a].args[k]]
               B(k) == IF h = 0 THEN <<>> ELSE g[h - 1][H[a].args[k]]
    <2>1. a \in Address /\ G[a] = H[a]
      OBVIOUS
    <2>2. ASSUME NEW k \in DOMAIN H[a].args PROVE A(k) = B(k)
      <3>1. CASE h = 0
        BY <3>1, Zenon
      <3>2. CASE h > 0
        <4>1. h - 1 \in S
          BY <1>1, <3>2
        <4>2. H[a].args[k] \in T
          BY Zenon DEF Closed
        <4>3. f[h - 1][H[a].args[k]] = g[h - 1][H[a].args[k]]
          BY <4>1, <4>2, Zenon
        <4> QED BY <4>3, Zenon
      <3> QED BY <3>1, <3>2
    <2>3. f[h][a] = <<H[a].op, H[a].name, [k \in DOMAIN H[a].args |-> A(k)]>>
      BY <2>1, TermAt, ZenonT(40)
    <2>4. g[h][a] = <<G[a].op, G[a].name, [k \in DOMAIN G[a].args |->
             IF h = 0 THEN <<>> ELSE g[h - 1][G[a].args[k]]]>>
      BY <2>1, TermAt, ZenonT(40)
    <2>5. g[h][a] = <<H[a].op, H[a].name, [k \in DOMAIN H[a].args |-> B(k)]>>
      BY <2>1, <2>4, Zenon
    <2> HIDE DEF A, B
    <2>6. [k \in DOMAIN H[a].args |-> A(k)] = [k \in DOMAIN H[a].args |-> B(k)]
      BY <2>2, Zenon
    <2> QED BY <2>3, <2>5, <2>6, Zenon
  <1> HIDE DEF S
  <1>2. \A h \in Nat : h \in S
    BY <1>1, LeastMissing
  <1> QED BY <1>2 DEF S

\* See SameTerms: the heights are the same.
LEMMA SameHeights ==
  ASSUME NEW H, NEW G, NEW f, NEW g, NEW T \in SUBSET Address, Closed(T, H),
         \A a \in T : H[a] = G[a],
         Layered("heights", H, f), Layered("heights", G, g)
  PROVE  \A h \in Nat : \A a \in T : a \in f[h] <=> a \in g[h]
  <1> DEFINE S == {h \in Nat : \A a \in T : a \in f[h] <=> a \in g[h]}
  <1>1. ASSUME NEW h \in Nat, \A m \in 0..h-1 : m \in S
        PROVE  h \in S
    <2> SUFFICES ASSUME NEW a \in T PROVE a \in f[h] <=> a \in g[h]
      OBVIOUS
    <2>1. a \in Address /\ G[a] = H[a]
      OBVIOUS
    <2>2. a \in f[h] <=> \A k \in DOMAIN H[a].args : h > 0 /\ H[a].args[k] \in f[h - 1]
      BY <2>1, HeightAt, Zenon
    <2>3. a \in g[h] <=> \A k \in DOMAIN G[a].args : h > 0 /\ G[a].args[k] \in g[h - 1]
      BY <2>1, HeightAt, Zenon
    <2>4. ASSUME NEW k \in DOMAIN H[a].args, h > 0
          PROVE  H[a].args[k] \in f[h - 1] <=> H[a].args[k] \in g[h - 1]
      <3>1. h - 1 \in S
        BY <1>1, <2>4
      <3>2. H[a].args[k] \in T
        BY Zenon DEF Closed
      <3> QED BY <3>1, <3>2, Zenon
    <2> QED BY <2>1, <2>2, <2>3, <2>4, Zenon
  <1> HIDE DEF S
  <1>2. \A h \in Nat : h \in S
    BY <1>1, LeastMissing
  <1> QED BY <1>2 DEF S

\* See SameTerms: the widths are the same.
LEMMA SameWidths ==
  ASSUME NEW H, NEW G, NEW f, NEW g, NEW T \in SUBSET Address, Closed(T, H),
         \A a \in T : H[a] = G[a] /\ IsNode(H[a]),
         Layered("widths", H, f), Layered("widths", G, g)
  PROVE  \A h \in Nat : \A a \in T : f[h][a] = g[h][a]
  <1> DEFINE S == {h \in Nat : \A a \in T : f[h][a] = g[h][a]}
  <1>1. ASSUME NEW h \in Nat, \A m \in 0..h-1 : m \in S
        PROVE  h \in S
    <2> SUFFICES ASSUME NEW a \in T PROVE f[h][a] = g[h][a]
      OBVIOUS
    <2> DEFINE A(k) == IF h = 0 THEN 0 ELSE f[h - 1][H[a].args[k]]
               B(k) == IF h = 0 THEN 0 ELSE g[h - 1][H[a].args[k]]
    <2>1. a \in Address /\ G[a] = H[a] /\ IsNode(H[a])
      OBVIOUS
    <2>2. ASSUME NEW k \in DOMAIN H[a].args PROVE A(k) = B(k)
      <3>1. CASE h = 0
        BY <3>1, Zenon
      <3>2. CASE h > 0
        <4>1. h - 1 \in S
          BY <1>1, <3>2
        <4>2. H[a].args[k] \in T
          BY Zenon DEF Closed
        <4>3. f[h - 1][H[a].args[k]] = g[h - 1][H[a].args[k]]
          BY <4>1, <4>2, Zenon
        <4> QED BY <4>3, Zenon
      <3> QED BY <3>1, <3>2
    <2> HIDE DEF A, B
    <2>3. Arity(H[a].op) >= 1 => A(1) = B(1)
      BY <2>1, <2>2 DEF IsNode, Arity
    <2>4. Arity(H[a].op) >= 2 => A(2) = B(2)
      BY <2>1, <2>2 DEF IsNode, Arity
    <2>5. HasWidth(H[a].op, A(1), A(2), f[h][a])
      BY <2>1, WidthAt, Zenon DEF A
    <2>6. HasWidth(H[a].op, B(1), B(2), g[h][a])
      BY <2>1, WidthAt, Zenon DEF B
    <2> QED BY <2>3, <2>4, <2>5, <2>6 DEF Arity, HasWidth
  <1> HIDE DEF S
  <1>2. \A h \in Nat : h \in S
    BY <1>1, LeastMissing
  <1> QED BY <1>2 DEF S

\* An expression has every height from its own on, and its width does not
\* depend on the height it is computed for.
LEMMA HeightsGrow ==
  ASSUME NEW H, NEW f, Layered("heights", H, f), \A a \in Address : IsNode(H[a])
  PROVE  \A h \in Nat : \A m \in Nat : \A a \in Address :
           h <= m /\ a \in f[h] => a \in f[m]
  <1> DEFINE S == {h \in Nat : \A m \in Nat : \A a \in Address :
                                 h <= m /\ a \in f[h] => a \in f[m]}
  <1>1. ASSUME NEW h \in Nat, \A m \in 0..h-1 : m \in S
        PROVE  h \in S
    <2> SUFFICES ASSUME NEW m \in Nat, NEW a \in Address, h <= m, a \in f[h]
                 PROVE  a \in f[m]
      OBVIOUS
    <2>1. ASSUME NEW k \in DOMAIN H[a].args PROVE m > 0 /\ H[a].args[k] \in f[m - 1]
      <3>1. h > 0 /\ H[a].args[k] \in f[h - 1]
        BY HeightAt, Zenon
      <3>2. H[a].args[k] \in Address
        BY Zenon DEF IsNode
      <3>3. h - 1 \in S
        BY <1>1, <3>1
      <3>4. m > 0 /\ m - 1 \in Nat /\ h - 1 <= m - 1
        BY <3>1
      <3> QED BY <3>1, <3>2, <3>3, <3>4, Zenon
    <2> QED BY <2>1, HeightAt, Zenon
  <1> HIDE DEF S
  <1>2. \A h \in Nat : h \in S
    BY <1>1, LeastMissing
  <1> QED BY <1>2 DEF S

\* The width of an expression of height h is the same in all layers above.
LEMMA WidthsSettle ==
  ASSUME NEW H, NEW f, NEW w, Layered("heights", H, f), Layered("widths", H, w),
         \A a \in Address : IsNode(H[a])
  PROVE  \A h \in Nat : \A m \in Nat : \A a \in Address :
           h <= m /\ a \in f[h] => w[h][a] = w[m][a]
  <1> DEFINE S == {h \in Nat : \A m \in Nat : \A a \in Address :
                                 h <= m /\ a \in f[h] => w[h][a] = w[m][a]}
  <1>1. ASSUME NEW h \in Nat, \A m \in 0..h-1 : m \in S
        PROVE  h \in S
    <2> SUFFICES ASSUME NEW m \in Nat, NEW a \in Address, h <= m, a \in f[h]
                 PROVE  w[h][a] = w[m][a]
      OBVIOUS
    <2> DEFINE A(k) == IF h = 0 THEN 0 ELSE w[h - 1][H[a].args[k]]
               B(k) == IF m = 0 THEN 0 ELSE w[m - 1][H[a].args[k]]
    <2>1. ASSUME NEW k \in DOMAIN H[a].args PROVE A(k) = B(k)
      <3>1. h > 0 /\ H[a].args[k] \in f[h - 1]
        BY HeightAt, Zenon
      <3>2. H[a].args[k] \in Address
        BY Zenon DEF IsNode
      <3>3. h - 1 \in S
        BY <1>1, <3>1
      <3>4. m - 1 \in Nat /\ h - 1 <= m - 1 /\ h # 0 /\ m # 0
        BY <3>1
      <3>5. w[h - 1][H[a].args[k]] = w[m - 1][H[a].args[k]]
        BY <3>1, <3>2, <3>3, <3>4, Zenon
      <3> QED BY <3>4, <3>5, Zenon
    <2> HIDE DEF A, B
    <2>2. Arity(H[a].op) >= 1 => A(1) = B(1)
      BY <2>1 DEF IsNode, Arity
    <2>3. Arity(H[a].op) >= 2 => A(2) = B(2)
      BY <2>1 DEF IsNode, Arity
    <2>4. HasWidth(H[a].op, A(1), A(2), w[h][a])
      BY WidthAt, Zenon DEF A
    <2>5. HasWidth(H[a].op, B(1), B(2), w[m][a])
      BY WidthAt, Zenon DEF B
    <2> QED BY <2>2, <2>3, <2>4, <2>5 DEF Arity, HasWidth
  <1> HIDE DEF S
  <1>2. \A h \in Nat : h \in S
    BY <1>1, LeastMissing
  <1> QED BY <1>2 DEF S

\* Every node has a width.
LEMMA WidthsAreNumbers ==
  ASSUME NEW H, NEW w, Layered("widths", H, w), \A a \in Address : IsNode(H[a])
  PROVE  \A h \in Nat : \A a \in Address : w[h][a] \in Nat
  <1> DEFINE S == {h \in Nat : \A a \in Address : w[h][a] \in Nat}
  <1>1. ASSUME NEW h \in Nat, \A m \in 0..h-1 : m \in S
        PROVE  h \in S
    <2> SUFFICES ASSUME NEW a \in Address PROVE w[h][a] \in Nat
      OBVIOUS
    <2> DEFINE A(k) == IF h = 0 THEN 0 ELSE w[h - 1][H[a].args[k]]
    <2>1. ASSUME NEW k \in DOMAIN H[a].args PROVE A(k) \in Nat
      <3>1. H[a].args[k] \in Address
        BY Zenon DEF IsNode
      <3>2. CASE h = 0
        BY <3>2
      <3>3. CASE h > 0
        <4>1. h - 1 \in S
          BY <1>1, <3>3
        <4> QED BY <3>1, <3>3, <4>1
      <3> QED BY <3>2, <3>3
    <2> HIDE DEF A
    <2>2. Arity(H[a].op) >= 1 => A(1) \in Nat
      BY <2>1 DEF IsNode, Arity
    <2>3. Arity(H[a].op) >= 2 => A(2) \in Nat
      BY <2>1 DEF IsNode, Arity
    <2>4. HasWidth(H[a].op, A(1), A(2), w[h][a])
      BY WidthAt, Zenon DEF A
    <2> QED BY <2>2, <2>3, <2>4 DEF Arity, HasWidth
  <1> HIDE DEF S
  <1>2. \A h \in Nat : h \in S
    BY <1>1, LeastMissing
  <1> QED BY <1>2 DEF S

(***************************************************************************)
(* Reference counting: what is kept is the least set that contains the     *)
(* owned addresses and is closed.                                          *)
(***************************************************************************)

\* What somebody owns is kept.
LEMMA KeptOwned ==
  ASSUME NEW S, NEW h, S \subseteq Address
  PROVE  S \subseteq Kept(S, h)
  BY DEF Kept

\* The operands of what is kept are kept.
LEMMA KeptIsClosed ==
  ASSUME NEW S, NEW h, \A a \in Address : IsNode(h[a])
  PROVE  Closed(Kept(S, h), h)
  <1> SUFFICES ASSUME NEW a \in Kept(S, h), NEW k \in DOMAIN h[a].args
               PROVE  h[a].args[k] \in Kept(S, h)
    BY Zenon DEF Closed
  <1>1. a \in Address
    BY Zenon DEF Kept
  <1>2. h[a].args[k] \in Address
    BY <1>1, Zenon DEF IsNode
  <1> QED BY <1>1, <1>2, Zenon DEF Kept

\* Nothing else is kept: reference counts reach zero.
LEMMA KeptIsLeast ==
  ASSUME NEW S, NEW h, NEW T \in SUBSET Address, S \subseteq T, Closed(T, h)
  PROVE  Kept(S, h) \subseteq T
  BY Zenon DEF Kept, Closed

(***************************************************************************)
(* The inductive invariant.                                                *)
(***************************************************************************)

Expression == [addr: Address, width: Nat]

LifetimeTypeInv ==
  /\ backend \in {"simple", "qsym", "rust"}
  /\ heap = [a \in Address |-> heap[a]]
  /\ \A a \in Address : IsNode(heap[a])
  /\ allocatedExpressions \subseteq Expression
  /\ references \subseteq Address
  /\ stdinBytes \in Seq(Expression \cup {Null})
  /\ expressionRegions \subseteq Region
  /\ held \subseteq Expression \cup {Null}
  /\ root \in [Slot -> Expression \cup {Null}]
  /\ DOMAIN meaning = Slot

Used == {a \in Address : heap[a] # Free}

\* An expression on the heap is built from expressions on the heap, what the
\* backend refers to is there, and nothing is higher than the bound.
HeapInv ==
  /\ Closed(Used, heap)
  /\ Owned(allocatedExpressions, references) \subseteq Used
  /\ Address \subseteq Heights[MaxHeight]

\* The variables of the input bytes, as far as they have been created.
Bytes == {stdinBytes[k] : k \in DOMAIN stdinBytes} \ {Null}

\* The simple backend never gives a reference back, the others remember what
\* the program may still use.
Remembered ==
  IF backend = "simple"
  THEN \A e \in allocatedExpressions \cup InUse \cup Bytes : e.addr \in references
  ELSE InUse \subseteq allocatedExpressions /\ references = {} /\ stdinBytes = <<>>

\* Expressions are stored where a collection looks for them.
StoredWhereSearched == \A s \in Slot \ (Page \cup expressionRegions) : root[s] = Null

\* The properties of widths, also for the bytes that the program may ask for.
WidthsKnown ==
  \A e \in InUse \cup Bytes : TrueWidth(e.addr) < 256 => e.width = TrueWidth(e.addr)

LifetimeInv ==
  /\ LifetimeTypeInv
  /\ HeapInv
  /\ Remembered
  /\ StoredWhereSearched
  /\ WidthsKnown
  /\ RootsKeepMeaning

(***************************************************************************)
(* Every step that changes the heap.                                       *)
(***************************************************************************)

\* A free address is a node without operands.
LEMMA FreeIsNode == IsNode(Free) /\ DOMAIN Free.args = {}
  BY DEF IsNode, Free, Arity

\* The layers, in this state and in the next one.
LEMMA LayersHere ==
  /\ Layered("terms", heap, TermsOfHeight)
  /\ Layered("heights", heap, Heights)
  /\ Layered("widths", heap, NodeWidths)
  BY TermsLayered, HeightsLayered, WidthsLayered

\* See LayersHere.
LEMMA LayersNext ==
  /\ Layered("terms", heap', TermsOfHeight')
  /\ Layered("heights", heap', Heights')
  /\ Layered("widths", heap', NodeWidths')
  <1>1. Layered("terms", heap, TermsOfHeight)'
    BY TermsLayered, PTL
  <1>2. Layered("heights", heap, Heights)'
    BY HeightsLayered, PTL
  <1>3. Layered("widths", heap, NodeWidths)'
    BY WidthsLayered, PTL
  <1> QED BY <1>1, <1>2, <1>3, Zenon DEF Layered

\* The heap h extends the heap by expressions that are built from those on it.
Extended(h) ==
  /\ \A b \in Address : IsNode(h[b])
  /\ \A b \in Used : h[b] = heap[b]
  /\ \A b \in Address \ Used : h[b] # Free =>
       \A k \in DOMAIN h[b].args :
         /\ h[b].args[k] \in Used
         /\ MaxHeight > 0
         /\ h[b].args[k] \in Heights[MaxHeight - 1]

\* The library frees what nobody owns: what remains is an expression, with the
\* meaning and the width that it had.
LEMMA SettleStep ==
  ASSUME LifetimeInv, NEW h, NEW allocated, NEW refs, Extended(h),
         Owned(allocated, refs) \subseteq {b \in Address : h[b] # Free},
         Settle(h, allocated, refs)
  PROVE  /\ heap' = [b \in Address |-> heap'[b]]
         /\ \A b \in Address : IsNode(heap'[b])
         /\ HeapInv'
         /\ \A b \in Used \cap Used' : TrueWidth(b)' = TrueWidth(b) /\ Term(b)' = Term(b)
         /\ \A b \in Used \cap Used' : MaxHeight > 0 /\ b \in Heights[MaxHeight - 1]
                                         => b \in Heights'[MaxHeight - 1]
         /\ Used' = Kept(Owned(allocated, refs), h)
         /\ \A b \in Used' : heap'[b] = h[b]
  <1> DEFINE K == Kept(Owned(allocated, refs), h)
             U == {b \in Address : h[b] # Free}
  <1>0. MaxHeight \in Nat
    BY LifetimeAssumption
  <1>1. /\ \A b \in Address : IsNode(heap[b])
        /\ Closed(Used, heap)
        /\ Address \subseteq Heights[MaxHeight]
    BY Zenon DEF LifetimeInv, LifetimeTypeInv, HeapInv
  <1>2. Used \subseteq U
    BY DEF Extended, Used
  <1>3. Closed(U, h)
    <2> SUFFICES ASSUME NEW b \in U, NEW k \in DOMAIN h[b].args
                 PROVE  h[b].args[k] \in U
      BY Zenon DEF Closed
    <2>1. CASE b \in Used
      <3>1. h[b] = heap[b]
        BY <2>1, Zenon DEF Extended
      <3>2. heap[b].args[k] \in Used
        BY <1>1, <2>1, <3>1, Zenon DEF Closed
      <3> QED BY <1>2, <3>1, <3>2, Zenon
    <2>2. CASE b \notin Used
      <3>1. b \in Address /\ h[b] # Free
        OBVIOUS
      <3>2. h[b].args[k] \in Used
        BY <2>2, <3>1, Zenon DEF Extended
      <3> QED BY <1>2, <3>2, Zenon
    <2> QED BY <2>1, <2>2
  <1>4. K \subseteq U
    <2>1. U \in SUBSET Address /\ Owned(allocated, refs) \subseteq U
      OBVIOUS
    <2> HIDE DEF U
    <2> QED BY <1>3, <2>1, KeptIsLeast, Zenon
  <1>5. Closed(K, h)
    BY KeptIsClosed, Zenon DEF Extended
  <1>6. Owned(allocated, refs) \subseteq K
    <2>1. Owned(allocated, refs) \subseteq Address
      OBVIOUS
    <2> QED BY <2>1, KeptOwned, Zenon
  <1> HIDE DEF K
  <1>7. heap' = [b \in Address |-> IF b \in K THEN h[b] ELSE Free]
    BY Zenon DEF Settle, K
  <1>8. /\ heap' = [b \in Address |-> heap'[b]]
        /\ \A b \in K : b \in Address /\ heap'[b] = h[b]
        /\ \A b \in Address \ K : heap'[b] = Free
    BY <1>4, <1>7
  <1>9. Used' = K
    BY <1>4, <1>8 DEF Used
  <1>10. ASSUME NEW b \in Address PROVE IsNode(heap'[b])
    <2>1. CASE b \in K
      BY <1>8, <2>1, Zenon DEF Extended
    <2>2. CASE b \notin K
      BY <1>8, <2>2, FreeIsNode, Zenon
    <2> QED BY <2>1, <2>2
  <1>11. Closed(Used', heap')
    BY <1>5, <1>8, <1>9, Zenon DEF Closed
  <1> DEFINE T == K \cap Used
  <1>12. T \in SUBSET Address /\ \A b \in T : heap[b] = heap'[b] /\ IsNode(heap[b])
    BY <1>1, <1>8 DEF Extended, Used
  <1>13. Closed(T, heap)
    <2> SUFFICES ASSUME NEW b \in T, NEW k \in DOMAIN heap[b].args
                 PROVE  heap[b].args[k] \in T
      BY Zenon DEF Closed
    <2>1. heap[b].args[k] \in Used
      BY <1>1, Zenon DEF Closed
    <2>2. h[b] = heap[b]
      BY Zenon DEF Extended
    <2>3. heap[b].args[k] \in K
      BY <1>5, <2>2, Zenon DEF Closed
    <2> QED BY <2>1, <2>3
  <1> HIDE DEF T
  <1>14. \A b \in T : heap[b] = heap'[b]
    BY <1>12
  <1>15. \A m \in Nat : \A b \in T : b \in Heights[m] <=> b \in Heights'[m]
    <2>1. Layered("heights", heap, Heights) /\ Layered("heights", heap', Heights')
      BY LayersHere, LayersNext
    <2> QED BY <1>12, <1>13, <1>14, <2>1, SameHeights
  <1>16. \A m \in Nat : \A b \in T : NodeWidths[m][b] = NodeWidths'[m][b]
    <2>1. Layered("widths", heap, NodeWidths) /\ Layered("widths", heap', NodeWidths')
      BY LayersHere, LayersNext
    <2> QED BY <1>12, <1>13, <2>1, SameWidths
  <1>17. \A m \in Nat : \A b \in T : TermsOfHeight[m][b] = TermsOfHeight'[m][b]
    <2>1. Layered("terms", heap, TermsOfHeight) /\ Layered("terms", heap', TermsOfHeight')
      BY LayersHere, LayersNext
    <2> QED BY <1>12, <1>13, <1>14, <2>1, SameTerms
  <1>18. \A b \in T : MaxHeight > 0 /\ b \in Heights[MaxHeight - 1]
                        => b \in Heights'[MaxHeight - 1]
    BY <1>0, <1>15
  <1>19. \A b \in T : b \in Heights'[MaxHeight]
    BY <1>0, <1>1, <1>12, <1>15
  <1>20. ASSUME NEW b \in Address PROVE b \in Heights'[MaxHeight]
    <2>1. CASE b \in T
      BY <1>19, <2>1
    <2>2. CASE b \notin K
      <3>1. DOMAIN heap'[b].args = {}
        BY <1>8, <2>2, FreeIsNode, Zenon
      <3> QED BY <1>0, <3>1, LayersNext, HeightAt, Zenon
    <2>3. CASE b \in K /\ b \notin Used
      <3>1. ASSUME NEW k \in DOMAIN heap'[b].args
            PROVE  MaxHeight > 0 /\ heap'[b].args[k] \in Heights'[MaxHeight - 1]
        <4>1. heap'[b] = h[b] /\ h[b] # Free
          BY <1>4, <1>8, <2>3
        <4>2. /\ h[b].args[k] \in Used
              /\ MaxHeight > 0
              /\ h[b].args[k] \in Heights[MaxHeight - 1]
          BY <2>3, <3>1, <4>1, Zenon DEF Extended
        <4>3. h[b].args[k] \in K
          BY <1>5, <2>3, <3>1, <4>1, Zenon DEF Closed
        <4> QED BY <1>18, <4>1, <4>2, <4>3 DEF T
      <3> QED BY <1>0, <3>1, LayersNext, HeightAt, Zenon
    <2> QED BY <2>1, <2>2, <2>3 DEF T
  <1>21. HeapInv'
    <2>1. Owned(allocatedExpressions', references') \subseteq Used'
      BY <1>6, <1>9, Zenon DEF Settle
    <2> QED BY <1>11, <1>20, <2>1, Zenon DEF HeapInv, Closed, Owned
  <1>22. ASSUME NEW b \in Used \cap Used'
         PROVE  TrueWidth(b)' = TrueWidth(b) /\ Term(b)' = Term(b)
    <2>1. b \in T
      BY <1>9 DEF T
    <2>2. NodeWidths[MaxHeight][b] = NodeWidths'[MaxHeight][b]
      BY <1>0, <1>16, <2>1
    <2>3. TermsOfHeight[MaxHeight][b] = TermsOfHeight'[MaxHeight][b]
      BY <1>0, <1>17, <2>1
    <2> QED BY <2>2, <2>3, Zenon DEF TrueWidth, Term
  <1>23. \A b \in Used \cap Used' : b \in T
    BY <1>9 DEF T
  <1> QED BY <1>8, <1>9, <1>10, <1>18, <1>21, <1>22, <1>23, Zenon DEF K

\* What the program may use is on the heap.
LEMMA InUseIsUsed ==
  LifetimeTypeInv /\ HeapInv /\ Remembered =>
    \A e \in InUse \cup Bytes : e \in Expression /\ e.addr \in Used
  <1> SUFFICES ASSUME LifetimeTypeInv, HeapInv, Remembered, NEW e \in InUse \cup Bytes
               PROVE  e \in Expression /\ e.addr \in Used
    OBVIOUS
  <1>1. e \in Expression
    <2>1. CASE e \in InUse
      BY <2>1 DEF LifetimeTypeInv, InUse
    <2>2. CASE e \in Bytes
      <3>1. PICK k \in DOMAIN stdinBytes : e = stdinBytes[k] /\ e # Null
        BY <2>2 DEF Bytes
      <3> QED BY <3>1 DEF LifetimeTypeInv
    <2> QED BY <2>1, <2>2
  <1>2. e.addr \in Owned(allocatedExpressions, references)
    <2>1. CASE backend = "simple"
      BY <2>1, Zenon DEF Remembered, Owned
    <2>2. CASE backend # "simple"
      <3>1. Bytes = {}
        BY <2>2 DEF Remembered, Bytes
      <3> QED BY <2>2, <3>1, Zenon DEF Remembered, Owned
    <2> QED BY <2>1, <2>2
  <1> QED BY <1>1, <1>2, Zenon DEF HeapInv

\* Heights and widths are unaffected by what is not referred to: the program's
\* expressions keep theirs in a step that keeps them on the heap.
LEMMA ClientKept ==
  ASSUME LifetimeInv, LifetimeTypeInv', HeapInv', Remembered',
         \A b \in Used \cap Used' : TrueWidth(b)' = TrueWidth(b) /\ Term(b)' = Term(b),
         \A e \in InUse' \cup Bytes' :
           \/ e \in InUse \cup Bytes
           \/ TrueWidth(e.addr)' < 256 => e.width = TrueWidth(e.addr)',
         root' = root, meaning' = meaning
  PROVE  WidthsKnown' /\ RootsKeepMeaning'
  <1>1. \A e \in InUse \cup Bytes : e.addr \in Used
    BY InUseIsUsed, Zenon DEF LifetimeInv
  <1>2. \A e \in InUse' \cup Bytes' : e.addr \in Used'
    <2>1. (LifetimeTypeInv /\ HeapInv /\ Remembered =>
             \A e \in InUse \cup Bytes : e \in Expression /\ e.addr \in Used)'
      BY InUseIsUsed, PTL
    <2> QED BY <2>1, Zenon
  <1>3. WidthsKnown'
    <2> SUFFICES ASSUME NEW e \in InUse' \cup Bytes',
                        TrueWidth(e.addr)' < 256
                 PROVE  e.width = TrueWidth(e.addr)'
      BY Zenon DEF WidthsKnown
    <2>1. CASE e \in InUse \cup Bytes
      <3>1. TrueWidth(e.addr)' = TrueWidth(e.addr)
        BY <1>1, <1>2, <2>1, Zenon
      <3>2. TrueWidth(e.addr) < 256 => e.width = TrueWidth(e.addr)
        BY <2>1, Zenon DEF LifetimeInv, WidthsKnown
      <3> QED BY <3>1, <3>2, Zenon
    <2>2. CASE TrueWidth(e.addr)' < 256 => e.width = TrueWidth(e.addr)'
      BY <2>2, Zenon
    <2> QED BY <2>1, <2>2, Zenon
  <1>4. RootsKeepMeaning'
    <2> SUFFICES ASSUME NEW s \in Slot, root[s] # Null
                 PROVE  Term(root[s].addr)' = meaning[s]
      BY Zenon DEF RootsKeepMeaning
    <2>1. root[s] \in InUse /\ root[s] \in InUse'
      BY DEF InUse
    <2>2. Term(root[s].addr)' = Term(root[s].addr)
      BY <1>1, <1>2, <2>1, Zenon
    <2> QED BY <2>2, Zenon DEF LifetimeInv, RootsKeepMeaning
  <1> QED BY <1>3, <1>4

(***************************************************************************)
(* Collections.                                                            *)
(***************************************************************************)

\* The part of a collection that is common to the backends.
LEMMA CollectStep ==
  ASSUME LifetimeInv, NEW b, MayCollect(b),
         Settle(heap, allocatedExpressions \cap collectReachableExpressions, references)
  PROVE  LifetimeInv'
  <1> DEFINE allocated == allocatedExpressions \cap collectReachableExpressions
  <1>1. Extended(heap)
    BY Zenon DEF LifetimeInv, LifetimeTypeInv, Extended, Used
  <1>2. Owned(allocated, references) \subseteq {a \in Address : heap[a] # Free}
    BY DEF LifetimeInv, HeapInv, Owned, Used
  <1> HIDE DEF allocated
  <1>3. /\ heap' = [a \in Address |-> heap'[a]]
        /\ \A a \in Address : IsNode(heap'[a])
        /\ HeapInv'
        /\ \A a \in Used \cap Used' : TrueWidth(a)' = TrueWidth(a) /\ Term(a)' = Term(a)
    BY <1>1, <1>2, SettleStep, Zenon DEF allocated
  <1>4. /\ allocatedExpressions' = allocated /\ references' = references
        /\ backend' = backend /\ stdinBytes' = stdinBytes
        /\ expressionRegions' = expressionRegions
        /\ held = {} /\ held' = held /\ root' = root /\ meaning' = meaning
    BY DEF Settle, MayCollect, clientVars, allocated
  <1>5. InUse' = InUse /\ Bytes' = Bytes
    BY <1>4, Zenon DEF InUse, Bytes
  <1>6. LifetimeTypeInv'
    <2>1. allocated \subseteq Expression
      BY Zenon DEF LifetimeInv, LifetimeTypeInv, allocated
    <2> QED BY <1>3, <1>4, <2>1, Zenon DEF LifetimeInv, LifetimeTypeInv
  <1>7. InUse \subseteq collectReachableExpressions
    <2> SUFFICES ASSUME NEW e \in InUse PROVE e \in collectReachableExpressions
      OBVIOUS
    <2>1. PICK s \in Slot : e = root[s] /\ e # Null
      BY <1>4, Zenon DEF InUse
    <2>2. s \in Page \cup expressionRegions
      BY <2>1, Zenon DEF LifetimeInv, StoredWhereSearched
    <2> QED BY <2>1, <2>2, Zenon DEF collectReachableExpressions
  <1>8. Remembered'
    <2>1. CASE backend = "simple"
      <3>1. \A e \in allocated \cup InUse \cup Bytes : e.addr \in references
        BY <2>1, Zenon DEF LifetimeInv, Remembered, allocated
      <3> QED BY <1>4, <1>5, <2>1, <3>1, Zenon DEF Remembered
    <2>2. CASE backend # "simple"
      <3>1. InUse \subseteq allocated /\ references = {} /\ stdinBytes = <<>>
        BY <1>7, <2>2, Zenon DEF LifetimeInv, Remembered, allocated
      <3> QED BY <1>4, <1>5, <2>2, <3>1, Zenon DEF Remembered
    <2> QED BY <2>1, <2>2
  <1>9. StoredWhereSearched'
    BY <1>4, Zenon DEF LifetimeInv, StoredWhereSearched
  <1>10. WidthsKnown' /\ RootsKeepMeaning'
    BY <1>3, <1>4, <1>5, <1>6, <1>8, ClientKept, Zenon
  <1> QED BY <1>3, <1>6, <1>8, <1>9, <1>10, Zenon DEF LifetimeInv

(***************************************************************************)
(* The builders.                                                           *)
(***************************************************************************)

\* The library puts a node where it is already, or at a free address.
LEMMA PlaceFree ==
  ASSUME NEW n, NEW a \in Place(n)
  PROVE  a \in Address /\ heap[a] \in {n, Free}
  <1> DEFINE same == {b \in Address : heap[b] = n}
             free == {b \in Address : heap[b] = Free}
  <1>1. CASE same # {}
    BY <1>1 DEF Place
  <1>2. CASE same = {} /\ free # {}
    <2>1. a = Min(free)
      BY <1>2 DEF Place
    <2>2. free \subseteq Nat
      BY LifetimeAssumption DEF Address
    <2>3. \E x \in free : \A y \in free : x <= y
      BY <1>2, <2>2, LeastNat
    <2> HIDE DEF free
    <2>4. Min(free) \in free
      BY <2>3, Zenon DEF Min
    <2> QED BY <2>1, <2>4 DEF free
  <1>3. CASE same = {} /\ free = {}
    BY <1>3 DEF Place
  <1> QED BY <1>1, <1>2, <1>3

\* A node that a builder may create, with the width that it computes.
Buildable(n, w) ==
  /\ IsNode(n)
  /\ n # Free
  /\ \A k \in DOMAIN n.args : /\ n.args[k] \in Used
                              /\ MaxHeight > 0
                              /\ n.args[k] \in Heights[MaxHeight - 1]
  /\ \A v \in Nat :
       HasWidth(n.op, TrueWidth(n.args[1]), TrueWidth(n.args[2]), v) /\ v < 256 => w = v

\* The width of a new node, from the widths its operands had before.
LEMMA NewWidth ==
  ASSUME LifetimeInv, \A b \in Address : IsNode(heap'[b]), HeapInv',
         \A b \in Used \cap Used' : TrueWidth(b)' = TrueWidth(b),
         \A b \in Used \cap Used' : MaxHeight > 0 /\ b \in Heights[MaxHeight - 1]
                                      => b \in Heights'[MaxHeight - 1],
         NEW n, NEW w, Buildable(n, w), NEW a \in Used', heap'[a] = n
  PROVE  TrueWidth(a)' < 256 => w = TrueWidth(a)'
  <1> DEFINE A(k) == IF MaxHeight = 0 THEN 0 ELSE NodeWidths'[MaxHeight - 1][n.args[k]]
  <1>0. MaxHeight \in Nat /\ a \in Address
    BY LifetimeAssumption DEF Used
  <1>1. ASSUME NEW k \in DOMAIN n.args PROVE A(k) = TrueWidth(n.args[k])
    <2> DEFINE b == n.args[k]
    <2>1. b \in Used /\ MaxHeight > 0 /\ b \in Heights[MaxHeight - 1]
      BY Zenon DEF Buildable
    <2>2. b \in Used'
      <3>1. Closed(Used', heap')
        BY Zenon DEF HeapInv, Closed
      <3> QED BY <3>1, Zenon DEF Closed
    <2>3. b \in Address
      BY <2>1 DEF Used
    <2> HIDE DEF b
    <2>4. b \in Heights'[MaxHeight - 1]
      BY <2>1, <2>2
    <2>5. MaxHeight - 1 \in Nat /\ MaxHeight - 1 <= MaxHeight /\ MaxHeight # 0
      BY <1>0, <2>1
    <2>6. Layered("heights", heap', Heights') /\ Layered("widths", heap', NodeWidths')
      BY LayersNext
    <2>7. NodeWidths'[MaxHeight - 1][b] = NodeWidths'[MaxHeight][b]
      BY <1>0, <2>3, <2>4, <2>5, <2>6, WidthsSettle
    <2>8. NodeWidths'[MaxHeight][b] = TrueWidth(b)
      BY <2>1, <2>2, Zenon DEF TrueWidth
    <2> QED BY <2>5, <2>7, <2>8, Zenon DEF b
  <1>2. HasWidth(n.op, A(1), A(2), NodeWidths'[MaxHeight][a])
    <2>1. Layered("widths", heap', NodeWidths')
      BY LayersNext
    <2> QED BY <1>0, <2>1, WidthAt, Zenon
  <1>3. NodeWidths'[MaxHeight][a] \in Nat
    <2>1. Layered("widths", heap', NodeWidths')
      BY LayersNext
    <2> QED BY <1>0, <2>1, WidthsAreNumbers
  <1> HIDE DEF A
  <1>4. HasWidth(n.op, TrueWidth(n.args[1]), TrueWidth(n.args[2]),
                 NodeWidths'[MaxHeight][a])
    <2>1. Arity(n.op) >= 1 => A(1) = TrueWidth(n.args[1])
      BY <1>1 DEF Buildable, IsNode, Arity
    <2>2. Arity(n.op) >= 2 => A(2) = TrueWidth(n.args[2])
      BY <1>1 DEF Buildable, IsNode, Arity
    <2> QED BY <1>2, <2>1, <2>2 DEF HasWidth, Arity
  <1>5. NodeWidths'[MaxHeight][a] < 256 => w = NodeWidths'[MaxHeight][a]
    BY <1>3, <1>4, Zenon DEF Buildable
  <1> QED BY <1>5, Zenon DEF TrueWidth

\* What all builders have in common.
LEMMA GiveStep ==
  ASSUME LifetimeInv, NEW n, NEW w \in Nat, Buildable(n, w), NEW a \in Place(n),
         NEW allocated, NEW refs, allocated \subseteq Expression, refs \subseteq Address,
         Owned(allocated, refs) \subseteq Used \cup {a}, a \in Owned(allocated, refs),
         Give(n, Expr(a, w), allocated, refs)
  PROVE  /\ heap' = [b \in Address |-> heap'[b]]
         /\ \A b \in Address : IsNode(heap'[b])
         /\ HeapInv'
         /\ \A b \in Used \cap Used' : TrueWidth(b)' = TrueWidth(b) /\ Term(b)' = Term(b)
         /\ TrueWidth(a)' < 256 => w = TrueWidth(a)'
         /\ allocatedExpressions' = allocated /\ references' = refs
         /\ backend' = backend /\ expressionRegions' = expressionRegions
         /\ root' = root /\ meaning' = meaning
         /\ held' = held \cup {Expr(a, w)}
         /\ InUse' = InUse \cup {Expr(a, w)}
         /\ Expr(a, w) \in Expression
         /\ StoredWhereSearched'
  <1> DEFINE h == [heap EXCEPT ![a] = n]
  <1>1. a \in Address /\ heap[a] \in {n, Free}
    BY PlaceFree, Zenon
  <1>2. \A b \in Address : h[b] = IF b = a THEN n ELSE heap[b]
    BY <1>1 DEF LifetimeInv, LifetimeTypeInv
  <1>3. Expr(a, w).addr = a /\ Expr(a, w) \in Expression
    BY <1>1 DEF Expr, Expression
  <1>4. /\ Settle(h, allocated, refs)
        /\ backend' = backend /\ expressionRegions' = expressionRegions
        /\ root' = root /\ meaning' = meaning
        /\ held' = held \cup {Expr(a, w)}
    BY <1>3 DEF Give
  <1> HIDE DEF h
  <1>5. Extended(h)
    <2>1. \A b \in Address : IsNode(h[b])
      BY <1>2, Zenon DEF Buildable, LifetimeInv, LifetimeTypeInv
    <2>2. \A b \in Used : h[b] = heap[b]
      BY <1>1, <1>2 DEF Used
    <2>3. ASSUME NEW b \in Address \ Used, h[b] # Free, NEW k \in DOMAIN h[b].args
          PROVE  /\ h[b].args[k] \in Used
                 /\ MaxHeight > 0
                 /\ h[b].args[k] \in Heights[MaxHeight - 1]
      <3>1. h[b] = n
        BY <1>2, <2>3 DEF Used
      <3> QED BY <2>3, <3>1, Zenon DEF Buildable
    <2> QED BY <2>1, <2>2, <2>3, Zenon DEF Extended
  <1>6. Owned(allocated, refs) \subseteq {b \in Address : h[b] # Free}
    BY <1>1, <1>2 DEF Buildable, Used
  <1>7. /\ heap' = [b \in Address |-> heap'[b]]
        /\ \A b \in Address : IsNode(heap'[b])
        /\ HeapInv'
        /\ \A b \in Used \cap Used' : TrueWidth(b)' = TrueWidth(b) /\ Term(b)' = Term(b)
        /\ \A b \in Used \cap Used' : MaxHeight > 0 /\ b \in Heights[MaxHeight - 1]
                                        => b \in Heights'[MaxHeight - 1]
        /\ \A b \in Used' : heap'[b] = h[b]
    BY <1>4, <1>5, <1>6, SettleStep
  <1>8. allocatedExpressions' = allocated /\ references' = refs
    BY <1>4 DEF Settle
  <1>9. a \in Used'
    BY <1>7, <1>8 DEF HeapInv
  <1>10. heap'[a] = n
    BY <1>1, <1>2, <1>7, <1>9
  <1>11. TrueWidth(a)' < 256 => w = TrueWidth(a)'
    <2>1. \A b \in Used \cap Used' : TrueWidth(b)' = TrueWidth(b)
      BY <1>7
    <2> QED BY <1>7, <1>9, <1>10, <2>1, NewWidth
  <1>12. InUse' = InUse \cup {Expr(a, w)}
    <2>1. Expr(a, w) # Null
      BY <1>1, LifetimeAssumption DEF Expr, Null, Address
    <2> QED BY <1>4, <2>1 DEF InUse
  <1>13. StoredWhereSearched'
    BY <1>4, Zenon DEF LifetimeInv, StoredWhereSearched
  <1> QED BY <1>3, <1>4, <1>7, <1>8, <1>11, <1>12, <1>13, Zenon

\* The rest of the invariant, after a builder.
LEMMA GivenInv ==
  ASSUME LifetimeInv, NEW a, NEW w,
         heap' = [b \in Address |-> heap'[b]],
         \A b \in Address : IsNode(heap'[b]),
         HeapInv', StoredWhereSearched', Remembered',
         \A b \in Used \cap Used' : TrueWidth(b)' = TrueWidth(b) /\ Term(b)' = Term(b),
         TrueWidth(a)' < 256 => w = TrueWidth(a)',
         allocatedExpressions' \subseteq Expression, references' \subseteq Address,
         backend' = backend, expressionRegions' = expressionRegions,
         root' = root, meaning' = meaning,
         held' = held \cup {Expr(a, w)}, InUse' = InUse \cup {Expr(a, w)},
         Expr(a, w) \in Expression,
         stdinBytes' \in Seq(Expression \cup {Null}),
         Bytes' \subseteq Bytes \cup {Expr(a, w)}
  PROVE  LifetimeInv'
  <1>1. LifetimeTypeInv'
    <2>1. held' \subseteq Expression \cup {Null}
      BY DEF LifetimeInv, LifetimeTypeInv
    <2> QED BY <2>1, Zenon DEF LifetimeInv, LifetimeTypeInv
  <1>2. Expr(a, w).addr = a /\ Expr(a, w).width = w
    BY DEF Expr
  <1>3. ASSUME NEW e \in InUse' \cup Bytes'
        PROVE  \/ e \in InUse \cup Bytes
               \/ TrueWidth(e.addr)' < 256 => e.width = TrueWidth(e.addr)'
    <2>1. CASE e = Expr(a, w)
      BY <1>2, <2>1, Zenon
    <2>2. CASE e # Expr(a, w)
      BY <2>2, Zenon
    <2> QED BY <2>1, <2>2
  <1>4. WidthsKnown' /\ RootsKeepMeaning'
    BY <1>1, <1>3, ClientKept, Zenon
  <1> QED BY <1>1, <1>4, Zenon DEF LifetimeInv

\* registerExpression of the simple backend.
LEMMA SimpleRegisterInv ==
  ASSUME LifetimeInv, NEW n, NEW w \in Nat, Buildable(n, w), SimpleRegister(n, w)
  PROVE  LifetimeInv'
  <1>1. PICK a \in Place(n) :
          Give(n, Expr(a, w), allocatedExpressions \cup {Expr(a, w)},
               IF Expr(a, w) \notin allocatedExpressions THEN references \cup {a}
               ELSE references)
    BY Zenon DEF SimpleRegister
  <1> DEFINE allocated == allocatedExpressions \cup {Expr(a, w)}
             refs == IF Expr(a, w) \notin allocatedExpressions THEN references \cup {a}
                     ELSE references
  <1>2. backend = "simple" /\ stdinBytes' = stdinBytes
    BY DEF SimpleRegister
  <1>3. a \in Address
    BY PlaceFree
  <1>4. Expr(a, w) \in Expression /\ Expr(a, w).addr = a
    BY <1>3 DEF Expr, Expression
  <1>5. /\ \A e \in allocatedExpressions \cup InUse \cup Bytes : e.addr \in references
        /\ allocatedExpressions \subseteq Expression /\ references \subseteq Address
        /\ references \subseteq Used
        /\ \A e \in allocatedExpressions : e.addr \in Used
    BY <1>2 DEF LifetimeInv, LifetimeTypeInv, HeapInv, Remembered, Owned
  <1>6. refs = references \cup {a}
    BY <1>4, <1>5
  <1>7. allocated \subseteq Expression /\ refs \subseteq Address
    BY <1>3, <1>4, <1>5
  <1>8. Owned(allocated, refs) \subseteq Used \cup {a} /\ a \in Owned(allocated, refs)
    BY <1>4, <1>5, <1>6 DEF Owned
  <1> HIDE DEF allocated, refs
  <1>9. Give(n, Expr(a, w), allocated, refs)
    BY <1>1, Zenon DEF allocated, refs
  <1>10. /\ heap' = [b \in Address |-> heap'[b]]
         /\ \A b \in Address : IsNode(heap'[b])
         /\ HeapInv'
         /\ \A b \in Used \cap Used' : TrueWidth(b)' = TrueWidth(b) /\ Term(b)' = Term(b)
         /\ TrueWidth(a)' < 256 => w = TrueWidth(a)'
         /\ allocatedExpressions' = allocated /\ references' = refs
         /\ backend' = backend /\ expressionRegions' = expressionRegions
         /\ root' = root /\ meaning' = meaning
         /\ held' = held \cup {Expr(a, w)}
         /\ InUse' = InUse \cup {Expr(a, w)}
         /\ StoredWhereSearched'
    BY <1>7, <1>8, <1>9, GiveStep
  <1>11. Bytes' = Bytes
    BY <1>2, Zenon DEF Bytes
  <1>12. Remembered'
    <2>1. \A e \in allocated \cup (InUse \cup {Expr(a, w)}) \cup Bytes : e.addr \in refs
      BY <1>4, <1>5, <1>6 DEF allocated
    <2> QED BY <1>2, <1>10, <1>11, <2>1, Zenon DEF Remembered
  <1>13. stdinBytes' \in Seq(Expression \cup {Null}) /\ Bytes' \subseteq Bytes \cup {Expr(a, w)}
    BY <1>2, <1>11 DEF LifetimeInv, LifetimeTypeInv
  <1>14. allocatedExpressions' \subseteq Expression /\ references' \subseteq Address
    BY <1>7, <1>10
  <1> QED BY <1>4, <1>10, <1>12, <1>13, <1>14, GivenInv

\* The backends that remember expressions in a set.
LEMMA RememberInv ==
  ASSUME LifetimeInv, NEW n, NEW w \in Nat, Buildable(n, w), NEW a \in Place(n),
         backend # "simple", stdinBytes' = stdinBytes,
         Give(n, Expr(a, w), allocatedExpressions \cup {Expr(a, w)}, references)
  PROVE  LifetimeInv'
  <1> DEFINE allocated == allocatedExpressions \cup {Expr(a, w)}
  <1>1. a \in Address
    BY PlaceFree
  <1>2. Expr(a, w) \in Expression /\ Expr(a, w).addr = a
    BY <1>1 DEF Expr, Expression
  <1>3. /\ InUse \subseteq allocatedExpressions /\ references = {} /\ stdinBytes = <<>>
        /\ allocatedExpressions \subseteq Expression
        /\ \A e \in allocatedExpressions : e.addr \in Used
    BY DEF LifetimeInv, LifetimeTypeInv, HeapInv, Remembered, Owned
  <1>4. allocated \subseteq Expression /\ references \subseteq Address
    BY <1>2, <1>3
  <1>5. Owned(allocated, references) \subseteq Used \cup {a} /\ a \in Owned(allocated, references)
    BY <1>2, <1>3 DEF Owned
  <1> HIDE DEF allocated
  <1>6. Give(n, Expr(a, w), allocated, references)
    BY Zenon DEF allocated
  <1>7. /\ heap' = [b \in Address |-> heap'[b]]
        /\ \A b \in Address : IsNode(heap'[b])
        /\ HeapInv'
        /\ \A b \in Used \cap Used' : TrueWidth(b)' = TrueWidth(b) /\ Term(b)' = Term(b)
        /\ TrueWidth(a)' < 256 => w = TrueWidth(a)'
        /\ allocatedExpressions' = allocated /\ references' = references
        /\ backend' = backend /\ expressionRegions' = expressionRegions
        /\ root' = root /\ meaning' = meaning
        /\ held' = held \cup {Expr(a, w)}
        /\ InUse' = InUse \cup {Expr(a, w)}
        /\ StoredWhereSearched'
    BY <1>4, <1>5, <1>6, GiveStep
  <1>8. Bytes' = Bytes
    BY Zenon DEF Bytes
  <1>9. Remembered'
    <2>1. InUse \cup {Expr(a, w)} \subseteq allocated
      BY <1>3 DEF allocated
    <2> QED BY <1>3, <1>7, <2>1, Zenon DEF Remembered
  <1>10. stdinBytes' \in Seq(Expression \cup {Null}) /\ Bytes' \subseteq Bytes \cup {Expr(a, w)}
    BY <1>8 DEF LifetimeInv, LifetimeTypeInv
  <1>11. allocatedExpressions' \subseteq Expression /\ references' \subseteq Address
    BY <1>4, <1>7
  <1> QED BY <1>2, <1>7, <1>9, <1>10, <1>11, GivenInv

\* registerExpression of the QSYM backend.
LEMMA QsymRegisterInv ==
  ASSUME LifetimeInv, NEW n, NEW w \in Nat, NEW operands, Buildable(n, w),
         QsymRegister(n, w, operands)
  PROVE  LifetimeInv'
  <1>1. backend # "simple" /\ stdinBytes' = stdinBytes
    BY DEF QsymRegister
  <1>2. PICK a \in Place(n) :
          Give(n, Expr(a, w), allocatedExpressions \cup {Expr(a, w)}, references)
    BY Zenon DEF QsymRegister
  <1> QED BY <1>1, <1>2, RememberInv

\* registerExpression of the Rust backend.
LEMMA RustRegisterInv ==
  ASSUME LifetimeInv, NEW n, NEW w \in Nat, Buildable(n, w), RustRegister(n, w)
  PROVE  LifetimeInv'
  <1>1. backend # "simple" /\ stdinBytes' = stdinBytes
    BY DEF RustRegister
  <1>2. PICK a \in Place(n) :
          Give(n, Expr(a, w), allocatedExpressions \cup {Expr(a, w)}, references)
    BY Zenon DEF RustRegister
  <1> QED BY <1>1, <1>2, RememberInv

\* The operands of a builder.
LEMMA OperandFacts ==
  ASSUME LifetimeInv, NEW e \in Operands
  PROVE  /\ e \in held /\ e # Null /\ e.addr \in Used /\ e.addr \in Address
         /\ MaxHeight > 0 /\ e.addr \in Heights[MaxHeight - 1]
         /\ e.width \in Nat /\ TrueWidth(e.addr) \in Nat
         /\ TrueWidth(e.addr) < 256 => e.width = TrueWidth(e.addr)
  <1>0. MaxHeight \in Nat
    BY LifetimeAssumption
  <1>1. e \in held /\ e # Null /\ Height(e.addr) < MaxHeight
    BY DEF Operands
  <1>2. e \in InUse
    BY <1>1 DEF InUse
  <1>3. e \in Expression /\ e.addr \in Used
    BY <1>2, InUseIsUsed, Zenon DEF LifetimeInv
  <1>4. e.addr \in Address /\ e.width \in Nat
    BY <1>3 DEF Expression
  <1>5. Height(e.addr) \in {h \in 0..MaxHeight : e.addr \in Heights[h]}
    <2> DEFINE S == {h \in 0..MaxHeight : e.addr \in Heights[h]}
    <2>1. MaxHeight \in S
      BY <1>0, <1>4 DEF LifetimeInv, HeapInv
    <2>2. S \subseteq Nat /\ S # {}
      BY <1>0, <2>1
    <2> HIDE DEF S
    <2>3. \E x \in S : \A y \in S : x <= y
      BY <2>2, LeastNat
    <2>4. Min(S) \in S
      BY <2>3, Zenon DEF Min
    <2> QED BY <2>4, Zenon DEF Height, S
  <1>6. MaxHeight > 0 /\ e.addr \in Heights[MaxHeight - 1]
    <2> DEFINE h == Height(e.addr)
    <2>1. h \in Nat /\ h < MaxHeight /\ e.addr \in Heights[h]
      BY <1>0, <1>1, <1>5
    <2> HIDE DEF h
    <2>2. h <= MaxHeight - 1 /\ MaxHeight - 1 \in Nat
      BY <1>0, <2>1
    <2>3. \A a \in Address : IsNode(heap[a])
      BY Zenon DEF LifetimeInv, LifetimeTypeInv
    <2>4. e.addr \in Heights[MaxHeight - 1]
      BY <1>4, <2>1, <2>2, <2>3, LayersHere, HeightsGrow
    <2> QED BY <1>0, <2>1, <2>4
  <1>7. TrueWidth(e.addr) \in Nat
    <2>1. \A a \in Address : IsNode(heap[a])
      BY Zenon DEF LifetimeInv, LifetimeTypeInv
    <2> QED BY <1>0, <1>4, <2>1, LayersHere, WidthsAreNumbers DEF TrueWidth
  <1>8. TrueWidth(e.addr) < 256 => e.width = TrueWidth(e.addr)
    BY <1>2, Zenon DEF LifetimeInv, WidthsKnown
  <1> QED BY <1>1, <1>3, <1>4, <1>6, <1>7, <1>8

\* Constants and input bytes can be built at any time.
LEMMA LeafBuildable ==
  /\ Buildable(Node("integer128", <<>>), 128)
  /\ \A k : Buildable(Variable(k), 8)
  <1>1. Buildable(Node("integer128", <<>>), 128)
    <2> DEFINE n == Node("integer128", <<>>)
    <2>1. n.op = "integer128" /\ DOMAIN n.args = {} /\ n.op # Free.op
      BY DEF Node, Free
    <2> HIDE DEF n
    <2>2. IsNode(n)
      BY <2>1 DEF IsNode, Arity
    <2>3. Buildable(n, 128)
      BY <2>1, <2>2 DEF Buildable, HasWidth
    <2> QED BY <2>3 DEF n
  <1>2. ASSUME NEW k PROVE Buildable(Variable(k), 8)
    <2> DEFINE n == Variable(k)
    <2>1. n.op = "byte" /\ DOMAIN n.args = {} /\ n.op # Free.op
      BY DEF Variable, Free
    <2> HIDE DEF n
    <2>2. IsNode(n)
      BY <2>1 DEF IsNode, Arity
    <2>3. Buildable(n, 8)
      BY <2>1, <2>2 DEF Buildable, HasWidth
    <2> QED BY <2>3 DEF n
  <1> QED BY <1>1, <1>2

\* A node with one operand can be built if the width w given to it is right,
\* below 256 bits.
LEMMA UnaryBuildable ==
  ASSUME LifetimeInv, NEW op \in {"not", "extend", "truncate"}, NEW e \in Operands, NEW w,
         \A y : \A v \in Nat : HasWidth(op, TrueWidth(e.addr), y, v) /\ v < 256 => w = v
  PROVE  Buildable(Node(op, <<e.addr>>), w)
  <1> DEFINE n == Node(op, <<e.addr>>)
  <1>1. /\ n.op = op /\ n.op # Free.op
        /\ DOMAIN n.args = 1..1 /\ n.args[1] = e.addr
    BY DEF Node, Free
  <1>2. /\ e.addr \in Used /\ e.addr \in Address
        /\ MaxHeight > 0 /\ e.addr \in Heights[MaxHeight - 1]
    BY OperandFacts
  <1> HIDE DEF n
  <1>3. IsNode(n)
    BY <1>1, <1>2 DEF IsNode, Arity
  <1>4. n # Free
    BY <1>1
  <1>5. \A k \in DOMAIN n.args : /\ n.args[k] \in Used
                                 /\ MaxHeight > 0
                                 /\ n.args[k] \in Heights[MaxHeight - 1]
    BY <1>1, <1>2
  <1>6. \A v \in Nat :
          HasWidth(n.op, TrueWidth(n.args[1]), TrueWidth(n.args[2]), v) /\ v < 256 => w = v
    BY <1>1, Zenon
  <1>7. Buildable(n, w)
    BY <1>3, <1>4, <1>5, <1>6, Zenon DEF Buildable
  <1> QED BY <1>7 DEF n

\* See UnaryBuildable.
LEMMA BinaryBuildable ==
  ASSUME LifetimeInv, NEW op \in {"add", "equal", "concat"},
         NEW e \in Operands, NEW f \in Operands, NEW w,
         \A v \in Nat : HasWidth(op, TrueWidth(e.addr), TrueWidth(f.addr), v) /\ v < 256 => w = v
  PROVE  Buildable(Node(op, <<e.addr, f.addr>>), w)
  <1> DEFINE n == Node(op, <<e.addr, f.addr>>)
  <1>1. /\ n.op = op /\ n.op # Free.op
        /\ DOMAIN n.args = 1..2 /\ n.args[1] = e.addr /\ n.args[2] = f.addr
    BY DEF Node, Free
  <1>2. /\ e.addr \in Used /\ e.addr \in Address
        /\ MaxHeight > 0 /\ e.addr \in Heights[MaxHeight - 1]
    BY OperandFacts
  <1>3. /\ f.addr \in Used /\ f.addr \in Address
        /\ f.addr \in Heights[MaxHeight - 1]
    BY OperandFacts
  <1> HIDE DEF n
  <1>4. \A k \in DOMAIN n.args : n.args[k] \in {e.addr, f.addr}
    BY <1>1
  <1>5. IsNode(n)
    BY <1>1, <1>2, <1>3, <1>4 DEF IsNode, Arity
  <1>6. n # Free
    BY <1>1
  <1>7. \A k \in DOMAIN n.args : /\ n.args[k] \in Used
                                 /\ MaxHeight > 0
                                 /\ n.args[k] \in Heights[MaxHeight - 1]
    BY <1>2, <1>3, <1>4
  <1>8. \A v \in Nat :
          HasWidth(n.op, TrueWidth(n.args[1]), TrueWidth(n.args[2]), v) /\ v < 256 => w = v
    BY <1>1, Zenon
  <1>9. Buildable(n, w)
    BY <1>5, <1>6, <1>7, <1>8, Zenon DEF Buildable
  <1> QED BY <1>9 DEF n

\* Constants and input bytes.
LEMMA LeafInv ==
  ASSUME LifetimeInv, NEW offset,
         \/ SimpleConstant \/ QsymConstant \/ RustConstant
         \/ QsymInputByte(offset) \/ RustInputByte(offset)
  PROVE  LifetimeInv'
  <1>1. CASE SimpleConstant
    BY <1>1, LeafBuildable, SimpleRegisterInv DEF SimpleConstant
  <1>2. CASE QsymConstant
    BY <1>2, LeafBuildable, QsymRegisterInv DEF QsymConstant
  <1>3. CASE RustConstant
    BY <1>3, LeafBuildable, RustRegisterInv DEF RustConstant
  <1>4. CASE QsymInputByte(offset)
    BY <1>4, LeafBuildable, QsymRegisterInv DEF QsymInputByte
  <1>5. CASE RustInputByte(offset)
    BY <1>5, LeafBuildable, RustRegisterInv DEF RustInputByte
  <1> QED BY <1>1, <1>2, <1>3, <1>4, <1>5

\* Negation, extension and truncation.
LEMMA UnaryInv ==
  ASSUME LifetimeInv, NEW e \in Operands,
         \/ SimpleUnary(e) \/ QsymUnary(e) \/ RustUnary(e)
         \/ SimpleExtend(e) \/ QsymExtend(e) \/ RustExtend(e)
         \/ SimpleTruncate(e) \/ QsymTruncate(e) \/ RustTruncate(e)
  PROVE  LifetimeInv'
  <1>1. /\ e.width \in Nat /\ TrueWidth(e.addr) \in Nat
        /\ TrueWidth(e.addr) < 256 => e.width = TrueWidth(e.addr)
    BY OperandFacts
  <1>2. Buildable(Node("not", <<e.addr>>), e.width)
    <2>1. \A y : \A v \in Nat :
            HasWidth("not", TrueWidth(e.addr), y, v) /\ v < 256 => e.width = v
      BY <1>1 DEF HasWidth
    <2> QED BY <2>1, UnaryBuildable
  <1>3. Buildable(Node("extend", <<e.addr>>), e.width + 8)
    <2>1. \A y : \A v \in Nat :
            HasWidth("extend", TrueWidth(e.addr), y, v) /\ v < 256 => e.width + 8 = v
      BY <1>1 DEF HasWidth
    <2> QED BY <2>1, UnaryBuildable
  <1>4. /\ ConcatWidth(e.width, 8) \in Nat
        /\ Buildable(Node("extend", <<e.addr>>), ConcatWidth(e.width, 8))
    <2>1. \A y : \A v \in Nat : HasWidth("extend", TrueWidth(e.addr), y, v) /\ v < 256
                                  => ConcatWidth(e.width, 8) = v
      BY <1>1 DEF HasWidth, ConcatWidth
    <2>2. ConcatWidth(e.width, 8) \in Nat
      BY <1>1 DEF ConcatWidth
    <2> QED BY <2>1, <2>2, UnaryBuildable
  <1>5. Buildable(Node("truncate", <<e.addr>>), 8)
    <2>1. \A y : \A v \in Nat :
            HasWidth("truncate", TrueWidth(e.addr), y, v) /\ v < 256 => 8 = v
      BY DEF HasWidth
    <2> QED BY <2>1, UnaryBuildable
  <1>6. e.width \in Nat /\ e.width + 8 \in Nat /\ 8 \in Nat
    BY <1>1
  <1>7. CASE SimpleUnary(e) \/ SimpleExtend(e) \/ SimpleTruncate(e)
    BY <1>2, <1>3, <1>5, <1>6, <1>7, SimpleRegisterInv, Zenon
       DEF SimpleUnary, SimpleExtend, SimpleTruncate
  <1>8. CASE QsymUnary(e) \/ QsymExtend(e) \/ QsymTruncate(e)
    BY <1>2, <1>3, <1>5, <1>6, <1>8, QsymRegisterInv, Zenon
       DEF QsymUnary, QsymExtend, QsymTruncate
  <1>9. CASE RustUnary(e) \/ RustExtend(e) \/ RustTruncate(e)
    BY <1>2, <1>4, <1>5, <1>6, <1>9, RustRegisterInv, Zenon
       DEF RustUnary, RustExtend, RustTruncate
  <1> QED BY <1>7, <1>8, <1>9

\* Comparison.
LEMMA ComparisonInv ==
  ASSUME LifetimeInv, NEW e \in Operands, NEW f \in Operands,
         SimpleCompare(e, f) \/ QsymCompare(e, f) \/ RustCompare(e, f)
  PROVE  LifetimeInv'
  <1>1. Buildable(Node("equal", <<e.addr, f.addr>>), 0)
    <2>1. \A v \in Nat :
            HasWidth("equal", TrueWidth(e.addr), TrueWidth(f.addr), v) /\ v < 256 => 0 = v
      BY DEF HasWidth
    <2> QED BY <2>1, BinaryBuildable
  <1>2. 0 \in Nat
    OBVIOUS
  <1>3. CASE SimpleCompare(e, f)
    BY <1>1, <1>2, <1>3, SimpleRegisterInv, Zenon DEF SimpleCompare
  <1>4. CASE QsymCompare(e, f)
    BY <1>1, <1>2, <1>4, QsymRegisterInv, Zenon DEF QsymCompare
  <1>5. CASE RustCompare(e, f)
    BY <1>1, <1>2, <1>5, RustRegisterInv, Zenon DEF RustCompare
  <1> QED BY <1>3, <1>4, <1>5

\* Concatenation.
LEMMA ConcatInv ==
  ASSUME LifetimeInv, NEW e \in Operands, NEW f \in Operands,
         SimpleConcat(e, f) \/ QsymConcat(e, f) \/ RustConcat(e, f)
  PROVE  LifetimeInv'
  <1>1. /\ e.width \in Nat /\ TrueWidth(e.addr) \in Nat
        /\ TrueWidth(e.addr) < 256 => e.width = TrueWidth(e.addr)
    BY OperandFacts
  <1>2. /\ f.width \in Nat /\ TrueWidth(f.addr) \in Nat
        /\ TrueWidth(f.addr) < 256 => f.width = TrueWidth(f.addr)
    BY OperandFacts
  <1>3. e.width + f.width \in Nat /\ ConcatWidth(e.width, f.width) \in Nat
    BY <1>1, <1>2 DEF ConcatWidth
  <1>4. \A v \in Nat : HasWidth("concat", TrueWidth(e.addr), TrueWidth(f.addr), v) /\ v < 256
                         => /\ e.width + f.width = v
                            /\ ConcatWidth(e.width, f.width) = v
    <2> SUFFICES ASSUME NEW v \in Nat, v < 256,
                        HasWidth("concat", TrueWidth(e.addr), TrueWidth(f.addr), v)
                 PROVE  e.width + f.width = v /\ ConcatWidth(e.width, f.width) = v
      OBVIOUS
    <2>1. v = TrueWidth(e.addr) + TrueWidth(f.addr)
      BY DEF HasWidth
    <2>2. e.width = TrueWidth(e.addr) /\ f.width = TrueWidth(f.addr)
      BY <1>1, <1>2, <2>1
    <2> QED BY <1>1, <1>2, <2>1, <2>2 DEF ConcatWidth
  <1>5. /\ Buildable(Node("concat", <<e.addr, f.addr>>), e.width + f.width)
        /\ Buildable(Node("concat", <<e.addr, f.addr>>), ConcatWidth(e.width, f.width))
    BY <1>4, BinaryBuildable
  <1>6. CASE SimpleConcat(e, f)
    BY <1>3, <1>5, <1>6, SimpleRegisterInv, Zenon DEF SimpleConcat
  <1>7. CASE QsymConcat(e, f)
    BY <1>3, <1>5, <1>7, QsymRegisterInv, Zenon DEF QsymConcat
  <1>8. CASE RustConcat(e, f)
    BY <1>3, <1>5, <1>8, RustRegisterInv, Zenon DEF RustConcat
  <1> QED BY <1>6, <1>7, <1>8

\* Arithmetic.
LEMMA ArithmeticInv ==
  ASSUME LifetimeInv, NEW e \in Operands, NEW f \in Operands,
         SimpleBinary(e, f) \/ QsymBinary(e, f) \/ RustBinary(e, f)
  PROVE  LifetimeInv'
  <1>1. /\ e.width \in Nat /\ TrueWidth(e.addr) \in Nat
        /\ TrueWidth(e.addr) < 256 => e.width = TrueWidth(e.addr)
    BY OperandFacts
  <1>2. Buildable(Node("add", <<e.addr, f.addr>>), e.width)
    <2>1. \A v \in Nat :
            HasWidth("add", TrueWidth(e.addr), TrueWidth(f.addr), v) /\ v < 256 => e.width = v
      BY <1>1 DEF HasWidth
    <2> QED BY <2>1, BinaryBuildable
  <1>3. CASE SimpleBinary(e, f)
    BY <1>1, <1>2, <1>3, SimpleRegisterInv, Zenon DEF SimpleBinary
  <1>4. CASE QsymBinary(e, f)
    BY <1>1, <1>2, <1>4, QsymRegisterInv, Zenon DEF QsymBinary
  <1>5. CASE RustBinary(e, f)
    BY <1>1, <1>2, <1>5, RustRegisterInv, Zenon DEF RustBinary
  <1> QED BY <1>3, <1>4, <1>5

(***************************************************************************)
(* The program's own steps: the heap stays as it is.                       *)
(***************************************************************************)

\* A step that leaves the library alone keeps every expression.
LEMMA HeapStays ==
  ASSUME LifetimeInv, libraryVars' = libraryVars
  PROVE  /\ heap' = heap /\ allocatedExpressions' = allocatedExpressions
         /\ references' = references
         /\ HeapInv' /\ Used' = Used
         /\ \A b \in Address : TrueWidth(b)' = TrueWidth(b) /\ Term(b)' = Term(b)
  <1>0. MaxHeight \in Nat
    BY LifetimeAssumption
  <1>1. /\ heap' = heap /\ allocatedExpressions' = allocatedExpressions
        /\ references' = references
    BY DEF libraryVars
  <1>2. Used' = Used
    BY <1>1, Zenon DEF Used
  <1>3. \A b \in Address : heap[b] = heap'[b] /\ IsNode(heap[b])
    BY <1>1, Zenon DEF LifetimeInv, LifetimeTypeInv
  <1>4. Closed(Address, heap) /\ Address \in SUBSET Address
    BY <1>3, Zenon DEF Closed, IsNode
  <1>5. \A b \in Address : heap[b] = heap'[b]
    BY <1>1
  <1>6. \A m \in Nat : \A b \in Address : b \in Heights[m] <=> b \in Heights'[m]
    <2>1. Layered("heights", heap, Heights) /\ Layered("heights", heap', Heights')
      BY LayersHere, LayersNext
    <2> QED BY <1>4, <1>5, <2>1, SameHeights
  <1>7. \A m \in Nat : \A b \in Address : NodeWidths[m][b] = NodeWidths'[m][b]
    <2>1. Layered("widths", heap, NodeWidths) /\ Layered("widths", heap', NodeWidths')
      BY LayersHere, LayersNext
    <2> QED BY <1>3, <1>4, <2>1, SameWidths
  <1>8. \A m \in Nat : \A b \in Address : TermsOfHeight[m][b] = TermsOfHeight'[m][b]
    <2>1. Layered("terms", heap, TermsOfHeight) /\ Layered("terms", heap', TermsOfHeight')
      BY LayersHere, LayersNext
    <2> QED BY <1>4, <1>5, <2>1, SameTerms
  <1>9. HeapInv'
    <2>1. Closed(Used', heap')
      BY <1>1, <1>2, Zenon DEF LifetimeInv, HeapInv
    <2>2. Owned(allocatedExpressions', references') \subseteq Used'
      BY <1>1, <1>2, Zenon DEF LifetimeInv, HeapInv
    <2>3. Address \subseteq Heights'[MaxHeight]
      BY <1>0, <1>6, Zenon DEF LifetimeInv, HeapInv
    <2> QED BY <2>1, <2>2, <2>3, Zenon DEF HeapInv, Closed, Owned
  <1>10. ASSUME NEW b \in Address
         PROVE  TrueWidth(b)' = TrueWidth(b) /\ Term(b)' = Term(b)
    BY <1>0, <1>7, <1>8, Zenon DEF TrueWidth, Term
  <1> QED BY <1>1, <1>2, <1>9, <1>10

\* The expressions in registers may become fewer, or be joined by others that
\* the program has access to.
LEMMA RegistersInv ==
  ASSUME LifetimeInv, libraryVars' = libraryVars, backend' = backend,
         stdinBytes' = stdinBytes, root' = root, meaning' = meaning,
         expressionRegions \subseteq expressionRegions', expressionRegions' \subseteq Region,
         held' \subseteq Expression \cup {Null}, InUse' \subseteq InUse \cup Bytes
  PROVE  LifetimeInv'
  <1>1. /\ heap' = heap /\ allocatedExpressions' = allocatedExpressions
        /\ references' = references
        /\ HeapInv' /\ Used' = Used
        /\ \A b \in Address : TrueWidth(b)' = TrueWidth(b) /\ Term(b)' = Term(b)
    BY HeapStays
  <1>2. LifetimeTypeInv'
    BY <1>1, Zenon DEF LifetimeInv, LifetimeTypeInv
  <1>3. Bytes' = Bytes
    BY Zenon DEF Bytes
  <1>4. Remembered'
    <2>1. CASE backend = "simple"
      <3>1. \A e \in allocatedExpressions \cup InUse \cup Bytes : e.addr \in references
        BY <2>1, Zenon DEF LifetimeInv, Remembered
      <3>2. \A e \in allocatedExpressions \cup InUse' \cup Bytes : e.addr \in references
        BY <3>1
      <3> QED BY <1>1, <1>3, <2>1, <3>2, Zenon DEF Remembered
    <2>2. CASE backend # "simple"
      <3>1. InUse \subseteq allocatedExpressions /\ references = {} /\ stdinBytes = <<>>
        BY <2>2, Zenon DEF LifetimeInv, Remembered
      <3>2. Bytes = {}
        BY <3>1 DEF Bytes
      <3>3. InUse' \subseteq allocatedExpressions
        BY <3>1, <3>2
      <3> QED BY <1>1, <2>2, <3>1, <3>3, Zenon DEF Remembered
    <2> QED BY <2>1, <2>2
  <1>5. StoredWhereSearched'
    BY Zenon DEF LifetimeInv, StoredWhereSearched
  <1>6. \A b \in Used \cap Used' : TrueWidth(b)' = TrueWidth(b) /\ Term(b)' = Term(b)
    <2>1. Used \subseteq Address
      BY Zenon DEF Used
    <2> QED BY <1>1, <2>1
  <1>7. \A e \in InUse' \cup Bytes' : e \in InUse \cup Bytes
    BY <1>3
  <1>8. WidthsKnown' /\ RootsKeepMeaning'
    BY <1>1, <1>2, <1>4, <1>6, <1>7, ClientKept, Zenon
  <1> QED BY <1>1, <1>2, <1>4, <1>5, <1>8, Zenon DEF LifetimeInv

\* An expression is loaded from the shadow or from a registered region.
LEMMA LoadInv ==
  ASSUME LifetimeInv, NEW s \in Slot, Load(s)
  PROVE  LifetimeInv'
  <1>1. /\ held' = held \cup {root[s]}
        /\ libraryVars' = libraryVars /\ backend' = backend /\ stdinBytes' = stdinBytes
        /\ root' = root /\ meaning' = meaning /\ expressionRegions' = expressionRegions
    BY DEF Load
  <1>2. held' \subseteq Expression \cup {Null} /\ expressionRegions' \subseteq Region
    BY <1>1 DEF LifetimeInv, LifetimeTypeInv
  <1>3. InUse' \subseteq InUse \cup Bytes
    BY <1>1 DEF InUse
  <1> QED BY <1>1, <1>2, <1>3, RegistersInv

\* A register is overwritten.
LEMMA ForgetInv ==
  ASSUME LifetimeInv, NEW e, Forget(e)
  PROVE  LifetimeInv'
  <1>1. /\ held' = held \ {e}
        /\ libraryVars' = libraryVars /\ backend' = backend /\ stdinBytes' = stdinBytes
        /\ root' = root /\ meaning' = meaning /\ expressionRegions' = expressionRegions
    BY DEF Forget
  <1>2. held' \subseteq Expression \cup {Null} /\ expressionRegions' \subseteq Region
    BY <1>1 DEF LifetimeInv, LifetimeTypeInv
  <1>3. InUse' \subseteq InUse \cup Bytes
    BY <1>1 DEF InUse
  <1> QED BY <1>1, <1>2, <1>3, RegistersInv

\* _sym_register_expression_region.
LEMMA RegionInv ==
  ASSUME LifetimeInv, NEW r \in Region, registerExpressionRegion(r)
  PROVE  LifetimeInv'
  <1>1. /\ held' = held /\ expressionRegions' = expressionRegions \cup {r}
        /\ libraryVars' = libraryVars /\ backend' = backend /\ stdinBytes' = stdinBytes
        /\ root' = root /\ meaning' = meaning
    BY DEF registerExpressionRegion, clientVars
  <1>2. held' \subseteq Expression \cup {Null} /\ expressionRegions' \subseteq Region
    BY <1>1 DEF LifetimeInv, LifetimeTypeInv
  <1>3. InUse' \subseteq InUse \cup Bytes
    BY <1>1 DEF InUse
  <1> QED BY <1>1, <1>2, <1>3, RegistersInv

\* An expression is stored, and its meaning noted.
LEMMA StoreInv ==
  ASSUME LifetimeInv, NEW s \in Slot, NEW e \in held \cup {Null}, Store(s, e)
  PROVE  LifetimeInv'
  <1>1. /\ s \in Page \cup expressionRegions
        /\ root' = [root EXCEPT ![s] = e]
        /\ meaning' = [meaning EXCEPT ![s] = IF e = Null THEN <<>> ELSE Term(e.addr)]
        /\ libraryVars' = libraryVars /\ backend' = backend /\ stdinBytes' = stdinBytes
        /\ held' = held /\ expressionRegions' = expressionRegions
    BY DEF Store
  <1>2. /\ heap' = heap /\ allocatedExpressions' = allocatedExpressions
        /\ references' = references
        /\ HeapInv' /\ Used' = Used
        /\ \A b \in Address : TrueWidth(b)' = TrueWidth(b) /\ Term(b)' = Term(b)
    BY <1>1, HeapStays
  <1>3. /\ root \in [Slot -> Expression \cup {Null}] /\ DOMAIN meaning = Slot
        /\ held \subseteq Expression \cup {Null}
    BY DEF LifetimeInv, LifetimeTypeInv
  <1>4. \A t \in Slot : root'[t] = IF t = s THEN e ELSE root[t]
    BY <1>1, <1>3
  <1>5. LifetimeTypeInv'
    <2>1. root' \in [Slot -> Expression \cup {Null}]
      BY <1>1, <1>3
    <2>2. DOMAIN meaning' = Slot
      BY <1>1, <1>3
    <2> QED BY <1>1, <1>2, <2>1, <2>2, Zenon DEF LifetimeInv, LifetimeTypeInv
  <1>6. InUse' \subseteq InUse /\ Bytes' = Bytes
    <2>1. InUse' \subseteq InUse
      BY <1>1, <1>4 DEF InUse
    <2> QED BY <1>1, <2>1, Zenon DEF Bytes
  <1>7. Remembered'
    <2>1. CASE backend = "simple"
      <3>1. \A f \in allocatedExpressions \cup InUse \cup Bytes : f.addr \in references
        BY <2>1, Zenon DEF LifetimeInv, Remembered
      <3>2. \A f \in allocatedExpressions \cup InUse' \cup Bytes : f.addr \in references
        BY <1>6, <3>1
      <3> QED BY <1>1, <1>2, <1>6, <2>1, <3>2, Zenon DEF Remembered
    <2>2. CASE backend # "simple"
      <3>1. InUse \subseteq allocatedExpressions /\ references = {} /\ stdinBytes = <<>>
        BY <2>2, Zenon DEF LifetimeInv, Remembered
      <3>2. InUse' \subseteq allocatedExpressions
        BY <1>6, <3>1
      <3> QED BY <1>1, <1>2, <2>2, <3>1, <3>2, Zenon DEF Remembered
    <2> QED BY <2>1, <2>2
  <1>8. StoredWhereSearched'
    BY <1>1, <1>4, Zenon DEF LifetimeInv, StoredWhereSearched
  <1>9. \A f \in InUse \cup Bytes : f.addr \in Address
    <2>1. \A f \in InUse \cup Bytes : f.addr \in Used
      BY InUseIsUsed, Zenon DEF LifetimeInv
    <2> QED BY <2>1 DEF Used
  <1>10. WidthsKnown'
    BY <1>2, <1>6, <1>9, Zenon DEF LifetimeInv, WidthsKnown
  <1>11. RootsKeepMeaning'
    <2> SUFFICES ASSUME NEW t \in Slot, root'[t] # Null
                 PROVE  TermsOfHeight'[MaxHeight][root'[t].addr] = meaning'[t]
      BY Zenon DEF RootsKeepMeaning, Term
    <2>0. \A f \in InUse : TermsOfHeight'[MaxHeight][f.addr] = Term(f.addr)
      BY <1>2, <1>9, Zenon DEF Term
    <2>1. CASE t = s
      <3>1. root'[t] = e /\ e # Null /\ meaning'[t] = Term(e.addr)
        BY <1>1, <1>3, <1>4, <2>1
      <3>2. e \in InUse
        BY <3>1 DEF InUse
      <3> QED BY <2>0, <3>1, <3>2, Zenon
    <2>2. CASE t # s
      <3>1. root'[t] = root[t] /\ meaning'[t] = meaning[t]
        BY <1>1, <1>3, <1>4, <2>2
      <3>2. root[t] \in InUse
        BY <3>1 DEF InUse
      <3>3. Term(root[t].addr) = meaning[t]
        BY <3>1, Zenon DEF LifetimeInv, RootsKeepMeaning
      <3> QED BY <2>0, <3>1, <3>2, <3>3, Zenon
    <2> QED BY <2>1, <2>2
  <1> QED BY <1>2, <1>5, <1>7, <1>8, <1>10, <1>11, Zenon DEF LifetimeInv

\* A byte that has been read before is the same expression again; a new one is
\* a new variable, and the bytes that have been skipped stay without.
LEMMA SimpleInputByteInv ==
  ASSUME LifetimeInv, NEW offset \in Offset, SimpleInputByte(offset)
  PROVE  LifetimeInv'
  <1>0. /\ offset \in Nat /\ backend = "simple"
        /\ stdinBytes \in Seq(Expression \cup {Null})
        /\ Len(stdinBytes) \in Nat /\ DOMAIN stdinBytes = 1..Len(stdinBytes)
    <2>1. offset \in Nat
      BY LifetimeAssumption
    <2>2. backend = "simple" /\ stdinBytes \in Seq(Expression \cup {Null})
      BY Zenon DEF SimpleInputByte, LifetimeInv, LifetimeTypeInv
    <2> QED BY <2>1, <2>2
  <1>1. CASE offset < Len(stdinBytes)
    <2> DEFINE e == stdinBytes[offset + 1]
    <2>1. /\ held' = held \cup {e}
          /\ libraryVars' = libraryVars /\ backend' = backend /\ stdinBytes' = stdinBytes
          /\ root' = root /\ meaning' = meaning /\ expressionRegions' = expressionRegions
      BY <1>1 DEF SimpleInputByte
    <2>2. offset + 1 \in DOMAIN stdinBytes
      BY <1>0, <1>1
    <2>3. e \in Expression \cup {Null} /\ (e # Null => e \in Bytes)
      BY <1>0, <2>2 DEF Bytes
    <2> HIDE DEF e
    <2>4. held' \subseteq Expression \cup {Null} /\ expressionRegions' \subseteq Region
      BY <2>1, <2>3 DEF LifetimeInv, LifetimeTypeInv
    <2>5. InUse' \subseteq InUse \cup Bytes
      BY <2>1, <2>3 DEF InUse
    <2> QED BY <2>1, <2>4, <2>5, RegistersInv
  <1>2. CASE ~(offset < Len(stdinBytes))
    <2> DEFINE n == Variable(Len(stdinBytes))
    <2>1. PICK a \in Place(n) :
            /\ Give(n, Expr(a, 8), allocatedExpressions, references \cup {a})
            /\ stdinBytes' = [k \in 1..(offset + 1) |->
                 IF k <= Len(stdinBytes) THEN stdinBytes[k]
                 ELSE IF k = offset + 1 THEN Expr(a, 8) ELSE Null]
      BY <1>2, Zenon DEF SimpleInputByte
    <2> DEFINE refs == references \cup {a}
    <2>2. Buildable(n, 8)
      BY LeafBuildable, Zenon
    <2>3. a \in Address
      BY PlaceFree
    <2>4. Expr(a, 8) \in Expression /\ Expr(a, 8).addr = a
      BY <2>3 DEF Expr, Expression
    <2>5. /\ \A e \in allocatedExpressions \cup InUse \cup Bytes : e.addr \in references
          /\ allocatedExpressions \subseteq Expression /\ references \subseteq Address
          /\ references \subseteq Used
          /\ \A e \in allocatedExpressions : e.addr \in Used
      BY <1>0 DEF LifetimeInv, LifetimeTypeInv, HeapInv, Remembered, Owned
    <2>6. refs \subseteq Address /\ Owned(allocatedExpressions, refs) \subseteq Used \cup {a}
          /\ a \in Owned(allocatedExpressions, refs)
      BY <2>3, <2>5 DEF Owned
    <2>7. Give(n, Expr(a, 8), allocatedExpressions, refs)
      BY <2>1, Zenon
    <2> HIDE DEF n, refs
    <2>8. /\ heap' = [b \in Address |-> heap'[b]]
          /\ \A b \in Address : IsNode(heap'[b])
          /\ HeapInv'
          /\ \A b \in Used \cap Used' : TrueWidth(b)' = TrueWidth(b) /\ Term(b)' = Term(b)
          /\ TrueWidth(a)' < 256 => 8 = TrueWidth(a)'
          /\ allocatedExpressions' = allocatedExpressions /\ references' = refs
          /\ backend' = backend /\ expressionRegions' = expressionRegions
          /\ root' = root /\ meaning' = meaning
          /\ held' = held \cup {Expr(a, 8)}
          /\ InUse' = InUse \cup {Expr(a, 8)}
          /\ StoredWhereSearched'
      <3>1. 8 \in Nat
        OBVIOUS
      <3> QED BY <2>2, <2>5, <2>6, <2>7, <3>1, GiveStep
    <2>9. /\ DOMAIN stdinBytes' = 1..(offset + 1)
          /\ \A k \in 1..(offset + 1) : stdinBytes'[k] =
               IF k <= Len(stdinBytes) THEN stdinBytes[k]
               ELSE IF k = offset + 1 THEN Expr(a, 8) ELSE Null
      BY <2>1
    <2>10. \A k \in 1..(offset + 1) :
             /\ stdinBytes'[k] \in Expression \cup {Null}
             /\ stdinBytes'[k] # Null => stdinBytes'[k] \in Bytes \cup {Expr(a, 8)}
      <3> SUFFICES ASSUME NEW k \in 1..(offset + 1)
                   PROVE  /\ stdinBytes'[k] \in Expression \cup {Null}
                          /\ stdinBytes'[k] # Null => stdinBytes'[k] \in Bytes \cup {Expr(a, 8)}
        OBVIOUS
      <3>1. CASE k <= Len(stdinBytes)
        <4>1. stdinBytes'[k] = stdinBytes[k] /\ k \in DOMAIN stdinBytes
          BY <1>0, <2>9, <3>1
        <4> QED BY <1>0, <4>1 DEF Bytes
      <3>2. CASE ~(k <= Len(stdinBytes))
        <4>1. stdinBytes'[k] \in {Expr(a, 8), Null}
          BY <2>9, <3>2
        <4> QED BY <2>4, <4>1
      <3> QED BY <3>1, <3>2
    <2>11. stdinBytes' \in Seq(Expression \cup {Null})
      <3>1. stdinBytes' = [k \in 1..(offset + 1) |-> stdinBytes'[k]]
        BY <2>1
      <3>2. stdinBytes' \in [1..(offset + 1) -> Expression \cup {Null}]
        BY <2>9, <2>10, <3>1
      <3>3. offset + 1 \in Nat
        BY <1>0
      <3> QED BY <3>2, <3>3
    <2>12. Bytes' \subseteq Bytes \cup {Expr(a, 8)}
      BY <2>9, <2>10, Zenon DEF Bytes
    <2>13. Remembered'
      <3>1. \A e \in allocatedExpressions \cup (InUse \cup {Expr(a, 8)}) \cup Bytes' :
              e.addr \in refs
        BY <2>4, <2>5, <2>12 DEF refs
      <3> QED BY <1>0, <2>8, <3>1, Zenon DEF Remembered
    <2>14. allocatedExpressions' \subseteq Expression /\ references' \subseteq Address
      BY <2>5, <2>6, <2>8
    <2> QED BY <2>4, <2>8, <2>11, <2>12, <2>13, <2>14, GivenInv
  <1> QED BY <1>1, <1>2

(***************************************************************************)
(* The theorems.                                                           *)
(***************************************************************************)

\* Nothing has been allocated.
LEMMA LifetimeInitInv == LifetimeInit => LifetimeInv
  <1> SUFFICES ASSUME LifetimeInit PROVE LifetimeInv
    OBVIOUS
  <1>0. MaxHeight \in Nat
    BY LifetimeAssumption
  <1>1. /\ \A a \in Address : heap[a] = Free /\ IsNode(heap[a]) /\ DOMAIN heap[a].args = {}
        /\ heap = [a \in Address |-> heap[a]]
    BY FreeIsNode DEF LifetimeInit
  <1>2. InUse = {} /\ Bytes = {} /\ Used = {}
    BY <1>1 DEF LifetimeInit, InUse, Bytes, Used
  <1>3. LifetimeTypeInv
    <2>1. backend \in {"simple", "qsym", "rust"}
      BY LifetimeAssumption DEF LifetimeInit
    <2>2. stdinBytes \in Seq(Expression \cup {Null})
      BY DEF LifetimeInit
    <2>3. root \in [Slot -> Expression \cup {Null}] /\ DOMAIN meaning = Slot
      BY DEF LifetimeInit
    <2>4. /\ allocatedExpressions \subseteq Expression /\ references \subseteq Address
          /\ expressionRegions \subseteq Region /\ held \subseteq Expression \cup {Null}
      BY DEF LifetimeInit
    <2> QED BY <1>1, <2>1, <2>2, <2>3, <2>4 DEF LifetimeTypeInv
  <1>4. HeapInv
    <2>1. ASSUME NEW a \in Address PROVE a \in Heights[MaxHeight]
      BY <1>0, <1>1, LayersHere, HeightAt, Zenon
    <2>2. Owned(allocatedExpressions, references) = {}
      BY DEF LifetimeInit, Owned
    <2> QED BY <1>2, <2>1, <2>2 DEF HeapInv, Closed
  <1>5. Remembered
    BY <1>2 DEF LifetimeInit, Remembered
  <1>6. \A s \in Slot : root[s] = Null
    BY DEF LifetimeInit
  <1> QED BY <1>2, <1>3, <1>4, <1>5, <1>6
          DEF LifetimeInv, StoredWhereSearched, WidthsKnown, RootsKeepMeaning

\* Every step of the program, of a backend and of a collection.
LEMMA LifetimeNextInv == LifetimeInv /\ [LifetimeNext]_lifetimeVars => LifetimeInv'
  <1> SUFFICES ASSUME LifetimeInv, [LifetimeNext]_lifetimeVars PROVE LifetimeInv'
    OBVIOUS
  <1>1. CASE SimpleConstant \/ QsymConstant \/ RustConstant
    BY <1>1, LeafInv
  <1>2. ASSUME NEW offset \in Offset,
               SimpleInputByte(offset) \/ QsymInputByte(offset) \/ RustInputByte(offset)
        PROVE  LifetimeInv'
    BY <1>2, LeafInv, SimpleInputByteInv
  <1>3. ASSUME NEW e \in BitVectors,
               \/ SimpleUnary(e) \/ QsymUnary(e) \/ RustUnary(e)
               \/ SimpleExtend(e) \/ QsymExtend(e) \/ RustExtend(e)
               \/ SimpleTruncate(e) \/ QsymTruncate(e) \/ RustTruncate(e)
        PROVE  LifetimeInv'
    <2>1. e \in Operands
      BY DEF BitVectors
    <2> QED BY <1>3, <2>1, UnaryInv
  <1>4. ASSUME NEW e \in Operands, NEW f \in Operands,
               SimpleCompare(e, f) \/ QsymCompare(e, f) \/ RustCompare(e, f)
        PROVE  LifetimeInv'
    BY <1>4, ComparisonInv
  <1>5. ASSUME NEW e \in BitVectors, NEW f \in BitVectors,
               \/ SimpleConcat(e, f) \/ QsymConcat(e, f) \/ RustConcat(e, f)
               \/ SimpleBinary(e, f) \/ QsymBinary(e, f) \/ RustBinary(e, f)
        PROVE  LifetimeInv'
    <2>1. e \in Operands /\ f \in Operands
      BY DEF BitVectors
    <2> QED BY <1>5, <2>1, ConcatInv, ArithmeticInv
  <1>6. ASSUME NEW s \in Slot, (\E e \in held \cup {Null} : Store(s, e)) \/ Load(s)
        PROVE  LifetimeInv'
    BY <1>6, StoreInv, LoadInv
  <1>7. ASSUME NEW e \in held, Forget(e) PROVE LifetimeInv'
    BY <1>7, ForgetInv
  <1>8. ASSUME NEW r \in Region, registerExpressionRegion(r) PROVE LifetimeInv'
    BY <1>8, RegionInv
  <1>9. CASE SimpleCollect \/ QsymCollect \/ RustCollect
    BY <1>9, CollectStep, Zenon DEF SimpleCollect, QsymCollect, RustCollect
  <1>10. CASE UNCHANGED lifetimeVars
    <2>1. /\ libraryVars' = libraryVars /\ backend' = backend /\ stdinBytes' = stdinBytes
          /\ root' = root /\ meaning' = meaning /\ held' = held
          /\ expressionRegions' = expressionRegions
      BY <1>10 DEF lifetimeVars, clientVars
    <2>2. held' \subseteq Expression \cup {Null} /\ expressionRegions' \subseteq Region
      BY <2>1 DEF LifetimeInv, LifetimeTypeInv
    <2>3. InUse' \subseteq InUse \cup Bytes
      BY <2>1 DEF InUse
    <2> QED BY <2>1, <2>2, <2>3, RegistersInv
  <1>11. CASE LifetimeNext
    BY <1>1, <1>2, <1>3, <1>4, <1>5, <1>6, <1>7, <1>8, <1>9, <1>11, Zenon DEF LifetimeNext
  <1> QED BY <1>10, <1>11

\* The invariant that the properties of ExpressionLifetime follow from holds
\* in every state.
THEOREM LifetimeInvariance == LifetimeSpec => []LifetimeInv
  <1>1. LifetimeInit => LifetimeInv
    BY LifetimeInitInv
  <1>2. LifetimeInv /\ [LifetimeNext]_lifetimeVars => LifetimeInv'
    BY LifetimeNextInv
  <1> QED BY <1>1, <1>2, PTL DEF LifetimeSpec

\* No backend loses an expression that the program may still use, however
\* often it collects: what is in a register, in the shadow memory or in a
\* registered region is remembered, or on Z3's heap.
THEOREM ExpressionsUsable == LifetimeSpec => []ExpressionsStayUsable
  <1>1. LifetimeInv => ExpressionsStayUsable
    <2> SUFFICES ASSUME LifetimeInv, NEW e \in InUse
                 PROVE  IF backend = "simple" THEN heap[e.addr] # Free
                        ELSE e \in allocatedExpressions
      BY Zenon DEF ExpressionsStayUsable
    <2>1. e.addr \in Used
      BY InUseIsUsed, Zenon DEF LifetimeInv
    <2> QED BY <2>1, Zenon DEF LifetimeInv, Remembered, Used
  <1> QED BY <1>1, LifetimeInvariance, PTL

\* A stored expression keeps its meaning although addresses are used again: no
\* part of it is freed while the program can reach it.
THEOREM StoredMeaningKept == LifetimeSpec => []RootsKeepMeaning
  <1>1. LifetimeInv => RootsKeepMeaning
    BY DEF LifetimeInv
  <1> QED BY <1>1, LifetimeInvariance, PTL

\* The widths that the backends compute from the widths of the operands are
\* those of the values, up to the 255 bits that the Rust wrapper can pack.
THEOREM WidthsMaintained == LifetimeSpec => []WidthsAreMaintained
  <1>1. LifetimeInv => WidthsAreMaintained
    BY Zenon DEF LifetimeInv, WidthsKnown, WidthsAreMaintained
  <1> QED BY <1>1, LifetimeInvariance, PTL

\* After a collection of the QSYM or the Rust backend, nothing is on the heap
\* but what the program can reach, with what it is built from.
THEOREM CollectionsFree == LifetimeSpec => CollectionFrees
  <1> DEFINE A == QsymCollect \/ RustCollect =>
                    {a \in Address : heap'[a] # Free} =
                      Kept({e.addr : e \in collectReachableExpressions}, heap)
  <1>1. LifetimeInv /\ [LifetimeNext]_lifetimeVars => [A]_lifetimeVars
    <2> SUFFICES ASSUME LifetimeInv, QsymCollect \/ RustCollect
                 PROVE  {a \in Address : heap'[a] # Free} =
                          Kept({e.addr : e \in collectReachableExpressions}, heap)
      OBVIOUS
    <2> DEFINE allocated == allocatedExpressions \cap collectReachableExpressions
    <2>1. backend # "simple" /\ Settle(heap, allocated, references)
      BY DEF QsymCollect, RustCollect, MayCollect
    <2>2. InUse \subseteq allocatedExpressions /\ references = {}
      BY <2>1, Zenon DEF LifetimeInv, Remembered
    <2>3. collectReachableExpressions \subseteq InUse
      BY DEF collectReachableExpressions, InUse, LifetimeInv, LifetimeTypeInv, Slot
    <2>4. allocated = collectReachableExpressions
      BY <2>2, <2>3
    <2>5. Owned(allocated, references) = {e.addr : e \in collectReachableExpressions}
      BY <2>2, <2>4 DEF Owned
    <2>6. Extended(heap)
      BY Zenon DEF LifetimeInv, LifetimeTypeInv, Extended, Used
    <2>7. Owned(allocated, references) \subseteq {a \in Address : heap[a] # Free}
      BY DEF LifetimeInv, HeapInv, Owned, Used
    <2> HIDE DEF allocated
    <2>8. Used' = Kept(Owned(allocated, references), heap)
      BY <2>1, <2>6, <2>7, SettleStep
    <2> QED BY <2>5, <2>8, Zenon DEF Used
  <1> QED BY <1>1, LifetimeInvariance, PTL DEF LifetimeSpec, CollectionFrees
=============================================================================
