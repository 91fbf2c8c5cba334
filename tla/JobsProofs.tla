---------------------------- MODULE JobsProofs ----------------------------
(***************************************************************************)
(* What holds of the job queue for any projects, any paths and any limit.  *)
(***************************************************************************)
EXTENDS Jobs, TLAPS, SequenceTheorems, FiniteSetTheorems

----------------------------------------------------------------------------
(* Hints *)

\* Widening is the only thing the limit does: the capped hint is a hint, covers
\* what it covered before, and is short unless it is the whole tree.
LEMMA CappedWidens ==
    ASSUME NEW hint \in Hint
    PROVE  /\ Capped(hint) \in Hint
           /\ Covered(hint) \subseteq Covered(Capped(hint))
           /\ Capped(hint) # Whole => Cardinality(Capped(hint)) <= MaxPaths
<1>1. hint \in SUBSET Path => Cardinality(hint) \in Nat
  BY HintsAssumption, FS_Subset, FS_CardinalityType
<1>2. CASE hint = Whole
  BY <1>2 DEF Capped, Covered, Hint
<1>3. CASE hint # Whole
  BY <1>1, <1>3, HintsAssumption DEF Capped, Covered, Hint
<1>4. QED
  BY <1>2, <1>3

\* A merged hint covers both submissions.
LEMMA MergeWidens ==
    ASSUME NEW left \in Hint, NEW right \in Hint
    PROVE  /\ Merge(left, right) \in Hint
           /\ Covered(left) \cup Covered(right) \subseteq Covered(Merge(left, right))
           /\ Merge(left, right) # Whole => Cardinality(Merge(left, right)) <= MaxPaths
<1>1. CASE Whole \in {left, right}
  BY <1>1 DEF Merge, Covered, Hint
<1>2. CASE Whole \notin {left, right}
  <2>1. /\ left \cup right \in Hint
        /\ left \cup right # Whole
    BY <1>2, HintsAssumption DEF Hint
  <2>2. Covered(left) \cup Covered(right) = Covered(left \cup right)
    BY <1>2, <2>1 DEF Covered
  <2>3. QED
    BY <1>2, <2>1, <2>2, CappedWidens DEF Merge
<1>3. QED
  BY <1>1, <1>2

----------------------------------------------------------------------------
(* Types *)

LEMMA RequestIsHint == Request \subseteq Hint
BY DEF Request, Hint

\* A step keeps the types, and needs to know that a handler has a job whose root
\* it writes; and it keeps `running` and the job in hand the same.
LEMMA JobsTypeStep ==
    ASSUME TypeOK, RunningIsInHand, [Next]_jobsVars
    PROVE  TypeOK'
<1>1. ASSUME NEW r \in Root, NEW paths \in Request, Submit(r, paths)
      PROVE  TypeOK'
  <2>1. /\ paths \in Hint
        /\ Capped(paths) \in Hint
        /\ Covered(paths) \subseteq Path
    BY RequestIsHint, CappedWidens DEF Covered, Hint
  <2>2. asked' \in [Root -> SUBSET Path]
    BY <1>1, <2>1 DEF Submit, TypeOK
  <2>3. CASE r \in DOMAIN hints
    <3>1. Merge(hints[r], Capped(paths)) \in Hint
      BY <2>1, <2>3, MergeWidens DEF TypeOK
    <3>2. hints' = Put(hints, r, Merge(hints[r], Capped(paths)))
      BY <1>1, <2>3 DEF Submit
    <3>3. /\ DOMAIN hints' \subseteq Root
          /\ hints' \in [DOMAIN hints' -> Hint]
      BY <3>1, <3>2 DEF Put, TypeOK
    <3>4. QED
      BY <1>1, <2>2, <2>3, <3>3 DEF Submit, TypeOK
  <2>4. CASE r \notin DOMAIN hints
    <3>1. hints' = Put(hints, r, Capped(paths))
      BY <1>1, <2>4 DEF Submit
    <3>2. /\ DOMAIN hints' \subseteq Root
          /\ hints' \in [DOMAIN hints' -> Hint]
      BY <2>1, <3>1 DEF Put, TypeOK
    <3>3. waiting' \in Seq(Root)
      BY <1>1, <2>4, AppendProperties DEF Submit, TypeOK
    <3>4. QED
      BY <1>1, <2>2, <3>2, <3>3 DEF Submit, TypeOK
  <2>5. QED
    BY <2>3, <2>4
<1>2. CASE Take
  <2>1. /\ Head(waiting) \in Root
        /\ waiting' \in Seq(Root)
    BY <1>2, HeadTailProperties DEF Take, TypeOK
  <2>2. /\ DOMAIN hints' \subseteq Root
        /\ hints' \in [DOMAIN hints' -> Hint]
    BY <1>2 DEF Take, TypeOK, Without, Restrict
  <2>3. job' \in Job
    BY <1>2, <2>1 DEF Take, TypeOK, Job, Hint
  <2>4. QED
    BY <1>2, <2>1, <2>2, <2>3 DEF Take, TypeOK
<1>3. CASE Drain
  BY <1>3, EmptySeq DEF Drain, TypeOK, Restrict
<1>4. CASE PassSucceeds
  BY <1>4 DEF PassSucceeds, Done, TypeOK
<1>5. CASE PassRaises
  BY <1>5 DEF PassRaises, TypeOK
<1>6. CASE HandlerRecords
  <2>1. job \in Job
    BY <1>6 DEF HandlerRecords, RunningIsInHand, TypeOK
  <2>2. failing' \subseteq Root
    BY <1>6, <2>1 DEF HandlerRecords, TypeOK, Job
  <2>3. QED
    BY <1>6, <2>2 DEF HandlerRecords, Done, TypeOK
<1>7. CASE HandlerRaises
  BY <1>7 DEF HandlerRaises, Done, TypeOK
<1>8. CASE RegistryFlips
  BY <1>8 DEF RegistryFlips, TypeOK
<1>9. CASE UNCHANGED jobsVars
  BY <1>9 DEF jobsVars, TypeOK
<1>10. QED
  BY <1>1, <1>2, <1>3, <1>4, <1>5, <1>6, <1>7, <1>8, <1>9 DEF Next

LEMMA InHandStep ==
    ASSUME TypeOK, RunningIsInHand, [Next]_jobsVars
    PROVE  RunningIsInHand'
<1>1. ASSUME NEW r \in Root, NEW paths \in Request, Submit(r, paths)
      PROVE  RunningIsInHand'
  BY <1>1 DEF Submit, RunningIsInHand
<1>2. CASE Take
  <2>1. /\ Head(waiting) \in Root
        /\ job' \in Job
        /\ job'.root = Head(waiting)
    BY <1>2, HeadTailProperties DEF Take, TypeOK, Job, Hint
  <2>2. job' # Idle
    BY <2>1, JobsAssumption DEF Job
  <2>3. QED
    BY <1>2, <2>1, <2>2 DEF Take, RunningIsInHand
<1>3. CASE Drain
  BY <1>3 DEF Drain, RunningIsInHand
<1>4. CASE PassSucceeds
  BY <1>4 DEF PassSucceeds, Done, RunningIsInHand
<1>5. CASE PassRaises
  BY <1>5 DEF PassRaises, RunningIsInHand
<1>6. CASE HandlerRecords
  BY <1>6 DEF HandlerRecords, Done, RunningIsInHand
<1>7. CASE HandlerRaises
  BY <1>7 DEF HandlerRaises, Done, RunningIsInHand
<1>8. CASE RegistryFlips
  BY <1>8 DEF RegistryFlips, RunningIsInHand
<1>9. CASE UNCHANGED jobsVars
  BY <1>9 DEF jobsVars, RunningIsInHand
<1>10. QED
  BY <1>1, <1>2, <1>3, <1>4, <1>5, <1>6, <1>7, <1>8, <1>9 DEF Next

\* What runs is what the worker holds, whatever threads submit and whatever fails.
THEOREM TypeCorrect == Spec => [](TypeOK /\ RunningIsInHand)
<1>1. Init => TypeOK /\ RunningIsInHand
  BY DEF Init, TypeOK, RunningIsInHand, Hint
<1>2. QED
  BY <1>1, JobsTypeStep, InHandStep, PTL DEF Spec

\* Every variable of the queue and of the worker keeps its type.
THEOREM QueueTypes == Spec => []TypeOK
BY TypeCorrect, PTL

----------------------------------------------------------------------------
(* The deque and the dict *)

\* The two ways the deque changes, element by element.
LEMMA AppendElements ==
    ASSUME NEW S, NEW s \in Seq(S), NEW e \in S
    PROVE  /\ DOMAIN Append(s, e) = 1..(Len(s) + 1)
           /\ \A i \in 1..Len(s) : Append(s, e)[i] = s[i]
           /\ Append(s, e)[Len(s) + 1] = e
           /\ DOMAIN s = 1..Len(s)
           /\ Len(s) \in Nat
BY AppendProperties, LenProperties

LEMMA TailElements ==
    ASSUME NEW S, NEW s \in Seq(S), s # <<>>
    PROVE  /\ DOMAIN Tail(s) = 1..(Len(s) - 1)
           /\ \A i \in 1..(Len(s) - 1) : Tail(s)[i] = s[i + 1]
           /\ Head(s) = s[1]
           /\ DOMAIN s = 1..Len(s)
           /\ Len(s) \in Nat \ {0}
BY HeadTailProperties, LenProperties, EmptySeq

\* What `submit` and `_pop` preserve: the deque names each key of the dict once.
LEMMA SubmitKeepsOneEntry ==
    ASSUME NEW r \in Root, NEW paths \in Request,
           TypeOK, OneEntryPerRoot, Submit(r, paths)
    PROVE  OneEntryPerRoot'
<1>1. CASE r \in DOMAIN hints
  <2>1. DOMAIN hints' = DOMAIN hints /\ waiting' = waiting
    BY <1>1 DEF Submit, Put
  <2>2. QED
    BY <2>1 DEF OneEntryPerRoot
<1>2. CASE r \notin DOMAIN hints
  <2>1. /\ DOMAIN hints' = DOMAIN hints \cup {r}
        /\ waiting' = Append(waiting, r)
    BY <1>2 DEF Submit, Put
  <2>2. /\ DOMAIN waiting' = 1..(Len(waiting) + 1)
        /\ \A i \in 1..Len(waiting) : waiting'[i] = waiting[i]
        /\ waiting'[Len(waiting) + 1] = r
        /\ DOMAIN waiting = 1..Len(waiting)
        /\ Len(waiting) \in Nat
    BY <2>1, AppendElements DEF TypeOK
  <2>3. \A i \in DOMAIN waiting : waiting[i] # r
    BY <1>2 DEF OneEntryPerRoot
  <2>4. ASSUME NEW i \in DOMAIN waiting', NEW j \in DOMAIN waiting',
               waiting'[i] = waiting'[j]
        PROVE  i = j
    <3>1. (i \in DOMAIN waiting \/ i = Len(waiting) + 1) /\ (j \in DOMAIN waiting \/ j = Len(waiting) + 1)
      BY <2>2
    <3>2. CASE i \in DOMAIN waiting /\ j \in DOMAIN waiting
      BY <2>2, <2>4, <3>2 DEF OneEntryPerRoot
    <3>3. CASE i \in DOMAIN waiting /\ j = Len(waiting) + 1
      BY <2>2, <2>3, <2>4, <3>3
    <3>4. CASE i = Len(waiting) + 1 /\ j \in DOMAIN waiting
      BY <2>2, <2>3, <2>4, <3>4
    <3>5. QED
      BY <3>1, <3>2, <3>3, <3>4
  <2>5. {waiting'[i] : i \in DOMAIN waiting'} = DOMAIN hints'
    BY <2>1, <2>2 DEF OneEntryPerRoot
  <2>6. QED
    BY <2>4, <2>5 DEF OneEntryPerRoot
<1>3. QED
  BY <1>1, <1>2

LEMMA TakeKeepsOneEntry ==
    ASSUME TypeOK, OneEntryPerRoot, Take
    PROVE  OneEntryPerRoot'
<1>1. /\ waiting' = Tail(waiting)
      /\ DOMAIN hints' = DOMAIN hints \ {Head(waiting)}
  BY DEF Take, Without, Restrict
<1>2. /\ DOMAIN waiting' = 1..(Len(waiting) - 1)
      /\ \A i \in 1..(Len(waiting) - 1) : waiting'[i] = waiting[i + 1]
      /\ Head(waiting) = waiting[1]
      /\ DOMAIN waiting = 1..Len(waiting)
      /\ Len(waiting) \in Nat \ {0}
  BY <1>1, TailElements DEF Take, TypeOK
<1>3. ASSUME NEW i \in DOMAIN waiting', NEW j \in DOMAIN waiting',
             waiting'[i] = waiting'[j]
      PROVE  i = j
  <2>1. i + 1 \in DOMAIN waiting /\ j + 1 \in DOMAIN waiting
    BY <1>2
  <2>2. i + 1 = j + 1
    BY <1>2, <1>3, <2>1 DEF OneEntryPerRoot
  <2>3. QED
    BY <1>2, <2>2
<1>4. {waiting'[i] : i \in DOMAIN waiting'} = DOMAIN hints'
  <2>1. ASSUME NEW i \in DOMAIN waiting'
        PROVE  waiting'[i] \in DOMAIN hints'
    <3>1. i + 1 \in DOMAIN waiting /\ 1 \in DOMAIN waiting /\ i + 1 # 1
      BY <1>2
    <3>2. waiting[i + 1] # waiting[1]
      BY <3>1 DEF OneEntryPerRoot
    <3>3. QED
      BY <1>1, <1>2, <3>1, <3>2 DEF OneEntryPerRoot
  <2>2. ASSUME NEW k \in DOMAIN hints'
        PROVE  \E i \in DOMAIN waiting' : waiting'[i] = k
    <3>1. PICK m \in DOMAIN waiting : waiting[m] = k
      BY <1>1 DEF OneEntryPerRoot
    <3>2. m # 1
      BY <1>1, <1>2, <3>1
    <3>3. m - 1 \in DOMAIN waiting' /\ waiting'[m - 1] = k
      BY <1>2, <3>1, <3>2
    <3>4. QED
      BY <3>3
  <2>3. QED
    BY <2>1, <2>2
<1>5. QED
  BY <1>3, <1>4 DEF OneEntryPerRoot

LEMMA OneEntryStep ==
    ASSUME TypeOK, OneEntryPerRoot, [Next]_jobsVars
    PROVE  OneEntryPerRoot'
<1>1. ASSUME NEW r \in Root, NEW paths \in Request, Submit(r, paths)
      PROVE  OneEntryPerRoot'
  BY <1>1, SubmitKeepsOneEntry
<1>2. CASE Take
  BY <1>2, TakeKeepsOneEntry
<1>3. CASE Drain
  BY <1>3 DEF Drain, OneEntryPerRoot, Restrict
<1>4. CASE UNCHANGED <<waiting, hints>>
  BY <1>4 DEF OneEntryPerRoot
<1>5. QED
  BY <1>1, <1>2, <1>3, <1>4
  DEF Next, PassSucceeds, PassRaises, HandlerRecords, HandlerRaises, RegistryFlips,
      jobsVars

\* The deque and the dict hold the same roots, each once, in every state.
THEOREM QueueConsistent == Spec => []OneEntryPerRoot
<1>1. Init => OneEntryPerRoot
  BY DEF Init, OneEntryPerRoot
<1>2. QED
  BY <1>1, OneEntryStep, TypeCorrect, PTL DEF Spec
----------------------------------------------------------------------------
(* Hints through the queue *)

\* The hint `submit` leaves behind for r: long enough to cover the request and
\* what waited before, and never longer than the limit.
LEMMA SubmitWidens ==
    ASSUME NEW r \in Root, NEW paths \in Request, TypeOK, Submit(r, paths)
    PROVE  /\ DOMAIN hints' = DOMAIN hints \cup {r}
           /\ Covered(paths) \subseteq Covered(hints'[r])
           /\ r \in DOMAIN hints => Covered(hints[r]) \subseteq Covered(hints'[r])
           /\ hints'[r] # Whole => Cardinality(hints'[r]) <= MaxPaths
           /\ \A k \in DOMAIN hints : k # r => hints'[k] = hints[k]
<1>1. /\ Capped(paths) \in Hint
      /\ Covered(paths) \subseteq Covered(Capped(paths))
      /\ Capped(paths) # Whole => Cardinality(Capped(paths)) <= MaxPaths
  BY RequestIsHint, CappedWidens
<1>2. CASE r \in DOMAIN hints
  <2> DEFINE merged == Merge(hints[r], Capped(paths))
  <2>1. hints' = Put(hints, r, merged)
    BY <1>2 DEF Submit
  <2>2. /\ Covered(hints[r]) \cup Covered(Capped(paths)) \subseteq Covered(merged)
        /\ merged # Whole => Cardinality(merged) <= MaxPaths
    BY <1>1, <1>2, MergeWidens DEF TypeOK
  <2> HIDE DEF merged
  <2>3. QED
    BY <1>1, <1>2, <2>1, <2>2 DEF Put
<1>3. CASE r \notin DOMAIN hints
  <2>1. hints' = Put(hints, r, Capped(paths))
    BY <1>3 DEF Submit
  <2>2. QED
    BY <1>1, <1>3, <2>1 DEF Put
<1>4. QED
  BY <1>2, <1>3

\* Nothing that was asked for is lost before a pass is handed out for it.
THEOREM NothingLost == Spec => []NoAskLost
<1>1. Init => NoAskLost
  BY DEF Init, NoAskLost
<1>2. TypeOK /\ NoAskLost /\ [Next]_jobsVars => NoAskLost'
  <2> SUFFICES ASSUME TypeOK, NoAskLost, [Next]_jobsVars
               PROVE  NoAskLost'
    OBVIOUS
  <2>1. ASSUME NEW r \in Root, NEW paths \in Request, Submit(r, paths)
        PROVE  NoAskLost'
    <3>1. asked' = [asked EXCEPT ![r] = @ \cup Covered(paths)]
      BY <2>1 DEF Submit
    <3>2. ASSUME NEW k \in Root, asked'[k] # {}
          PROVE  k \in DOMAIN hints' /\ asked'[k] \subseteq Covered(hints'[k])
      <4>1. CASE k = r
        <5>1. asked[r] \subseteq Covered(hints'[r])
          BY <2>1, SubmitWidens DEF NoAskLost
        <5>2. QED
          BY <2>1, <3>1, <4>1, <5>1, SubmitWidens DEF TypeOK
      <4>2. CASE k # r
        BY <2>1, <3>1, <3>2, <4>2, SubmitWidens DEF NoAskLost, TypeOK
      <4>3. QED
        BY <4>1, <4>2
    <3>3. QED
      BY <3>2 DEF NoAskLost
  <2>2. CASE Take
    <3>1. /\ asked' = [asked EXCEPT ![Head(waiting)] = {}]
          /\ hints' = Without(hints, Head(waiting))
      BY <2>2 DEF Take
    <3>2. QED
      BY <3>1 DEF NoAskLost, Without, Restrict, TypeOK
  <2>3. CASE Drain
    BY <2>3 DEF Drain, NoAskLost
  <2>4. CASE UNCHANGED <<hints, asked>>
    BY <2>4 DEF NoAskLost
  <2>5. QED
    BY <2>1, <2>2, <2>3, <2>4
    DEF Next, PassSucceeds, PassRaises, HandlerRecords, HandlerRaises, RegistryFlips,
        jobsVars
<1>3. QED
  BY <1>1, <1>2, TypeCorrect, PTL DEF Spec

\* No hint outgrows the limit, however many are merged.
THEOREM Bounded == Spec => []HintBounded
<1>1. Init => HintBounded
  BY DEF Init, HintBounded
<1>2. TypeOK /\ HintBounded /\ [Next]_jobsVars => HintBounded'
  <2> SUFFICES ASSUME TypeOK, HintBounded, [Next]_jobsVars
               PROVE  HintBounded'
    OBVIOUS
  <2>1. ASSUME NEW r \in Root, NEW paths \in Request, Submit(r, paths)
        PROVE  HintBounded'
    <3>1. ASSUME NEW k \in DOMAIN hints', hints'[k] # Whole
          PROVE  Cardinality(hints'[k]) <= MaxPaths
      <4>1. CASE k = r
        BY <2>1, <3>1, <4>1, SubmitWidens
      <4>2. CASE k # r
        <5>1. k \in DOMAIN hints /\ hints'[k] = hints[k]
          BY <2>1, <4>2, SubmitWidens
        <5>2. QED
          BY <3>1, <5>1 DEF HintBounded
      <4>3. QED
        BY <4>1, <4>2
    <3>2. QED
      BY <3>1 DEF HintBounded
  <2>2. CASE Take
    <3>1. /\ DOMAIN hints' \subseteq DOMAIN hints
          /\ \A k \in DOMAIN hints' : hints'[k] = hints[k]
      BY <2>2 DEF Take, Without, Restrict
    <3>2. QED
      BY <3>1 DEF HintBounded
  <2>3. CASE Drain
    BY <2>3 DEF Drain, HintBounded, Restrict
  <2>4. CASE UNCHANGED hints
    BY <2>4 DEF HintBounded
  <2>5. QED
    BY <2>1, <2>2, <2>3, <2>4
    DEF Next, PassSucceeds, PassRaises, HandlerRecords, HandlerRaises, RegistryFlips,
        jobsVars
<1>3. QED
  BY <1>1, <1>2, TypeCorrect, PTL DEF Spec
----------------------------------------------------------------------------
(* The queue implements Serializer *)

\* What a job in hand is to Serializer.
LEMMA InHandWhenBusy ==
    ASSUME TypeOK, job # Idle
    PROVE  InHand # Idle
BY JobsAssumption DEF InHand, TypeOK, Job, Covered, Hint

\* Every step of the queue and its worker is a step of the serializer, or none.
LEMMA StepIsPromised ==
    ASSUME TypeOK, RunningIsInHand, NoAskLost, [Next]_jobsVars
    PROVE  [Promise!Next]_(Promise!vars)
<1>1. ASSUME NEW r \in Root, NEW paths \in Request, Submit(r, paths)
      PROVE  Promise!Ask(r, Covered(paths)) /\ Covered(paths) \in SUBSET Path
  <2>1. Covered(paths) \subseteq Path
    BY RequestIsHint DEF Covered, Hint
  <2>2. InHand' = InHand
    BY <1>1 DEF Submit, InHand
  <2>3. QED
    BY <1>1, <2>1, <2>2 DEF Submit, Promise!Ask
<1>2. ASSUME Take
      PROVE  \E r \in Root, looks \in SUBSET Path : Promise!HandOut(r, looks)
  <2> DEFINE key == Head(waiting)
             paths == IF key \in DOMAIN hints THEN hints[key] ELSE Whole
  <2>1. key \in Root /\ paths \in Hint
    BY <1>2, HeadTailProperties DEF Take, TypeOK, Hint
  <2>2. Covered(paths) \in SUBSET Path
    BY <2>1 DEF Covered, Hint
  <2>3. asked[key] \subseteq Covered(paths)
    BY <2>1 DEF NoAskLost, Covered, TypeOK
  <2>4. job' = [root |-> key, paths |-> paths] /\ job' # Idle
    BY <1>2, <2>1, JobsAssumption DEF Take
  <2>5. InHand = Idle /\ InHand' = [root |-> key, looks |-> Covered(paths)]
    <3>1. InHand = Idle
      BY <1>2 DEF Take, InHand
    <3>2. InHand' = [root |-> job'.root, looks |-> Covered(job'.paths)]
      BY <2>4 DEF InHand, Covered
    <3>3. QED
      BY <2>4, <3>1, <3>2
  <2>6. asked' = [asked EXCEPT ![key] = {}]
    BY <1>2 DEF Take
  <2> HIDE DEF key, paths
  <2>7. Promise!HandOut(key, Covered(paths))
    BY <2>3, <2>5, <2>6 DEF Promise!HandOut
  <2>8. QED
    BY <2>1, <2>2, <2>7
<1>3. ASSUME Drain
      PROVE  Promise!Discard
  BY <1>3 DEF Drain, Promise!Discard, InHand
<1>4. ASSUME PassSucceeds \/ HandlerRecords \/ HandlerRaises
      PROVE  Promise!Finish
  <2>1. job # Idle /\ job' = Idle /\ asked' = asked
    BY <1>4 DEF PassSucceeds, HandlerRecords, HandlerRaises, Done, RunningIsInHand
  <2>2. InHand # Idle /\ InHand' = Idle
    BY <2>1, InHandWhenBusy DEF InHand
  <2>3. QED
    BY <2>1, <2>2 DEF Promise!Finish
<1>5. ASSUME PassRaises \/ RegistryFlips \/ UNCHANGED jobsVars
      PROVE  UNCHANGED Promise!vars
  BY <1>5 DEF PassRaises, RegistryFlips, jobsVars, Promise!vars, InHand
<1>6. QED
  BY <1>1, <1>2, <1>3, <1>4, <1>5 DEF Next, Promise!Next

\* The queue with its deque, its dict and its limit does what Serializer says:
\* a pass looks at all that was asked for, and one pass runs at a time.
THEOREM Implements == Spec => KeepsPromise
<1>1. Init => Promise!Init
  BY DEF Init, Promise!Init, InHand
<1>2. QED
  BY <1>1, StepIsPromised, TypeCorrect, NothingLost, PTL
  DEF Spec, KeepsPromise, Promise!Spec
============================================================================
