--------------------------- MODULE DeltaRpmsProofs ---------------------------
(***************************************************************************)
(* The stage of createrepo_c that makes the delta rpms, for any number of  *)
(* threads and targets, any sizes and limits and any old packages: the     *)
(* scheduler keeps its limits, sleeps only when it has nothing to hand     *)
(* out, and uses the newest old packages; what is made is listed.          *)
(*                                                                         *)
(* The limits are not inductive: that the stale copies of the counters may *)
(* be trusted rests on the counters only going down while the main thread  *)
(* decides (Stale), and that they never go below zero on each target in    *)
(* work being counted once and found in one place (Alone, Counted).  That  *)
(* the newest old packages are used rests on how far the thread of a       *)
(* target has come in each directory (Progress).                           *)
(***************************************************************************)
EXTENDS PrestoDelta, FiniteSetTheorems, SequenceTheorems, WellFoundedInduction,
        TLAPS

\* A target in work is in one place.
Alone ==
    /\ \A i, j \in DOMAIN queue : queue[i] = queue[j] => i = j
    /\ \A v, w \in Workers :
          target[v] = target[w] /\ target[v] # NoTarget => v = w
    /\ \A i \in DOMAIN queue, w \in Workers : queue[i] # target[w]
    /\ \A i \in DOMAIN queue : queue[i] # chosen
    /\ \A w \in Workers : chosen # NoTarget => target[w] # chosen
    /\ targets \cap InWork = {}

Counted ==
    /\ Cardinality(InWork) = activeTasks
    /\ SizeOf(InWork) = activeSize
    /\ activeSize <= MaxWork
    /\ mainPc \in {"scan_old", "start"} => InWork = {}
    /\ mainPc = "pushing" <=> chosen # NoTarget

\* While the main thread uses its copies the counters can only have gone down,
\* and they have gone down together.
Stale ==
    /\ mainPc \in {"select", "stuck", "sleep_stuck"} =>
          /\ activeTasks <= snapTasks
          /\ activeSize <= snapSize
          /\ activeTasks = snapTasks => activeSize = snapSize
    /\ mainPc = "select" => snapTasks < WorkerCount
    /\ mainPc \in {"stuck", "sleep_stuck"} => \A t \in targets : ~Fits(t)
    /\ mainPc = "sleep_stuck" => activeTasks = snapTasks
    /\ mainPc = "sleep_busy" => activeTasks = WorkerCount

\* A thread without a task has nothing left to do.
Idle == \A w \in Workers : target[w] = NoTarget => rest[w] = {}

IInv == TypeOK /\ Alone /\ Counted /\ Stale /\ Idle

\* The two counters say what is really in work.
CountersRight ==
    /\ activeSize = SizeOf(InWork)
    /\ activeTasks = Cardinality(InWork)

-----------------------------------------------------------------------------
(* Induction over finite sets and numbers, as facts about sets: what the  *)
(* lemmas about sums need, and the provers can instantiate.               *)

\* A family of subsets of a finite set that has the empty set, and with a set
\* every set with one more element, has the set itself.
LEMMA SubsetInduction ==
    ASSUME NEW S, IsFiniteSet(S), NEW F, {} \in F,
           \A T \in SUBSET S : T \in F => \A x \in S \ T : T \union {x} \in F
    PROVE  S \in F
<1> DEFINE Bad == {T \in SUBSET S : T \notin F}
<1> SUFFICES ASSUME S \notin F PROVE FALSE
    OBVIOUS
<1>1. S \in Bad
    OBVIOUS
<1>2. Bad \subseteq FiniteSubsetsOf(S)
    BY FS_Subset DEF FiniteSubsetsOf
<1>3. PICK T \in Bad : \A U \in Bad : <<U, T>> \notin StrictSubsetOrdering(S)
  <2> HIDE DEF Bad
  <2> QED BY <1>1, <1>2, FS_StrictSubsetOrderingWellFounded, WFMin
<1>4. PICK x \in T : TRUE
    BY <1>3
<1>5. T \ {x} \in SUBSET S /\ x \in S \ (T \ {x}) /\ (T \ {x}) \union {x} = T
    BY <1>3, <1>4
<1>6. T \ {x} \in Bad
    BY <1>3, <1>5
<1>7. <<T \ {x}, T>> \in StrictSubsetOrdering(S)
    BY <1>3, <1>4 DEF StrictSubsetOrdering
<1> QED BY <1>3, <1>6, <1>7

\* The natural numbers: what holds of 0 and goes on, holds of all.
LEMMA NatSetInduction ==
    ASSUME NEW F, 0 \in F, \A n \in Nat : n \in F => n + 1 \in F
    PROVE  Nat \subseteq F
<1> SUFFICES ASSUME NEW n \in Nat PROVE n \in F
    OBVIOUS
<1> DEFINE G == {T \in SUBSET (1 .. n) : Cardinality(T) \in F}
<1>1. IsFiniteSet(1 .. n) /\ Cardinality(1 .. n) = n
    BY FS_Interval
<1>2. {} \in G
    BY FS_EmptySet
<1>3. ASSUME NEW T \in SUBSET (1 .. n), T \in G, NEW x \in (1 .. n) \ T
      PROVE  T \union {x} \in G
  <2>1. IsFiniteSet(T)
      BY <1>1, FS_Subset
  <2>2. Cardinality(T \union {x}) = Cardinality(T) + 1 /\ Cardinality(T) \in Nat
      BY <2>1, <1>3, FS_AddElement, FS_CardinalityType
  <2> QED BY <1>3, <2>2
<1>4. 1 .. n \in G
  <2> HIDE DEF G
  <2> QED BY <1>1, <1>2, <1>3, SubsetInduction
<1> QED BY <1>1, <1>4

-----------------------------------------------------------------------------
(* Counters and sums.                                                      *)

USE DeltaRpmsAssumption

LEMMA WorkerCountType == WorkerCount \in Nat /\ WorkerCount > 0
<1>1. WorkerCount \in Nat BY FS_CardinalityType DEF WorkerCount
<1>2. WorkerCount # 0 BY FS_EmptySet DEF WorkerCount
<1> QED BY <1>1, <1>2

LEMMA InWorkType ==
    ASSUME TypeOK
    PROVE  InWork \subseteq Targets /\ IsFiniteSet(InWork)
<1>1. InWork \subseteq Targets BY DEF InWork, TypeOK
<1> QED BY <1>1, FS_Subset

\* The sum of sizes, unfolded: one element is chosen and its size added to the
\* sum of the others.  Which one is chosen makes no difference.
AnyOf(s) == CHOOSE x \in s : TRUE

IsSum(f, T) ==
    f = [s \in SUBSET T |->
           IF s = {} THEN 0 ELSE Size[AnyOf(s)] + f[s \ {AnyOf(s)}]]

LEMMA SizeOfDef ==
    ASSUME NEW T
    PROVE  SizeOf(T) = (CHOOSE f : IsSum(f, T))[T]
BY DEF SizeOf, MapThenSumSet, MapThenFoldSet, IsSum, AnyOf

LEMMA LessOne ==
    ASSUME NEW s, IsFiniteSet(s), NEW x \in s
    PROVE  /\ IsFiniteSet(s \ {x}) /\ s \ {x} \subseteq s
           /\ Cardinality(s) \in Nat /\ Cardinality(s \ {x}) \in Nat
           /\ Cardinality(s \ {x}) = Cardinality(s) - 1
           /\ Cardinality(s) > 0
<1>1. IsFiniteSet(s \ {x})
    BY FS_RemoveElement
<1>2. Cardinality(s) \in Nat /\ Cardinality(s \ {x}) \in Nat
    BY <1>1, FS_CardinalityType
<1>3. Cardinality(s \ {x}) = Cardinality(s) - 1
    BY FS_RemoveElement
<1> QED BY <1>1, <1>2, <1>3

LEMMA AnyOfIn == ASSUME NEW s, s # {} PROVE AnyOf(s) \in s
BY DEF AnyOf

LEMMA SumExists ==
    ASSUME NEW T \in SUBSET Targets
    PROVE  IsSum(CHOOSE f : IsSum(f, T), T)
<1> DEFINE Step(f, s) == IF s = {} THEN 0 ELSE Size[AnyOf(s)] + f[s \ {AnyOf(s)}]
           UpTo(f, n) == /\ f = [s \in SUBSET T |-> f[s]]
                         /\ \A s \in SUBSET T : Cardinality(s) <= n => f[s] = Step(f, s)
           F == {n \in Nat : \E f : UpTo(f, n)}
<1>0. \A s \in SUBSET T : IsFiniteSet(s) /\ Cardinality(s) \in Nat
    BY FS_Subset, FS_CardinalityType
<1>1. 0 \in F
  <2> DEFINE f == [s \in SUBSET T |-> 0]
  <2>1. \A s \in SUBSET T : Cardinality(s) <= 0 => s = {}
      BY <1>0, FS_EmptySet
  <2>2. UpTo(f, 0)
      BY <2>1
  <2> QED BY <2>2
<1>2. ASSUME NEW n \in Nat, n \in F
      PROVE  n + 1 \in F
  <2>1. PICK f : UpTo(f, n)
      BY <1>2
  <2> DEFINE g == [s \in SUBSET T |-> Step(f, s)]
  <2>2. ASSUME NEW s \in SUBSET T, Cardinality(s) <= n + 1, s # {}
        PROVE  g[s] = Step(g, s)
    <3>1. AnyOf(s) \in s
        BY <2>2, AnyOfIn
    <3> DEFINE r == s \ {AnyOf(s)}
    <3>2. r \in SUBSET T /\ Cardinality(r) <= n
        BY <1>0, <2>2, <3>1, LessOne
    <3>3. f[r] = Step(f, r)
        BY <2>1, <3>2
    <3>4. g[r] = Step(f, r)
        BY <3>2
    <3>5. g[s] = Size[AnyOf(s)] + f[r]
        BY <2>2
    <3>6. Step(g, s) = Size[AnyOf(s)] + g[r]
        BY <2>2
    <3> HIDE DEF g, r, Step
    <3> QED BY <3>3, <3>4, <3>5, <3>6
  <2>3. UpTo(g, n + 1)
    <3>1. ASSUME NEW s \in SUBSET T, s = {}
          PROVE  g[s] = Step(g, s)
        BY <3>1
    <3>2. g = [s \in SUBSET T |-> g[s]]
        OBVIOUS
    <3> QED BY <2>2, <3>1, <3>2
  <2> HIDE DEF g, UpTo
  <2>4. \E h : UpTo(h, n + 1)
      BY <2>3
  <2> QED BY <2>4
<1>3. Nat \subseteq F
  <2> HIDE DEF F
  <2> QED BY <1>1, <1>2, NatSetInduction
<1>4. Cardinality(T) \in Nat /\ \A s \in SUBSET T : Cardinality(s) <= Cardinality(T)
    BY <1>0, FS_Subset
<1>5. PICK f : UpTo(f, Cardinality(T))
    BY <1>3, <1>4
<1>6. f = [s \in SUBSET T |-> Step(f, s)]
    BY <1>4, <1>5
<1>7. IsSum(f, T)
    BY <1>6 DEF IsSum
<1> QED BY <1>7

\* Every element can be taken out of a sum.
LEMMA SumSplits ==
    ASSUME NEW T \in SUBSET Targets, NEW f, IsSum(f, T)
    PROVE  \A s \in SUBSET T :
              f[s] \in Nat /\ \A x \in s : f[s] = Size[x] + f[s \ {x}]
<1> DEFINE Good(s) == f[s] \in Nat /\ \A x \in s : f[s] = Size[x] + f[s \ {x}]
           F == {n \in Nat : \A s \in SUBSET T : Cardinality(s) <= n => Good(s)}
<1>0. \A s \in SUBSET T : IsFiniteSet(s) /\ Cardinality(s) \in Nat
    BY FS_Subset, FS_CardinalityType
<1>a. \A s \in SUBSET T :
         f[s] = IF s = {} THEN 0 ELSE Size[AnyOf(s)] + f[s \ {AnyOf(s)}]
    BY DEF IsSum
<1>b. Good({})
  <2>1. {} \in SUBSET T
      OBVIOUS
  <2>2. f[{}] = 0
      BY <1>a, <2>1
  <2> QED BY <2>2
<1>1. 0 \in F
  <2>1. \A s \in SUBSET T : Cardinality(s) <= 0 => s = {}
      BY <1>0, FS_EmptySet
  <2> HIDE DEF Good
  <2> QED BY <1>b, <2>1
<1>2. ASSUME NEW n \in Nat, \A r \in SUBSET T : Cardinality(r) <= n => Good(r),
             NEW s \in SUBSET T, Cardinality(s) <= n + 1, s # {}
      PROVE  Good(s)
  <2> DEFINE c == AnyOf(s)
  <2>1. c \in s /\ f[s] = Size[c] + f[s \ {c}]
      BY <1>a, <1>2, AnyOfIn
  <2> HIDE DEF c
  <2>2. ASSUME NEW x \in s
        PROVE  /\ s \ {x} \in SUBSET T /\ Cardinality(s \ {x}) <= n
               /\ Size[x] \in Nat /\ f[s \ {x}] \in Nat
    <3>1. s \ {x} \in SUBSET T /\ Cardinality(s \ {x}) <= n
        BY <1>0, <1>2, LessOne
    <3> QED BY <1>2, <3>1
  <2>3. ASSUME NEW x \in s, x # c
        PROVE  f[s] = Size[x] + f[s \ {x}]
    <3>1. (s \ {c}) \ {x} = (s \ {x}) \ {c} /\ x \in s \ {c} /\ c \in s \ {x}
        BY <2>1, <2>3
    <3> DEFINE r == (s \ {c}) \ {x}
    <3>2. f[s \ {c}] = Size[x] + f[r]
        BY <1>2, <2>1, <2>2, <3>1
    <3>3. f[s \ {x}] = Size[c] + f[r]
        BY <1>2, <2>2, <3>1
    <3>4. r \in SUBSET T /\ Cardinality(r) <= n
      <4>1. r \subseteq s \ {c} /\ s \ {c} \in SUBSET T /\ Cardinality(s \ {c}) <= n
          BY <2>1, <2>2
      <4>2. Cardinality(r) <= Cardinality(s \ {c}) /\ r \in SUBSET T
          BY <1>0, <4>1, FS_Subset
      <4> QED BY <1>0, <4>1, <4>2
    <3>5. f[r] \in Nat
        BY <1>2, <3>4
    <3> HIDE DEF r
    <3> QED BY <2>1, <2>2, <3>2, <3>3, <3>5
  <2>4. f[s] \in Nat
    <3>1. Size[c] \in Nat /\ f[s \ {c}] \in Nat
        BY <2>1, <2>2
    <3> QED BY <2>1, <3>1
  <2> QED BY <2>1, <2>3, <2>4
<1>3. Nat \subseteq F
  <2>1. ASSUME NEW n \in Nat, n \in F
        PROVE  n + 1 \in F
    <3>1. \A s \in SUBSET T : Cardinality(s) <= n + 1 => Good(s)
      <4> HIDE DEF Good
      <4> QED BY <1>2, <1>b, <2>1
    <3> HIDE DEF Good
    <3> QED BY <3>1
  <2> HIDE DEF F
  <2> QED BY <1>1, <2>1, NatSetInduction
<1>4. ASSUME NEW s \in SUBSET T
      PROVE  Good(s)
  <2>1. Cardinality(s) \in F /\ Cardinality(s) <= Cardinality(s)
      BY <1>0, <1>3
  <2> HIDE DEF Good
  <2> QED BY <2>1
<1> QED BY <1>4

\* The sum over a set does not depend on the set it is a part of.
LEMMA SumsAgree ==
    ASSUME NEW T \in SUBSET Targets, NEW S \in SUBSET T,
           NEW f, IsSum(f, T), NEW g, IsSum(g, S)
    PROVE  f[S] = g[S]
<1> DEFINE F == {s \in SUBSET S : f[s] = g[s]}
<1>1. {} \in F
    BY DEF IsSum
<1>2. ASSUME NEW s \in SUBSET S, s \in F, NEW x \in S \ s
      PROVE  s \union {x} \in F
  <2>1. /\ f[s \union {x}] = Size[x] + f[(s \union {x}) \ {x}]
        /\ g[s \union {x}] = Size[x] + g[(s \union {x}) \ {x}]
    <3>1. s \union {x} \in SUBSET S /\ s \union {x} \in SUBSET T /\ S \in SUBSET Targets
        BY <1>2
    <3> QED BY <1>2, <3>1, SumSplits
  <2>2. (s \union {x}) \ {x} = s
      BY <1>2
  <2> QED BY <1>2, <2>1, <2>2
<1>3. S \in F
  <2>1. IsFiniteSet(S)
      BY FS_Subset
  <2> HIDE DEF F
  <2> QED BY <1>1, <1>2, <2>1, SubsetInduction
<1> QED BY <1>3

LEMMA SizeOfEmpty == SizeOf({}) = 0
<1> DEFINE e == CHOOSE h : IsSum(h, {})
<1>1. IsSum(e, {}) /\ SizeOf({}) = e[{}]
    BY SumExists, SizeOfDef
<1> HIDE DEF e
<1>2. e[{}] = 0
    BY <1>1 DEF IsSum
<1> QED BY <1>1, <1>2

\* What is handed out adds its size to the sum, and takes it with it again.
LEMMA SizeOfAdd ==
    ASSUME NEW S \in SUBSET Targets, NEW t \in Targets \ S
    PROVE  /\ SizeOf(S) \in Nat
           /\ SizeOf(S \union {t}) = SizeOf(S) + Size[t]
<1> DEFINE T == S \union {t}
           f == CHOOSE h : IsSum(h, T)
           g == CHOOSE h : IsSum(h, S)
<1>1. IsSum(f, T) /\ IsSum(g, S)
    BY SumExists
<1>2. SizeOf(T) = f[T] /\ SizeOf(S) = g[S]
    BY SizeOfDef
<1> HIDE DEF f, g
<1>a. T \in SUBSET Targets /\ T \in SUBSET T /\ t \in T /\ S \in SUBSET T /\ S \in SUBSET S
    OBVIOUS
<1>3. f[T] = Size[t] + f[T \ {t}] /\ T \ {t} = S
  <2>1. T \ {t} = S
      OBVIOUS
  <2>2. \A x \in T : f[T] = Size[x] + f[T \ {x}]
    <3> HIDE DEF T
    <3> QED BY <1>1, <1>a, SumSplits
  <2> QED BY <1>a, <2>1, <2>2
<1>b. g[S] \in Nat
    BY <1>1, <1>a, SumSplits
<1>4. f[S] = g[S] /\ g[S] \in Nat
    BY <1>1, <1>a, <1>b, SumsAgree
<1> QED BY <1>2, <1>3, <1>4
-----------------------------------------------------------------------------
(* The invariant is inductive.                                             *)

LEMMA InitIInv == InitDelta => IInv
<1> SUFFICES ASSUME InitDelta PROVE IInv
    OBVIOUS
<1> USE DEF InitDelta
<1>1. InWork = {} BY DEF InWork
<1>2. TypeOK BY WorkerCountType DEF TypeOK
<1>3. Alone BY <1>1 DEF Alone
<1>4. Counted BY <1>1, FS_EmptySet, SizeOfEmpty DEF Counted
<1>5. Stale BY DEF Stale
<1>6. Idle BY DEF Idle
<1> QED BY <1>2, <1>3, <1>4, <1>5, <1>6 DEF IInv

\* A step that moves no target.
LEMMA PlacesUnchanged ==
    ASSUME UNCHANGED <<chosen, queue, target>>
    PROVE  InWork' = InWork
BY DEF InWork

LEMMA AloneUnchanged ==
    ASSUME Alone, UNCHANGED <<chosen, queue, target>>,
           targets' \subseteq targets
    PROVE  Alone'
BY PlacesUnchanged DEF Alone

\* Everything of the main thread but the handing out of a target.
LEMMA MainStep ==
    ASSUME IInv,
           ScanOld \/ Start \/ SleepBusy \/ Snapshot \/ NoneFits \/ SleepStuck
             \/ Retry \/ Join \/ SpuriousWakeup
    PROVE  IInv'
<1> USE DEF IInv
<1>1. UNCHANGED <<chosen, queue, target, activeSize, activeTasks, dirs, rest,
                  count, made, failed>>
    BY DEF ScanOld, Start, SleepBusy, Snapshot, NoneFits, SleepStuck, Retry,
           Join, SpuriousWakeup, counters, work
<1>2. InWork' = InWork
    BY <1>1, PlacesUnchanged
<1>3. /\ targets' = targets \/ mainPc = "start"
      /\ targets' \subseteq Targets
    BY DEF TypeOK, ScanOld, Start, SleepBusy, Snapshot, NoneFits, SleepStuck,
           Retry, Join, SpuriousWakeup, counters, work
<1>4. TypeOK'
  <2>1. /\ mainPc' \in {"scan_old", "start", "push", "sleep_busy", "select",
                        "pushing", "stuck", "sleep_stuck", "deltas_done"}
        /\ snapSize' \in Int /\ snapTasks' \in 0 .. WorkerCount
        /\ oldPackages' \subseteq OldRpms
      BY WorkerCountType
      DEF TypeOK, ScanOld, Start, SleepBusy, Snapshot, NoneFits, SleepStuck,
          Retry, Join, SpuriousWakeup, Awake, counters, work
  <2> QED BY <2>1, <1>1, <1>3 DEF TypeOK
<1>5. Alone'
    BY <1>1, <1>2, <1>3 DEF Alone, Counted
<1>6. Counted'
  <2>1. /\ mainPc' \in {"scan_old", "start"} => mainPc \in {"scan_old", "start"}
        /\ mainPc' # "pushing" /\ mainPc # "pushing"
      BY DEF ScanOld, Start, SleepBusy, Snapshot, NoneFits, SleepStuck, Retry,
             Join, SpuriousWakeup, Awake
  <2> QED BY <2>1, <1>1, <1>2 DEF Counted
<1>7. Stale'
  <2>1. CASE ScanOld \/ Start \/ Retry \/ Join
      BY <2>1 DEF Stale, ScanOld, Start, Retry, Join
  <2>2. CASE SleepBusy
      BY <2>2 DEF Stale, SleepBusy, AllBusy, counters, WorkerCount
  <2>3. CASE Snapshot
      BY <2>3, WorkerCountType DEF Stale, Snapshot, AllBusy, counters, TypeOK, WorkerCount
  <2>4. CASE NoneFits
      BY <2>4 DEF Stale, NoneFits, counters, Fits
  <2>5. CASE SleepStuck
      BY <2>5 DEF Stale, SleepStuck, counters, Fits, NothingFinished
  <2>6. CASE SpuriousWakeup
      BY <2>6 DEF Stale, SpuriousWakeup, counters, Fits, Awake
  <2> QED BY <2>1, <2>2, <2>3, <2>4, <2>5, <2>6
<1>8. Idle'
    BY <1>1 DEF Idle
<1> QED BY <1>4, <1>5, <1>6, <1>7, <1>8

\* The target that is handed out is counted against both limits although the
\* copies may be stale.
LEMMA SelectStep ==
    ASSUME IInv, NEW t \in Targets, Select(t)
    PROVE  IInv'
<1> USE DEF IInv, Select, Selected
<1>1. InWork' = InWork \union {t}
  <2>1. chosen = NoTarget BY DEF Counted
  <2> QED BY <2>1 DEF InWork, work
<1>2. t \notin InWork /\ t \in targets
    BY DEF Alone
<1>3. activeTasks + 1 <= WorkerCount /\ activeSize + Size[t] <= MaxWork
    BY WorkerCountType DEF Stale, Fits, TypeOK
<1>4. TypeOK'
    BY SMTT(30), <1>3, WorkerCountType DEF TypeOK, work, WorkerCount
<1>5. Alone'
  <2>1. /\ \A i \in DOMAIN queue : queue[i] \in InWork
        /\ \A w \in Workers : target[w] = NoTarget \/ target[w] \in InWork
      BY SMTT(30) DEF InWork, TypeOK
  <2> QED BY <1>1, <1>2, <2>1 DEF Alone, work
<1>6. Counted'
  <2>1. Cardinality(InWork') = activeTasks + 1
      BY <1>1, <1>2, InWorkType, FS_AddElement DEF Counted
  <2>2. SizeOf(InWork') = activeSize + Size[t]
      BY <1>1, <1>2, InWorkType, SizeOfAdd DEF Counted
  <2> QED BY <2>1, <2>2, <1>3 DEF Counted
<1>7. Stale'
    BY DEF Stale
<1>8. Idle'
    BY DEF Idle, work
<1> QED BY <1>4, <1>5, <1>6, <1>7, <1>8

\* Handing a target on, to the queue or to a thread, moves it.
LEMMA PushStep ==
    ASSUME IInv, Push
    PROVE  IInv'
<1> USE DEF IInv, Push
<1>1. chosen \in Targets /\ queue \in Seq(Targets) /\ chosen # NoTarget
    BY DEF Counted, TypeOK
<1>2. /\ DOMAIN queue = 1 .. Len(queue) /\ Len(queue) \in Nat
      /\ DOMAIN queue' = 1 .. Len(queue) + 1
      /\ \A i \in DOMAIN queue : queue'[i] = queue[i]
      /\ queue'[Len(queue) + 1] = chosen
      /\ queue' \in Seq(Targets)
    BY <1>1
<1>3. {queue'[i] : i \in DOMAIN queue'}
         = {queue[i] : i \in DOMAIN queue} \union {chosen}
    BY <1>2
<1>4. InWork' = InWork
    BY <1>1, <1>3 DEF InWork, work
<1>5. TypeOK'
    BY <1>2 DEF TypeOK, work, counters
<1>6. Alone'
  <2>1. \A i, j \in DOMAIN queue' : queue'[i] = queue'[j] => i = j
      BY <1>2 DEF Alone
  <2>2. \A i \in DOMAIN queue', w \in Workers : queue'[i] # target[w]
      BY <1>1, <1>2 DEF Alone
  <2>3. \A i \in DOMAIN queue' : queue'[i] # NoTarget
      BY <1>2
  <2> QED BY <1>4, <2>1, <2>2, <2>3 DEF Alone, work
<1>7. Counted'
    BY <1>4 DEF Counted, counters
<1>8. Stale'
    BY DEF Stale
<1>9. Idle'
    BY DEF Idle, work
<1> QED BY <1>5, <1>6, <1>7, <1>8, <1>9

\* Taking the head of a queue moves its elements down by one.
LEMMA TailElements ==
    ASSUME NEW q \in Seq(Targets), q # <<>>
    PROVE  /\ Tail(q) \in Seq(Targets) /\ Head(q) \in Targets
           /\ 1 \in DOMAIN q /\ Head(q) = q[1]
           /\ \A i \in DOMAIN Tail(q) : /\ i \in Nat /\ i # 0
                                       /\ i + 1 \in DOMAIN q
                                       /\ Tail(q)[i] = q[i + 1]
           /\ \A i \in DOMAIN q : i # 1 => /\ i - 1 \in DOMAIN Tail(q)
                                          /\ Tail(q)[i - 1] = q[i]
<1>1. /\ Len(q) \in Nat /\ Len(q) >= 1
      /\ DOMAIN q = 1 .. Len(q)
      /\ DOMAIN Tail(q) = 1 .. Len(q) - 1
      /\ \A i \in 1 .. Len(q) - 1 : Tail(q)[i] = q[i + 1]
    OBVIOUS
<1>2. Tail(q) \in Seq(Targets) /\ Head(q) \in Targets /\ Head(q) = q[1]
    OBVIOUS
<1>3. ASSUME NEW i \in DOMAIN Tail(q)
      PROVE  /\ i \in Nat /\ i # 0
             /\ i + 1 \in DOMAIN q /\ Tail(q)[i] = q[i + 1]
    BY <1>1
<1>4. ASSUME NEW i \in DOMAIN q, i # 1
      PROVE  i - 1 \in DOMAIN Tail(q) /\ Tail(q)[i - 1] = q[i]
    BY <1>1, <1>4
<1>5. 1 \in DOMAIN q
    BY <1>1
<1> QED BY <1>2, <1>3, <1>4, <1>5, Zenon

LEMMA TakeStep ==
    ASSUME IInv, NEW w \in Workers, Take(w)
    PROVE  IInv'
<1> USE DEF IInv, Take
<1>1. queue \in Seq(Targets) /\ queue # <<>>
    BY DEF TypeOK
<1>2. /\ queue' \in Seq(Targets) /\ Head(queue) \in Targets
      /\ 1 \in DOMAIN queue /\ Head(queue) = queue[1]
      /\ \A i \in DOMAIN queue' : /\ i \in Nat /\ i # 0
                                  /\ i + 1 \in DOMAIN queue
                                  /\ queue'[i] = queue[i + 1]
      /\ \A i \in DOMAIN queue : i # 1 => /\ i - 1 \in DOMAIN queue'
                                         /\ queue'[i - 1] = queue[i]
    BY <1>1, TailElements
<1>3. {queue[i] : i \in DOMAIN queue}
         = {queue'[i] : i \in DOMAIN queue'} \union {Head(queue)}
  <2>1. ASSUME NEW i \in DOMAIN queue
        PROVE  queue[i] \in {queue'[j] : j \in DOMAIN queue'}
                              \union {Head(queue)}
    <3>1. CASE i = 1
        BY <1>2, <3>1
    <3>2. CASE i # 1
      <4>1. /\ i - 1 \in DOMAIN queue'
            /\ queue'[i - 1] = queue[i]
          BY <1>2, <3>2
      <4> HIDE DEF Take
      <4> QED BY <4>1
    <3> QED BY <3>1, <3>2
  <2>2. ASSUME NEW i \in DOMAIN queue'
        PROVE  queue'[i] \in {queue[j] : j \in DOMAIN queue}
      BY <1>2
  <2>3. Head(queue) \in {queue[j] : j \in DOMAIN queue}
      BY <1>2
  <2> HIDE DEF Take
  <2> QED BY <2>1, <2>2, <2>3
<1>4. /\ target' \in [Workers -> Targets \union {NoTarget}]
      /\ target[w] = NoTarget /\ target'[w] = Head(queue)
      /\ \A v \in Workers : v # w => target'[v] = target[v]
    BY <1>2 DEF TypeOK
<1>5. InWork' = InWork
  <2>1. ({target'[v] : v \in Workers}) \union {NoTarget}
           = {target[v] : v \in Workers} \union {NoTarget, Head(queue)}
      BY <1>4
  <2> QED BY <1>3, <2>1 DEF InWork, mainVars
<1>6. TypeOK'
  <2>1. dirs' \in [Workers -> SUBSET OldDirs]
      BY DEF TypeOK
  <2> QED BY <1>2, <1>4, <2>1 DEF TypeOK, mainVars, counters
<1>7. Alone'
  <2>1. \A i, j \in DOMAIN queue' : queue'[i] = queue'[j] => i = j
      BY <1>1, <1>2 DEF Alone
  <2>2. \A i \in DOMAIN queue' : queue'[i] # Head(queue)
      BY <1>1, <1>2 DEF Alone
  <2>3. \A i \in DOMAIN queue', v \in Workers : queue'[i] # target'[v]
      BY <1>2, <1>4, <2>2 DEF Alone
  <2>4. \A u, v \in Workers :
           target'[u] = target'[v] /\ target'[u] # NoTarget => u = v
      BY <1>1, <1>4 DEF Alone
  <2>5. /\ \A i \in DOMAIN queue' : queue'[i] # chosen
        /\ \A v \in Workers : chosen # NoTarget => target'[v] # chosen
      BY <1>1, <1>2, <1>4 DEF Alone
  <2> QED BY <1>5, <2>1, <2>3, <2>4, <2>5 DEF Alone, mainVars
<1>8. Counted'
    BY <1>5 DEF Counted, mainVars, counters
<1>9. Stale'
    BY DEF Stale, mainVars, counters, Fits, WorkerCount
<1>10. Idle'
    BY <1>1, <1>4 DEF Idle
<1> QED BY <1>6, <1>7, <1>8, <1>9, <1>10

\* The deltas themselves concern neither the counters nor the targets.
LEMMA DeltaStep ==
    ASSUME IInv, NEW w \in Workers,
           \/ \E d \in OldDirs : Visit(w, d)
           \/ \E o \in OldRpms : MakeDelta(w, o) \/ DeltaFails(w, o)
    PROVE  IInv'
<1> USE DEF IInv
<1>1. UNCHANGED <<mainVars, counters, oldPackages, queue, target>>
    BY DEF Visit, MakeDelta, DeltaFails
<1>2. InWork' = InWork
    BY <1>1, PlacesUnchanged DEF mainVars
<1>3. TypeOK'
  <2>1. CASE \E d \in OldDirs : Visit(w, d)
    <3>1. /\ dirs' \in [Workers -> SUBSET OldDirs]
          /\ rest' \in [Workers -> SUBSET OldRpms]
          /\ count' \in [Workers -> Nat]
          /\ made' = made /\ failed' = failed
        BY <2>1 DEF Visit, TypeOK, Candidates
    <3> QED BY <1>1, <3>1 DEF TypeOK, mainVars, counters
  <2>2. ASSUME NEW o \in OldRpms, MakeDelta(w, o) \/ DeltaFails(w, o)
        PROVE  TypeOK'
    <3>1. made' \subseteq OldRpms \X Targets /\ failed' \subseteq OldRpms \X Targets
      <4>1. target[w] \in Targets
          BY <2>2 DEF MakeDelta, DeltaFails, Idle, TypeOK
      <4> QED BY <2>2, <4>1 DEF MakeDelta, DeltaFails, TypeOK
    <3>2. /\ dirs' = dirs
          /\ rest' \in [Workers -> SUBSET OldRpms]
          /\ count' \in [Workers -> Nat]
      <4>1. rest[w] \subseteq OldRpms /\ count[w] \in Nat
          BY DEF TypeOK
      <4>2. CASE MakeDelta(w, o)
        <5>1. count' \in [Workers -> Nat]
            BY <4>1, <4>2 DEF MakeDelta, TypeOK
        <5>2. rest' \in [Workers -> SUBSET OldRpms]
            BY <4>1, <4>2 DEF MakeDelta, TypeOK
        <5> QED BY <4>2, <5>1, <5>2 DEF MakeDelta
      <4>3. CASE DeltaFails(w, o)
          BY <4>1, <4>3 DEF DeltaFails, TypeOK
      <4> QED BY <2>2, <4>2, <4>3
    <3> QED BY <1>1, <3>1, <3>2 DEF TypeOK, mainVars, counters
  <2> QED BY <2>1, <2>2
<1>4. Alone'
    BY <1>1, AloneUnchanged DEF mainVars
<1>5. Counted'
    BY <1>1, <1>2 DEF Counted, mainVars, counters
<1>6. Stale'
    BY <1>1 DEF Stale, mainVars, counters, Fits, WorkerCount
<1>7. Idle'
  <2>1. CASE \E d \in OldDirs : Visit(w, d)
      BY <2>1 DEF Idle, Visit, TypeOK
  <2>2. CASE \E o \in OldRpms : MakeDelta(w, o) \/ DeltaFails(w, o)
      BY <2>2 DEF Idle, MakeDelta, DeltaFails, TypeOK
  <2> QED BY <2>1, <2>2
<1> QED BY <1>3, <1>4, <1>5, <1>6, <1>7

\* A thread that finishes frees its share of both limits, and wakes the main
\* thread if that sleeps.
LEMMA FinishStep ==
    ASSUME IInv, NEW w \in Workers, Finish(w)
    PROVE  IInv'
<1> USE DEF IInv, Finish, Signal
<1>1. target[w] \in Targets /\ target[w] \in InWork
    BY DEF TypeOK, InWork
<1>2. Size[target[w]] \in Nat
    BY <1>1
<1>3. /\ target' \in [Workers -> Targets \union {NoTarget}]
      /\ target'[w] = NoTarget
      /\ \A v \in Workers : v # w => target'[v] = target[v]
    BY DEF TypeOK
<1>4. InWork' = InWork \ {target[w]}
  <2>1. /\ chosen # target[w]
        /\ \A i \in DOMAIN queue : queue[i] # target[w]
        /\ \A v \in Workers : v # w => target[v] # target[w]
      BY <1>1 DEF Alone
  <2>2. {target'[v] : v \in Workers} \ {NoTarget}
           = ({target[v] : v \in Workers} \ {NoTarget}) \ {target[w]}
      BY <1>3, <2>1
  <2> QED BY <2>1, <2>2 DEF InWork
<1>5. Cardinality(InWork') = activeTasks - 1
    BY <1>1, <1>4, InWorkType, FS_RemoveElement DEF Counted
<1>6. activeTasks - 1 \in 0 .. WorkerCount
  <2>1. Cardinality(InWork') \in Nat
      BY <1>4, InWorkType, FS_RemoveElement, FS_CardinalityType
  <2> QED BY <1>5, <2>1, WorkerCountType DEF TypeOK
<1>7. TypeOK'
  <2>1. /\ mainPc' \in {"scan_old", "start", "push", "sleep_busy", "select",
                        "pushing", "stuck", "sleep_stuck", "deltas_done"}
        /\ activeSize' \in Int
        /\ count' \in [Workers -> Nat]
      BY <1>2 DEF TypeOK, Awake
  <2>2. WorkerCount' = WorkerCount
      BY DEF WorkerCount
  <2> QED BY <1>3, <1>6, <2>1, <2>2 DEF TypeOK
<1>8. Alone'
  <2>1. UNCHANGED <<targets, chosen, queue>>
      OBVIOUS
  <2>2. \A v \in Workers : target'[v] = NoTarget \/ target'[v] = target[v]
      BY <1>3
  <2>3. \A u, v \in Workers :
           target'[u] = target'[v] /\ target'[u] # NoTarget => u = v
      BY <2>2 DEF Alone
  <2>4. \A i \in DOMAIN queue, v \in Workers : queue[i] # target'[v]
    <3>1. \A i \in DOMAIN queue : queue[i] # NoTarget
        BY DEF TypeOK
    <3> QED BY <2>2, <3>1 DEF Alone
  <2>5. \A v \in Workers : chosen # NoTarget => target'[v] # chosen
      BY <2>2 DEF Alone
  <2>6. targets \cap InWork' = {}
      BY <1>4 DEF Alone
  <2> HIDE DEF Finish
  <2> QED BY <2>1, <2>3, <2>4, <2>5, <2>6 DEF Alone
<1>9. Counted'
  <2>1. /\ mainPc' \in {"scan_old", "start"} => mainPc \in {"scan_old", "start"}
        /\ mainPc' = "pushing" <=> mainPc = "pushing"
      BY DEF Awake
  <2>2. activeSize' <= MaxWork
      BY <1>2 DEF Counted, TypeOK
  <2>3. SizeOf(InWork') = activeSize'
    <3>1. /\ InWork' \in SUBSET Targets /\ target[w] \in Targets \ InWork'
          /\ InWork = InWork' \union {target[w]}
        BY <1>1, <1>4, InWorkType
    <3>2. /\ SizeOf(InWork') \in Nat
          /\ SizeOf(InWork) = SizeOf(InWork') + Size[target[w]]
        BY <3>1, SizeOfAdd
    <3> QED BY <1>2, <3>2 DEF Counted
  <2> QED BY <1>1, <1>4, <1>5, <2>1, <2>2, <2>3 DEF Counted
<1>10. Stale'
  <2>1. /\ activeTasks' < activeTasks /\ activeSize' <= activeSize
        /\ activeTasks' \in Int /\ activeSize' \in Int
      BY <1>2 DEF TypeOK
  <2>2. CASE mainPc \in {"select", "stuck", "sleep_stuck"}
    <3>1. /\ mainPc' \in {"select", "stuck"}
          /\ mainPc' = "select" <=> mainPc = "select"
        BY <2>2 DEF Awake
    <3>2. activeTasks' < snapTasks /\ activeSize' <= snapSize
        BY <2>1, <2>2 DEF Stale, TypeOK
    <3> QED BY <2>2, <3>1, <3>2 DEF Stale, Fits, TypeOK, WorkerCount
  <2>3. CASE mainPc \notin {"select", "stuck", "sleep_stuck"}
    <3>1. mainPc' \notin {"select", "stuck", "sleep_stuck", "sleep_busy"}
        BY <2>3 DEF Awake
    <3> QED BY <3>1 DEF Stale
  <2> QED BY <2>2, <2>3
<1>11. Idle'
    BY <1>3 DEF Idle
<1> QED BY <1>7, <1>8, <1>9, <1>10, <1>11

LEMMA Inductive == IInv /\ [NextDelta]_deltaVars => IInv'
<1> SUFFICES ASSUME IInv, [NextDelta]_deltaVars PROVE IInv'
    OBVIOUS
<1>1. CASE Main
  <2>1. CASE \E t \in Targets : Select(t)
      BY <2>1, SelectStep
  <2>2. CASE Push
      BY <2>2, PushStep
  <2> QED BY <1>1, <2>1, <2>2, MainStep DEF Main
<1>2. CASE SpuriousWakeup
    BY <1>2, MainStep
<1>3. ASSUME NEW w \in Workers, Worker(w)
      PROVE  IInv'
    BY <1>3, TakeStep, DeltaStep, FinishStep DEF Worker
<1>4. CASE UNCHANGED deltaVars
  <2> USE <1>4 DEF IInv, deltaVars, mainVars, counters, work
  <2>1. InWork' = InWork
      BY PlacesUnchanged
  <2>2. TypeOK' /\ Idle'
      BY DEF TypeOK, Idle, WorkerCount
  <2>3. Alone' /\ Counted'
      BY <2>1 DEF Alone, Counted
  <2>4. Stale'
      BY DEF Stale, Fits, WorkerCount
  <2> QED BY <2>2, <2>3, <2>4
<1> QED BY <1>1, <1>2, <1>3, <1>4 DEF NextDelta

-----------------------------------------------------------------------------
(* Which deltas are made.  What a thread has tried in a directory is the   *)
(* newest part of the candidates there (Under); with the directory it is   *)
(* at the others of its target are through or untouched (Aside), and no    *)
(* other thread has the same target (Alone).                               *)

Used(t, d)  == {o \in Candidates(t, d) : <<o, t>> \in made}
Tried(t, d) == {o \in Candidates(t, d) : <<o, t>> \in made \union failed}

\* Directory d is through for target t.
Done(t, d) ==
    /\ Cardinality(Used(t, d)) <= NumDeltas
    /\ Cardinality(Used(t, d)) = NumDeltas \/ Tried(t, d) = Candidates(t, d)
    /\ \A o \in Used(t, d), c \in Candidates(t, d) :
          Evr[c] > Evr[o] => c \in Tried(t, d)

\* Thread w is at it: what is left is no newer than what has been tried.
Under(w, t, d) ==
    /\ d \notin dirs[w]
    /\ rest[w] # {} /\ rest[w] \subseteq Candidates(t, d)
    /\ Tried(t, d) = Candidates(t, d) \ rest[w]
    /\ IsFiniteSet(Used(t, d))
    /\ count[w] = Cardinality(Used(t, d)) /\ count[w] < NumDeltas
    /\ \A o \in Tried(t, d), c \in rest[w] : Evr[c] <= Evr[o]

\* The thread is not at it: it is through or still untouched.
Aside(w, t, d) ==
    /\ d \in dirs[w] => Tried(t, d) = {}
    /\ d \notin dirs[w] => Done(t, d)

Working(w, t) ==
    IF rest[w] = {} THEN \A d \in OldDirs : Aside(w, t, d)
    ELSE \E cur \in OldDirs : /\ Under(w, t, cur)
                              /\ \A d \in OldDirs \ {cur} : Aside(w, t, d)

\* A target that is not in a thread yet.
Ahead(t) == t \in targets \/ t = chosen \/ \E i \in DOMAIN queue : queue[i] = t

Scanning == mainPc \in {"scan_old", "start"}

InPlace(t) ==
    /\ Ahead(t) => \A d \in OldDirs : Tried(t, d) = {}
    /\ \A w \in Workers : target[w] = t => Working(w, t)
    /\ Size[t] < MaxDelta /\ ~Scanning /\ t \notin targets /\ t \notin InWork
         => \A d \in OldDirs : Done(t, d)

Progress ==
    /\ Scanning => made = {} /\ failed = {}
    /\ mainPc = "deltas_done" => targets = {} /\ InWork = {}
    /\ NumDeltas >= 1 => \A t \in Targets : InPlace(t)

LEMMA InWorkMembers ==
    \A t \in Targets : t \in InWork <=> \/ t = chosen
                                        \/ \E i \in DOMAIN queue : queue[i] = t
                                        \/ \E w \in Workers : target[w] = t
BY DEF InWork

\* Candidates and attempts of a target that a step leaves alone.
LEMMA TriesKept ==
    ASSUME oldPackages' = oldPackages, NEW t, NEW d,
           \A o \in Candidates(t, d) :
              /\ <<o, t>> \in made' <=> <<o, t>> \in made
              /\ <<o, t>> \in failed' <=> <<o, t>> \in failed
    PROVE  /\ Candidates(t, d)' = Candidates(t, d)
           /\ Used(t, d)' = Used(t, d) /\ Tried(t, d)' = Tried(t, d)
           /\ Done(t, d)' <=> Done(t, d)
<1>1. Candidates(t, d)' = Candidates(t, d)
    BY DEF Candidates
<1>2. Used(t, d)' = Used(t, d) /\ Tried(t, d)' = Tried(t, d)
    BY <1>1 DEF Used, Tried
<1> QED BY <1>1, <1>2 DEF Done

LEMMA WorkingKept ==
    ASSUME oldPackages' = oldPackages, NEW t, NEW w,
           dirs'[w] = dirs[w], rest'[w] = rest[w], count'[w] = count[w],
           \A o : /\ <<o, t>> \in made' <=> <<o, t>> \in made
                  /\ <<o, t>> \in failed' <=> <<o, t>> \in failed
    PROVE  Working(w, t)' <=> Working(w, t)
<1>1. \A d : /\ Candidates(t, d)' = Candidates(t, d)
             /\ Used(t, d)' = Used(t, d) /\ Tried(t, d)' = Tried(t, d)
             /\ Done(t, d)' <=> Done(t, d)
    BY TriesKept
<1>2. \A d : Aside(w, t, d)' <=> Aside(w, t, d)
    BY <1>1 DEF Aside
<1>3. \A d : Under(w, t, d)' <=> Under(w, t, d)
    BY <1>1 DEF Under
<1> QED BY <1>2, <1>3 DEF Working

\* Where nothing has been tried and there is nothing to try.
LEMMA NothingToTry ==
    ASSUME NumDeltas >= 1, NEW t, NEW d, Candidates(t, d) = {}
    PROVE  Done(t, d)
BY FS_EmptySet DEF Done, Used, Tried

\* A step that moves targets on, but not into or out of a thread.
LEMMA MovesProgress ==
    ASSUME IInv, Progress, ~Scanning, ~Scanning',
           UNCHANGED <<oldPackages, made, failed, dirs, rest, count, target>>,
           \A t \in Targets : Ahead(t)' => Ahead(t),
           \A t \in Targets : t \in targets \union InWork
                                => t \in targets' \union InWork',
           mainPc' = "deltas_done" => targets' = {} /\ InWork' = {}
    PROVE  Progress'
<1>1. ASSUME NumDeltas >= 1, NEW t \in Targets
      PROVE  InPlace(t)'
  <2>1. InPlace(t)
      BY <1>1 DEF Progress
  <2>2. /\ \A d : Tried(t, d)' = Tried(t, d) /\ (Done(t, d)' <=> Done(t, d))
        /\ \A w \in Workers : Working(w, t)' <=> Working(w, t)
      BY TriesKept, WorkingKept
  <2> QED BY <2>1, <2>2 DEF InPlace
<1> QED BY <1>1 DEF Progress

LEMMA MainProgress ==
    ASSUME IInv, Progress,
           SleepBusy \/ Snapshot \/ NoneFits \/ SleepStuck \/ Retry \/ Join
             \/ SpuriousWakeup \/ Push \/ \E t \in Targets : Select(t)
    PROVE  Progress'
<1>1. /\ ~Scanning /\ ~Scanning'
      /\ UNCHANGED <<oldPackages, made, failed, dirs, rest, count, target>>
    BY DEF SleepBusy, Snapshot, NoneFits, SleepStuck, Retry, Join, Push, Select,
           SpuriousWakeup, Awake, Scanning, work
<1>2. CASE SleepBusy \/ Snapshot \/ NoneFits \/ SleepStuck \/ Retry \/ Join
             \/ SpuriousWakeup
  <2>1. UNCHANGED <<targets, chosen, queue>>
      BY <1>2 DEF SleepBusy, Snapshot, NoneFits, SleepStuck, Retry, Join,
                  SpuriousWakeup
  <2>2. InWork' = InWork
      BY <1>1, <2>1, PlacesUnchanged
  <2>3. mainPc' = "deltas_done" => targets' = {} /\ InWork' = {}
    <3>1. CASE Join
      <4>1. /\ targets = {} /\ queue = <<>> /\ chosen = NoTarget
            /\ \A w \in Workers : target[w] = NoTarget
          BY <3>1 DEF Join, IInv, Counted
      <4>2. DOMAIN queue = {}
          BY <4>1
      <4>3. InWork = {}
          BY <4>1, <4>2 DEF InWork
      <4> QED BY <2>1, <2>2, <4>1, <4>3
    <3>2. CASE ~Join
        BY <1>2, <3>2 DEF SleepBusy, Snapshot, NoneFits, SleepStuck, Retry,
                          SpuriousWakeup, Awake
    <3> QED BY <3>1, <3>2
  <2> QED BY <1>1, <2>1, <2>2, <2>3, MovesProgress DEF Ahead
<1>3. ASSUME NEW t \in Targets, Select(t)
      PROVE  Progress'
  <2>1. /\ chosen = NoTarget /\ chosen' = t /\ targets' = targets \ {t}
        /\ t \in targets /\ queue' = queue /\ mainPc' = "pushing"
      BY <1>3 DEF Select, Selected, IInv, Counted
  <2>2. InWork' = InWork \union {t}
      BY <1>1, <2>1 DEF InWork
  <2> QED BY <1>1, <2>1, <2>2, MovesProgress DEF Ahead
<1>4. CASE Push
  <2>1. /\ chosen \in Targets /\ queue \in Seq(Targets) /\ chosen' = NoTarget
        /\ queue' = Append(queue, chosen) /\ targets' = targets /\ mainPc' = "push"
      BY <1>4 DEF Push, IInv, TypeOK, Counted
  <2>2. /\ DOMAIN queue' = DOMAIN queue \union {Len(queue) + 1}
        /\ queue'[Len(queue) + 1] = chosen
        /\ \A i \in DOMAIN queue : queue'[i] = queue[i]
      BY <2>1
  <2>3. \A t \in Targets : Ahead(t)' <=> Ahead(t)
      BY <2>1, <2>2 DEF Ahead
  <2>4. \A t \in Targets : t \in InWork => t \in InWork'
      BY <1>1, <2>1, <2>2 DEF InWork
  <2> QED BY <1>1, <2>1, <2>3, <2>4, MovesProgress
<1> QED BY <1>2, <1>3, <1>4

\* Before the targets are there nothing is tried; then all of them are ahead.
LEMMA StartProgress ==
    ASSUME IInv, Progress, ScanOld \/ Start
    PROVE  Progress'
<1>1. /\ Scanning /\ made = {} /\ failed = {} /\ InWork = {}
      /\ UNCHANGED <<chosen, queue, target, made, failed>>
      /\ mainPc' # "deltas_done"
    BY DEF ScanOld, Start, Scanning, Progress, work, IInv, Counted
<1>2. \A t, d : Tried(t, d)' = {}
    BY <1>1 DEF Tried
<1>3. ASSUME NumDeltas >= 1, NEW t \in Targets
      PROVE  InPlace(t)'
  <2>1. \A w \in Workers : target'[w] # t
      BY <1>1, InWorkMembers
  <2>2. Scanning' \/ (Size[t] < MaxDelta => t \in targets')
      BY <1>3 DEF ScanOld, Start, Scanning
  <2> QED BY <1>2, <2>1, <2>2 DEF InPlace
<1> QED BY <1>1, <1>3 DEF Progress

LEMMA TakeProgress ==
    ASSUME IInv, Progress, NEW w \in Workers, Take(w)
    PROVE  Progress'
<1> DEFINE h == Head(queue)
<1>1. /\ UNCHANGED <<mainPc, targets, chosen, oldPackages, rest, count, made, failed>>
      /\ target[w] = NoTarget /\ target'[w] = h /\ rest[w] = {}
      /\ queue' = Tail(queue)
      /\ dirs'[w] = {Dir[o] : o \in oldPackages}
      /\ \A v \in Workers \ {w} : target'[v] = target[v] /\ dirs'[v] = dirs[v]
    BY DEF Take, mainVars, IInv, TypeOK, Idle
<1>2. /\ h \in Targets /\ 1 \in DOMAIN queue /\ h = queue[1]
      /\ \A i \in DOMAIN queue' : i + 1 \in DOMAIN queue /\ queue'[i] = queue[i + 1]
      /\ \A i \in DOMAIN queue : i # 1 => /\ i - 1 \in DOMAIN queue'
                                         /\ queue'[i - 1] = queue[i]
    BY <1>1, TailElements DEF Take, IInv, TypeOK
<1>3. \A t \in Targets : Ahead(t)' => Ahead(t)
    BY <1>1, <1>2 DEF Ahead
<1>4. ASSUME NEW t \in Targets
      PROVE  t \in InWork' <=> t \in InWork
  <2>1. t = h => t \in InWork /\ t \in InWork'
      BY <1>1, <1>2 DEF InWork
  <2>2. ASSUME t # h
        PROVE  (\E i \in DOMAIN queue : queue[i] = t)
                  <=> (\E i \in DOMAIN queue' : queue'[i] = t)
      BY <1>2, <2>2
  <2>3. ASSUME t # h
        PROVE  (\E v \in Workers : target[v] = t) <=> (\E v \in Workers : target'[v] = t)
      BY <1>1, <2>3
  <2>4. t \in InWork' <=> \/ t = chosen'
                          \/ \E i \in DOMAIN queue' : queue'[i] = t
                          \/ \E v \in Workers : target'[v] = t
      BY DEF InWork
  <2> QED BY <1>1, <2>1, <2>2, <2>3, <2>4, InWorkMembers
<1>5. ASSUME NumDeltas >= 1, NEW t \in Targets
      PROVE  InPlace(t)'
  <2>1. InPlace(t)
      BY <1>5 DEF Progress
  <2>2. \A d : /\ Candidates(t, d)' = Candidates(t, d)
               /\ Tried(t, d)' = Tried(t, d) /\ (Done(t, d)' <=> Done(t, d))
      BY <1>1, TriesKept
  <2>3. \A v \in Workers \ {w} : Working(v, t)' <=> Working(v, t)
      BY <1>1, WorkingKept
  <2>4. ASSUME t = h
        PROVE  Working(w, t)'
    <3>1. \A d \in OldDirs : Tried(t, d) = {}
        BY <1>2, <2>1, <2>4 DEF InPlace, Ahead
    <3>2. ASSUME NEW d \in OldDirs, d \notin dirs'[w]
          PROVE  Done(t, d)
      <4>1. Candidates(t, d) = {}
          BY <1>1, <3>2 DEF Candidates
      <4> QED BY <1>5, <4>1, NothingToTry
    <3>3. \A d \in OldDirs : Aside(w, t, d)'
        BY <2>2, <3>1, <3>2 DEF Aside
    <3> QED BY <1>1, <3>3 DEF Working
  <2>5. \A v \in Workers : target'[v] = t => Working(v, t)'
      BY <1>1, <2>1, <2>3, <2>4 DEF InPlace
  <2> QED BY <1>1, <1>3, <1>4, <2>1, <2>2, <2>5 DEF InPlace, Scanning
<1>6. Scanning' <=> Scanning
    BY <1>1 DEF Scanning
<1>7. mainPc # "deltas_done"
  <2>1. h \in InWork
      BY <1>2 DEF InWork
  <2> QED BY <2>1 DEF Progress
<1> QED BY <1>1, <1>5, <1>6, <1>7 DEF Progress

LEMMA VisitProgress ==
    ASSUME IInv, Progress, NEW w \in Workers, NEW dir \in OldDirs, Visit(w, dir)
    PROVE  Progress'
<1>1. /\ UNCHANGED <<mainVars, oldPackages, queue, target, made, failed>>
      /\ target[w] \in Targets /\ rest[w] = {} /\ dir \in dirs[w]
      /\ dirs'[w] = dirs[w] \ {dir} /\ count'[w] = 0
      /\ rest'[w] = Candidates(target[w], dir)
      /\ \A v \in Workers \ {w} : /\ dirs'[v] = dirs[v] /\ rest'[v] = rest[v]
                                   /\ count'[v] = count[v]
    BY DEF Visit, IInv, TypeOK
<1>2. InWork' = InWork /\ (Scanning' <=> Scanning)
    BY <1>1, PlacesUnchanged DEF mainVars, Scanning
<1>3. ASSUME NumDeltas >= 1, NEW t \in Targets
      PROVE  InPlace(t)'
  <2>1. InPlace(t)
      BY <1>3 DEF Progress
  <2>2. \A d : /\ Candidates(t, d)' = Candidates(t, d)
               /\ Used(t, d)' = Used(t, d) /\ Tried(t, d)' = Tried(t, d)
               /\ Done(t, d)' <=> Done(t, d)
      BY <1>1, TriesKept
  <2>3. \A v \in Workers \ {w} : Working(v, t)' <=> Working(v, t)
      BY <1>1, WorkingKept
  <2>4. ASSUME target[w] = t
        PROVE  Working(w, t)'
    <3>1. \A d \in OldDirs : Aside(w, t, d)
        BY <1>1, <2>1, <2>4 DEF InPlace, Working
    <3>2. Tried(t, dir) = {}
        BY <1>1, <3>1 DEF Aside
    <3>3. \A d \in OldDirs \ {dir} : Aside(w, t, d)'
        BY <1>1, <2>2, <3>1 DEF Aside
    <3>4. CASE Candidates(t, dir) = {}
      <4>1. Done(t, dir)' /\ dir \notin dirs'[w]
          BY <1>1, <1>3, <2>2, <3>4, NothingToTry
      <4>2. \A d \in OldDirs : Aside(w, t, d)'
          BY <3>3, <4>1 DEF Aside
      <4> QED BY <1>1, <2>4, <3>4, <4>2 DEF Working
    <3>5. CASE Candidates(t, dir) # {}
      <4>1. Used(t, dir) = {}
          BY <3>2 DEF Used, Tried
      <4>2. Under(w, t, dir)'
        <5>1. /\ dir \notin dirs'[w] /\ rest'[w] = Candidates(t, dir)
              /\ Candidates(t, dir)' = Candidates(t, dir)
              /\ Tried(t, dir)' = {} /\ Used(t, dir)' = {}
            BY <1>1, <2>2, <2>4, <3>2, <4>1
        <5>2. IsFiniteSet({}) /\ Cardinality({}) = 0 /\ 0 < NumDeltas
            BY <1>3, FS_EmptySet
        <5> QED BY <1>1, <3>5, <5>1, <5>2 DEF Under
      <4> QED BY <1>1, <2>4, <3>3, <3>5, <4>2 DEF Working
    <3> QED BY <3>4, <3>5
  <2> QED BY <1>1, <1>2, <2>1, <2>2, <2>3, <2>4 DEF InPlace, Ahead, mainVars
<1> QED BY <1>1, <1>2, <1>3 DEF Progress, mainVars

\* One attempt of a thread concerns its own target only, and there only the
\* directory it is at.
LEMMA AttemptProgress ==
    ASSUME IInv, Progress, NEW w \in Workers, NEW old \in OldRpms,
           old \in rest[w], target[w] \in Targets,
           UNCHANGED <<mainVars, oldPackages, queue, target, dirs>>,
           \A v \in Workers \ {w} : rest'[v] = rest[v] /\ count'[v] = count[v],
           \A p : p # <<old, target[w]>> => /\ p \in made' <=> p \in made
                                            /\ p \in failed' <=> p \in failed,
           \A dir \in OldDirs : NumDeltas >= 1 /\ Under(w, target[w], dir) =>
              \/ rest'[w] = {} /\ Done(target[w], dir)'
              \/ rest'[w] # {} /\ Under(w, target[w], dir)'
    PROVE  Progress'
<1> DEFINE own == target[w]
<1>1. InWork' = InWork /\ (Scanning' <=> Scanning) /\ own \in InWork
    BY PlacesUnchanged, InWorkMembers DEF mainVars, Scanning
<1>2. ~Scanning /\ mainPc # "deltas_done"
    BY <1>1 DEF Progress, Scanning, IInv, Counted
<1>3. ASSUME NumDeltas >= 1, NEW t \in Targets
      PROVE  InPlace(t)'
  <2>1. InPlace(t)
      BY <1>3 DEF Progress
  <2>2. CASE t # own
    <3>1. /\ \A d : Tried(t, d)' = Tried(t, d) /\ (Done(t, d)' <=> Done(t, d))
          /\ \A v \in Workers \ {w} : Working(v, t)' <=> Working(v, t)
        BY <2>2, TriesKept, WorkingKept
    <3> QED BY <1>1, <2>1, <2>2, <3>1 DEF InPlace, Ahead, mainVars
  <2>3. CASE t = own
    <3>1. PICK cur \in OldDirs : /\ Under(w, t, cur)
                                 /\ \A d \in OldDirs \ {cur} : Aside(w, t, d)
        BY <2>1, <2>3 DEF InPlace, Working
    <3>2. \A d \in OldDirs \ {cur} : old \notin Candidates(t, d)
        BY <3>1 DEF Under, Candidates
    <3>3. ASSUME NEW d \in OldDirs \ {cur}
          PROVE  Aside(w, t, d)'
      <4>1. Tried(t, d)' = Tried(t, d) /\ (Done(t, d)' <=> Done(t, d))
          BY <2>3, <3>2, TriesKept
      <4> QED BY <3>1, <4>1 DEF Aside
    <3>4. Working(w, t)'
      <4>1. CASE rest'[w] = {} /\ Done(t, cur)'
        <5>1. \A d \in OldDirs : Aside(w, t, d)'
            BY <3>1, <3>3, <4>1 DEF Aside, Under
        <5> QED BY <4>1, <5>1 DEF Working
      <4>2. CASE rest'[w] # {} /\ Under(w, t, cur)'
          BY <3>3, <4>2 DEF Working
      <4>3. \/ rest'[w] = {} /\ Done(t, cur)'
            \/ rest'[w] # {} /\ Under(w, t, cur)'
          BY <1>3, <2>3, <3>1
      <4> QED BY <4>1, <4>2, <4>3
    <3>5. /\ \A v \in Workers : target[v] = t => v = w
          /\ ~Ahead(t) /\ t \in InWork
        BY <1>1, <2>3 DEF Ahead, IInv, Alone
    <3> QED BY <1>1, <3>4, <3>5 DEF InPlace, Ahead, mainVars
  <2> QED BY <2>2, <2>3
<1> QED BY <1>1, <1>2, <1>3 DEF Progress, mainVars

\* A delta that is made is of the newest candidate left.
LEMMA MakeProgress ==
    ASSUME IInv, Progress, NEW w \in Workers, NEW old \in OldRpms, MakeDelta(w, old)
    PROVE  Progress'
<1> DEFINE t == target[w]
<1>1. /\ old \in rest[w] /\ IsNext(old, rest[w]) /\ rest[w] \subseteq OldRpms
      /\ UNCHANGED <<mainVars, oldPackages, queue, target, dirs, failed>>
      /\ made' = made \union {<<old, t>>} /\ count[w] \in Nat
      /\ count'[w] = count[w] + 1
      /\ rest'[w] = IF count'[w] = NumDeltas THEN {} ELSE rest[w] \ {old}
      /\ \A v \in Workers \ {w} : rest'[v] = rest[v] /\ count'[v] = count[v]
    BY DEF MakeDelta, IInv, TypeOK
<1>2. t \in Targets
    BY <1>1 DEF IInv, TypeOK, Idle
<1>3. ASSUME NumDeltas >= 1, NEW d \in OldDirs, Under(w, t, d)
      PROVE  \/ rest'[w] = {} /\ Done(t, d)'
             \/ rest'[w] # {} /\ Under(w, t, d)'
  <2>1. /\ Candidates(t, d)' = Candidates(t, d) /\ old \in Candidates(t, d)
        /\ \A c \in Candidates(t, d) : Evr[c] \in Int /\ c \in OldRpms
      BY <1>1, <1>3 DEF Candidates, Under, IInv, TypeOK
  <2>2. /\ Used(t, d)' = Used(t, d) \union {old} /\ old \notin Used(t, d)
        /\ Tried(t, d)' = Tried(t, d) \union {old}
      BY <1>1, <1>3, <2>1 DEF Used, Tried, Under
  <2>3. /\ IsFiniteSet(Used(t, d)')
        /\ Cardinality(Used(t, d)') = Cardinality(Used(t, d)) + 1
      BY <1>3, <2>2, FS_AddElement DEF Under
  <2>4. count'[w] = Cardinality(Used(t, d)') /\ count'[w] <= NumDeltas
      BY <1>1, <1>3, <2>3 DEF Under
  <2>5. /\ Tried(t, d) = Candidates(t, d) \ rest[w]
        /\ rest[w] \subseteq Candidates(t, d)
        /\ \A o \in Tried(t, d) \union {old}, c \in rest[w] : Evr[c] <= Evr[o]
      BY <1>1, <1>3 DEF Under, IsNext
  <2>6. CASE rest'[w] = {}
    <3>1. \A o \in Used(t, d)', c \in Candidates(t, d) :
             Evr[c] > Evr[o] => c \in Tried(t, d)'
      <4>1. Used(t, d)' \subseteq Tried(t, d) \union {old}
          BY <2>2 DEF Used, Tried
      <4>2. Tried(t, d) \union {old} \subseteq Candidates(t, d)
          BY <2>1, <2>5
      <4> QED BY <2>1, <2>2, <2>5, <4>1, <4>2
    <3>2. Cardinality(Used(t, d)') = NumDeltas \/ Tried(t, d)' = Candidates(t, d)
      <4>1. CASE count'[w] = NumDeltas
          BY <2>4, <4>1
      <4>2. CASE count'[w] # NumDeltas
          BY <1>1, <2>1, <2>2, <2>5, <2>6, <4>2
      <4> QED BY <4>1, <4>2
    <3>3. Cardinality(Used(t, d)') <= NumDeltas
        BY <2>4
    <3> QED BY <2>1, <2>6, <3>1, <3>2, <3>3 DEF Done
  <2>7. CASE rest'[w] # {}
    <3>1. rest'[w] = rest[w] \ {old} /\ count'[w] # NumDeltas
        BY <1>1, <2>7
    <3>2. d \notin dirs'[w]
        BY <1>1, <1>3 DEF Under
    <3>3. count'[w] < NumDeltas
        BY <1>1, <2>4, <3>1
    <3>4. Tried(t, d)' = Candidates(t, d)' \ rest'[w]
        BY <2>1, <2>2, <2>5, <3>1
    <3> QED BY <2>1, <2>2, <2>3, <2>4, <2>5, <2>7, <3>1, <3>2, <3>3, <3>4 DEF Under
  <2> QED BY <2>6, <2>7
<1> HIDE DEF t
<1>4. \A p : p # <<old, t>> => /\ p \in made' <=> p \in made
                               /\ p \in failed' <=> p \in failed
    BY <1>1
<1> QED BY <1>1, <1>2, <1>3, <1>4, AttemptProgress DEF t

\* A failure is followed by the next candidate.
LEMMA FailsProgress ==
    ASSUME IInv, Progress, NEW w \in Workers, NEW old \in OldRpms, DeltaFails(w, old)
    PROVE  Progress'
<1> DEFINE t == target[w]
<1>1. /\ old \in rest[w] /\ IsNext(old, rest[w]) /\ rest[w] \subseteq OldRpms
      /\ UNCHANGED <<mainVars, oldPackages, queue, target, dirs, made, count>>
      /\ failed' = failed \union {<<old, t>>} /\ count[w] \in Nat
      /\ rest'[w] = rest[w] \ {old}
      /\ \A v \in Workers \ {w} : rest'[v] = rest[v] /\ count'[v] = count[v]
    BY DEF DeltaFails, IInv, TypeOK
<1>2. t \in Targets
    BY <1>1 DEF IInv, TypeOK, Idle
<1>3. ASSUME NumDeltas >= 1, NEW d \in OldDirs, Under(w, t, d)
      PROVE  \/ rest'[w] = {} /\ Done(t, d)'
             \/ rest'[w] # {} /\ Under(w, t, d)'
  <2>1. /\ Candidates(t, d)' = Candidates(t, d) /\ old \in Candidates(t, d)
      BY <1>1, <1>3 DEF Candidates, Under
  <2>2. Used(t, d)' = Used(t, d) /\ Tried(t, d)' = Tried(t, d) \union {old}
      BY <1>1, <2>1 DEF Used, Tried
  <2>3. /\ Tried(t, d) = Candidates(t, d) \ rest[w]
        /\ rest[w] \subseteq Candidates(t, d)
        /\ \A o \in Tried(t, d) \union {old}, c \in rest[w] : Evr[c] <= Evr[o]
      BY <1>1, <1>3 DEF Under, IsNext
  <2>4. Tried(t, d)' = Candidates(t, d) \ rest'[w]
      BY <1>1, <2>1, <2>2, <2>3
  <2>5. CASE rest'[w] = {}
    <3>1. Tried(t, d)' = Candidates(t, d) /\ Used(t, d)' \subseteq Candidates(t, d)
        BY <2>2, <2>4, <2>5 DEF Used
    <3>2. Cardinality(Used(t, d)') <= NumDeltas
        BY <1>1, <1>3, <2>2 DEF Under
    <3> QED BY <2>1, <2>5, <3>1, <3>2 DEF Done
  <2>6. CASE rest'[w] # {}
    <3>1. /\ d \notin dirs'[w] /\ count'[w] < NumDeltas
          /\ IsFiniteSet(Used(t, d)') /\ count'[w] = Cardinality(Used(t, d)')
        BY <1>1, <1>3, <2>2 DEF Under
    <3> QED BY <1>1, <2>1, <2>2, <2>3, <2>4, <2>6, <3>1 DEF Under
  <2> QED BY <2>5, <2>6
<1> HIDE DEF t
<1>4. \A p : p # <<old, t>> => /\ p \in made' <=> p \in made
                               /\ p \in failed' <=> p \in failed
    BY <1>1
<1> QED BY <1>1, <1>2, <1>3, <1>4, AttemptProgress DEF t

\* A thread that finishes is through with every directory.
LEMMA FinishProgress ==
    ASSUME IInv, Progress, NEW w \in Workers, Finish(w)
    PROVE  Progress'
<1>1. /\ UNCHANGED <<targets, chosen, oldPackages, queue, dirs, rest, made, failed>>
      /\ target[w] \in Targets /\ target'[w] = NoTarget
      /\ rest[w] = {} /\ dirs[w] = {} /\ mainPc' = Awake
      /\ \A v \in Workers \ {w} : target'[v] = target[v] /\ count'[v] = count[v]
    BY DEF Finish, Signal, IInv, TypeOK
<1>2. target[w] \in InWork
    BY <1>1, InWorkMembers
<1>3. ~Scanning /\ ~Scanning' /\ mainPc # "deltas_done" /\ mainPc' # "deltas_done"
    BY <1>1, <1>2 DEF Progress, Scanning, IInv, Counted, Awake
<1>4. \A t \in Targets : t \in InWork => t \in InWork' \/ t = target[w]
    BY <1>1 DEF InWork
<1>5. ASSUME NumDeltas >= 1, NEW t \in Targets
      PROVE  InPlace(t)'
  <2>1. InPlace(t)
      BY <1>5 DEF Progress
  <2>2. /\ \A d : Tried(t, d)' = Tried(t, d) /\ (Done(t, d)' <=> Done(t, d))
        /\ \A v \in Workers \ {w} : Working(v, t)' <=> Working(v, t)
      BY <1>1, TriesKept, WorkingKept
  <2>3. t = target[w] => \A d \in OldDirs : Done(t, d)
      BY <1>1, <2>1 DEF InPlace, Working, Aside
  <2> QED BY <1>1, <1>3, <1>4, <2>1, <2>2, <2>3 DEF InPlace, Ahead
<1> QED BY <1>3, <1>5 DEF Progress

LEMMA ProgressStep ==
    ASSUME IInv, Progress, [NextDelta]_deltaVars
    PROVE  Progress'
<1>1. CASE UNCHANGED deltaVars
  <2>1. UNCHANGED <<mainPc, targets, chosen, queue, target, oldPackages, made,
                    failed, dirs, rest, count>>
      BY <1>1 DEF deltaVars, mainVars, work
  <2>2. ASSUME NEW t \in Targets, InPlace(t)
        PROVE  InPlace(t)'
    <3>1. /\ \A d : Tried(t, d)' = Tried(t, d) /\ (Done(t, d)' <=> Done(t, d))
          /\ \A v \in Workers : Working(v, t)' <=> Working(v, t)
        BY <2>1, TriesKept, WorkingKept
    <3> QED BY <2>1, <2>2, <3>1, PlacesUnchanged DEF InPlace, Ahead, Scanning
  <2> QED BY <2>1, <2>2, PlacesUnchanged DEF Progress, Scanning
<1>2. CASE Main \/ SpuriousWakeup
    BY <1>2, MainProgress, StartProgress DEF Main
<1>3. ASSUME NEW w \in Workers, Worker(w)
      PROVE  Progress'
    BY <1>3, TakeProgress, VisitProgress, MakeProgress, FailsProgress,
       FinishProgress DEF Worker
<1> QED BY <1>1, <1>2, <1>3 DEF NextDelta

-----------------------------------------------------------------------------
(* The theorems.                                                           *)

\* The second pool does not disturb the first: the stage of createrepo_c is,
\* as far as the generation of the deltas goes, the scheduler of DeltaRpms.
THEOREM StageRunsScheduler == Spec => SpecDelta
<1>1. Init => InitDelta
    BY DEF Init
<1>2. [Next]_vars => [NextDelta]_deltaVars
  <2>1. PrestoMain => UNCHANGED deltaVars
      BY DEF PrestoMain, OpenFiles, OpenFails, PrepareFails, Walk,
             WalkFails, JoinPool, WriteNewPackage, WriteFails, EndChunkFails, ListFile, GiveUp
  <2>2. \A w \in Workers : PrestoWorker(w) => UNCHANGED deltaVars
      BY DEF PrestoWorker, TakeDrpm, ReadFails, LookUp, Store
  <2> QED BY <2>1, <2>2 DEF Next, vars
<1> QED BY <1>1, <1>2, PTL DEF Spec, SpecDelta

\* The inductive invariant.
THEOREM Invariance == SpecDelta => []IInv
BY InitIInv, Inductive, PTL DEF SpecDelta

\* Every variable of the scheduler keeps its type; in particular the counter of
\* tasks is never negative and never above the number of threads.
THEOREM TypeCorrect == Spec => []TypeOK
<1>1. IInv => TypeOK
    BY DEF IInv
<1> QED BY <1>1, StageRunsScheduler, Invariance, PTL

\* The counters are those of the targets that are pushed or in a thread.
THEOREM CountersExact == Spec => []CountersRight
<1>1. IInv => CountersRight
    BY DEF IInv, CountersRight, Counted
<1> QED BY <1>1, StageRunsScheduler, Invariance, PTL

\* Deciding on stale copies of the counters never breaks a limit: the packages
\* really in work stay within max_work_size and the number of threads.
THEOREM LimitsKept == Spec => []WorkBounded
<1>1. IInv => WorkBounded
    BY WorkerCountType DEF IInv, WorkBounded, Counted, TypeOK
<1> QED BY <1>1, StageRunsScheduler, Invariance, PTL

\* No wakeup is lost: the main thread sleeps only while it can hand out nothing.
THEOREM NeverSleepsInVain == Spec => []SleepsOnlyWhenStuck
<1>1. IInv => SleepsOnlyWhenStuck
    BY DEF IInv, SleepsOnlyWhenStuck, Stale, Fits, TypeOK
<1> QED BY <1>1, StageRunsScheduler, Invariance, PTL

\* When the pool has finished, every target has been through it, and from each
\* directory the newest old packages were used (cr_delta_thread).
THEOREM NewestAreUsed == Spec => []NewestDeltas
<1>1. InitDelta => Progress
  <2> SUFFICES ASSUME InitDelta PROVE Progress
      OBVIOUS
  <2> USE DEF InitDelta
  <2>1. \A t, d : Tried(t, d) = {}
      BY DEF Tried
  <2>2. \A t \in Targets : InPlace(t)
      BY <2>1 DEF InPlace, Scanning
  <2> QED BY <2>2 DEF Progress
<1>2. IInv /\ Progress /\ [NextDelta]_deltaVars => Progress'
    BY ProgressStep
<1>3. Progress => NewestDeltas
  <2> SUFFICES ASSUME Progress, mainPc = "deltas_done", NumDeltas >= 1,
                      NEW t \in Targets, NEW d \in OldDirs, Size[t] < MaxDelta
               PROVE  LET cands == Candidates(t, d)
                          used  == {o \in cands : <<o, t>> \in made}
                          tried == {o \in cands : <<o, t>> \in made \union failed}
                      IN  /\ Cardinality(used) <= NumDeltas
                          /\ Cardinality(used) = NumDeltas \/ tried = cands
                          /\ \A o \in used, c \in cands : Evr[c] > Evr[o] => c \in tried
      BY DEF NewestDeltas
  <2>1. Done(t, d)
      BY DEF Progress, InPlace, Scanning
  <2> QED BY <2>1 DEF Done, Used, Tried
<1> HIDE DEF IInv, Progress, NewestDeltas, InitDelta, NextDelta, deltaVars
<1> QED BY <1>1, <1>2, <1>3, StageRunsScheduler, Invariance, PTL DEF SpecDelta

-----------------------------------------------------------------------------
(* The second pool: prestodelta.xml is complete, and the threads that      *)
(* share the hash table lose nothing.  Nothing touches the drpms once the  *)
(* scheduler is done (Frozen); every drpm in the directory is in one place *)
(* at any moment, waiting, with one thread, given up or in the table       *)
(* (OnePlace, NothingLost); the list a thread has looked up is the list of *)
(* the table until it stores it back (Exclusive); and what is written is   *)
(* the table, which no longer changes (Output, Phases).                    *)

Frozen ==
    /\ mainPc = "deltas_done" =>
          queue = <<>> /\ \A w \in Workers : target[w] = NoTarget
    /\ stage \in {"deltas", "given_up"} \/ mainPc = "deltas_done"

\* One thread is inside the critical section, and its list is up to date.
Exclusive ==
    /\ \A v, w \in inside : v = w
    /\ \A w \in inside : list[w] = ht[NewNevra[drpm[w]]]

InTable ==
    {f \in Drpms : \E i \in DOMAIN ht[NewNevra[f]] : ht[NewNevra[f]][i] = f}

Held == {drpm[w] : w \in Workers} \ {NoDrpm}

OnePlace ==
    /\ \A v, w \in Workers : drpm[v] = drpm[w] /\ drpm[v] # NoDrpm => v = w
    /\ Held \cap (candidates \union unread \union InTable) = {}
    /\ candidates \cap (unread \union InTable) = {}
    /\ unread \cap InTable = {}

NothingLost ==
    stage \in {"pool", "write", "listed"} =>
        OnDisk = candidates \union Held \union unread \union InTable

\* The list of a key holds drpms of that key, each once.
Lists ==
    \A k \in Keys : \A i, j \in DOMAIN ht[k] :
        /\ NewNevra[ht[k][i]] = k
        /\ ht[k][i] = ht[k][j] => i = j

Phases ==
    /\ stage # "pool" => candidates = {} /\ \A w \in Workers : drpm[w] = NoDrpm
    /\ stage \in {"deltas", "open"} => unread = {} /\ \A k \in Keys : ht[k] = <<>>
    /\ stage \in {"deltas", "open", "pool"} => written = <<>> /\ lost = {}
    /\ stage = "listed" => Pending = {}

\* What is written is in the table, once, and not also among the lost.
Output ==
    /\ \A i \in DOMAIN written :
          LET k == written[i][1]
          IN  /\ k \in Keys \ lost
              /\ ht[k] # <<>> /\ written[i][2] = ht[k]
    /\ \A i, j \in DOMAIN written : written[i][1] = written[j][1] => i = j

PInv ==
    /\ PrestoTypeOK /\ Frozen /\ Exclusive /\ OnePlace /\ NothingLost
    /\ Lists /\ Phases /\ Output

-----------------------------------------------------------------------------
USE DeltaRpmsAssumption, PrestoDeltaAssumption

LEMMA KeyOf == \A f \in Drpms : NewNevra[f] \in Keys
BY DEF Keys

LEMMA InitPInv == Init => PInv
<1> SUFFICES ASSUME Init PROVE PInv
    OBVIOUS
<1> USE DEF Init
<1>1. InTable = {} /\ Held = {}
    BY KeyOf DEF InTable, Held
<1>2. PrestoTypeOK
    BY InitIInv DEF PrestoTypeOK, IInv
<1>3. Frozen /\ Exclusive /\ Lists /\ Phases /\ Output
    BY DEF Frozen, Exclusive, Lists, Phases, Output, InitDelta
<1>4. OnePlace /\ NothingLost
    BY <1>1 DEF OnePlace, NothingLost
<1> QED BY <1>2, <1>3, <1>4 DEF PInv

\* The scheduler runs before the second pool and never again.
LEMMA SchedulerStep ==
    ASSUME PInv, IInv, IInv', stage = "deltas", NextDelta,
           UNCHANGED prestoVars
    PROVE  PInv'
<1> USE DEF PInv
<1>1. mainPc # "deltas_done"
  <2> SUFFICES ASSUME mainPc = "deltas_done" PROVE FALSE
      OBVIOUS
  <2>1. queue = <<>> /\ \A w \in Workers : target[w] = NoTarget /\ rest[w] = {}
      BY DEF Frozen, IInv, Idle
  <2>2. ~Main /\ ~SpuriousWakeup
      BY DEF Main, SpuriousWakeup, ScanOld, Start, SleepBusy, Snapshot, Select,
             Push, NoneFits, SleepStuck, Retry, Join
  <2>3. \A w \in Workers : ~Worker(w)
      BY <2>1 DEF Worker, Take, Visit, MakeDelta, DeltaFails, Finish
  <2> QED BY <2>2, <2>3 DEF NextDelta
<1>2. stage = "deltas"
    OBVIOUS
<1>3. InTable' = InTable /\ Held' = Held /\ Pending' = Pending
    BY DEF prestoVars, InTable, Held, Pending
<1>4. PrestoTypeOK'
    BY DEF PrestoTypeOK, prestoVars, IInv
<1>5. Frozen'
  <2>1. CASE Join
      BY <1>2, <2>1 DEF Frozen, Join, prestoVars, work
  <2>2. CASE ~Join
    <3>1. mainPc' # "deltas_done"
        BY <1>1, <2>2
        DEF NextDelta, Main, SpuriousWakeup, ScanOld, Start, SleepBusy,
            Snapshot, Select, Push, NoneFits, SleepStuck, Retry, Worker, Take,
            Visit, MakeDelta, DeltaFails, Finish, Signal, Awake, mainVars
    <3> QED BY <1>2, <3>1 DEF Frozen, prestoVars
  <2> QED BY <2>1, <2>2
<1>6. Exclusive' /\ Lists' /\ Output'
    BY DEF prestoVars, Exclusive, Lists, Output
<1>7. Phases' /\ OnePlace'
    BY <1>3 DEF prestoVars, Phases, OnePlace
<1>8. NothingLost'
    BY <1>2 DEF NothingLost, prestoVars
<1> QED BY <1>4, <1>5, <1>6, <1>7, <1>8

\* The steps that move no drpm between threads and table.
LEMMA FrozenUnchanged ==
    ASSUME Frozen, UNCHANGED deltaVars,
           \/ stage' \in {"deltas", "given_up"} \/ mainPc = "deltas_done"
           \/ stage \notin {"deltas", "given_up"}
    PROVE  Frozen' /\ OnDisk' = OnDisk /\ TypeOK' = TypeOK
<1> USE DEF deltaVars, mainVars, counters, work
<1>1. Frozen'
    BY DEF Frozen
<1>2. OnDisk' = OnDisk
    BY DEF OnDisk
<1>3. TypeOK' = TypeOK
    BY DEF TypeOK, WorkerCount
<1> QED BY <1>1, <1>2, <1>3

\* Opening, giving up, joining and listing only move the stage on.
LEMMA StageStep ==
    ASSUME PInv,
           \/ OpenFiles \/ OpenFails \/ PrepareFails \/ WalkFails \/ JoinPool
           \/ EndChunkFails \/ ListFile
    PROVE  PInv'
<1> USE DEF PInv
<1>1. /\ UNCHANGED deltaVars
      /\ UNCHANGED <<candidates, drpm, inside, list, ht, unread, written, lost>>
      /\ \/ stage' \in {"deltas", "given_up"} \/ mainPc = "deltas_done"
         \/ stage \notin {"deltas", "given_up"}
    BY DEF OpenFiles, OpenFails, PrepareFails, WalkFails, JoinPool,
           EndChunkFails, ListFile, GiveUp
<1>2. Frozen' /\ OnDisk' = OnDisk /\ (TypeOK' = TypeOK)
    BY <1>1, FrozenUnchanged
<1>3. InTable' = InTable /\ Held' = Held /\ Pending' = Pending
    BY <1>1 DEF InTable, Held, Pending
<1>4. \/ stage = "deltas" /\ stage' = "open"
      \/ stage' = "given_up"
      \/ /\ stage = "pool" /\ stage' = "write"
         /\ candidates = {} /\ \A w \in Workers : drpm[w] = NoDrpm
      \/ stage = "write" /\ stage' = "listed" /\ Pending = {}
    BY DEF OpenFiles, OpenFails, PrepareFails, WalkFails, JoinPool,
           EndChunkFails, ListFile, GiveUp
<1>5. stage' = "given_up" => stage # "pool"
    BY DEF OpenFiles, OpenFails, PrepareFails, WalkFails, JoinPool,
           EndChunkFails, ListFile, GiveUp
<1>6. PrestoTypeOK'
    BY <1>1, <1>2, <1>4 DEF PrestoTypeOK
<1>7. Exclusive' /\ Lists' /\ Output'
    BY <1>1 DEF Exclusive, Lists, Output
<1>8. OnePlace'
    BY <1>1, <1>3 DEF OnePlace
<1>9. NothingLost'
    BY <1>1, <1>2, <1>3, <1>4 DEF NothingLost
<1>10. Phases'
    BY <1>1, <1>3, <1>4, <1>5 DEF Phases
<1> QED BY <1>2, <1>6, <1>7, <1>8, <1>9, <1>10

\* The drpms in the directory become the tasks of the pool.
LEMMA WalkStep ==
    ASSUME PInv, Walk
    PROVE  PInv'
<1> USE DEF PInv, Walk
<1>1. Frozen' /\ OnDisk' = OnDisk /\ (TypeOK' = TypeOK)
    BY FrozenUnchanged
<1>2. /\ InTable = {} /\ InTable' = {}
      /\ Held = {} /\ Held' = {}
    BY KeyOf DEF InTable, Held, Phases
<1>3. candidates' \subseteq Drpms
    BY DEF OnDisk, Drpms, PrestoTypeOK, TypeOK
<1>4. PrestoTypeOK'
    BY <1>1, <1>3 DEF PrestoTypeOK
<1>5. Exclusive' /\ Lists' /\ Output'
    BY DEF Exclusive, Lists, Output
<1>6. OnePlace' /\ NothingLost'
    BY <1>1, <1>2 DEF OnePlace, NothingLost, Phases
<1>7. Phases'
    BY DEF Phases
<1> QED BY <1>1, <1>4, <1>5, <1>6, <1>7

\* An element is written, or its writing fails.
LEMMA WriteStep ==
    ASSUME PInv, NEW k \in Keys, WriteNewPackage(k) \/ WriteFails(k)
    PROVE  PInv'
<1> USE DEF PInv
<1>1. /\ UNCHANGED deltaVars
      /\ UNCHANGED <<stage, candidates, drpm, inside, list, ht, unread>>
      /\ stage = "write"
      /\ ht[k] # <<>> /\ k \notin lost
      /\ \A i \in DOMAIN written : written[i][1] # k
    BY DEF WriteNewPackage, WriteFails, Pending
<1>2. Frozen' /\ OnDisk' = OnDisk /\ (TypeOK' = TypeOK)
    BY <1>1, FrozenUnchanged
<1>3. InTable' = InTable /\ Held' = Held
    BY <1>1 DEF InTable, Held
<1>4. written \in Seq(Keys \X Seq(Drpms)) /\ ht[k] \in Seq(Drpms)
    BY DEF PrestoTypeOK
<1>5. CASE WriteNewPackage(k)
  <2>1. /\ written' = Append(written, <<k, ht[k]>>) /\ lost' = lost
        /\ <<k, ht[k]>> \in Keys \X Seq(Drpms)
      BY <1>4, <1>5 DEF WriteNewPackage
  <2>2. /\ written' \in Seq(Keys \X Seq(Drpms))
        /\ DOMAIN written' = DOMAIN written \union {Len(written) + 1}
        /\ \A i \in DOMAIN written : written'[i] = written[i]
        /\ written'[Len(written) + 1] = <<k, ht[k]>>
      BY <1>4, <2>1
  <2>3. PrestoTypeOK'
      BY <1>1, <1>2, <2>1, <2>2 DEF PrestoTypeOK
  <2>4. Output'
    <3>1. ASSUME NEW i \in DOMAIN written'
          PROVE  /\ written'[i][1] \in Keys \ lost
                 /\ ht[written'[i][1]] # <<>>
                 /\ written'[i][2] = ht[written'[i][1]]
        BY <1>1, <2>2 DEF Output
    <3>2. ASSUME NEW i \in DOMAIN written', NEW j \in DOMAIN written',
                 written'[i][1] = written'[j][1]
          PROVE  i = j
        BY <1>1, <2>2, <3>2 DEF Output
    <3> QED BY <1>1, <2>1, <3>1, <3>2 DEF Output
  <2> QED BY <1>1, <1>2, <1>3, <2>3, <2>4
      DEF Exclusive, OnePlace, NothingLost, Lists, Phases
<1>6. CASE WriteFails(k)
  <2>1. written' = written /\ lost' = lost \union {k}
      BY <1>6 DEF WriteFails
  <2>2. PrestoTypeOK'
      BY <1>1, <1>2, <2>1 DEF PrestoTypeOK
  <2>3. Output'
      BY <1>1, <2>1 DEF Output
  <2> QED BY <1>1, <1>2, <1>3, <2>2, <2>3
      DEF Exclusive, OnePlace, NothingLost, Lists, Phases
<1> QED BY <1>5, <1>6

\* A thread with a drpm is at work while the pool runs.
LEMMA AtWork ==
    ASSUME PInv, NEW w \in Workers, drpm[w] # NoDrpm
    PROVE  /\ stage = "pool" /\ mainPc = "deltas_done"
           /\ drpm[w] \in Drpms /\ drpm[w] \in Held
           /\ drpm[w] \notin candidates \union unread \union InTable
<1> USE DEF PInv
<1>1. stage = "pool" /\ mainPc = "deltas_done"
    BY DEF Phases, Frozen
<1>2. drpm[w] \in Drpms /\ drpm[w] \in Held
    BY DEF PrestoTypeOK, Held
<1> QED BY <1>1, <1>2 DEF OnePlace

LEMMA TakeDrpmStep ==
    ASSUME PInv, NEW w \in Workers, NEW f \in Drpms, TakeDrpm(w, f)
    PROVE  PInv'
<1> USE DEF PInv, TakeDrpm
<1>1. Frozen' /\ OnDisk' = OnDisk /\ (TypeOK' = TypeOK)
    BY FrozenUnchanged
<1>2. /\ drpm' \in [Workers -> Drpms \union {NoDrpm}]
      /\ drpm[w] = NoDrpm /\ drpm'[w] = f /\ f # NoDrpm
      /\ \A v \in Workers : v # w => drpm'[v] = drpm[v]
      /\ w \notin inside
    BY DEF PrestoTypeOK
<1>3. InTable' = InTable /\ Held' = Held \union {f}
    BY <1>2 DEF InTable, Held
<1>4. f \notin Held \union unread \union InTable
    BY DEF OnePlace
<1>5. PrestoTypeOK'
    BY <1>1, <1>2 DEF PrestoTypeOK
<1>6. Exclusive'
  <2>1. \A v \in inside : v \in Workers /\ v # w
      BY <1>2 DEF PrestoTypeOK
  <2> QED BY <1>2, <2>1 DEF Exclusive
<1>7. OnePlace'
  <2>1. \A v \in Workers : drpm[v] # f
      BY <1>2, <1>4 DEF Held
  <2>2. \A u, v \in Workers : drpm'[u] = drpm'[v] /\ drpm'[u] # NoDrpm => u = v
      BY <1>2, <2>1 DEF OnePlace
  <2> QED BY <1>3, <1>4, <2>2 DEF OnePlace
<1>8. NothingLost'
    BY <1>1, <1>3 DEF NothingLost
<1>9. Lists' /\ Output' /\ Phases'
    BY DEF Lists, Output, Phases
<1> QED BY <1>1, <1>5, <1>6, <1>7, <1>8, <1>9

LEMMA ReadFailsStep ==
    ASSUME PInv, NEW w \in Workers, ReadFails(w)
    PROVE  PInv'
<1> USE DEF PInv, ReadFails
<1>1. /\ stage = "pool" /\ mainPc = "deltas_done"
      /\ drpm[w] \in Drpms /\ drpm[w] \in Held
      /\ drpm[w] \notin candidates \union unread \union InTable
    BY AtWork
<1>2. Frozen' /\ OnDisk' = OnDisk /\ (TypeOK' = TypeOK)
    BY <1>1, FrozenUnchanged
<1>3. /\ drpm' \in [Workers -> Drpms \union {NoDrpm}]
      /\ drpm'[w] = NoDrpm
      /\ \A v \in Workers : v # w => drpm'[v] = drpm[v]
    BY DEF PrestoTypeOK
<1>4. InTable' = InTable /\ Held' = Held \ {drpm[w]}
    BY <1>3 DEF InTable, Held, OnePlace
<1>5. PrestoTypeOK'
    BY <1>1, <1>2, <1>3 DEF PrestoTypeOK
<1>6. Exclusive'
  <2>1. \A v \in inside : v \in Workers /\ v # w
      BY DEF PrestoTypeOK
  <2> QED BY <1>3, <2>1 DEF Exclusive
<1>7. OnePlace' /\ NothingLost'
  <2>1. \A u, v \in Workers : drpm'[u] = drpm'[v] /\ drpm'[u] # NoDrpm => u = v
      BY <1>3 DEF OnePlace
  <2>2. OnePlace'
      BY <1>1, <1>4, <2>1 DEF OnePlace
  <2>3. NothingLost'
      BY <1>1, <1>2, <1>4 DEF NothingLost
  <2> QED BY <2>2, <2>3
<1>8. Lists' /\ Output' /\ Phases'
    BY <1>1 DEF Lists, Output, Phases
<1> QED BY <1>2, <1>5, <1>6, <1>7, <1>8

LEMMA LookUpStep ==
    ASSUME PInv, NEW w \in Workers, LookUp(w)
    PROVE  PInv'
<1> USE DEF PInv, LookUp, MutexFree
<1>1. stage = "pool" /\ mainPc = "deltas_done" /\ drpm[w] \in Drpms
    BY AtWork
<1>2. Frozen' /\ OnDisk' = OnDisk /\ (TypeOK' = TypeOK)
    BY <1>1, FrozenUnchanged
<1>3. InTable' = InTable /\ Held' = Held
    BY DEF InTable, Held
<1>4. ht[NewNevra[drpm[w]]] \in Seq(Drpms)
    BY <1>1, KeyOf DEF PrestoTypeOK
<1>5. PrestoTypeOK'
    BY <1>1, <1>2, <1>4 DEF PrestoTypeOK
<1>6. Exclusive'
    BY DEF Exclusive, PrestoTypeOK
<1>7. OnePlace' /\ NothingLost'
    BY <1>2, <1>3 DEF OnePlace, NothingLost
<1>8. Lists' /\ Output' /\ Phases'
    BY <1>1 DEF Lists, Output, Phases
<1> QED BY <1>2, <1>5, <1>6, <1>7, <1>8

\* The list is stored back with one drpm more, and no other list is touched.
LEMMA StoreStep ==
    ASSUME PInv, NEW w \in Workers, Store(w)
    PROVE  PInv'
<1> USE DEF PInv
<1> DEFINE f == drpm[w]
           key == NewNevra[f]
<1>1. w \in inside /\ f # NoDrpm
    BY DEF Store, PrestoTypeOK
<1>2. /\ stage = "pool" /\ mainPc = "deltas_done"
      /\ f \in Drpms /\ f \in Held
      /\ f \notin candidates \union unread \union InTable
    BY <1>1, AtWork
<1>3. /\ key \in Keys /\ ht[key] \in Seq(Drpms) /\ list[w] = ht[key]
    BY <1>1, <1>2, KeyOf DEF PrestoTypeOK, Exclusive
<1>4. /\ UNCHANGED <<deltaVars, stage, candidates, unread, written, lost>>
      /\ Frozen' /\ OnDisk' = OnDisk /\ (TypeOK' = TypeOK)
    BY <1>2, FrozenUnchanged DEF Store
<1>5. /\ drpm' \in [Workers -> Drpms \union {NoDrpm}]
      /\ drpm'[w] = NoDrpm
      /\ \A v \in Workers : v # w => drpm'[v] = drpm[v]
    BY DEF Store, PrestoTypeOK
<1>6. /\ ht' \in [Keys -> Seq(Drpms)]
      /\ ht'[key] = Append(ht[key], f)
      /\ \A k \in Keys : k # key => ht'[k] = ht[k]
  <2>1. ht' = [ht EXCEPT ![key] = Append(ht[key], f)]
      BY <1>3 DEF Store
  <2>2. Append(ht[key], f) \in Seq(Drpms)
      BY <1>2, <1>3
  <2> QED BY <1>3, <2>1, <2>2 DEF PrestoTypeOK
<1>7. /\ DOMAIN ht'[key] = DOMAIN ht[key] \union {Len(ht[key]) + 1}
      /\ \A i \in DOMAIN ht[key] : ht'[key][i] = ht[key][i]
      /\ ht'[key][Len(ht[key]) + 1] = f
    BY <1>2, <1>3, <1>6
<1>8. inside' = {} /\ inside = {w}
  <2>1. inside' = inside \ {w}
      BY DEF Store
  <2> QED BY <1>1, <2>1 DEF Exclusive
<1>9. PrestoTypeOK'
  <2>1. list' \in [Workers -> Seq(Drpms)]
      BY DEF Store, PrestoTypeOK
  <2> QED BY <1>2, <1>4, <1>5, <1>6, <1>8, <2>1 DEF PrestoTypeOK
<1>10. Exclusive'
    BY <1>8 DEF Exclusive
<1>11. Held' = Held \ {f}
    BY <1>1, <1>5 DEF Held, OnePlace
<1>12. InTable' = InTable \union {f}
  <2>1. ASSUME NEW g \in Drpms
        PROVE  g \in InTable' <=> g \in InTable \/ g = f
    <3> NewNevra[g] \in Keys
        BY KeyOf
    <3>1. CASE NewNevra[g] # key
        BY <1>6, <3>1 DEF InTable
    <3>2. CASE NewNevra[g] = key
        BY <1>2, <1>7, <3>2 DEF InTable
    <3> QED BY <3>1, <3>2
  <2>2. InTable' \subseteq Drpms /\ InTable \subseteq Drpms
      BY DEF InTable
  <2> QED BY <1>2, <2>1, <2>2
<1>13. OnePlace'
  <2>1. \A u, v \in Workers : drpm'[u] = drpm'[v] /\ drpm'[u] # NoDrpm => u = v
      BY <1>5 DEF OnePlace
  <2> QED BY <1>2, <1>4, <1>11, <1>12, <2>1 DEF OnePlace
<1>14. NothingLost'
    BY <1>2, <1>4, <1>11, <1>12 DEF NothingLost
<1>15. Lists'
  <2>1. \A i \in DOMAIN ht[key] : ht[key][i] # f
    <3>1. f \notin InTable
        BY <1>2
    <3>2. (\E i \in DOMAIN ht[NewNevra[f]] : ht[NewNevra[f]][i] = f)
            => f \in InTable
        BY <1>2 DEF InTable
    <3> QED BY <3>1, <3>2
  <2>2. ASSUME NEW i \in DOMAIN ht'[key], NEW j \in DOMAIN ht'[key]
        PROVE  /\ NewNevra[ht'[key][i]] = key
               /\ ht'[key][i] = ht'[key][j] => i = j
    <3> DEFINE n == Len(ht[key]) + 1
    <3>1. \A l \in DOMAIN ht[key] : NewNevra[ht[key][l]] = key
        BY <1>3 DEF Lists
    <3>2. \A l, m \in DOMAIN ht[key] : ht[key][l] = ht[key][m] => l = m
        BY <1>3 DEF Lists
    <3>3. CASE i \in DOMAIN ht[key] /\ j \in DOMAIN ht[key]
        BY <1>7, <3>1, <3>2, <3>3
    <3>4. CASE i = n /\ j = n
        BY <1>7, <3>4
    <3>5. CASE i \in DOMAIN ht[key] /\ j = n
        BY <1>7, <2>1, <3>1, <3>5
    <3>6. CASE i = n /\ j \in DOMAIN ht[key]
        BY <1>7, <2>1, <3>6
    <3> QED BY <1>7, <3>3, <3>4, <3>5, <3>6
  <2>3. \A k \in Keys : k # key =>
           \A i, j \in DOMAIN ht'[k] :
              /\ NewNevra[ht'[k][i]] = k
              /\ ht'[k][i] = ht'[k][j] => i = j
    <3> SUFFICES ASSUME NEW k \in Keys, k # key,
                        NEW i \in DOMAIN ht'[k], NEW j \in DOMAIN ht'[k]
                 PROVE  /\ NewNevra[ht'[k][i]] = k
                        /\ ht'[k][i] = ht'[k][j] => i = j
        OBVIOUS
    <3> HIDE DEF key, f
    <3>1. ht'[k] = ht[k]
        BY <1>6
    <3> QED BY <3>1 DEF Lists
  <2> QED BY <2>2, <2>3 DEF Lists
<1>16. Output' /\ Phases'
    BY <1>2, <1>4 DEF Output, Phases
<1> QED BY <1>4, <1>9, <1>10, <1>13, <1>14, <1>15, <1>16

LEMMA PInductive == PInv /\ IInv /\ IInv' /\ [Next]_vars => PInv'
<1> SUFFICES ASSUME PInv, IInv, IInv', [Next]_vars PROVE PInv'
    OBVIOUS
<1>1. CASE stage = "deltas" /\ NextDelta /\ UNCHANGED prestoVars
    BY <1>1, SchedulerStep
<1>2. CASE PrestoMain
  <2>1. CASE \E k \in Keys : WriteNewPackage(k) \/ WriteFails(k)
      BY <2>1, WriteStep
  <2>2. CASE Walk
      BY <2>2, WalkStep
  <2> QED BY <1>2, <2>1, <2>2, StageStep DEF PrestoMain
<1>3. ASSUME NEW w \in Workers, PrestoWorker(w)
      PROVE  PInv'
    BY <1>3, TakeDrpmStep, ReadFailsStep, LookUpStep, StoreStep
    DEF PrestoWorker
<1>4. CASE UNCHANGED vars
  <2> USE <1>4 DEF vars, prestoVars, PInv
  <2>1. Frozen' /\ OnDisk' = OnDisk /\ (TypeOK' = TypeOK)
    <3>1. \/ stage' \in {"deltas", "given_up"}
          \/ stage \notin {"deltas", "given_up"}
        OBVIOUS
    <3> QED BY <3>1, FrozenUnchanged
  <2>2. InTable' = InTable /\ Held' = Held /\ Pending' = Pending
      BY DEF InTable, Held, Pending
  <2>3. PrestoTypeOK'
      BY <2>1 DEF PrestoTypeOK
  <2>4. Exclusive' /\ Lists' /\ Output' /\ Phases'
      BY <2>2 DEF Exclusive, Lists, Output, Phases
  <2>5. OnePlace' /\ NothingLost'
      BY <2>1, <2>2 DEF OnePlace, NothingLost
  <2> QED BY <2>1, <2>3, <2>4, <2>5
<1> QED BY <1>1, <1>2, <1>3, <1>4 DEF Next

\* At the end the table is the output, but for what could not be written.
LEMMA CompleteAtTheEnd == PInv => PrestoComplete
<1> SUFFICES ASSUME PInv, stage = "listed"
             PROVE  PrestoComplete
    BY DEF PrestoComplete
<1> USE DEF PInv
<1> DEFINE read(k) == {f \in OnDisk \ unread : NewNevra[f] = k}
           keys == {written[i][1] : i \in DOMAIN written}
<1>1. OnDisk \ unread = InTable
  <2>1. candidates = {} /\ Held = {}
      BY DEF Phases, Held
  <2> QED BY <2>1 DEF NothingLost, OnePlace
<1>2. ASSUME NEW k \in Keys
      PROVE  {ht[k][j] : j \in DOMAIN ht[k]} = read(k)
  <2>1. ASSUME NEW j \in DOMAIN ht[k]
        PROVE  ht[k][j] \in read(k)
    <3>1. ht[k][j] \in Drpms /\ NewNevra[ht[k][j]] = k
        BY DEF PrestoTypeOK, Lists
    <3>2. ht[k][j] \in InTable
        BY <3>1 DEF InTable
    <3> QED BY <1>1, <3>1, <3>2
  <2>2. ASSUME NEW f \in read(k)
        PROVE  f \in {ht[k][j] : j \in DOMAIN ht[k]}
    <3>1. f \in InTable /\ NewNevra[f] = k
        BY <1>1
    <3>2. PICK j \in DOMAIN ht[NewNevra[f]] : ht[NewNevra[f]][j] = f
        BY <3>1 DEF InTable
    <3> QED BY <3>1, <3>2
  <2> QED BY <2>1, <2>2
<1>3. ASSUME NEW k \in Keys
      PROVE  ht[k] # <<>> <=> read(k) # {}
  <2>1. ht[k] \in Seq(Drpms)
      BY DEF PrestoTypeOK
  <2>2. ht[k] = <<>> => DOMAIN ht[k] = {}
      OBVIOUS
  <2>3. ht[k] # <<>> => 1 \in DOMAIN ht[k]
    <3>1. ht[k] # <<>> => Len(ht[k]) # 0
        BY <2>1, EmptySeq
    <3> QED BY <2>1, <3>1
  <2> DEFINE q == ht[k]
  <2>4. {q[j] : j \in DOMAIN q} = {} <=> DOMAIN q = {}
    <3> HIDE DEF q, PInv
    <3>1. ASSUME NEW j \in DOMAIN q
          PROVE  {q[l] : l \in DOMAIN q} # {}
        OBVIOUS
    <3> QED BY <3>1
  <2> HIDE DEF read
  <2>5. {ht[k][j] : j \in DOMAIN ht[k]} = read(k)
      BY <1>2
  <2>6. read(k) = {} <=> DOMAIN ht[k] = {}
      BY <2>4, <2>5
  <2> QED BY <2>2, <2>3, <2>6
<1>4. keys = {k \in Keys : ht[k] # <<>>} \ lost
  <2>1. keys \subseteq {k \in Keys : ht[k] # <<>>} \ lost
      BY DEF Output
  <2>2. {k \in Keys : ht[k] # <<>>} \ lost \subseteq keys
      BY DEF Phases, Pending
  <2> QED BY <2>1, <2>2
<1>5. ASSUME NEW i \in DOMAIN written
      PROVE  LET chunks == written[i][2]
             IN  /\ {chunks[j] : j \in DOMAIN chunks} = read(written[i][1])
                 /\ \A j, l \in DOMAIN chunks : chunks[j] = chunks[l] => j = l
  <2>1. written[i][1] \in Keys /\ written[i][2] = ht[written[i][1]]
      BY DEF Output
  <2> QED BY <1>2, <2>1 DEF Lists
<1>6. keys = {k \in Keys : read(k) # {}} \ lost
    BY <1>3, <1>4
<1> QED BY <1>5, <1>6 DEF PrestoComplete, Output

-----------------------------------------------------------------------------
(* The theorems.                                                           *)

\* The invariant of the whole stage.
THEOREM StageInvariance == Spec => []PInv
<1>1. Spec => []IInv
    BY StageRunsScheduler, Invariance, PTL
<1> QED BY <1>1, InitPInv, PInductive, PTL DEF Spec

\* Every variable of the stage keeps its type.
THEOREM PrestoTypeCorrect == Spec => []PrestoTypeOK
<1>1. PInv => PrestoTypeOK
    BY DEF PInv
<1> QED BY <1>1, StageInvariance, PTL

\* Whatever the threads do, a prestodelta.xml that is listed has every readable
\* drpm exactly once, in the element of the package it leads to.
THEOREM PrestoDeltaComplete == Spec => []PrestoComplete
BY StageInvariance, CompleteAtTheEnd, PTL
=============================================================================
