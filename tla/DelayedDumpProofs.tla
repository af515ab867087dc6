-------------------------- MODULE DelayedDumpProofs --------------------------
(***************************************************************************)
(* What the delayed dump promises for any number of workers and tasks, any *)
(* packages, build times and locations, and whatever cannot be read or     *)
(* dumped.  That one package of each NEVRA is kept rests on every package  *)
(* that was collected being filed once (Filed); that the header is right   *)
(* from the start, on counting what the dump passes over (Counted).        *)
(***************************************************************************)
EXTENDS DelayedDump, FiniteSetTheorems, SequenceTheorems, WellFoundedInduction,
        TLAPS

TypeOK ==
    /\ next \in 0 .. TaskCount
    /\ pc \in [Workers -> {"idle", "start", "load", "collect"}]
    /\ task \in [Workers -> Nat]
    /\ source \in [Tasks -> {"NULL", "old", "file"}]
    /\ nevraTable \in [Nevras -> Seq(Tasks)]
    /\ hadErrors \in BOOLEAN
    /\ mainPc \in {"pool", "dump", "done"}
    /\ skipDump \subseteq Tasks
    /\ current \in 0 .. TaskCount
    /\ written \in Seq(Tasks)

\* A task is with one worker, and has no package before that worker gets it.
Taken ==
    /\ \A w \in Workers : pc[w] # "idle" =>
          /\ task[w] \in Tasks /\ task[w] < next
          /\ pc[w] = "collect" <=> source[task[w]] # "NULL"
    /\ \A v, w \in Workers :
          pc[v] # "idle" /\ pc[w] # "idle" /\ task[v] = task[w] => v = w
    /\ \A t \in Tasks : source[t] # "NULL" => t < next

\* A record that was used is no longer in the old metadata.
OldTaken == \A t \in Tasks : source[t] = "old" => Href[t] \notin oldMd

\* A package is filed once, under its NEVRA, by the worker that has got it.
Filed ==
    /\ \A n \in Nevras : \A i \in DOMAIN nevraTable[n] :
          LET t == nevraTable[n][i]
          IN  /\ Nevra[t] = n /\ source[t] # "NULL"
              /\ \A w \in Workers : pc[w] = "collect" => task[w] # t
    /\ \A n \in Nevras : \A i, j \in DOMAIN nevraTable[n] :
          nevraTable[n][i] = nevraTable[n][j] => i = j
    /\ \A t \in Tasks : source[t] # "NULL" =>
          \/ \E w \in Workers : pc[w] = "collect" /\ task[w] = t
          \/ \E i \in DOMAIN nevraTable[Nevra[t]] : nevraTable[Nevra[t]][i] = t

\* The duplicates are resolved when nobody collects any more.
Resolved ==
    IF mainPc = "pool"
      THEN skipDump = {} /\ current = 0 /\ written = <<>>
      ELSE /\ next = TaskCount
           /\ \A w \in Workers : pc[w] = "idle"
           /\ skipDump = UNION {Skipped(nevraTable[n]) : n \in Nevras}

\* What has been dumped when the dump has come to a task.
DumpedSoFar ==
    /\ \A i \in DOMAIN written :
          /\ written[i] < current
          /\ Selected(written[i]) /\ written[i] \notin XmlFails
    /\ \A i, j \in DOMAIN written : i < j => written[i] < written[j]
    /\ \A t \in Tasks :
          t < current /\ Selected(t) /\ t \notin XmlFails
             => \E i \in DOMAIN written : written[i] = t

SkippedBefore(c) == {t \in skipDump : t < c}

\* While nothing fails, all the tasks but the skipped ones are dumped.
Counted ==
    /\ mainPc = "dump" => header = TaskCount - Cardinality(skipDump)
    /\ mainPc = "dump" /\ ~hadErrors /\ (\A t \in Tasks : source[t] # "NULL")
          => Len(written) = current - Cardinality(SkippedBefore(current))
    /\ mainPc = "done" => header = Len(written) /\ current = TaskCount

IInv ==
    /\ TypeOK /\ Taken /\ OldTaken /\ OldUsedOnce /\ Filed /\ Resolved
    /\ DumpedSoFar /\ Counted

-----------------------------------------------------------------------------
USE DelayedDumpAssumption

LEMMA TaskRange == \A t : t \in Tasks <=> t \in Nat /\ t < TaskCount
BY DEF Tasks

LEMMA AppendDomain ==
    ASSUME NEW S, NEW q \in Seq(S), NEW x \in S
    PROVE  /\ DOMAIN Append(q, x) = DOMAIN q \union {Len(q) + 1}
           /\ Len(q) + 1 \notin DOMAIN q
           /\ Append(q, x)[Len(q) + 1] = x
           /\ \A i \in DOMAIN q : Append(q, x)[i] = q[i]
<1>1. /\ Append(q, x) \in Seq(S) /\ Len(Append(q, x)) = Len(q) + 1
      /\ Append(q, x)[Len(q) + 1] = x
      /\ \A i \in 1 .. Len(q) : Append(q, x)[i] = q[i]
    BY AppendProperties
<1>2. DOMAIN q = 1 .. Len(q) /\ Len(q) \in Nat
      /\ DOMAIN Append(q, x) = 1 .. Len(q) + 1
    BY <1>1
<1> QED BY <1>1, <1>2

\* While a worker has a task, main() waits for the pool.
LEMMA PoolRuns ==
    ASSUME IInv, NEW w \in Workers, Worker(w)
    PROVE  mainPc = "pool"
BY DEF IInv, Resolved, Worker, Take, TasksLeft, StatFails, LookUp, LoadOk,
       LoadFails, Collect

LEMMA DumpUntouched ==
    ASSUME Resolved, mainPc = "pool", UNCHANGED <<mainPc, dumpVars>>
    PROVE  Resolved' /\ DumpedSoFar' /\ Counted'
<1>1. Resolved'
    BY DEF Resolved, dumpVars
<1>2. DumpedSoFar'
  <2>1. written' = <<>> /\ current' = 0
      BY DEF Resolved, dumpVars
  <2> QED BY <2>1, TaskRange DEF DumpedSoFar
<1>3. Counted'
    BY DEF Counted
<1> QED BY <1>1, <1>2, <1>3

LEMMA TakeStep ==
    ASSUME IInv, NEW w \in Workers, Take(w)
    PROVE  IInv'
<1> USE DEF IInv
<1>1. /\ pc[w] = "idle" /\ next \in Tasks /\ next' = next + 1
      /\ task' = [task EXCEPT ![w] = next] /\ pc' = [pc EXCEPT ![w] = "start"]
      /\ UNCHANGED <<oldMd, source, nevraTable, hadErrors, mainPc, dumpVars>>
  <2>1. next \in Tasks
      BY DEF Take, TasksLeft, TypeOK, Tasks, IInv
  <2> QED BY <2>1 DEF Take
<1>2. TypeOK'
    BY <1>1, TaskRange DEF TypeOK, dumpVars
<1>3. Taken'
  <2>1. \A v \in Workers : pc[v] # "idle" => task[v] # next
      BY TaskRange DEF Taken, TypeOK
  <2> QED BY <1>1, <2>1, TaskRange DEF Taken, TypeOK
<1>4. OldTaken' /\ OldUsedOnce'
    BY <1>1 DEF OldTaken, OldUsedOnce
<1>5. Filed'
    BY <1>1 DEF Filed, TypeOK
<1>6. Resolved' /\ DumpedSoFar' /\ Counted'
    BY <1>1, PoolRuns, DumpUntouched DEF Worker
<1> QED BY <1>2, <1>3, <1>4, <1>5, <1>6

LEMMA GiveUpStep ==
    ASSUME IInv, NEW w \in Workers, StatFails(w) \/ LoadFails(w)
    PROVE  IInv'
<1> USE DEF IInv
<1>1. /\ pc[w] \in {"start", "load"} /\ pc' = [pc EXCEPT ![w] = "idle"]
      /\ hadErrors' \in BOOLEAN
      /\ UNCHANGED <<next, task, oldMd, source, nevraTable, mainPc, dumpVars>>
    BY DEF StatFails, LoadFails, TypeOK
<1>2. TypeOK'
    BY <1>1 DEF TypeOK, dumpVars
<1>3. Taken'
    BY <1>1 DEF Taken, TypeOK
<1>4. OldTaken' /\ OldUsedOnce'
    BY <1>1 DEF OldTaken, OldUsedOnce
<1>5. Filed'
  <2>1. \A v \in Workers : pc'[v] = "collect" <=> pc[v] = "collect"
      BY <1>1 DEF TypeOK
  <2> QED BY <1>1, <2>1 DEF Filed
<1>6. Resolved' /\ DumpedSoFar' /\ Counted'
    BY <1>1, PoolRuns, DumpUntouched DEF Worker
<1> QED BY <1>2, <1>3, <1>4, <1>5, <1>6

\* A worker gets the package of its task, or has to read the file for it.
LEMMA GetStep ==
    ASSUME IInv, NEW w \in Workers, LookUp(w) \/ LoadOk(w)
    PROVE  IInv'
<1> USE DEF IInv
<1> DEFINE t == task[w]
<1>0. /\ pc[w] \in {"start", "load"} /\ t \in Tasks /\ t < next
      /\ source[t] = "NULL"
    BY DEF LookUp, LoadOk, Taken
<1>1. /\ UNCHANGED <<next, task, nevraTable, hadErrors, mainPc, dumpVars>>
      /\ oldMd' \subseteq oldMd
    BY DEF LookUp, LoadOk, Steal
<1>2. \/ /\ pc' = [pc EXCEPT ![w] = "load"] /\ source' = source
      \/ /\ pc' = [pc EXCEPT ![w] = "collect"]
         /\ \/ source' = [source EXCEPT ![t] = "file"]
            \/ /\ source' = [source EXCEPT ![t] = "old"]
               /\ Href[t] \in oldMd /\ Href[t] \notin oldMd'
    BY DEF LookUp, LoadOk, Steal
<1>3. TypeOK'
    BY <1>0, <1>1, <1>2 DEF TypeOK, dumpVars
<1>4. Taken'
  <2>1. /\ \A v \in Workers : v # w => pc'[v] = pc[v]
        /\ pc'[w] # "idle" /\ pc[w] # "idle"
        /\ pc'[w] = "collect" <=> source'[t] # "NULL"
      BY <1>0, <1>2 DEF TypeOK
  <2>2. \A u \in Tasks : u # t => source'[u] = source[u]
      BY <1>2 DEF TypeOK
  <2>3. \A v \in Workers : v # w /\ pc[v] # "idle" => task[v] # t
      BY <2>1 DEF Taken
  <2> QED BY <1>0, <1>1, <2>1, <2>2, <2>3 DEF Taken
<1>5. OldTaken' /\ OldUsedOnce'
    BY SMTT(30), <1>0, <1>1, <1>2 DEF OldTaken, OldUsedOnce, TypeOK
<1>6. Filed'
  <2>1. \A n \in Nevras : \A i \in DOMAIN nevraTable[n] : nevraTable[n][i] # t
      BY <1>0 DEF Filed
  <2>2. \A u \in Tasks : u # t => source'[u] = source[u]
      BY <1>2 DEF TypeOK
  <2>3. \A v \in Workers : v # w => pc'[v] = pc[v] /\ task'[v] = task[v]
      BY <1>1, <1>2 DEF TypeOK
  <2>4. \A n \in Nevras : \A i \in DOMAIN nevraTable[n] :
            nevraTable[n][i] \in Tasks
      BY DEF TypeOK
  <2>5. source'[t] # "NULL" => pc'[w] = "collect"
      BY <1>0, <1>2 DEF TypeOK
  <2> QED BY <1>0, <1>1, <2>1, <2>2, <2>3, <2>4, <2>5 DEF Filed
<1>7. Resolved' /\ DumpedSoFar' /\ Counted'
    BY <1>1, PoolRuns, DumpUntouched DEF Worker
<1> QED BY <1>3, <1>4, <1>5, <1>6, <1>7

LEMMA CollectStep ==
    ASSUME IInv, NEW w \in Workers, Collect(w)
    PROVE  IInv'
<1> USE DEF IInv
<1> DEFINE t == task[w]
           m == Nevra[t]
<1>0. pc[w] = "collect" /\ t \in Tasks /\ source[t] # "NULL" /\ m \in Nevras
    BY DEF Collect, Taken, Nevras
<1>1. /\ UNCHANGED <<next, task, oldMd, source, hadErrors, mainPc, dumpVars>>
      /\ pc' = [pc EXCEPT ![w] = "idle"]
      /\ nevraTable' = [nevraTable EXCEPT ![m] = Append(nevraTable[m], t)]
    BY DEF Collect
<1>2. TypeOK'
  <2>1. Append(nevraTable[m], t) \in Seq(Tasks)
      BY <1>0 DEF TypeOK
  <2> QED BY <1>1, <2>1 DEF TypeOK, dumpVars
<1>3. Taken'
    BY <1>0, <1>1 DEF Taken, TypeOK
<1>4. OldTaken' /\ OldUsedOnce'
    BY <1>1 DEF OldTaken, OldUsedOnce
<1>5. Filed'
  <2>1. \A n \in Nevras : \A i \in DOMAIN nevraTable[n] : nevraTable[n][i] # t
      BY <1>0 DEF Filed
  <2>2. /\ \A n \in Nevras \ {m} : nevraTable'[n] = nevraTable[n]
        /\ nevraTable'[m] = Append(nevraTable[m], t)
      BY <1>0, <1>1 DEF TypeOK
  <2>3. nevraTable[m] \in Seq(Tasks)
      BY <1>0 DEF TypeOK
  <2>4. /\ DOMAIN nevraTable'[m]
             = DOMAIN nevraTable[m] \union {Len(nevraTable[m]) + 1}
        /\ Len(nevraTable[m]) + 1 \notin DOMAIN nevraTable[m]
        /\ nevraTable'[m][Len(nevraTable[m]) + 1] = t
        /\ \A i \in DOMAIN nevraTable[m] :
              nevraTable'[m][i] = nevraTable[m][i]
      BY <1>0, <2>2, <2>3, AppendDomain
  <2>5. \A v \in Workers : v # w => pc'[v] = pc[v]
      BY <1>1 DEF TypeOK
  <2>6. pc'[w] = "idle"
      BY <1>1 DEF TypeOK
  <2>7. \A v \in Workers : v # w /\ pc[v] = "collect" => task[v] # t
      BY <1>0 DEF Taken
  <2>8. ASSUME NEW n \in Nevras, NEW i \in DOMAIN nevraTable'[n]
        PROVE  LET u == nevraTable'[n][i]
               IN  /\ Nevra[u] = n /\ source'[u] # "NULL"
                   /\ \A v \in Workers : pc'[v] = "collect" => task'[v] # u
    <3>1. CASE n = m /\ i = Len(nevraTable[m]) + 1
        BY <3>1, <1>0, <1>1, <2>4, <2>5, <2>6, <2>7
    <3>2. CASE ~(n = m /\ i = Len(nevraTable[m]) + 1)
      <4>1. i \in DOMAIN nevraTable[n] /\ nevraTable'[n][i] = nevraTable[n][i]
        <5>1. CASE n = m
            BY <5>1, <3>2, <2>4, <2>8
        <5>2. CASE n # m
            BY <5>2, <2>2, <2>8
        <5> QED BY <5>1, <5>2
      <4> QED BY <4>1, <1>1, <2>5, <2>6 DEF Filed
    <3> QED BY <3>1, <3>2
  <2>9. \A n \in Nevras : \A i, j \in DOMAIN nevraTable'[n] :
            nevraTable'[n][i] = nevraTable'[n][j] => i = j
    <3>1. ASSUME NEW i \in DOMAIN nevraTable'[m], NEW j \in DOMAIN nevraTable'[m],
                 nevraTable'[m][i] = nevraTable'[m][j]
          PROVE  i = j
        BY <1>0, <2>1, <2>4, <3>1 DEF Filed
    <3>2. ASSUME NEW n \in Nevras \ {m},
                 NEW i \in DOMAIN nevraTable'[n], NEW j \in DOMAIN nevraTable'[n],
                 nevraTable'[n][i] = nevraTable'[n][j]
          PROVE  i = j
        BY <2>2, <3>2 DEF Filed
    <3> QED BY <1>0, <3>1, <3>2
  <2>10. ASSUME NEW u \in Tasks, source'[u] # "NULL"
         PROVE  \/ \E v \in Workers : pc'[v] = "collect" /\ task'[v] = u
                \/ \E i \in DOMAIN nevraTable'[Nevra[u]] :
                      nevraTable'[Nevra[u]][i] = u
    <3>0. Nevra[u] \in Nevras
        BY DEF Nevras
    <3>1. CASE u = t
        BY <3>1, <2>4
    <3>2. CASE u # t
      <4>1. CASE \E v \in Workers : pc[v] = "collect" /\ task[v] = u
          BY <4>1, <3>2, <2>5, <1>1
      <4>2. CASE \E i \in DOMAIN nevraTable[Nevra[u]] :
                    nevraTable[Nevra[u]][i] = u
          BY <4>2, <3>0, <2>2, <2>4
      <4> QED BY <4>1, <4>2, <2>10, <1>1 DEF Filed
    <3> QED BY <3>1, <3>2
  <2> QED BY <2>8, <2>9, <2>10 DEF Filed
<1>6. Resolved' /\ DumpedSoFar' /\ Counted'
    BY <1>1, PoolRuns, DumpUntouched DEF Worker
<1> QED BY <1>2, <1>3, <1>4, <1>5, <1>6

-----------------------------------------------------------------------------
(* handle_nevra_duplicates.                                                *)

Kept(locations) == {locations[i] : i \in DOMAIN locations} \ Skipped(locations)

\* Build time, then location, then order of arrival.
Lex(b, h, i, c, g, j) == b < c \/ (b = c /\ (h < g \/ (h = g /\ i < j)))

\* A finite set that is not empty has a greatest element.
LEMMA MaximalElement ==
    ASSUME NEW S, IsFiniteSet(S), S # {}, NEW R,
           \A x \in S : <<x, x>> \notin R,
           \A x, y, z \in S : <<x, y>> \in R /\ <<y, z>> \in R => <<x, z>> \in R
    PROVE  \E x \in S : \A y \in S : <<x, y>> \notin R
<1> DEFINE Above(x) == {y \in S : <<x, y>> \in R}
           All == {Above(x) : x \in S}
<1>1. All \subseteq FiniteSubsetsOf(S)
  <2>1. \A x \in S : Above(x) \in SUBSET S /\ IsFiniteSet(Above(x))
      BY FS_Subset
  <2>2. \A x \in S : Above(x) \in FiniteSubsetsOf(S)
      BY <2>1 DEF FiniteSubsetsOf
  <2> HIDE DEF Above
  <2> QED BY <2>2
<1>0. All # {}
  <2>1. PICK x \in S : TRUE
      OBVIOUS
  <2>2. Above(x) \in All
      BY <2>1
  <2> HIDE DEF All
  <2> QED BY <2>2
<1>2. PICK A \in All : \A B \in All : <<B, A>> \notin StrictSubsetOrdering(S)
  <2> HIDE DEF All
  <2>1. PICK B : B \in All
      BY <1>0
  <2> QED BY <2>1, <1>1, FS_StrictSubsetOrderingWellFounded, WFMin
<1>3. PICK x \in S : A = Above(x)
    BY <1>2
<1>4. ASSUME NEW y \in S, <<x, y>> \in R
      PROVE  FALSE
  <2>1. Above(y) \subseteq Above(x) /\ y \in Above(x) /\ y \notin Above(y)
      BY <1>3, <1>4
  <2>2. <<Above(y), Above(x)>> \in StrictSubsetOrdering(S)
      BY <2>1 DEF StrictSubsetOrdering
  <2> QED BY <1>2, <1>3, <2>2
<1> QED BY <1>4

LEMMA LexTransitive ==
    ASSUME NEW a \in Nat, NEW b \in Nat, NEW c \in Nat,
           NEW f \in Nat, NEW g \in Nat, NEW h \in Nat,
           NEW i \in Nat, NEW j \in Nat, NEW k \in Nat,
           Lex(a, f, i, b, g, j), Lex(b, g, j, c, h, k)
    PROVE  Lex(a, f, i, c, h, k)
BY DEF Lex

\* The last one in the order of the sort is kept, and no other: the order is
\* total, whatever build times and locations are equal.
LEMMA KeptOne ==
    ASSUME NEW q \in Seq(Tasks), q # <<>>,
           \A i, j \in DOMAIN q : q[i] = q[j] => i = j
    PROVE  \E x \in Tasks : Kept(q) = {x}
<1> DEFINE D == DOMAIN q
           R == {r \in D \X D : SortsAfter(q, r[2], r[1])}
<1>0. /\ D = 1 .. Len(q) /\ Len(q) \in Nat /\ D # {} /\ IsFiniteSet(D)
      /\ \A i \in D : i \in Nat /\ q[i] \in Tasks
  <2>1. D = 1 .. Len(q) /\ Len(q) \in Nat /\ Len(q) # 0
      OBVIOUS
  <2>2. IsFiniteSet(1 .. Len(q))
      BY <2>1, FS_Interval
  <2>3. 1 \in D
      BY <2>1
  <2> QED BY <2>1, <2>2, <2>3
<1>a. \A i \in D : BuildTime[q[i]] \in Nat /\ Href[q[i]] \in Nat
    BY <1>0
<1>b. \A i, j \in D : <<i, j>> \in R <=> SortsAfter(q, j, i)
    OBVIOUS
<1> HIDE DEF D, R
<1>c. ASSUME NEW i \in D, NEW j \in D
      PROVE  SortsAfter(q, j, i)
                <=> Lex(BuildTime[q[i]], Href[q[i]], i,
                        BuildTime[q[j]], Href[q[j]], j)
    BY SMTT(30), <1>0, <1>a DEF SortsAfter, Before, Lex
<1>1. \A i \in D : ~SortsAfter(q, i, i)
    BY <1>0, <1>a DEF SortsAfter, Before
<1>2. ASSUME NEW i \in D, NEW j \in D, NEW k \in D,
             SortsAfter(q, j, i), SortsAfter(q, k, j)
      PROVE  SortsAfter(q, k, i)
  <2>1. i \in Nat /\ j \in Nat /\ k \in Nat
      BY <1>0
  <2>2. /\ BuildTime[q[i]] \in Nat /\ Href[q[i]] \in Nat
        /\ BuildTime[q[j]] \in Nat /\ Href[q[j]] \in Nat
        /\ BuildTime[q[k]] \in Nat /\ Href[q[k]] \in Nat
      BY <1>a
  <2>3. /\ Lex(BuildTime[q[i]], Href[q[i]], i, BuildTime[q[j]], Href[q[j]], j)
        /\ Lex(BuildTime[q[j]], Href[q[j]], j, BuildTime[q[k]], Href[q[k]], k)
      BY <1>2, <1>c
  <2>4. Lex(BuildTime[q[i]], Href[q[i]], i, BuildTime[q[k]], Href[q[k]], k)
      BY <2>1, <2>2, <2>3, LexTransitive
  <2> QED BY <2>4, <1>c
<1>3. \A i, j \in D : i # j => SortsAfter(q, j, i) \/ SortsAfter(q, i, j)
    BY <1>0, <1>a DEF SortsAfter, Before
<1>4. PICK last \in D : \A j \in D : <<last, j>> \notin R
  <2>1. \A i \in D : <<i, i>> \notin R
      BY <1>1, <1>b
  <2>2. \A i, j, k \in D :
            <<i, j>> \in R /\ <<j, k>> \in R => <<i, k>> \in R
      BY <1>2, <1>b
  <2>3. IsFiniteSet(D) /\ D # {}
      BY <1>0
  <2> QED BY <2>1, <2>2, <2>3, MaximalElement
<1>5. \A j \in D : ~SortsAfter(q, j, last)
    BY <1>4, <1>b
<1>6. \A i \in D : i # last => q[i] \in Skipped(q)
    BY <1>3, <1>5 DEF Skipped, D
<1>7. q[last] \notin Skipped(q)
    BY <1>5 DEF Skipped, D
<1>8. Kept(q) = {q[last]}
    BY <1>6, <1>7 DEF Kept, D
<1> QED BY <1>8, <1>0

\* Nothing that is skipped was built later than what is kept.
LEMMA KeptLatest ==
    ASSUME NEW q \in Seq(Tasks), NEW t \in Kept(q),
           NEW i \in DOMAIN q
    PROVE  \/ BuildTime[t] > BuildTime[q[i]]
           \/ BuildTime[t] = BuildTime[q[i]] /\ Href[t] >= Href[q[i]]
<1>1. PICK k \in DOMAIN q : q[k] = t
    BY DEF Kept
<1>2. q[i] \in Tasks /\ t \in Tasks
    BY <1>1
<1>3. k # i => ~SortsAfter(q, i, k)
    BY <1>1 DEF Kept, Skipped
<1>4. CASE k = i
    BY <1>1, <1>2, <1>4
<1>5. CASE k # i
  <2>1. ~Before(t, q[i])
      BY <1>1, <1>3, <1>5 DEF SortsAfter
  <2> QED BY <2>1, <1>2 DEF Before
<1> QED BY <1>4, <1>5

\* When the pool is done, the packages of a NEVRA are those filed under it.
LEMMA Groups ==
    ASSUME IInv, mainPc # "pool", NEW n \in Nevras
    PROVE  /\ {t \in Tasks : Nevra[t] = n /\ source[t] # "NULL"}
                = {nevraTable[n][i] : i \in DOMAIN nevraTable[n]}
           /\ {t \in Tasks : Nevra[t] = n /\ source[t] # "NULL"} \ skipDump
                = Kept(nevraTable[n])
<1> DEFINE group == {t \in Tasks : Nevra[t] = n /\ source[t] # "NULL"}
<1>1. group = {nevraTable[n][i] : i \in DOMAIN nevraTable[n]}
  <2>1. \A i \in DOMAIN nevraTable[n] : nevraTable[n][i] \in group
      BY DEF IInv, Filed, TypeOK
  <2>2. \A t \in group : \E i \in DOMAIN nevraTable[n] : nevraTable[n][i] = t
      BY DEF IInv, Filed, Resolved
  <2> QED BY <2>1, <2>2
<1>2. \A t \in group : t \in skipDump <=> t \in Skipped(nevraTable[n])
  <2>1. skipDump = UNION {Skipped(nevraTable[m]) : m \in Nevras}
      BY DEF IInv, Resolved
  <2>2. ASSUME NEW t \in group, NEW m \in Nevras, t \in Skipped(nevraTable[m])
        PROVE  m = n
      BY <2>2 DEF Skipped, IInv, Filed
  <2> QED BY <2>1, <2>2
<1> QED BY <1>1, <1>2 DEF Kept

-----------------------------------------------------------------------------
(* main().                                                                 *)

LEMMA SkippedTyped ==
    ASSUME TypeOK
    PROVE  UNION {Skipped(nevraTable[n]) : n \in Nevras} \subseteq Tasks
BY DEF TypeOK, Skipped

LEMMA SkippedCount ==
    ASSUME TypeOK, NEW c \in 0 .. TaskCount
    PROVE  /\ IsFiniteSet(skipDump) /\ IsFiniteSet(SkippedBefore(c))
           /\ Cardinality(SkippedBefore(c)) \in Nat
           /\ Cardinality(skipDump) \in Nat
           /\ c = 0 => Cardinality(SkippedBefore(c)) = 0
           /\ c = TaskCount => SkippedBefore(c) = skipDump
<1>1. IsFiniteSet(Tasks)
    BY FS_Interval DEF Tasks
<1>2. IsFiniteSet(skipDump)
    BY <1>1, FS_Subset DEF TypeOK
<1>3. SkippedBefore(c) \in SUBSET skipDump
    BY DEF SkippedBefore
<1>4. c = 0 => SkippedBefore(c) = {}
    BY TaskRange DEF SkippedBefore, TypeOK
<1>5. c = TaskCount => SkippedBefore(c) = skipDump
    BY TaskRange DEF SkippedBefore, TypeOK
<1> QED BY <1>2, <1>3, <1>4, <1>5, FS_Subset, FS_EmptySet, FS_CardinalityType

LEMMA ResolveStep ==
    ASSUME IInv, ResolveDuplicates
    PROVE  IInv'
<1> USE DEF IInv
<1>1. /\ mainPc = "pool" /\ mainPc' = "dump" /\ next = TaskCount
      /\ \A w \in Workers : pc[w] = "idle"
      /\ skipDump' = UNION {Skipped(nevraTable[n]) : n \in Nevras}
      /\ header' = TaskCount - Cardinality(skipDump')
      /\ UNCHANGED <<poolVars, hadErrors, current, id, written, exitVal>>
    BY DEF ResolveDuplicates, HeaderCount
<1>2. TypeOK'
    BY <1>1, SkippedTyped DEF TypeOK, poolVars
<1>3. Taken' /\ OldTaken' /\ OldUsedOnce' /\ Filed'
    BY <1>1 DEF Taken, OldTaken, OldUsedOnce, Filed, poolVars
<1>4. current' = 0 /\ written' = <<>>
    BY <1>1 DEF Resolved
<1>5. Resolved'
    BY <1>1 DEF Resolved, poolVars
<1>6. DumpedSoFar'
    BY <1>4, TaskRange DEF DumpedSoFar
<1>7. Counted'
  <2>1. SkippedBefore(current)' = {}
      BY <1>2, <1>4, TaskRange DEF SkippedBefore, TypeOK
  <2>2. Cardinality(SkippedBefore(current)') = 0
      BY <2>1, FS_EmptySet
  <2> QED BY <1>1, <1>4, <2>2 DEF Counted
<1> QED BY <1>2, <1>3, <1>5, <1>6, <1>7

\* The steps of the dump leave the pool and what it collected alone.
LEMMA PoolUntouched ==
    ASSUME IInv, mainPc = "dump", mainPc' # "pool", UNCHANGED <<poolVars, skipDump>>
    PROVE  /\ Taken' /\ OldTaken' /\ OldUsedOnce' /\ Filed' /\ Resolved'
           /\ \A t \in Tasks : Selected(t)' = Selected(t)
BY DEF IInv, Taken, OldTaken, OldUsedOnce, Filed, Resolved, Selected, poolVars

\* What the counters are, before and after the dump moves on.
LEMMA Onwards ==
    ASSUME TypeOK, current \in Tasks
    PROVE  /\ current \in Nat /\ current + 1 \in 0 .. TaskCount
           /\ \A t \in Tasks : t \in Nat
           /\ \A t \in Tasks : t < current + 1 <=> t < current \/ t = current
           /\ SkippedBefore(current + 1)
                = IF current \in skipDump
                    THEN SkippedBefore(current) \union {current}
                    ELSE SkippedBefore(current)
<1>1. current \in Nat /\ current + 1 \in 0 .. TaskCount
      /\ \A t \in Tasks : t \in Nat
    BY DEF Tasks
<1>2. \A t \in Tasks : t < current + 1 <=> t < current \/ t = current
    BY <1>1
<1>3. \A t \in skipDump : t \in Tasks
    BY DEF TypeOK
<1> QED BY <1>1, <1>2, <1>3 DEF SkippedBefore

\* The dump passes over a task, or fails to dump its package.
LEMMA PassStep ==
    ASSUME IInv, PassOver \/ XmlError
    PROVE  IInv'
<1> USE DEF IInv
<1>1. /\ mainPc = "dump" /\ mainPc' = "dump" /\ current \in Tasks
      /\ current' = current + 1
      /\ Selected(current) => current \in XmlFails /\ hadErrors' = TRUE
      /\ ~Selected(current) => hadErrors' = hadErrors
      /\ UNCHANGED <<poolVars, skipDump, header, written>>
    BY DEF PassOver, XmlError, TypeOK, Tasks
<1>a. /\ current \in Nat /\ current + 1 \in 0 .. TaskCount
      /\ \A t \in Tasks : t < current + 1 <=> t < current \/ t = current
    BY <1>1, Onwards
<1>b. hadErrors' \in BOOLEAN
    BY DEF PassOver, XmlError, TypeOK
<1>2. TypeOK'
    BY <1>1, <1>a, <1>b DEF TypeOK, poolVars
<1>3. /\ Taken' /\ OldTaken' /\ OldUsedOnce' /\ Filed' /\ Resolved'
      /\ \A t \in Tasks : Selected(t)' = Selected(t)
    BY <1>1, PoolUntouched
<1>4. DumpedSoFar'
  <2>1. \A i \in DOMAIN written : written[i] \in Tasks
      BY DEF TypeOK
  <2>2. \A i \in DOMAIN written : written[i] < current + 1
      BY <1>a, <2>1 DEF DumpedSoFar
  <2> QED BY <1>1, <1>3, <1>a, <2>1, <2>2 DEF DumpedSoFar
<1>5. Counted'
  <2>1. ASSUME ~hadErrors', \A t \in Tasks : source[t] # "NULL"
        PROVE  Len(written) = current + 1
                            - Cardinality(SkippedBefore(current + 1))
    <3>1. ~Selected(current) /\ ~hadErrors /\ current \in skipDump
        BY <1>1, <2>1 DEF Selected
    <3>2. SkippedBefore(current + 1) = SkippedBefore(current) \union {current}
        BY <1>1, <3>1, Onwards
    <3>3. current \notin SkippedBefore(current)
        BY <1>a DEF SkippedBefore
    <3>4. /\ IsFiniteSet(SkippedBefore(current))
          /\ Cardinality(SkippedBefore(current)) \in Nat
        BY SkippedCount DEF TypeOK
    <3>5. Cardinality(SkippedBefore(current) \union {current})
            = Cardinality(SkippedBefore(current)) + 1
        BY <3>3, <3>4, FS_AddElement
    <3>6. Len(written) = current - Cardinality(SkippedBefore(current))
        BY <1>1, <2>1, <3>1 DEF Counted
    <3>7. Len(written) = current + 1 - (Cardinality(SkippedBefore(current)) + 1)
        BY <1>a, <3>4, <3>6
    <3> QED BY <3>2, <3>5, <3>7
  <2>2. SkippedBefore(current)' = SkippedBefore(current + 1)
      BY <1>1 DEF SkippedBefore
  <2>3. source' = source
      BY <1>1 DEF poolVars
  <2>4. header' = TaskCount - Cardinality(skipDump') /\ mainPc' # "done"
      BY <1>1 DEF Counted
  <2>5. ~hadErrors' /\ (\A t \in Tasks : source'[t] # "NULL")
           => Len(written') = current' - Cardinality(SkippedBefore(current)')
    <3>1. /\ current' = current + 1 /\ written' = written
          /\ current \in Nat /\ current + 1 \in 0 .. TaskCount
        BY <1>1, <1>a
    <3>2. Cardinality(SkippedBefore(current + 1)) \in Nat
        BY <3>1, SkippedCount
    <3> QED BY <2>1, <2>2, <2>3, <3>1, <3>2
  <2> HIDE DEF IInv
  <2> QED BY <2>4, <2>5 DEF Counted
<1> QED BY <1>2, <1>3, <1>4, <1>5

LEMMA DumpStep ==
    ASSUME IInv, Dump
    PROVE  IInv'
<1> USE DEF IInv
<1>1. /\ mainPc = "dump" /\ mainPc' = "dump" /\ current \in Tasks
      /\ current' = current + 1 /\ Selected(current) /\ current \notin XmlFails
      /\ written' = Append(written, current)
      /\ UNCHANGED <<poolVars, hadErrors, skipDump, header>>
    BY DEF Dump, TypeOK, Tasks
<1>d. /\ current \in Nat /\ current + 1 \in 0 .. TaskCount
      /\ \A t \in Tasks : t < current + 1 <=> t < current \/ t = current
    BY <1>1, Onwards
<1>2. TypeOK'
  <2>1. Append(written, current) \in Seq(Tasks)
      BY <1>1 DEF TypeOK
  <2> QED BY <1>1, <1>d, <2>1 DEF TypeOK, poolVars
<1>3. /\ Taken' /\ OldTaken' /\ OldUsedOnce' /\ Filed' /\ Resolved'
      /\ \A t \in Tasks : Selected(t)' = Selected(t)
    BY <1>1, PoolUntouched
<1>a. written \in Seq(Tasks) /\ \A i \in DOMAIN written : written[i] \in Tasks
    BY DEF TypeOK
<1>b. /\ DOMAIN written' = DOMAIN written \union {Len(written) + 1}
      /\ written'[Len(written) + 1] = current
      /\ \A i \in DOMAIN written : written'[i] = written[i]
    BY <1>1, <1>a, AppendDomain
<1>c. Len(written) \in Nat /\ DOMAIN written = 1 .. Len(written)
    BY <1>a
<1>4. DumpedSoFar'
  <2>1. \A i \in DOMAIN written' :
           /\ written'[i] < current'
           /\ Selected(written[i])' /\ written'[i] \notin XmlFails
    <3> SUFFICES ASSUME NEW i \in DOMAIN written'
                 PROVE  /\ written'[i] < current + 1
                        /\ Selected(written'[i]) /\ written'[i] \notin XmlFails
      <4>1. \A i \in DOMAIN written' : written'[i] \in Tasks
          BY <1>2 DEF TypeOK
      <4> QED BY <1>1, <1>3, <4>1
    <3>1. CASE i \in DOMAIN written
        BY <1>a, <1>b, <1>d, <3>1 DEF DumpedSoFar
    <3>2. CASE i = Len(written) + 1
        BY <1>1, <1>b, <1>d, <3>2
    <3> QED BY <1>b, <3>1, <3>2
  <2>2. ASSUME NEW i \in DOMAIN written', NEW j \in DOMAIN written', i < j
        PROVE  written'[i] < written'[j]
    <3>1. i \in DOMAIN written
        BY <1>b, <1>c, <2>2
    <3>2. CASE j \in DOMAIN written
        BY <1>b, <2>2, <3>1, <3>2 DEF DumpedSoFar
    <3>3. CASE j = Len(written) + 1
        BY <1>b, <3>1, <3>3 DEF DumpedSoFar
    <3> QED BY <1>b, <3>2, <3>3
  <2>3. ASSUME NEW t \in Tasks, t < current', Selected(t)', t \notin XmlFails
        PROVE  \E i \in DOMAIN written' : written'[i] = t
    <3>1. CASE t < current
        BY <1>3, <1>b, <2>3, <3>1 DEF DumpedSoFar
    <3>2. CASE t = current
        BY <1>b, <3>2
    <3> QED BY <1>1, <1>d, <2>3, <3>1, <3>2
  <2> HIDE DEF IInv
  <2> QED BY <2>1, <2>2, <2>3 DEF DumpedSoFar
<1>5. Counted'
  <2>1. SkippedBefore(current)' = SkippedBefore(current)
    <3>1. SkippedBefore(current)' = SkippedBefore(current + 1)
        BY <1>1 DEF SkippedBefore
    <3> QED BY <1>1, <3>1, Onwards DEF Selected
  <2>2. Len(written') = Len(written) + 1
      BY <1>1, <1>a
  <2>3. Cardinality(SkippedBefore(current)) \in Nat /\ current \in Nat
      BY <1>d, SkippedCount DEF TypeOK
  <2>4. source' = source
      BY <1>1 DEF poolVars
  <2> QED BY <1>1, <1>c, <2>1, <2>2, <2>3, <2>4 DEF Counted
<1> QED BY <1>2, <1>3, <1>4, <1>5

LEMMA FinishStep ==
    ASSUME IInv, Finish
    PROVE  IInv'
<1> USE DEF IInv
<1>1. /\ mainPc = "dump" /\ mainPc' = "done" /\ current = TaskCount
      /\ header' = Len(written)
      /\ UNCHANGED <<poolVars, hadErrors, skipDump, current, id, written>>
    BY DEF Finish, FinalCount
<1>2. TypeOK'
    BY <1>1 DEF TypeOK, poolVars
<1>3. /\ Taken' /\ OldTaken' /\ OldUsedOnce' /\ Filed' /\ Resolved'
      /\ \A t \in Tasks : Selected(t)' = Selected(t)
    BY <1>1, PoolUntouched
<1>4. DumpedSoFar' /\ Counted'
    BY <1>1, <1>3 DEF DumpedSoFar, Counted, TypeOK
<1> QED BY <1>2, <1>3, <1>4

-----------------------------------------------------------------------------
\* The invariant holds whatever the workers do and whatever fails.
THEOREM DelayedDumpInvariance == Spec => []IInv
<1>1. Init => IInv
  <2> SUFFICES ASSUME Init PROVE IInv
      OBVIOUS
  <2>1. TypeOK
    <3>1. <<>> \in Seq(Tasks) /\ 0 \in 0 .. TaskCount
        OBVIOUS
    <3>2. [n \in Nevras |-> <<>>] \in [Nevras -> Seq(Tasks)]
        BY <3>1
    <3> QED BY <3>1, <3>2 DEF Init, TypeOK
  <2>2. Taken /\ OldTaken /\ OldUsedOnce /\ Filed
      BY DEF Init, Taken, OldTaken, OldUsedOnce, Filed
  <2>3. Resolved /\ DumpedSoFar /\ Counted
      BY TaskRange DEF Init, Resolved, DumpedSoFar, Counted
  <2> QED BY <2>1, <2>2, <2>3 DEF IInv
<1>2. IInv /\ [Next]_vars => IInv'
  <2> SUFFICES ASSUME IInv, [Next]_vars PROVE IInv'
      OBVIOUS
  <2>1. ASSUME NEW w \in Workers, Worker(w) PROVE IInv'
      BY <2>1, TakeStep, GiveUpStep, GetStep, CollectStep DEF Worker
  <2>2. CASE Main
      BY <2>2, ResolveStep, PassStep, DumpStep, FinishStep DEF Main
  <2>3. CASE UNCHANGED vars
    <3>1. TypeOK' /\ Taken' /\ OldTaken' /\ OldUsedOnce' /\ Filed'
        BY <2>3 DEF IInv, vars, poolVars, dumpVars, TypeOK, Taken, OldTaken,
                    OldUsedOnce, Filed
    <3>2. Resolved' /\ DumpedSoFar' /\ Counted'
        BY <2>3 DEF IInv, vars, poolVars, dumpVars, Resolved, DumpedSoFar,
                    Counted, SkippedBefore, Selected
    <3> QED BY <3>1, <3>2 DEF IInv
  <2> QED BY <2>1, <2>2, <2>3 DEF Next, Terminated
<1> QED BY <1>1, <1>2, PTL DEF Spec

\* No record of the old metadata becomes the package of two tasks: mutex_old_md
\* covers the look-up and the removal together.
THEOREM DelayedOldUsedOnce == Spec => []OldUsedOnce
<1>1. IInv => OldUsedOnce
    BY DEF IInv
<1> QED BY <1>1, DelayedDumpInvariance, PTL

\* Of any number of packages of the same NEVRA the last build is kept, and
\* only that, in whatever order the workers collect them.
THEOREM DelayedKeepsLast == Spec => []KeepsLast
<1>1. IInv => KeepsLast
  <2> SUFFICES ASSUME IInv, mainPc = "done", NEW n \in Nevras
               PROVE  LET group == {t \in Tasks : Nevra[t] = n /\ source[t] # "NULL"}
                          kept  == group \ skipDump
                      IN  /\ group # {} => Cardinality(kept) = 1
                          /\ \A t \in kept, u \in group :
                                \/ BuildTime[t] > BuildTime[u]
                                \/ /\ BuildTime[t] = BuildTime[u]
                                   /\ Href[t] >= Href[u]
      BY DEF KeepsLast
  <2> DEFINE q == nevraTable[n]
             group == {t \in Tasks : Nevra[t] = n /\ source[t] # "NULL"}
  <2>1. group = {q[i] : i \in DOMAIN q} /\ group \ skipDump = Kept(q)
      BY Groups
  <2>2. q \in Seq(Tasks)
      BY DEF IInv, TypeOK
  <2>3. \A i, j \in DOMAIN q : q[i] = q[j] => i = j
      BY DEF IInv, Filed
  <2> HIDE DEF q, group
  <2>4. group # {} => Cardinality(group \ skipDump) = 1
    <3>1. group # {} => q # <<>>
        BY <2>1
    <3>2. group # {} => \E x \in Tasks : Kept(q) = {x}
        BY <2>2, <2>3, <3>1, KeptOne
    <3> QED BY <2>1, <3>2, FS_Singleton
  <2>5. \A t \in group \ skipDump, u \in group :
            \/ BuildTime[t] > BuildTime[u]
            \/ BuildTime[t] = BuildTime[u] /\ Href[t] >= Href[u]
    <3> SUFFICES ASSUME NEW t \in Kept(q), NEW u \in group
                 PROVE  \/ BuildTime[t] > BuildTime[u]
                        \/ BuildTime[t] = BuildTime[u] /\ Href[t] >= Href[u]
        BY <2>1
    <3>1. PICK i \in DOMAIN q : u = q[i]
        BY <2>1
    <3> QED BY <2>2, <3>1, KeptLatest
  <2> QED BY <2>4, <2>5 DEF group
<1> QED BY <1>1, DelayedDumpInvariance, PTL

\* The files hold the kept packages in the order of the tasks, and the header
\* is right before the first of them when nothing failed.
THEOREM DelayedDumpedRight == Spec => []DumpedRight
<1>1. IInv => DumpedRight
  <2> SUFFICES ASSUME IInv PROVE DumpedInOrder /\ HeadersMatch
      BY DEF DumpedRight
  <2>1. DumpedInOrder
    <3>1. \A i \in DOMAIN written : written[i] \in Tasks
        BY DEF IInv, TypeOK
    <3>2. mainPc = "done" => \A t \in Tasks : t < current
        BY TaskRange DEF IInv, Counted
    <3> QED BY <3>1, <3>2 DEF IInv, DumpedSoFar, Selected, DumpedInOrder
  <2>2. HeadersMatch
    <3>1. SkippedBefore(TaskCount) = skipDump
        BY SkippedCount DEF IInv
    <3> QED BY <3>1 DEF IInv, Counted, HeadersMatch
  <2> QED BY <2>1, <2>2
<1> QED BY <1>1, DelayedDumpInvariance, PTL
=============================================================================
