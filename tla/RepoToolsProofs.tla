---------------------------- MODULE RepoToolsProofs ----------------------------
(***************************************************************************)
(* Whatever modifyrepo_c and sqliterepo_c do to a repository, in whatever  *)
(* order and wherever they are killed: a record that they leave alone      *)
(* keeps its file.                                                         *)
(*                                                                         *)
(* This is not inductive.  That a removed file is nobody's rests on the    *)
(* records in memory being those of repomd.xml by then (GoesThrough,       *)
(* Removes) and on whose name is whose (NamesRight); that nothing else is  *)
(* written over rests on each tool keeping to the names of its own copies  *)
(* and records (GoesThrough, NewOnes, Makes).                              *)
(*                                                                         *)
(* And what they remove was replaced: each detaches the records it is      *)
(* asked to replace, and no others (Detaches), and removes their files     *)
(* only when nothing else refers to them (Replaces).                       *)
(*                                                                         *)
(* And what they end with is what they were asked for: every copy is in    *)
(* place and holds what its source held (Copied), every new record has its *)
(* file through the renaming (NewKept), and every database says what its   *)
(* XML says, through the moves and the removals (Moving, Moved).           *)
(***************************************************************************)
EXTENDS RepoTools, FiniteSetTheorems, SequenceTheorems, WellFoundedInduction,
        TLAPS

\* What the theorems assume beside the assumptions on the constants: the files
\* of databases, and no others, are called like databases.  The code does not
\* ask for it.
RightNames(recs) ==
    \A t \in DOMAIN recs : t \in DbTypes <=> recs[t].href.base \in DbTypes

DatabasesByName ==
    /\ \A d \in InitialDirs : RightNames(d.repomd.records)
    /\ \A ks \in TaskLists : \A i \in DOMAIN ks : \A j \in DOMAIN Copies(ks[i]) :
          Copies(ks[i])[j].type \in DbTypes <=> ks[i].base \in DbTypes

-----------------------------------------------------------------------------
(* The invariant.                                                          *)

\* One tool runs at a time, and it is the last one that was started.
Control ==
    /\ Running => tool = "modify"
    /\ \A p \in SqliteProcs : SRunning(p) => tool = p
    /\ tool \in SqliteProcs \union {Nobody, "modify"}
    /\ spc = [p \in SqliteProcs |-> spc[p]]
    /\ repomd = [whole |-> repomd.whole, revision |-> repomd.revision,
                 records |-> repomd.records]

\* How cr_modifyrepo goes through its copies and their records.
CopySet == {AllCopies[i] : i \in DOMAIN AllCopies}

GoesThrough ==
    /\ tasks \in TaskLists \union {<<>>}
    /\ mpc \in {"write", "copy"} => todo \in Seq(CopySet)
    /\ mpc \in {"rename", "move"} => todo \in Seq(DOMAIN new)
    /\ mpc \in {"copy", "move"} => todo # <<>>
    /\ mpc \in {"parse", "write", "copy"} => new = <<>>
    /\ mpc = "delete" => mem = repomd.records

\* The record of a copy has the copy's name or its own unique one.
NewOnes ==
    /\ DOMAIN new \subseteq DOMAIN AllCopies
    /\ new = [i \in DOMAIN new |->
                 [type |-> AllCopies[i].type, unique |-> new[i].unique,
                  rec |-> [href |-> new[i].rec.href, sum |-> new[i].rec.sum]]]
    /\ \A i \in DOMAIN new :
          \/ new[i].rec.href = CopyName(AllCopies[i])
          \/ new[i].rec.href = [CopyName(AllCopies[i]) EXCEPT !.sum = new[i].rec.sum]

\* What sqliterepo_c has made and what it will remove.
Makes ==
    /\ work = [p \in SqliteProcs |->
                  [files |-> work[p].files, records |-> work[p].records,
                   old |-> work[p].old, damaged |-> work[p].damaged]]
    /\ \A p \in SqliteProcs :
          /\ DOMAIN work[p].records \subseteq DbTypes
          /\ \A t \in DOMAIN work[p].records : work[p].records[t].href.base \in DbTypes
          /\ \A n \in DOMAIN work[p].files :
                \E t \in DOMAIN work[p].records : work[p].records[t].href = n
          /\ spc[p] \in {"off", "lock", "read", "generate"} => work[p] = NoWork
          /\ spc[p] = "move" => DOMAIN work[p].records = DbTypes

Removes ==
    \A p \in SqliteProcs :
       spc[p] = "remove" =>
          /\ DOMAIN work[p].records = DbTypes
          /\ \A t \in DbTypes :
                t \in DOMAIN repomd.records
                  /\ repomd.records[t] = work[p].records[t]
          /\ \A n \in work[p].old :
                /\ n.base \in DbTypes
                /\ \A t \in DbTypes : work[p].records[t].href # n

\* Records of databases name files of databases, and others do not.
NamesRight ==
    /\ RightNames(repomd.records)
    /\ RightNames(mem)
    /\ \A p \in SqliteProcs : RightNames(seen[p])

\* A file that was there is there and the same, or the tool has written to
\* its name; and when the tool has begun to remove, no record refers to it.
Same(n)    == n \in DOMAIN files /\ files[n] = start.files[n]
Spared(n)  == n \in Touched \/ Same(n)
InUse(n)   == \E t \in DOMAIN repomd.records : repomd.records[t].href = n
StillWhole ==
    \/ mpc \in {"parse", "write", "copy", "rename", "move", "repomd"}
    \/ \E p \in SqliteProcs : spc[p] \in {"lock", "read", "generate", "move"}

FilesSpared ==
    \A n \in DOMAIN start.files : Spared(n) \/ (~StillWhole /\ ~InUse(n))

IInv ==
    /\ Control /\ GoesThrough /\ NewOnes /\ Makes /\ Removes /\ NamesRight
    /\ FilesSpared

-----------------------------------------------------------------------------
(* The list of copies.                                                     *)

\* A set of numbers that has 0, and with a number below n the next one.
LEMMA CountingUp ==
    ASSUME NEW n \in Nat, NEW F, 0 \in F,
           \A m \in 0 .. n - 1 : m \in F => m + 1 \in F
    PROVE  \A m \in 0 .. n : m \in F
<1> DEFINE Below(m) == 1 .. m
           Bad == {Below(m) : m \in {k \in 0 .. n : k \notin F}}
<1> SUFFICES ASSUME NEW b \in 0 .. n, b \notin F PROVE FALSE
    OBVIOUS
<1>1. Below(b) \in Bad
    OBVIOUS
<1>2. Bad \subseteq FiniteSubsetsOf(1 .. n)
  <2>1. \A m \in 0 .. n : Below(m) \in SUBSET (1 .. n) /\ IsFiniteSet(Below(m))
      BY FS_Interval
  <2>2. \A m \in 0 .. n : Below(m) \in FiniteSubsetsOf(1 .. n)
      BY <2>1 DEF FiniteSubsetsOf
  <2> HIDE DEF Below
  <2> QED BY <2>2
<1>3. PICK B \in Bad : \A C \in Bad : <<C, B>> \notin StrictSubsetOrdering(1 .. n)
  <2>1. IsWellFoundedOn(StrictSubsetOrdering(1 .. n), FiniteSubsetsOf(1 .. n))
      BY FS_Interval, FS_StrictSubsetOrderingWellFounded
  <2> HIDE DEF Bad
  <2> QED BY <1>1, <1>2, <2>1, WFMin
<1>4. PICK m \in 0 .. n : m \notin F /\ B = Below(m)
    BY <1>3
<1>5. m # 0 /\ m - 1 \in 0 .. n - 1 /\ m - 1 \in 0 .. n /\ (m - 1) + 1 = m
    BY <1>4
<1>6. m - 1 \notin F
    BY <1>4, <1>5
<1>7. Below(m - 1) \in Bad
    BY <1>5, <1>6
<1>8. Below(m - 1) \subseteq Below(m) /\ m \in Below(m) /\ m \notin Below(m - 1)
      /\ Below(m) \subseteq 1 .. n
    BY <1>4, <1>5
<1>9. <<Below(m - 1), Below(m)>> \in StrictSubsetOrdering(1 .. n)
  <2> HIDE DEF Below
  <2> QED BY <1>8 DEF StrictSubsetOrdering
<1> QED BY <1>3, <1>4, <1>7, <1>9

IsFlat(f, s) ==
    f = [i \in 1 .. Len(s) |-> IF i = 1 THEN s[i] ELSE f[i - 1] \o s[i]]

LEMMA FlattenDef ==
    ASSUME NEW s, Len(s) # 0
    PROVE  FlattenSeq(s) = (CHOOSE f : IsFlat(f, s))[Len(s)]
BY DEF FlattenSeq, IsFlat

LEMMA FlatExists ==
    ASSUME NEW S, NEW s \in Seq(Seq(S))
    PROVE  IsFlat(CHOOSE f : IsFlat(f, s), s)
<1> DEFINE n == Len(s)
           Step(f, i) == IF i = 1 THEN s[i] ELSE f[i - 1] \o s[i]
           Far(f, m) == /\ f = [i \in 1 .. n |-> f[i]]
                        /\ \A i \in 1 .. m : f[i] = Step(f, i)
           F == {m \in 0 .. n : \E f : Far(f, m)}
<1>0. n \in Nat
    OBVIOUS
<1>1. 0 \in F
  <2> DEFINE f == [i \in 1 .. n |-> 0]
  <2>1. Far(f, 0)
      BY <1>0
  <2> QED BY <1>0, <2>1
<1>2. ASSUME NEW m \in 0 .. n - 1, m \in F
      PROVE  m + 1 \in F
  <2>1. PICK f : Far(f, m)
      BY <1>2
  <2> DEFINE g == [i \in 1 .. n |-> IF i = m + 1 THEN Step(f, i) ELSE f[i]]
  <2>2. ASSUME NEW i \in 1 .. m + 1
        PROVE  g[i] = Step(g, i)
    <3>1. i \in 1 .. n /\ (i # 1 => i - 1 \in 1 .. n /\ i - 1 # m + 1)
        BY <1>0, <1>2
    <3>2. i # 1 => g[i - 1] = f[i - 1]
        BY <3>1
    <3>3. Step(g, i) = Step(f, i)
        BY <3>2
    <3>4. CASE i = m + 1
        BY <3>1, <3>3, <3>4
    <3>5. CASE i # m + 1
      <4>1. i \in 1 .. m
          BY <1>0, <1>2, <3>5
      <4>2. f[i] = Step(f, i)
          BY <2>1, <4>1
      <4> QED BY <3>1, <3>3, <3>5, <4>2
    <3> QED BY <3>4, <3>5
  <2>3. g = [i \in 1 .. n |-> g[i]]
      OBVIOUS
  <2>4. Far(g, m + 1)
    <3> HIDE DEF g, Step
    <3> QED BY <2>2, <2>3
  <2>5. m + 1 \in 0 .. n
      BY <1>0, <1>2
  <2> HIDE DEF g, Far
  <2> QED BY <2>4, <2>5
<1>3. n \in F
  <2> HIDE DEF F, n
  <2>1. n \in 0 .. n
      BY <1>0
  <2> QED BY <1>0, <1>1, <1>2, <2>1, CountingUp
<1>4. PICK f : Far(f, n)
    BY <1>3
<1>5. IsFlat(f, s)
    BY <1>4 DEF IsFlat
<1> QED BY <1>5

LEMMA FlattenType ==
    ASSUME NEW S, NEW s \in Seq(Seq(S))
    PROVE  FlattenSeq(s) \in Seq(S)
<1>1. CASE Len(s) = 0
  <2>1. s = <<>>
      BY <1>1
  <2>2. FlattenSeq(s) = s
      BY <1>1 DEF FlattenSeq
  <2>3. <<>> \in Seq(S)
      OBVIOUS
  <2>4. FlattenSeq(s) = <<>>
      BY <2>1, <2>2
  <2> HIDE DEF FlattenSeq
  <2> QED BY <2>3, <2>4
<1>2. CASE Len(s) # 0
  <2> DEFINE f == CHOOSE g : IsFlat(g, s)
             n == Len(s)
             F == {m \in 0 .. n : m = 0 \/ f[m] \in Seq(S)}
  <2>1. IsFlat(f, s)
      BY FlatExists
  <2> HIDE DEF f
  <2>2. \A i \in 1 .. n : f[i] = IF i = 1 THEN s[i] ELSE f[i - 1] \o s[i]
      BY <2>1 DEF IsFlat
  <2>3. n \in Nat /\ n # 0 /\ \A i \in 1 .. n : s[i] \in Seq(S)
      BY <1>2
  <2> HIDE DEF n
  <2>4. ASSUME NEW m \in 0 .. n - 1, m \in F
        PROVE  m + 1 \in F
    <3>1. m + 1 \in 1 .. n
        BY <2>3
    <3>2. CASE m = 0
        BY <2>2, <2>3, <3>1, <3>2
    <3>3. CASE m # 0
      <4>1. f[m] \in Seq(S) /\ s[m + 1] \in Seq(S)
          BY <2>3, <2>4, <3>1, <3>3
      <4>2. f[m + 1] = f[m] \o s[m + 1]
        <5>1. m + 1 # 1 /\ (m + 1) - 1 = m
            BY <2>3, <3>3
        <5>2. f[m + 1] = f[(m + 1) - 1] \o s[m + 1]
            BY <2>2, <3>1, <5>1
        <5> QED BY <5>1, <5>2
      <4>3. f[m + 1] \in Seq(S)
          BY <4>1, <4>2
      <4> QED BY <2>3, <3>1, <4>3
    <3> QED BY <3>2, <3>3
  <2>5. 0 \in F
      BY <2>3
  <2>6. n \in F
    <3> HIDE DEF F
    <3>1. n \in 0 .. n
        BY <2>3
    <3> QED BY <2>3, <2>4, <2>5, <3>1, CountingUp
  <2>7. f[n] \in Seq(S)
      BY <2>3, <2>6
  <2> QED BY <1>2, <2>7, FlattenDef DEF f, n
<1> QED BY <1>1, <1>2

\* The greatest of some numbers is one of them.
LEMMA MaxIn ==
    ASSUME NEW n \in Nat, NEW S \in SUBSET (1 .. n), S # {}
    PROVE  Max(S) \in S
<1> DEFINE F == {m \in 0 .. n : (\E x \in S : x <= m) =>
                   \E x \in S : x <= m /\ \A y \in S : y <= m => x >= y}
<1>1. 0 \in F
    OBVIOUS
<1>2. ASSUME NEW m \in 0 .. n - 1, m \in F
      PROVE  m + 1 \in F
  <2>1. m + 1 \in 0 .. n
      OBVIOUS
  <2>2. CASE m + 1 \in S
      BY <2>1, <2>2
  <2>3. CASE m + 1 \notin S
    <3>1. \A x \in S : x <= m + 1 <=> x <= m
        BY <2>3
    <3> QED BY <1>2, <2>1, <3>1
  <2> QED BY <2>2, <2>3
<1>3. n \in F
  <2> HIDE DEF F
  <2>1. n \in 0 .. n
      OBVIOUS
  <2> QED BY <1>1, <1>2, <2>1, CountingUp
<1>4. \E x \in S : \A y \in S : x >= y
  <2>1. \A y \in S : y <= n
      OBVIOUS
  <2>2. \E x \in S : x <= n
      BY <2>1
  <2> QED BY <1>3, <2>1, <2>2
<1> QED BY <1>4 DEF Max

LEMMA CopiesType ==
    ASSUME NEW k \in Tasks
    PROVE  /\ Copies(k) \in Seq({Copies(k)[j] : j \in DOMAIN Copies(k)})
           /\ \A j \in DOMAIN Copies(k) :
                 Copies(k)[j] = [task |-> k, type |-> Copies(k)[j].type,
                                 sfx |-> Copies(k)[j].sfx]
<1> DEFINE own == [task |-> k, type |-> k.type, sfx |-> IF k.compress THEN ".gz" ELSE ""]
           zck == [task |-> k, type |-> Zck(k.type), sfx |-> ".zck"]
<1>0. /\ own = [task |-> k, type |-> own.type, sfx |-> own.sfx]
      /\ zck = [task |-> k, type |-> zck.type, sfx |-> zck.sfx]
    OBVIOUS
<1>1. Copies(k) = (IF k.remove THEN <<>> ELSE <<own>>)
                  \o (IF ~k.remove /\ k.zck THEN <<zck>> ELSE <<>>)
    BY DEF Copies
<1> HIDE DEF own, zck
<1>2. Copies(k) \in Seq({own, zck})
  <2>1. {<<>>, <<own>>, <<zck>>} \subseteq Seq({own, zck})
      OBVIOUS
  <2>2. \A s, t \in Seq({own, zck}) : s \o t \in Seq({own, zck})
      OBVIOUS
  <2> QED BY <1>1, <2>1, <2>2
<1>3. \A j \in DOMAIN Copies(k) : Copies(k)[j] \in {own, zck}
  <2> HIDE DEF Copies
  <2> QED BY <1>2
<1>4. Copies(k) \in Seq({Copies(k)[j] : j \in DOMAIN Copies(k)})
  <2> HIDE DEF Copies
  <2> QED BY <1>2
<1> QED BY <1>0, <1>3, <1>4

LEMMA CopyFacts ==
    ASSUME DatabasesByName, tasks \in TaskLists \union {<<>>}
    PROVE  /\ AllCopies \in Seq(CopySet)
           /\ \A c \in CopySet :
                 /\ c.task \in Tasks
                 /\ c = [task |-> c.task, type |-> c.type, sfx |-> c.sfx]
                 /\ c.type \in DbTypes <=> c.task.base \in DbTypes
<1> DEFINE C == UNION {{Copies(tasks[i])[j] : j \in DOMAIN Copies(tasks[i])} :
                          i \in DOMAIN tasks}
           L == [i \in DOMAIN tasks |-> Copies(tasks[i])]
<1>1. tasks \in Seq(Tasks)
  <2>1. <<>> \in Seq(Tasks)
      OBVIOUS
  <2>2. TaskLists \subseteq Seq(Tasks)
      BY RepoToolsAssumption
  <2> QED BY <2>1, <2>2
<1>2. \A i \in DOMAIN tasks : tasks[i] \in Tasks
    BY <1>1
<1>3. \A i \in DOMAIN tasks : Copies(tasks[i]) \in Seq(C)
  <2> TAKE i \in DOMAIN tasks
  <2>1. {Copies(tasks[i])[j] : j \in DOMAIN Copies(tasks[i])} \subseteq C
      OBVIOUS
  <2>2. Copies(tasks[i]) \in Seq({Copies(tasks[i])[j] : j \in DOMAIN Copies(tasks[i])})
      BY <1>2, CopiesType
  <2> HIDE DEF C
  <2> QED BY <2>1, <2>2
<1>4. L \in Seq(Seq(C))
  <2> HIDE DEF C
  <2> QED BY <1>1, <1>3
<1>5. AllCopies \in Seq(C)
  <2> HIDE DEF C
  <2>1. FlattenSeq(L) \in Seq(C)
      BY <1>4, FlattenType
  <2> QED BY <2>1 DEF AllCopies
<1>6. AllCopies \in Seq(CopySet) /\ CopySet \subseteq C
  <2> HIDE DEF C
  <2> QED BY <1>5 DEF CopySet
<1>7. ASSUME NEW c \in C
      PROVE  /\ c.task \in Tasks
             /\ c = [task |-> c.task, type |-> c.type, sfx |-> c.sfx]
             /\ c.type \in DbTypes <=> c.task.base \in DbTypes
  <2>1. PICK i \in DOMAIN tasks : \E j \in DOMAIN Copies(tasks[i]) :
                                     c = Copies(tasks[i])[j]
      OBVIOUS
  <2>2. PICK j \in DOMAIN Copies(tasks[i]) : c = Copies(tasks[i])[j]
      BY <2>1
  <2>3. c = [task |-> tasks[i], type |-> c.type, sfx |-> c.sfx]
      BY <1>2, <2>2, CopiesType
  <2>4. tasks \in TaskLists
      BY <2>1
  <2>5. c.type \in DbTypes <=> tasks[i].base \in DbTypes
      BY <2>2, <2>4 DEF DatabasesByName
  <2> QED BY <1>2, <2>3, <2>5
<1> QED BY <1>6, <1>7

-----------------------------------------------------------------------------
(* What the steps of one tool leave alone.                                 *)

LEMMA InitIInv == ASSUME DatabasesByName PROVE Init => IInv
<1> SUFFICES ASSUME Init PROVE IInv
    OBVIOUS
<1>1. PICK d \in InitialDirs : files = d.files /\ repomd = d.repomd
    BY DEF Init
<1>2. repomd = [whole |-> repomd.whole, revision |-> repomd.revision,
                records |-> repomd.records]
    BY <1>1, RepoToolsAssumption
<1>3. Control
    BY <1>2 DEF Init, ModifyInit, SqliteInit, Control, Running, SRunning
<1>4. GoesThrough
    BY DEF Init, ModifyInit, GoesThrough
<1>5. NewOnes
    BY DEF Init, ModifyInit, NewOnes
<1>6. Makes /\ Removes
    BY DEF Init, SqliteInit, Makes, Removes, NoWork
<1>7. NamesRight
    BY <1>1 DEF Init, ModifyInit, SqliteInit, NamesRight, RightNames, DatabasesByName
<1>8. FilesSpared
  <2>1. \A n \in DOMAIN start.files : Same(n)
      BY DEF Init, Same
  <2> QED BY <2>1 DEF FilesSpared, Spared
<1> QED BY <1>3, <1>4, <1>5, <1>6, <1>7, <1>8 DEF IInv

LEMMA ModifyFrame ==
    ASSUME IInv, Running, UNCHANGED <<sqliteVars, start, tool>>
    PROVE  /\ tool = "modify"
           /\ \A p \in SqliteProcs : ~SRunning(p)
           /\ Makes' /\ Removes'
           /\ \A p \in SqliteProcs : RightNames(seen'[p])
<1>1. tool = "modify"
    BY DEF IInv, Control
<1>2. \A p \in SqliteProcs : ~SRunning(p)
    BY <1>1, RepoToolsAssumption DEF IInv, Control
<1>3. \A p \in SqliteProcs : spc[p] # "remove"
    BY <1>2 DEF SRunning
<1>4. Makes'
    BY DEF IInv, Makes, sqliteVars, NoWork
<1>5. Removes'
    BY <1>3 DEF Removes, sqliteVars
<1>6. \A p \in SqliteProcs : RightNames(seen'[p])
    BY DEF IInv, NamesRight, sqliteVars
<1> QED BY <1>1, <1>2, <1>4, <1>5, <1>6

LEMMA ModifyControl ==
    ASSUME IInv, Running, UNCHANGED <<sqliteVars, start, tool>>,
           \/ UNCHANGED repomd
           \/ \E w : repomd' = [repomd EXCEPT !.whole = w]
           \/ \E w, r : repomd' = [repomd EXCEPT !.whole = w, !.records = r]
    PROVE  Control'
<1>1. tool = "modify"
    BY ModifyFrame
<1>2. repomd' = [whole |-> repomd'.whole, revision |-> repomd'.revision,
                 records |-> repomd'.records]
  <2>1. repomd = [whole |-> repomd.whole, revision |-> repomd.revision,
                  records |-> repomd.records]
      BY DEF IInv, Control
  <2>2. CASE UNCHANGED repomd
      BY <2>1, <2>2
  <2>3. ASSUME NEW w, repomd' = [repomd EXCEPT !.whole = w]
        PROVE  repomd' = [whole |-> repomd'.whole, revision |-> repomd'.revision,
                          records |-> repomd'.records]
      BY <2>1, <2>3
  <2>4. ASSUME NEW w, NEW r, repomd' = [repomd EXCEPT !.whole = w, !.records = r]
        PROVE  repomd' = [whole |-> repomd'.whole, revision |-> repomd'.revision,
                          records |-> repomd'.records]
      BY <2>1, <2>4
  <2> QED BY <2>2, <2>3, <2>4
<1>3. /\ spc' = spc
      /\ \A p \in SqliteProcs : SRunning(p)' => SRunning(p)
    BY DEF sqliteVars, SRunning
<1> QED BY <1>1, <1>2, <1>3 DEF IInv, Control

\* The names of the new records, at the beginning and in the end.
LEMMA TouchedModify ==
    ASSUME tool = "modify"
    PROVE  Touched = {CopyName(c) : c \in CopySet}
                        \union {UniqueName(new[i].rec) : i \in DOMAIN new}
BY DEF Touched, CopySet

\* A step in front of the removals that only writes to touched names.
LEMMA WholeStep ==
    ASSUME IInv, StillWhole, UNCHANGED start, Touched \subseteq Touched',
           \A n \in DOMAIN files \ Touched' : n \in DOMAIN files' /\ files'[n] = files[n]
    PROVE  FilesSpared'
<1> SUFFICES ASSUME NEW n \in DOMAIN start'.files
             PROVE  Spared(n)'
    BY DEF FilesSpared
<1>1. Spared(n)
    BY DEF IInv, FilesSpared
<1>2. CASE n \in Touched
    BY <1>2 DEF Spared
<1>3. CASE Same(n)
    BY <1>3 DEF Spared, Same
<1> QED BY <1>1, <1>2, <1>3 DEF Spared

LEMMA ModifyTouches ==
    ASSUME IInv, Running, UNCHANGED <<sqliteVars, start, tool>>,
           UNCHANGED <<tasks, new>>
    PROVE  Touched' = Touched
<1>1. tool = "modify"
    BY ModifyFrame
<1> QED BY <1>1 DEF Touched, AllCopies

LEMMA ModifyWhole ==
    ASSUME mpc \in {"parse", "write", "copy", "rename", "move", "repomd"}
    PROVE  StillWhole /\ Running
BY DEF StillWhole, Running

-----------------------------------------------------------------------------
(* The steps of cr_modifyrepo.                                             *)

LEMMA ParseStep ==
    ASSUME DatabasesByName, IInv, ParseAndCheck, UNCHANGED <<sqliteVars, start, tool>>
    PROVE  IInv'
<1>0. StillWhole /\ Running
    BY ModifyWhole DEF ParseAndCheck
<1>1. UNCHANGED dirVars /\ UNCHANGED <<tasks, new>> /\ new = <<>>
    BY DEF IInv, GoesThrough, ParseAndCheck, Ends
<1>2. Control' /\ Makes' /\ Removes' /\ \A p \in SqliteProcs : RightNames(seen'[p])
    BY <1>0, <1>1, ModifyControl, ModifyFrame DEF dirVars
<1>3. AllCopies \in Seq(CopySet) /\ AllCopies' = AllCopies /\ CopySet' = CopySet
    BY <1>1, CopyFacts DEF IInv, GoesThrough, AllCopies, CopySet
<1>4. GoesThrough'
  <2>1. tasks' \in TaskLists \union {<<>>}
      BY <1>1 DEF IInv, GoesThrough
  <2>2. CASE mpc' = "write" /\ todo' = AllCopies
      BY <1>1, <1>3, <2>1, <2>2 DEF GoesThrough
  <2>3. CASE mpc' = "failed"
      BY <1>1, <2>1, <2>3 DEF GoesThrough
  <2> QED BY <2>2, <2>3 DEF ParseAndCheck, Ends
<1>5. NewOnes'
    BY <1>1 DEF NewOnes
<1>6. NamesRight'
    BY <1>1, <1>2 DEF IInv, NamesRight, ParseAndCheck, Ends, dirVars
<1>7. FilesSpared'
    BY <1>0, <1>1, ModifyTouches, WholeStep DEF dirVars
<1> QED BY <1>2, <1>4, <1>5, <1>6, <1>7 DEF IInv

\* The copies: each is written under a touched name.
LEMMA CopyStep ==
    ASSUME DatabasesByName, IInv, UseInPlace \/ BeginCopy \/ EndCopy,
           UNCHANGED <<sqliteVars, start, tool>>
    PROVE  IInv'
<1>0. /\ StillWhole /\ Running /\ mpc \in {"write", "copy"}
      /\ todo # <<>> /\ todo \in Seq(CopySet) /\ mpc' \in {"write", "copy"}
    BY ModifyWhole DEF UseInPlace, BeginCopy, EndCopy, IInv, GoesThrough
<1>1. UNCHANGED <<repomd, tasks, new, mem>> /\ new = <<>>
    BY <1>0 DEF UseInPlace, BeginCopy, EndCopy, IInv, GoesThrough, dirVars
<1>2. Control' /\ Makes' /\ Removes' /\ \A p \in SqliteProcs : RightNames(seen'[p])
    BY <1>0, <1>1, ModifyControl, ModifyFrame
<1>3. CopySet' = CopySet
    BY <1>1 DEF AllCopies, CopySet
<1>4. GoesThrough'
  <2>1. tasks' \in TaskLists \union {<<>>}
      BY <1>1 DEF IInv, GoesThrough
  <2>2. todo' \in Seq(CopySet) /\ (mpc' = "copy" => todo' # <<>>)
      BY <1>0 DEF UseInPlace, BeginCopy, EndCopy
  <2> QED BY <1>0, <1>1, <1>3, <2>1, <2>2 DEF GoesThrough
<1>5. NewOnes'
    BY <1>1 DEF NewOnes
<1>6. NamesRight'
    BY <1>1, <1>2 DEF IInv, NamesRight
<1>7. FilesSpared'
  <2>1. Touched' = Touched
      BY <1>0, <1>1, ModifyTouches
  <2>2. Head(todo) \in CopySet /\ CopyName(Head(todo)) \in Touched
      BY <1>0, ModifyFrame, TouchedModify
  <2>3. \A n \in DOMAIN files \ Touched : n \in DOMAIN files' /\ files'[n] = files[n]
      BY <2>2 DEF UseInPlace, BeginCopy, EndCopy, dirVars, Put
  <2> QED BY <1>0, <2>1, <2>3, WholeStep
<1> QED BY <1>2, <1>4, <1>5, <1>6, <1>7 DEF IInv

\* An end that changes nothing: an error, or a kill.
LEMMA ModifyGivesUp ==
    ASSUME IInv, Running, mpc' \in {"failed", "killed"},
           UNCHANGED <<dirVars, tasks, todo, new, mem, sqliteVars, start, tool>>
    PROVE  IInv'
<1>1. UNCHANGED <<repomd, tasks, new, mem, files>>
    BY DEF dirVars
<1>2. Control' /\ Makes' /\ Removes' /\ \A p \in SqliteProcs : RightNames(seen'[p])
    BY <1>1, ModifyControl, ModifyFrame
<1>3. GoesThrough'
    BY <1>1 DEF IInv, GoesThrough
<1>4. NewOnes'
    BY <1>1 DEF IInv, NewOnes, AllCopies
<1>5. NamesRight'
    BY <1>1, <1>2 DEF IInv, NamesRight
<1>6. FilesSpared'
  <2>1. Touched' = Touched
      BY <1>1, ModifyTouches
  <2>2. ~StillWhole'
    <3>1. \A p \in SqliteProcs : ~SRunning(p) /\ spc' = spc
        BY ModifyFrame DEF sqliteVars
    <3> QED BY <3>1 DEF StillWhole, SRunning
  <2>3. ASSUME NEW n \in DOMAIN start.files
        PROVE  Spared(n)' \/ ~InUse(n)'
    <3>1. Spared(n)' = Spared(n) /\ InUse(n)' = InUse(n)
        BY <1>1, <2>1 DEF Spared, Same, InUse
    <3> QED BY <3>1 DEF IInv, FilesSpared
  <2> QED BY <2>2, <2>3 DEF FilesSpared
<1> QED BY <1>2, <1>3, <1>4, <1>5, <1>6 DEF IInv

LEMMA DetachRight ==
    ASSUME NEW recs, NEW ts, RightNames(recs)
    PROVE  RightNames(Detach(recs, ts))
BY DEF RightNames, Detach

LEMMA FillStep ==
    ASSUME DatabasesByName, IInv, FillAndDetach, UNCHANGED <<sqliteVars, start, tool>>
    PROVE  IInv'
<1>0. StillWhole /\ Running /\ tool = "modify"
    BY ModifyWhole, ModifyFrame DEF FillAndDetach
<1>1. UNCHANGED <<files, repomd, tasks>> /\ new = <<>>
    BY DEF FillAndDetach, dirVars, IInv, GoesThrough
<1>2. Control' /\ Makes' /\ Removes' /\ \A p \in SqliteProcs : RightNames(seen'[p])
    BY <1>0, <1>1, ModifyControl, ModifyFrame
<1>3. /\ AllCopies' = AllCopies /\ CopySet' = CopySet
      /\ AllCopies \in Seq(CopySet)
      /\ new' = [i \in DOMAIN AllCopies |-> NewRecord(AllCopies[i])]
    BY <1>1, CopyFacts DEF AllCopies, CopySet, FillAndDetach, IInv, GoesThrough
<1>4. todo' \in Seq(DOMAIN new')
  <2> DEFINE s == [i \in DOMAIN AllCopies |-> i]
  <2>1. s \in Seq(DOMAIN new')
      BY <1>3
  <2>2. todo' = [i \in 1 .. Len(s) |-> s[(Len(s) - i) + 1]]
      BY DEF FillAndDetach, Reverse
  <2> HIDE DEF s
  <2> QED BY <2>1, <2>2
<1>5. GoesThrough'
  <2>1. tasks' \in TaskLists \union {<<>>}
      BY <1>1 DEF IInv, GoesThrough
  <2>2. mpc' = "rename"
      BY DEF FillAndDetach
  <2> QED BY <1>4, <2>1, <2>2 DEF GoesThrough
<1>6. NewOnes'
  <2>1. \A i \in DOMAIN AllCopies :
           new'[i] = [type |-> AllCopies[i].type, unique |-> AllCopies[i].task.unique,
                      rec |-> [href |-> CopyName(AllCopies[i]),
                               sum |-> new'[i].rec.sum]]
      BY <1>3 DEF NewRecord, Filled
  <2>2. DOMAIN new' = DOMAIN AllCopies'
      BY <1>3
  <2>3. new' = [i \in DOMAIN new' |->
                 [type |-> AllCopies[i].type, unique |-> new'[i].unique,
                  rec |-> [href |-> new'[i].rec.href, sum |-> new'[i].rec.sum]]]
      BY <1>3, <2>1
  <2> QED BY <1>3, <2>1, <2>2, <2>3 DEF NewOnes
<1>7. NamesRight'
  <2>1. mem' = Detach(mem, AllReplaced)
      BY DEF FillAndDetach
  <2> QED BY <1>1, <1>2, <2>1, DetachRight DEF IInv, NamesRight
<1>8. FilesSpared'
  <2>1. Touched \subseteq Touched'
      BY <1>0, <1>1, <1>3, TouchedModify DEF Touched, CopySet
  <2> QED BY <1>0, <1>1, <2>1, WholeStep
<1> QED BY <1>2, <1>5, <1>6, <1>7, <1>8 DEF IInv

\* Renaming: the name in front of a new record changes to its unique one.
LEMMA RenameFacts ==
    ASSUME DatabasesByName, IInv, mpc \in {"rename", "move"}, todo # <<>>
    PROVE  /\ Head(todo) \in DOMAIN new
           /\ Tail(todo) \in Seq(DOMAIN new)
           /\ UniqueName(Next1.rec) \in Touched
           /\ Next1.rec.href \in Touched
<1>1. Running /\ tool = "modify"
    BY DEF Running, IInv, Control
<1>2. Head(todo) \in DOMAIN new /\ Tail(todo) \in Seq(DOMAIN new)
    BY DEF IInv, GoesThrough
<1>3. UniqueName(Next1.rec) \in Touched
    BY <1>1, <1>2, TouchedModify DEF Next1
<1>4. Next1.rec.href \in Touched
  <2> DEFINE i == Head(todo)
  <2>1. \/ new[i].rec.href = CopyName(AllCopies[i])
        \/ new[i].rec.href = [CopyName(AllCopies[i]) EXCEPT !.sum = new[i].rec.sum]
      BY <1>2 DEF IInv, NewOnes
  <2>2. CASE new[i].rec.href = CopyName(AllCopies[i])
    <3>1. i \in DOMAIN AllCopies
        BY <1>2 DEF IInv, NewOnes
    <3> QED BY <1>1, <2>2, <3>1, TouchedModify DEF Next1, CopySet
  <2>3. CASE new[i].rec.href = [CopyName(AllCopies[i]) EXCEPT !.sum = new[i].rec.sum]
    <3>1. UniqueName(new[i].rec) = new[i].rec.href
        BY <2>3 DEF UniqueName, CopyName, Target
    <3> QED BY <1>3, <3>1 DEF Next1
  <2> QED BY <2>1, <2>2, <2>3
<1> QED BY <1>2, <1>3, <1>4

LEMMA RenameStep ==
    ASSUME DatabasesByName, IInv, SkipRename \/ ClearTarget,
           UNCHANGED <<sqliteVars, start, tool>>
    PROVE  IInv'
<1>0. /\ StillWhole /\ Running
      /\ mpc = "rename" /\ todo # <<>>
      /\ mpc' \in {"rename", "move"}
    BY ModifyWhole DEF SkipRename, ClearTarget
<1>1. UNCHANGED <<repomd, tasks, new, mem>>
    BY DEF SkipRename, ClearTarget, dirVars
<1>2. Control' /\ Makes' /\ Removes' /\ \A p \in SqliteProcs : RightNames(seen'[p])
    BY <1>0, <1>1, ModifyControl, ModifyFrame
<1>3. GoesThrough'
  <2>1. tasks' \in TaskLists \union {<<>>}
      BY <1>1 DEF IInv, GoesThrough
  <2>2. todo' \in Seq(DOMAIN new) /\ (mpc' = "move" => todo' # <<>>)
      BY <1>0, RenameFacts DEF SkipRename, ClearTarget, IInv, GoesThrough
  <2> QED BY <1>0, <1>1, <2>1, <2>2 DEF GoesThrough
<1>4. NewOnes'
    BY <1>1 DEF IInv, NewOnes, AllCopies
<1>5. NamesRight'
    BY <1>1, <1>2 DEF IInv, NamesRight
<1>6. FilesSpared'
  <2>1. Touched' = Touched
      BY <1>0, <1>1, ModifyTouches
  <2>2. \A n \in DOMAIN files \ Touched : n \in DOMAIN files' /\ files'[n] = files[n]
      BY <1>0, RenameFacts DEF SkipRename, ClearTarget, dirVars, RemoveTarget, Drop
  <2> QED BY <1>0, <2>1, <2>2, WholeStep
<1> QED BY <1>2, <1>3, <1>4, <1>5, <1>6 DEF IInv

LEMMA MoveStep ==
    ASSUME DatabasesByName, IInv, Move, UNCHANGED <<sqliteVars, start, tool>>
    PROVE  IInv'
<1> DEFINE i == Head(todo)
<1>0. /\ StillWhole /\ Running /\ tool = "modify"
      /\ mpc = "move" /\ todo # <<>> /\ mpc' = "rename"
      /\ i \in DOMAIN new
    BY ModifyWhole, ModifyFrame, RenameFacts DEF Move, IInv, GoesThrough
<1>1. UNCHANGED <<repomd, tasks, mem>> /\ AllCopies' = AllCopies
    BY DEF Move, AllCopies
<1>2. Control' /\ Makes' /\ Removes' /\ \A p \in SqliteProcs : RightNames(seen'[p])
    BY <1>0, <1>1, ModifyControl, ModifyFrame
<1>3. /\ DOMAIN new' = DOMAIN new
      /\ \A j \in DOMAIN new : j # i => new'[j] = new[j]
      /\ new'[i] = new[i]
           \/ new'[i] = [type |-> AllCopies[i].type, unique |-> new[i].unique,
                         rec |-> [href |-> UniqueName(new[i].rec), sum |-> new[i].rec.sum]]
  <2>1. new[i] = [type |-> AllCopies[i].type, unique |-> new[i].unique,
                  rec |-> [href |-> new[i].rec.href, sum |-> new[i].rec.sum]]
      BY <1>0 DEF IInv, NewOnes
  <2>2. CASE new' = new
      BY <2>2
  <2>3. CASE new' = [new EXCEPT ![i].rec = Renamed(@)]
    <3>1. Renamed(new[i].rec) = [href |-> UniqueName(new[i].rec), sum |-> new[i].rec.sum]
        BY <2>1 DEF Renamed
    <3>2. new'[i] = [new[i] EXCEPT !.rec = Renamed(new[i].rec)]
        BY <1>0, <2>3
    <3>3. \A j \in DOMAIN new : j # i => new'[j] = new[j]
        BY <2>3
    <3> HIDE DEF i
    <3> QED BY <2>1, <2>3, <3>1, <3>2, <3>3
  <2> QED BY <2>2, <2>3 DEF Move
<1>a. \/ new'[i].rec.href = CopyName(AllCopies[i])
      \/ new'[i].rec.href = [CopyName(AllCopies[i]) EXCEPT !.sum = new'[i].rec.sum]
  <2>1. \/ new[i].rec.href = CopyName(AllCopies[i])
        \/ new[i].rec.href = [CopyName(AllCopies[i]) EXCEPT !.sum = new[i].rec.sum]
      BY <1>0 DEF IInv, NewOnes
  <2>2. UniqueName(new[i].rec) = [CopyName(AllCopies[i]) EXCEPT !.sum = new[i].rec.sum]
      BY <2>1 DEF UniqueName, CopyName, Target
  <2>3. CASE new'[i] = new[i]
      BY <2>1, <2>3
  <2>4. CASE new'[i] = [type |-> AllCopies[i].type, unique |-> new[i].unique,
                        rec |-> [href |-> UniqueName(new[i].rec), sum |-> new[i].rec.sum]]
    <3>1. new'[i].rec.href = UniqueName(new[i].rec) /\ new'[i].rec.sum = new[i].rec.sum
        BY <2>4
    <3> QED BY <2>2, <3>1
  <2> QED BY <1>3, <2>3, <2>4
<1>4. NewOnes'
  <2>1. \A j \in DOMAIN new :
           new[j] = [type |-> AllCopies[j].type, unique |-> new[j].unique,
                  rec |-> [href |-> new[j].rec.href, sum |-> new[j].rec.sum]]
      BY DEF IInv, NewOnes
  <2>2. new'[i] = [type |-> AllCopies[i].type, unique |-> new'[i].unique,
                  rec |-> [href |-> new'[i].rec.href, sum |-> new'[i].rec.sum]]
    <3>1. CASE new'[i] = new[i]
        BY <1>0, <2>1, <3>1
    <3>2. CASE new'[i] = [type |-> AllCopies[i].type, unique |-> new[i].unique,
                        rec |-> [href |-> UniqueName(new[i].rec), sum |-> new[i].rec.sum]]
        BY <3>2
    <3> QED BY <1>3, <3>1, <3>2
  <2>3. new' = [j \in DOMAIN new |-> new'[j]]
    <3>1. new = [j \in DOMAIN new |-> new[j]]
        BY DEF IInv, NewOnes
    <3> QED BY <3>1 DEF Move
  <2>4. \A j \in DOMAIN new :
           new'[j] = [type |-> AllCopies[j].type, unique |-> new'[j].unique,
                  rec |-> [href |-> new'[j].rec.href, sum |-> new'[j].rec.sum]]
      BY <1>3, <2>1, <2>2
  <2>5. \A j \in DOMAIN new :
          \/ new'[j].rec.href = CopyName(AllCopies[j])
          \/ new'[j].rec.href = [CopyName(AllCopies[j]) EXCEPT !.sum = new'[j].rec.sum]
      BY <1>3, <1>a DEF IInv, NewOnes
  <2>6. DOMAIN new' \subseteq DOMAIN AllCopies
      BY <1>3 DEF IInv, NewOnes
  <2> HIDE DEF i
  <2> QED BY <1>1, <1>3, <2>3, <2>4, <2>5, <2>6 DEF NewOnes
<1>5. GoesThrough'
  <2>1. tasks' \in TaskLists \union {<<>>}
      BY <1>1 DEF IInv, GoesThrough
  <2>2. todo' \in Seq(DOMAIN new')
      BY <1>0, <1>3, RenameFacts DEF Move
  <2> QED BY <1>0, <2>1, <2>2 DEF GoesThrough
<1>6. NamesRight'
    BY <1>1, <1>2 DEF IInv, NamesRight
<1>7. FilesSpared'
  <2>1. UniqueName(new'[i].rec) = UniqueName(new[i].rec)
    <3>1. CASE new'[i] = new[i]
        BY <3>1
    <3>2. CASE new'[i] = [type |-> AllCopies[i].type, unique |-> new[i].unique,
                        rec |-> [href |-> UniqueName(new[i].rec), sum |-> new[i].rec.sum]]
      <4>1. new'[i].rec.href = UniqueName(new[i].rec) /\ new'[i].rec.sum = new[i].rec.sum
          BY <3>2
      <4>2. \/ new[i].rec.href = CopyName(AllCopies[i])
            \/ new[i].rec.href = [CopyName(AllCopies[i]) EXCEPT !.sum = new[i].rec.sum]
          BY <1>0 DEF IInv, NewOnes
      <4> QED BY <4>1, <4>2 DEF UniqueName, CopyName, Target
    <3> QED BY <1>3, <3>1, <3>2
  <2>2. \A j \in DOMAIN new : UniqueName(new'[j].rec) = UniqueName(new[j].rec)
      BY <1>3, <2>1
  <2>3. Touched' = Touched
    <3>1. tool' = "modify" /\ CopySet' = CopySet
        BY <1>0, <1>1 DEF CopySet
    <3>2. Touched' = {CopyName(c) : c \in CopySet}
                        \union {UniqueName(new'[j].rec) : j \in DOMAIN new'}
        BY <1>1, <3>1 DEF Touched, CopySet
    <3> QED BY <1>0, <1>3, <2>2, <3>2, TouchedModify
  <2>4. \A n \in DOMAIN files \ Touched : n \in DOMAIN files' /\ files'[n] = files[n]
      BY <1>0, RenameFacts DEF Move, RenameFile, Put, Drop
  <2> QED BY <1>0, <2>3, <2>4, WholeStep
<1> QED BY <1>2, <1>4, <1>5, <1>6, <1>7 DEF IInv

\* The new records have the types of their copies, and the names too.
LEMMA WithNewRight ==
    ASSUME DatabasesByName, IInv
    PROVE  RightNames(WithNew(mem))
<1>1. /\ AllCopies \in Seq(CopySet)
      /\ \A c \in CopySet : c.type \in DbTypes <=> c.task.base \in DbTypes
    BY CopyFacts DEF IInv, GoesThrough
<1>2. ASSUME NEW i \in DOMAIN new
      PROVE  new[i].type \in DbTypes <=> new[i].rec.href.base \in DbTypes
  <2>1. i \in DOMAIN AllCopies /\ AllCopies[i] \in CopySet
      BY DEF IInv, NewOnes, CopySet
  <2>2. new[i].type = AllCopies[i].type
      BY DEF IInv, NewOnes
  <2>3. \/ new[i].rec.href = CopyName(AllCopies[i])
        \/ new[i].rec.href = [CopyName(AllCopies[i]) EXCEPT !.sum = new[i].rec.sum]
      BY DEF IInv, NewOnes
  <2>4. new[i].rec.href.base = AllCopies[i].task.base
    <3>1. CASE new[i].rec.href = CopyName(AllCopies[i])
      <4>1. CopyName(AllCopies[i]).base = AllCopies[i].task.base
          BY DEF CopyName, Target
      <4> QED BY <3>1, <4>1
    <3>2. CASE new[i].rec.href = [CopyName(AllCopies[i]) EXCEPT !.sum = new[i].rec.sum]
      <4> DEFINE s == new[i].rec.sum
      <4> HIDE DEF s
      <4>1. [CopyName(AllCopies[i]) EXCEPT !.sum = s].base = AllCopies[i].task.base
          BY DEF CopyName, Target
      <4> QED BY <3>2, <4>1 DEF s
    <3> QED BY <2>3, <3>1, <3>2
  <2> QED BY <1>1, <2>1, <2>2, <2>4
<1>3. ASSUME NEW t, NewOf(t) # {}
      PROVE  Max(NewOf(t)) \in NewOf(t)
  <2>1. NewOf(t) \subseteq 1 .. Len(AllCopies) /\ Len(AllCopies) \in Nat
      BY <1>1 DEF NewOf, IInv, NewOnes
  <2> QED BY <1>3, <2>1, MaxIn
<1>4. ASSUME NEW t \in DOMAIN WithNew(mem)
      PROVE  t \in DbTypes <=> WithNew(mem)[t].href.base \in DbTypes
  <2>1. CASE NewOf(t) = {}
    <3>1. t \in DOMAIN mem
        BY <2>1 DEF WithNew, NewOf
    <3>2. WithNew(mem)[t] = mem[t]
        BY <2>1, <3>1 DEF WithNew
    <3> QED BY <3>1, <3>2 DEF IInv, NamesRight, RightNames
  <2>2. CASE NewOf(t) # {}
    <3> DEFINE i == Max(NewOf(t))
    <3>1. i \in DOMAIN new /\ new[i].type = t
        BY <1>3, <2>2 DEF NewOf
    <3>2. WithNew(mem)[t] = new[i].rec
        BY <2>2, <1>4 DEF WithNew
    <3> HIDE DEF i
    <3> QED BY <1>2, <3>1, <3>2
  <2> QED BY <2>1, <2>2
<1> QED BY <1>4 DEF RightNames

LEMMA TruncateStep ==
    ASSUME DatabasesByName, IInv, TruncateRepomd, UNCHANGED <<sqliteVars, start, tool>>
    PROVE  IInv'
<1>0. StillWhole /\ Running
    BY ModifyWhole DEF TruncateRepomd
<1>1. UNCHANGED <<files, tasks, todo, new>> /\ repomd' = [repomd EXCEPT !.whole = FALSE]
      /\ mem' = WithNew(mem) /\ mpc' = "repomd"
    BY DEF TruncateRepomd
<1>2. Control' /\ Makes' /\ Removes' /\ \A p \in SqliteProcs : RightNames(seen'[p])
    BY <1>0, <1>1, ModifyControl, ModifyFrame
<1>3. repomd'.records = repomd.records
    BY <1>1 DEF IInv, Control
<1>4. GoesThrough'
    BY <1>1 DEF IInv, GoesThrough
<1>5. NewOnes'
    BY <1>1 DEF IInv, NewOnes, AllCopies
<1>6. NamesRight'
    BY <1>1, <1>2, <1>3, WithNewRight DEF IInv, NamesRight
<1>7. FilesSpared'
    BY <1>0, <1>1, ModifyTouches, WholeStep
<1> QED BY <1>2, <1>4, <1>5, <1>6, <1>7 DEF IInv

LEMMA WriteStep ==
    ASSUME IInv, WriteRepomd, UNCHANGED <<sqliteVars, start, tool>>
    PROVE  IInv'
<1>0. StillWhole /\ Running
    BY ModifyWhole DEF WriteRepomd
<1>1. UNCHANGED <<files, tasks, todo, new, mem>> /\ mpc' = "delete"
      /\ repomd' = [repomd EXCEPT !.whole = TRUE, !.records = mem]
    BY DEF WriteRepomd
<1>2. Control' /\ Makes' /\ Removes' /\ \A p \in SqliteProcs : RightNames(seen'[p])
    BY <1>0, <1>1, ModifyControl, ModifyFrame
<1>3. repomd'.records = mem
  <2>1. repomd = [whole |-> repomd.whole, revision |-> repomd.revision,
                  records |-> repomd.records]
      BY DEF IInv, Control
  <2> QED BY <1>1, <2>1
<1>4. GoesThrough'
    BY <1>1, <1>3 DEF IInv, GoesThrough
<1>5. NewOnes'
    BY <1>1 DEF IInv, NewOnes, AllCopies
<1>6. NamesRight'
    BY <1>1, <1>2, <1>3 DEF IInv, NamesRight
<1>7. FilesSpared'
    BY <1>0, <1>1, ModifyTouches, WholeStep
<1> QED BY <1>2, <1>4, <1>5, <1>6, <1>7 DEF IInv

\* A removed file is nobody's; the records in memory are those of repomd.xml.
LEMMA DeleteStep ==
    ASSUME IInv, Delete \/ ModifyEnds, UNCHANGED <<sqliteVars, start, tool>>
    PROVE  IInv'
<1>0. Running /\ mpc = "delete" /\ mpc' \in {"delete", "done"}
    BY DEF Delete, ModifyEnds, Ends, Running
<1>1. UNCHANGED <<repomd, tasks, todo, new, mem>> /\ mem = repomd.records
    BY <1>0 DEF Delete, ModifyEnds, Ends, dirVars, IInv, GoesThrough
<1>2. Control' /\ Makes' /\ Removes' /\ \A p \in SqliteProcs : RightNames(seen'[p])
    BY <1>0, <1>1, ModifyControl, ModifyFrame
<1>3. GoesThrough'
    BY <1>0, <1>1 DEF IInv, GoesThrough
<1>4. NewOnes'
    BY <1>1 DEF IInv, NewOnes, AllCopies
<1>5. NamesRight'
    BY <1>1, <1>2 DEF IInv, NamesRight
<1>6. FilesSpared'
  <2>1. Touched' = Touched
      BY <1>0, <1>1, ModifyTouches
  <2>2. ~StillWhole'
    <3>1. \A p \in SqliteProcs : ~SRunning(p) /\ spc' = spc
        BY <1>0, ModifyFrame DEF sqliteVars
    <3> QED BY <1>0, <3>1 DEF StillWhole, SRunning
  <2>3. ASSUME NEW n \in DOMAIN start.files
        PROVE  Spared(n)' \/ ~InUse(n)'
    <3>0. InUse(n)' = InUse(n) /\ (Spared(n) \/ ~InUse(n))
        BY <1>1 DEF InUse, IInv, FilesSpared
    <3>1. CASE UNCHANGED files
        BY <2>1, <3>0, <3>1 DEF Spared, Same
    <3>2. ASSUME NEW rec, ~StillUsed(rec), files' = Drop(files, {rec.href})
          PROVE  Spared(n)' \/ ~InUse(n)'
      <4>1. CASE ~Same(n) \/ n # rec.href
          BY <2>1, <3>0, <3>2, <4>1 DEF Spared, Same, Drop
      <4>2. CASE Same(n) /\ n = rec.href
        <5>1. ~InUse(n)
            BY <1>1, <3>2, <4>2 DEF StillUsed, InUse, Same, Has
        <5> QED BY <3>0, <5>1
      <4> QED BY <4>1, <4>2
    <3> QED BY <3>1, <3>2 DEF Delete, DeleteOld, ModifyEnds, Ends, dirVars
  <2> QED BY <2>2, <2>3 DEF FilesSpared
<1> QED BY <1>2, <1>3, <1>4, <1>5, <1>6 DEF IInv

LEMMA ModifyInductive ==
    ASSUME DatabasesByName, IInv, Modify
    PROVE  IInv'
<1>0. UNCHANGED <<sqliteVars, start, tool>>
    BY DEF Modify
<1>1. CASE ParseAndCheck
    BY <1>0, <1>1, ParseStep
<1>2. CASE UseInPlace \/ BeginCopy \/ EndCopy
    BY <1>0, <1>2, CopyStep
<1>3. CASE CopyFails \/ WriteRepomdFails
  <2>1. Running /\ Ends("failed") /\ UNCHANGED dirVars
      BY <1>3 DEF CopyFails, WriteRepomdFails, Running
  <2>2. mpc' = "failed" /\ UNCHANGED <<dirVars, tasks, todo, new, mem, sqliteVars, start, tool>>
      BY <1>0, <2>1 DEF Ends
  <2> QED BY <2>1, <2>2, ModifyGivesUp
<1>4. CASE FillAndDetach
    BY <1>0, <1>4, FillStep
<1>5. CASE SkipRename \/ ClearTarget
    BY <1>0, <1>5, RenameStep
<1>6. CASE Move
    BY <1>0, <1>6, MoveStep
<1>7. CASE TruncateRepomd
    BY <1>0, <1>7, TruncateStep
<1>8. CASE WriteRepomd
    BY <1>0, <1>8, WriteStep
<1>9. CASE Delete \/ ModifyEnds
    BY <1>0, <1>9, DeleteStep
<1> QED BY <1>1, <1>2, <1>3, <1>4, <1>5, <1>6, <1>7, <1>8, <1>9 DEF Modify, ModifySteps

-----------------------------------------------------------------------------
(* The steps of sqliterepo_c.                                              *)

LEMMA SqliteFrame ==
    ASSUME IInv, NEW p \in SqliteProcs, SRunning(p), NEW x,
           spc' = [spc EXCEPT ![p] = x], UNCHANGED <<modifyVars, start, tool>>
    PROVE  /\ tool = p /\ tool # "modify" /\ tool # Nobody /\ ~Running
           /\ \A q \in SqliteProcs : q # p => ~SRunning(q) /\ spc'[q] = spc[q]
           /\ spc'[p] = x
           /\ GoesThrough' /\ NewOnes'
           /\ RightNames(mem')
<1>1. tool = p /\ tool # "modify" /\ tool # Nobody
    BY RepoToolsAssumption DEF IInv, Control
<1>2. ~Running
    BY <1>1 DEF IInv, Control
<1>3. \A q \in SqliteProcs : q # p => ~SRunning(q)
    BY <1>1 DEF IInv, Control
<1>4. spc'[p] = x /\ \A q \in SqliteProcs : q # p => spc'[q] = spc[q]
    BY DEF IInv, Control
<1>5. GoesThrough'
    BY <1>2 DEF IInv, GoesThrough, Running, modifyVars
<1>6. NewOnes'
    BY DEF IInv, NewOnes, AllCopies, modifyVars
<1>7. RightNames(mem')
    BY DEF IInv, NamesRight, modifyVars
<1> QED BY <1>1, <1>2, <1>3, <1>4, <1>5, <1>6, <1>7

LEMMA SqliteControl ==
    ASSUME IInv, NEW p \in SqliteProcs, SRunning(p), NEW x,
           spc' = [spc EXCEPT ![p] = x], UNCHANGED <<modifyVars, start, tool>>,
           \/ UNCHANGED repomd
           \/ \E w, v, r : repomd' = [whole |-> w, revision |-> v, records |-> r]
    PROVE  Control'
<1>1. repomd' = [whole |-> repomd'.whole, revision |-> repomd'.revision,
                 records |-> repomd'.records]
  <2>1. CASE UNCHANGED repomd
      BY <2>1 DEF IInv, Control
  <2>2. ASSUME NEW w, NEW v, NEW r,
               repomd' = [whole |-> w, revision |-> v, records |-> r]
        PROVE  repomd' = [whole |-> repomd'.whole, revision |-> repomd'.revision,
                          records |-> repomd'.records]
      BY <2>2
  <2> QED BY <2>1, <2>2
<1>2. ~Running' /\ tool' = p
    BY SqliteFrame DEF Running, modifyVars
<1>3. \A q \in SqliteProcs : q # p => ~SRunning(q)'
    BY SqliteFrame DEF SRunning
<1>4. spc' = [q \in SqliteProcs |-> spc'[q]]
    BY DEF IInv, Control
<1> QED BY <1>1, <1>2, <1>3, <1>4 DEF Control

LEMMA TouchedSqlite ==
    ASSUME NEW p \in SqliteProcs, tool = p
    PROVE  Touched = {PlainName(t) : t \in DbTypes} \union
                     {work[p].records[t].href : t \in DOMAIN work[p].records}
BY RepoToolsAssumption DEF Touched

LEMMA SqliteWhole ==
    ASSUME NEW p \in SqliteProcs, spc[p] \in {"lock", "read", "generate", "move"}
    PROVE  StillWhole /\ SRunning(p)
BY DEF StillWhole, SRunning

\* Steps that neither change the directory nor make anything.
LEMMA SqliteQuiet ==
    ASSUME IInv, NEW p \in SqliteProcs, SRunning(p), NEW x,
           spc' = [spc EXCEPT ![p] = x], UNCHANGED <<modifyVars, start, tool>>,
           x \notin {"off", "lock", "move", "remove"},
           x \in {"read", "generate"} => spc[p] \in {"lock", "read"},
           UNCHANGED <<dirVars, work>>, \A q \in SqliteProcs : RightNames(seen'[q])
    PROVE  IInv'
<1>0. UNCHANGED <<files, repomd>>
    BY DEF dirVars
<1>1. Control'
    BY <1>0, SqliteControl
<1>2. GoesThrough' /\ NewOnes'
    BY SqliteFrame
<1>3. Makes'
  <2>1. \A q \in SqliteProcs :
           /\ spc'[q] \in {"off", "lock", "read", "generate"} => work[q] = NoWork
           /\ spc'[q] = "move" => DOMAIN work[q].records = DbTypes
    <3> TAKE q \in SqliteProcs
    <3>1. CASE q = p
        BY <3>1, SqliteFrame DEF IInv, Makes
    <3>2. CASE q # p
        BY <3>2, SqliteFrame DEF IInv, Makes
    <3> QED BY <3>1, <3>2
  <2> QED BY <2>1 DEF IInv, Makes
<1>4. Removes'
  <2>1. \A q \in SqliteProcs : spc'[q] # "remove"
      BY SqliteFrame DEF SRunning
  <2> QED BY <2>1 DEF Removes
<1>5. NamesRight'
    BY <1>0, SqliteFrame DEF IInv, NamesRight
<1>6. FilesSpared'
  <2>1. Touched' = Touched
    <3>1. tool = p /\ tool # "modify" /\ tool # Nobody
        BY SqliteFrame
    <3> QED BY <3>1 DEF Touched
  <2>2. StillWhole' => StillWhole
      BY SqliteFrame DEF StillWhole, modifyVars, Running, SRunning
  <2>3. \A n \in DOMAIN start.files : Spared(n)' = Spared(n) /\ InUse(n)' = InUse(n)
      BY <1>0, <2>1 DEF Spared, Same, InUse
  <2> QED BY <2>2, <2>3 DEF IInv, FilesSpared
<1> QED BY <1>1, <1>2, <1>3, <1>4, <1>5, <1>6 DEF IInv

\* The databases are made, in .repodata/.
LEMMA RecordBase ==
    ASSUME NEW recs, NEW t \in DbTypes
    PROVE  DbRecord(recs, t).href.base = t
<1>1. PlainName(t).base = t
    BY DEF PlainName
<1>2. CASE SimpleNames(recs)
    BY <1>1, <1>2 DEF DbRecord
<1>3. CASE ~SimpleNames(recs)
  <2> DEFINE r == [href |-> PlainName(t), sum |-> Db(recs, t)]
             s == Db(recs, t)
  <2> HIDE DEF s
  <2>1. Renamed(r).href = [PlainName(t) EXCEPT !.sum = s]
      BY DEF Renamed, UniqueName, s
  <2>2. [PlainName(t) EXCEPT !.sum = s].base = t
      BY DEF PlainName
  <2>3. DbRecord(recs, t) = Renamed(r)
      BY <1>3 DEF DbRecord
  <2> QED BY <2>1, <2>2, <2>3
<1> QED BY <1>2, <1>3

LEMMA MadeWork ==
    ASSUME NEW recs, NEW fs
    PROVE  /\ [NoWork EXCEPT !.records = recs, !.files = fs]
                = [files |-> fs, records |-> recs, old |-> {}, damaged |-> FALSE]
           /\ [NoWork EXCEPT !.records = recs, !.damaged = TRUE, !.files = fs]
                = [files |-> fs, records |-> recs, old |-> {}, damaged |-> TRUE]
<1> DEFINE no == FALSE
           yes == TRUE
           none == {}
           empty == <<>>
<1>0. NoWork = [files |-> empty, records |-> empty, old |-> none, damaged |-> no]
    BY DEF NoWork
<1> HIDE DEF no, yes, none, empty
<1> DEFINE v == [NoWork EXCEPT !.records = recs]
           u == [v EXCEPT !.damaged = yes]
<1>2. v = [files |-> empty, records |-> recs, old |-> none, damaged |-> no]
    BY <1>0, SMTT(30)
<1> HIDE DEF v
<1>3. u = [files |-> empty, records |-> recs, old |-> none, damaged |-> yes]
    BY <1>2, SMTT(30)
<1> HIDE DEF u
<1>4. [v EXCEPT !.files = fs]
         = [files |-> fs, records |-> recs, old |-> none, damaged |-> no]
    BY <1>2, SMTT(30)
<1>5. [u EXCEPT !.files = fs]
         = [files |-> fs, records |-> recs, old |-> none, damaged |-> yes]
    BY <1>3, SMTT(30)
<1> QED BY <1>4, <1>5 DEF u, v, no, yes, none

LEMMA MakeStep ==
    ASSUME IInv, NEW p \in SqliteProcs, Generate(p) \/ GenerateDamaged(p),
           UNCHANGED <<modifyVars, start, tool>>
    PROVE  IInv'
<1>0. /\ StillWhole /\ SRunning(p) /\ spc' = [spc EXCEPT ![p] = "move"]
      /\ spc[p] = "generate" /\ UNCHANGED <<files, repomd, seen>>
    BY SqliteWhole DEF Generate, GenerateDamaged, SAt, SGoTo, dirVars
<1>1. Control'
    BY <1>0, SqliteControl
<1>2. GoesThrough' /\ NewOnes'
    BY <1>0, SqliteFrame
<1>3. \E recs, fs, b :
         /\ DOMAIN recs = DbTypes
         /\ \A t \in DbTypes : recs[t].href.base \in DbTypes
         /\ \A n \in DOMAIN fs : \E t \in DbTypes : recs[t].href = n
         /\ work' = [work EXCEPT ![p] = [files |-> fs, records |-> recs,
                                         old |-> {}, damaged |-> b]]
  <2>1. CASE Generate(p)
    <3> DEFINE recs == [t \in DbTypes |-> DbRecord(seen[p], t)]
               fs == [n \in {recs[t].href : t \in DbTypes} |->
                         CHOOSE t \in DbTypes : recs[t].href = n]
    <3>1. work' = [work EXCEPT ![p] = [NoWork EXCEPT !.records = recs, !.files = fs]]
        BY <2>1 DEF Generate
    <3>2. [NoWork EXCEPT !.records = recs, !.files = fs]
             = [files |-> fs, records |-> recs, old |-> {}, damaged |-> FALSE]
        BY MadeWork
    <3>3. \A t \in DbTypes : recs[t].href.base \in DbTypes
        BY RecordBase
    <3>4. DOMAIN recs = DbTypes /\ \A n \in DOMAIN fs : \E t \in DbTypes : recs[t].href = n
        BY RepoToolsAssumption
    <3> HIDE DEF recs, fs
    <3> QED BY <3>1, <3>2, <3>3, <3>4
  <2>2. CASE GenerateDamaged(p)
    <3>0. PICK bad \in DbTypes :
             LET recs == [t \in DbTypes |-> IF t = bad THEN [href |-> PlainName(t), sum |-> NoSum]
                                                       ELSE DbRecord(seen[p], t)]
             IN work' = [work EXCEPT ![p] =
                  [NoWork EXCEPT !.records = recs, !.damaged = TRUE,
                      !.files = [n \in {recs[t].href : t \in DbTypes} |->
                                    (CHOOSE t \in DbTypes : recs[t].href = n)]]]
        BY <2>2 DEF GenerateDamaged
    <3> DEFINE recs == [t \in DbTypes |-> IF t = bad THEN [href |-> PlainName(t), sum |-> NoSum]
                                                     ELSE DbRecord(seen[p], t)]
               fs == [n \in {recs[t].href : t \in DbTypes} |->
                         CHOOSE t \in DbTypes : recs[t].href = n]
    <3>1. work' = [work EXCEPT ![p] = [NoWork EXCEPT !.records = recs, !.damaged = TRUE,
                                                     !.files = fs]]
        BY <3>0
    <3>2. [NoWork EXCEPT !.records = recs, !.damaged = TRUE, !.files = fs]
             = [files |-> fs, records |-> recs, old |-> {}, damaged |-> TRUE]
        BY MadeWork
    <3>3. \A t \in DbTypes : recs[t].href.base \in DbTypes
        BY RecordBase DEF PlainName
    <3>4. DOMAIN recs = DbTypes /\ \A n \in DOMAIN fs : \E t \in DbTypes : recs[t].href = n
        OBVIOUS
    <3> HIDE DEF recs, fs
    <3> QED BY <3>1, <3>2, <3>3, <3>4
  <2> QED BY <2>1, <2>2
<1>4. PICK recs, fs, b :
         /\ DOMAIN recs = DbTypes
         /\ \A t \in DbTypes : recs[t].href.base \in DbTypes
         /\ \A n \in DOMAIN fs : \E t \in DbTypes : recs[t].href = n
         /\ work' = [work EXCEPT ![p] = [files |-> fs, records |-> recs,
                                         old |-> {}, damaged |-> b]]
    BY <1>3
<1>5. /\ work'[p] = [files |-> fs, records |-> recs, old |-> {}, damaged |-> b]
      /\ \A q \in SqliteProcs : q # p => work'[q] = work[q]
      /\ work' = [q \in SqliteProcs |-> work'[q]]
    BY <1>4 DEF IInv, Makes
<1>6. Makes'
  <2>1. \A q \in SqliteProcs : work'[q] = [files |-> work'[q].files,
               records |-> work'[q].records, old |-> work'[q].old,
               damaged |-> work'[q].damaged]
    <3> TAKE q \in SqliteProcs
    <3>1. CASE q = p
        BY <1>5, <3>1
    <3>2. CASE q # p
        BY <1>5, <3>2 DEF IInv, Makes
    <3> QED BY <3>1, <3>2
  <2>2. ASSUME NEW q \in SqliteProcs
        PROVE  /\ DOMAIN work'[q].records \subseteq DbTypes
               /\ \A t \in DOMAIN work'[q].records : work'[q].records[t].href.base \in DbTypes
               /\ \A n \in DOMAIN work'[q].files :
                     \E t \in DOMAIN work'[q].records : work'[q].records[t].href = n
               /\ spc'[q] \in {"off", "lock", "read", "generate"} => work'[q] = NoWork
               /\ spc'[q] = "move" => DOMAIN work'[q].records = DbTypes
    <3>1. CASE q = p
      <4>1. work'[p].files = fs /\ work'[p].records = recs
          BY <1>5
      <4>2. spc'[p] = "move"
          BY <1>0, SqliteFrame
      <4> QED BY <1>4, <3>1, <4>1, <4>2
    <3>2. CASE q # p
      <4>1. work'[q] = work[q] /\ spc'[q] = spc[q]
          BY <1>0, <1>5, <3>2, SqliteFrame
      <4> QED BY <4>1 DEF IInv, Makes
    <3> QED BY <3>1, <3>2
  <2>3. work' = [q \in SqliteProcs |-> [files |-> work'[q].files,
               records |-> work'[q].records, old |-> work'[q].old,
               damaged |-> work'[q].damaged]]
      BY <1>5, <2>1
  <2> QED BY <2>2, <2>3 DEF Makes
<1>7. Removes'
  <2>1. \A q \in SqliteProcs : spc'[q] # "remove"
      BY <1>0, SqliteFrame DEF SRunning
  <2> QED BY <2>1 DEF Removes
<1>8. NamesRight'
    BY <1>0, SqliteFrame DEF IInv, NamesRight
<1>9. FilesSpared'
  <2>0. work[p] = NoWork
      BY <1>0 DEF IInv, Makes
  <2>1. work[p].records = <<>>
      BY <2>0 DEF NoWork
  <2>a. tool = p /\ tool' = p
      BY <1>0, SqliteFrame
  <2>2. Touched \subseteq Touched'
    <3>1. Touched = {PlainName(t) : t \in DbTypes}
        BY <2>1, <2>a, TouchedSqlite
    <3>2. tool' # "modify"
        BY <1>0, SqliteFrame
    <3> QED BY <3>1, <3>2 DEF Touched
  <2> QED BY <1>0, <2>2, WholeStep
<1> QED BY <1>1, <1>2, <1>6, <1>7, <1>8, <1>9 DEF IInv

\* A record of work[p] in which one field changes.
LEMMA WorkField ==
    ASSUME IInv, NEW p \in SqliteProcs, NEW x
    PROVE  /\ [work EXCEPT ![p].files = x]
                = [work EXCEPT ![p] = [files |-> x, records |-> work[p].records,
                                       old |-> work[p].old, damaged |-> work[p].damaged]]
           /\ [work EXCEPT ![p].old = x]
                = [work EXCEPT ![p] = [files |-> work[p].files,
                                       records |-> work[p].records,
                                       old |-> x, damaged |-> work[p].damaged]]
<1>1. work[p] = [files |-> work[p].files, records |-> work[p].records,
                 old |-> work[p].old, damaged |-> work[p].damaged]
    BY DEF IInv, Makes
<1> DEFINE w == work[p]
           a == work[p].files
           b == work[p].records
           c == work[p].old
           d == work[p].damaged
<1>2. w = [files |-> a, records |-> b, old |-> c, damaged |-> d]
    BY <1>1
<1>3. [work EXCEPT ![p].files = x] = [work EXCEPT ![p] = [w EXCEPT !.files = x]]
      /\ [work EXCEPT ![p].old = x] = [work EXCEPT ![p] = [w EXCEPT !.old = x]]
    OBVIOUS
<1> HIDE DEF w, a, b, c, d
<1>4. [w EXCEPT !.files = x] = [files |-> x, records |-> b, old |-> c, damaged |-> d]
    BY <1>2, SMTT(30)
<1>5. [w EXCEPT !.old = x] = [files |-> a, records |-> b, old |-> x, damaged |-> d]
    BY <1>2, SMTT(30)
<1> QED BY <1>3, <1>4, <1>5 DEF a, b, c, d

\* The part of Makes that a change of the files and the old ones must keep.
LEMMA MakesKept ==
    ASSUME IInv, NEW p \in SqliteProcs, SRunning(p), NEW x,
           spc' = [spc EXCEPT ![p] = x], UNCHANGED <<modifyVars, start, tool>>,
           x \notin {"off", "lock", "read", "generate"},
           x = "move" => spc[p] = "move",
           NEW fs, NEW old1,
           \A n \in DOMAIN fs : n \in DOMAIN work[p].files,
           work' = [work EXCEPT ![p] = [files |-> fs, records |-> work[p].records,
                                        old |-> old1, damaged |-> work[p].damaged]]
    PROVE  /\ Makes'
           /\ work'[p].records = work[p].records /\ work'[p].old = old1
           /\ Touched' = Touched
<1> DEFINE w == [files |-> fs, records |-> work[p].records,
                 old |-> old1, damaged |-> work[p].damaged]
<1>1. work'[p] = w /\ \A q \in SqliteProcs : q # p => work'[q] = work[q]
    BY DEF IInv, Makes
<1>2. work' = [q \in SqliteProcs |-> work'[q]]
    BY DEF IInv, Makes
<1>3. \A q \in SqliteProcs : work'[q] = [files |-> work'[q].files,
               records |-> work'[q].records, old |-> work'[q].old,
               damaged |-> work'[q].damaged]
  <2> TAKE q \in SqliteProcs
  <2>1. CASE q = p
      BY <1>1, <2>1
  <2>2. CASE q # p
      BY SMTT(30), <1>1, <2>2 DEF IInv, Makes
  <2> QED BY <2>1, <2>2
<1>4. work'[p].records = work[p].records /\ work'[p].files = fs /\ work'[p].old = old1
    BY <1>1
<1>a. \A q \in SqliteProcs :
         /\ DOMAIN work[q].records \subseteq DbTypes
         /\ \A t \in DOMAIN work[q].records : work[q].records[t].href.base \in DbTypes
         /\ \A n \in DOMAIN work[q].files :
               \E t \in DOMAIN work[q].records : work[q].records[t].href = n
         /\ spc[q] \in {"off", "lock", "read", "generate"} => work[q] = NoWork
         /\ spc[q] = "move" => DOMAIN work[q].records = DbTypes
    BY DEF IInv, Makes
<1>5. ASSUME NEW q \in SqliteProcs
      PROVE  /\ DOMAIN work'[q].records \subseteq DbTypes
             /\ \A t \in DOMAIN work'[q].records : work'[q].records[t].href.base \in DbTypes
             /\ \A n \in DOMAIN work'[q].files :
                   \E t \in DOMAIN work'[q].records : work'[q].records[t].href = n
             /\ spc'[q] \in {"off", "lock", "read", "generate"} => work'[q] = NoWork
             /\ spc'[q] = "move" => DOMAIN work'[q].records = DbTypes
  <2>1. CASE q = p
    <3>1. spc'[p] = x
        BY SqliteFrame
    <3> HIDE DEF w
    <3> QED BY <1>4, <1>a, <2>1, <3>1
  <2>2. CASE q # p
    <3>1. work'[q] = work[q] /\ spc'[q] = spc[q]
        BY <1>1, <2>2, SqliteFrame
    <3> QED BY <1>a, <3>1
  <2> QED BY <2>1, <2>2
<1>6. work' = [q \in SqliteProcs |-> [files |-> work'[q].files,
             records |-> work'[q].records, old |-> work'[q].old,
             damaged |-> work'[q].damaged]]
    BY <1>2, <1>3
<1>7. Makes'
    BY <1>5, <1>6 DEF Makes
<1>8. Touched' = Touched
  <2>1. tool = p /\ tool # "modify" /\ tool # Nobody /\ tool' = tool
      BY SqliteFrame
  <2> QED BY <1>4, <2>1 DEF Touched
<1> QED BY <1>4, <1>7, <1>8

LEMMA MoveDbStep ==
    ASSUME IInv, NEW p \in SqliteProcs, MoveDb(p), UNCHANGED <<modifyVars, start, tool>>
    PROVE  IInv'
<1>0. /\ StillWhole /\ SRunning(p) /\ spc[p] = "move"
      /\ spc' = [spc EXCEPT ![p] = "move"] /\ UNCHANGED <<repomd, seen>>
    BY SqliteWhole DEF MoveDb, SAt, IInv, Control
<1>1. PICK n \in DOMAIN work[p].files :
         /\ files' = Put(files, n, Content(p, n))
         /\ work' = [work EXCEPT ![p].files = Drop(@, {n})]
    BY DEF MoveDb
<1>2. work' = [work EXCEPT ![p] = [files |-> Drop(work[p].files, {n}),
                  records |-> work[p].records,
                  old |-> work[p].old, damaged |-> work[p].damaged]]
    BY <1>1, WorkField
<1>3. \A m \in DOMAIN Drop(work[p].files, {n}) : m \in DOMAIN work[p].files
    BY DEF Drop
<1>4. Makes' /\ Touched' = Touched
    BY <1>0, <1>2, <1>3, MakesKept
<1>5. Control'
    BY <1>0, SqliteControl
<1>6. GoesThrough' /\ NewOnes'
    BY <1>0, SqliteFrame
<1>7. Removes'
  <2>1. \A q \in SqliteProcs : spc'[q] # "remove"
      BY <1>0, SqliteFrame DEF SRunning
  <2> QED BY <2>1 DEF Removes
<1>8. NamesRight'
    BY <1>0, SqliteFrame DEF IInv, NamesRight
<1>9. FilesSpared'
  <2>1. tool = p
      BY <1>0, SqliteFrame
  <2>2. n \in Touched
    <3>1. \E t \in DOMAIN work[p].records : work[p].records[t].href = n
        BY <1>1 DEF IInv, Makes
    <3> QED BY <2>1, <3>1, TouchedSqlite
  <2>3. \A m \in DOMAIN files \ Touched : m \in DOMAIN files' /\ files'[m] = files[m]
      BY <1>1, <2>2 DEF Put
  <2> QED BY <1>0, <1>4, <2>3, WholeStep
<1> QED BY <1>4, <1>5, <1>6, <1>7, <1>8, <1>9 DEF IInv

LEMMA MoveRepomdStep ==
    ASSUME IInv, NEW p \in SqliteProcs, MoveRepomd(p), UNCHANGED <<modifyVars, start, tool>>
    PROVE  IInv'
<1>0. /\ StillWhole /\ SRunning(p) /\ spc[p] = "move"
      /\ spc' = [spc EXCEPT ![p] = "remove"] /\ UNCHANGED <<files, seen>>
      /\ repomd' = [whole |-> TRUE, revision |-> NoRevision, records |-> NewRecords(p)]
    BY SqliteWhole DEF MoveRepomd, SAt, SGoTo
<1>1. work' = [work EXCEPT ![p] = [files |-> work[p].files,
                  records |-> work[p].records,
                  old |-> OldDbs(p), damaged |-> work[p].damaged]]
  <2>1. work' = [work EXCEPT ![p].old = OldDbs(p)]
      BY DEF MoveRepomd
  <2> QED BY <2>1, WorkField
<1>2. /\ Makes' /\ Touched' = Touched
      /\ work'[p].records = work[p].records /\ work'[p].old = OldDbs(p)
    BY ZenonT(30), <1>0, <1>1, MakesKept
<1>3. Control'
    BY <1>0, SqliteControl
<1>4. GoesThrough' /\ NewOnes'
    BY <1>0, SqliteFrame
<1>5. repomd'.records = NewRecords(p)
    BY <1>0
<1>6. DOMAIN work[p].records = DbTypes
      /\ \A t \in DbTypes : work[p].records[t].href.base \in DbTypes
    BY <1>0 DEF IInv, Makes
<1>7. Removes'
  <2>1. \A q \in SqliteProcs : spc'[q] = "remove" => q = p
      BY <1>0, SqliteFrame DEF SRunning
  <2>2. \A t \in DbTypes :
           t \in DOMAIN repomd'.records /\ repomd'.records[t] = work[p].records[t]
      BY <1>5 DEF NewRecords
  <2>3. \A n \in OldDbs(p) :
           n.base \in DbTypes /\ \A t \in DbTypes : work[p].records[t].href # n
      BY DEF OldDbs, IInv, NamesRight, RightNames
  <2> QED BY <1>2, <1>6, <2>1, <2>2, <2>3 DEF Removes
<1>8. NamesRight'
  <2>1. RightNames(NewRecords(p))
    <3> SUFFICES ASSUME NEW t \in DOMAIN NewRecords(p)
                 PROVE  t \in DbTypes <=> NewRecords(p)[t].href.base \in DbTypes
        BY DEF RightNames
    <3>1. CASE t \in DbTypes
        BY <1>6, <3>1 DEF NewRecords
    <3>2. CASE t \notin DbTypes
      <4>1. t \in DOMAIN seen[p] /\ NewRecords(p)[t] = seen[p][t]
          BY <3>2 DEF NewRecords
      <4> QED BY <3>2, <4>1 DEF IInv, NamesRight, RightNames
    <3> QED BY <3>1, <3>2
  <2> QED BY <1>0, <1>5, <2>1, SqliteFrame DEF IInv, NamesRight
<1>9. FilesSpared'
    BY <1>0, <1>2, WholeStep
<1> QED BY <1>2, <1>3, <1>4, <1>7, <1>8, <1>9 DEF IInv

\* An old database is nobody's: the records of databases are the new ones, and
\* the others are not called like it.
LEMMA RemoveOldStep ==
    ASSUME IInv, NEW p \in SqliteProcs, RemoveOld(p), UNCHANGED <<modifyVars, start, tool>>
    PROVE  IInv'
<1>0. spc[p] = "remove" /\ SRunning(p) /\ UNCHANGED <<repomd, seen>>
    BY DEF RemoveOld, SAt, SRunning
<1>1. PICK n \in work[p].old :
         /\ files' = Drop(files, {n})
         /\ work' = [work EXCEPT ![p].old = @ \ {n}]
         /\ IF Has(files, n) THEN UNCHANGED spc ELSE SGoTo(p, "exit failed")
    BY DEF RemoveOld
<1>2. PICK x \in {"remove", "exit failed"} : spc' = [spc EXCEPT ![p] = x]
  <2>1. CASE UNCHANGED spc
      BY <1>0, <2>1 DEF IInv, Control
  <2>2. CASE SGoTo(p, "exit failed")
      BY <2>2 DEF SGoTo
  <2> QED BY <1>1, <2>1, <2>2
<1>3. work' = [work EXCEPT ![p] = [files |-> work[p].files,
                  records |-> work[p].records,
                  old |-> work[p].old \ {n}, damaged |-> work[p].damaged]]
    BY <1>1, WorkField
<1>4. /\ Makes' /\ Touched' = Touched
      /\ work'[p].records = work[p].records /\ work'[p].old = work[p].old \ {n}
    BY ZenonT(30), <1>0, <1>2, <1>3, MakesKept
<1>5. Control'
    BY <1>0, <1>2, SqliteControl
<1>6. GoesThrough' /\ NewOnes'
    BY <1>0, <1>2, SqliteFrame
<1>7. Removes'
  <2>1. \A q \in SqliteProcs : spc'[q] = "remove" => q = p
      BY <1>0, <1>2, SqliteFrame DEF SRunning
  <2>2. /\ DOMAIN work[p].records = DbTypes
        /\ \A t \in DbTypes :
              t \in DOMAIN repomd.records
                /\ repomd.records[t] = work[p].records[t]
        /\ \A m \in work[p].old :
              /\ m.base \in DbTypes
              /\ \A t \in DbTypes : work[p].records[t].href # m
      BY <1>0 DEF IInv, Removes
  <2> QED BY <1>0, <1>4, <2>1, <2>2 DEF Removes
<1>8. NamesRight'
    BY <1>0, <1>2, SqliteFrame DEF IInv, NamesRight
<1>9. ~InUse(n)
  <2> SUFFICES ASSUME NEW t \in DOMAIN repomd.records, repomd.records[t].href = n
               PROVE  FALSE
      BY DEF InUse
  <2>1. n.base \in DbTypes /\ \A u \in DbTypes : work[p].records[u].href # n
      BY <1>0, <1>1 DEF IInv, Removes
  <2>2. t \in DbTypes
      BY <2>1 DEF IInv, NamesRight, RightNames
  <2> QED BY <1>0, <2>1, <2>2 DEF IInv, Removes
<1>10. FilesSpared'
  <2>1. ~StillWhole'
      BY <1>0, <1>2, SqliteFrame DEF StillWhole, Running, SRunning, modifyVars
  <2>2. ASSUME NEW m \in DOMAIN start.files
        PROVE  Spared(m)' \/ ~InUse(m)'
    <3>1. InUse(m)' = InUse(m) /\ (Spared(m) \/ ~InUse(m))
        BY <1>0 DEF InUse, IInv, FilesSpared
    <3>2. CASE m # n
        BY <1>1, <1>4, <3>1, <3>2 DEF Spared, Same, Drop
    <3>3. CASE m = n
        BY <1>9, <3>1, <3>3
    <3> QED BY <3>2, <3>3
  <2> QED BY <2>1, <2>2 DEF FilesSpared
<1> QED BY <1>4, <1>5, <1>6, <1>7, <1>8, <1>10 DEF IInv

LEMMA QuietSteps ==
    ASSUME IInv, NEW p \in SqliteProcs, UNCHANGED <<modifyVars, start, tool>>,
           \/ Lock(p) \/ ReadRepomd(p) \/ RemovedOld(p) \/ RemoveDir(p)
           \/ ExitCleanup(p) \/ GiveUp(p) \/ SqliteKilled(p)
    PROVE  IInv'
<1> DEFINE Goes(x) == /\ SRunning(p) /\ UNCHANGED <<dirVars, work>>
                      /\ spc' = [spc EXCEPT ![p] = x]
<1>1. \/ \E x \in {"rmdir", "exit done", "exit failed", "done", "failed", "killed"} : Goes(x)
      \/ \E x \in {"read", "generate"} : Goes(x) /\ spc[p] \in {"lock", "read"}
  <2>1. CASE Lock(p)
      BY <2>1 DEF Lock, SAt, SGoTo, SRunning
  <2>2. CASE ReadRepomd(p)
      BY <2>2 DEF ReadRepomd, SAt, SGoTo, SRunning
  <2>3. CASE RemovedOld(p)
    <3>1. spc' = [spc EXCEPT ![p] = "rmdir"] /\ SRunning(p) /\ UNCHANGED <<dirVars, work>>
        BY <2>3 DEF RemovedOld, SAt, SGoTo, SRunning
    <3> QED BY <3>1
  <2>4. CASE RemoveDir(p)
    <3>1. spc' = [spc EXCEPT ![p] = "exit done"] /\ SRunning(p) /\ UNCHANGED <<dirVars, work>>
        BY <2>4 DEF RemoveDir, SAt, SGoTo, SRunning
    <3> QED BY <3>1
  <2>5. CASE ExitCleanup(p)
    <3>1. /\ spc' = [spc EXCEPT ![p] = "done"] \/ spc' = [spc EXCEPT ![p] = "failed"]
          /\ SRunning(p) /\ UNCHANGED <<dirVars, work>>
        BY <2>5 DEF ExitCleanup, SAt, SGoTo, SRunning
    <3> QED BY <3>1
  <2>6. CASE GiveUp(p)
    <3>1. spc' = [spc EXCEPT ![p] = "exit failed"] /\ SRunning(p)
          /\ UNCHANGED <<dirVars, work>>
        BY <2>6 DEF GiveUp, Refuse, Busy, SGoTo, SRunning
    <3> QED BY <3>1
  <2>7. CASE SqliteKilled(p)
    <3>1. spc' = [spc EXCEPT ![p] = "killed"] /\ SRunning(p)
          /\ UNCHANGED <<dirVars, work>>
        BY <2>7 DEF SqliteKilled, SGoTo
    <3> QED BY <3>1
  <2> QED BY <2>1, <2>2, <2>3, <2>4, <2>5, <2>6, <2>7
<1>2. \A q \in SqliteProcs : RightNames(seen'[q])
  <2>1. CASE ReadRepomd(p)
      BY <2>1 DEF ReadRepomd, IInv, NamesRight
  <2>2. CASE UNCHANGED seen
      BY <2>2 DEF IInv, NamesRight
  <2> QED BY <2>1, <2>2 DEF Lock, RemovedOld, RemoveDir, ExitCleanup, GiveUp,
                            Refuse, SqliteKilled
<1>3. ASSUME NEW x \in {"rmdir", "exit done", "exit failed", "done", "failed", "killed"},
             Goes(x)
      PROVE  IInv'
    BY <1>2, <1>3, SqliteQuiet
<1>4. ASSUME NEW x \in {"read", "generate"}, Goes(x), spc[p] \in {"lock", "read"}
      PROVE  IInv'
    BY <1>2, <1>4, SqliteQuiet
<1> HIDE DEF Goes
<1> QED BY <1>1, <1>3, <1>4

LEMMA SqliteInductive ==
    ASSUME IInv, NEW p \in SqliteProcs, SqliteSteps(p),
           UNCHANGED <<modifyVars, start, tool>>
    PROVE  IInv'
BY QuietSteps, MakeStep, MoveDbStep, MoveRepomdStep, RemoveOldStep DEF SqliteSteps

-----------------------------------------------------------------------------
(* Starting, being killed, and the theorems.                               *)

LEMMA CallModifyStep ==
    ASSUME IInv, CallModify
    PROVE  IInv'
<1>0. PICK ks \in TaskLists : ModifyStarts(ks)
    BY DEF CallModify
<1>1. /\ mpc' = "parse" /\ tasks' = ks
      /\ todo' = <<>> /\ new' = <<>> /\ mem' = <<>>
      /\ UNCHANGED <<files, repomd>> /\ UNCHANGED sqliteVars
      /\ tool' = "modify" /\ start' = [files |-> files, repomd |-> repomd]
      /\ \A p \in SqliteProcs : ~SRunning(p)
    BY <1>0 DEF ModifyStarts, CallModify, Started, Idle, dirVars
<1>2. Control'
    BY <1>1 DEF IInv, Control, SRunning, sqliteVars
<1>3. GoesThrough' /\ NewOnes'
    BY <1>1 DEF GoesThrough, NewOnes
<1>4. Makes'
    BY <1>1 DEF IInv, Makes, NoWork, sqliteVars
<1>5. Removes'
    BY <1>1 DEF Removes, SRunning, sqliteVars
<1>6. NamesRight'
    BY <1>1 DEF IInv, NamesRight, RightNames, sqliteVars
<1>7. FilesSpared'
    BY <1>1 DEF FilesSpared, Spared, Same
<1> QED BY <1>2, <1>3, <1>4, <1>5, <1>6, <1>7 DEF IInv

LEMMA CallSqliteStep ==
    ASSUME IInv, NEW p \in SqliteProcs, CallSqlite(p)
    PROVE  IInv'
<1>0. PICK o \in SqliteOptions : SqliteStarts(p, o)
    BY DEF CallSqlite
<1>1. /\ spc[p] = "off" /\ spc' = [spc EXCEPT ![p] = "lock"]
      /\ UNCHANGED <<files, repomd, seen, work>> /\ UNCHANGED modifyVars
      /\ tool' = p /\ start' = [files |-> files, repomd |-> repomd]
      /\ ~Running /\ \A q \in SqliteProcs : ~SRunning(q)
    BY <1>0 DEF SqliteStarts, SAt, SGoTo, CallSqlite, Started, Idle, dirVars
<1>2. spc'[p] = "lock" /\ \A q \in SqliteProcs : q # p => spc'[q] = spc[q]
    BY <1>1 DEF IInv, Control
<1>3. Control'
    BY <1>1, <1>2 DEF IInv, Control, SRunning, Running, modifyVars
<1>4. GoesThrough' /\ NewOnes'
  <2>1. UNCHANGED <<mpc, tasks, todo, new, mem>> /\ AllCopies' = AllCopies
        /\ CopySet' = CopySet
      BY <1>1 DEF modifyVars, AllCopies, CopySet
  <2> QED BY <1>1, <2>1 DEF IInv, GoesThrough, NewOnes
<1>5. Makes'
  <2>1. \A q \in SqliteProcs :
           /\ spc'[q] \in {"off", "lock", "read", "generate"} => work[q] = NoWork
           /\ spc'[q] = "move" => DOMAIN work[q].records = DbTypes
    <3> TAKE q \in SqliteProcs
    <3>1. CASE q = p
        BY <1>1, <1>2, <3>1 DEF IInv, Makes
    <3>2. CASE q # p
        BY <1>2, <3>2 DEF IInv, Makes
    <3> QED BY <3>1, <3>2
  <2> QED BY SMTT(30), <1>1, <2>1 DEF IInv, Makes
<1>6. Removes'
  <2>1. \A q \in SqliteProcs : spc'[q] # "remove"
      BY <1>1, <1>2 DEF SRunning
  <2> QED BY <2>1 DEF Removes
<1>7. NamesRight'
    BY <1>1 DEF IInv, NamesRight, modifyVars
<1>8. FilesSpared'
    BY <1>1 DEF FilesSpared, Spared, Same
<1> QED BY <1>3, <1>4, <1>5, <1>6, <1>7, <1>8 DEF IInv

LEMMA KillStep ==
    ASSUME IInv, Kill
    PROVE  IInv'
<1>1. CASE ModifyKilled /\ UNCHANGED sqliteVars
  <2>1. /\ Running /\ mpc' = "killed"
        /\ UNCHANGED <<dirVars, tasks, todo, new, mem, sqliteVars, start, tool>>
      BY <1>1 DEF ModifyKilled, Ends, Kill
  <2> QED BY <2>1, ModifyGivesUp
<1>2. ASSUME NEW p \in SqliteProcs, SqliteKilled(p), UNCHANGED modifyVars
      PROVE  IInv'
  <2>1. UNCHANGED <<start, tool>>
      BY DEF Kill
  <2> QED BY <1>2, <2>1, QuietSteps
<1> QED BY <1>1, <1>2 DEF Kill

LEMMA StutterStep == ASSUME IInv, UNCHANGED vars PROVE IInv'
<1>1. /\ UNCHANGED <<files, repomd, mpc, tasks, todo, new, mem, spc, seen, work>>
      /\ UNCHANGED <<start, tool>>
    BY DEF vars, dirVars, modifyVars, sqliteVars
<1>2. Control'
    BY <1>1 DEF IInv, Control, Running, SRunning
<1>3. GoesThrough' /\ NewOnes'
  <2>1. AllCopies' = AllCopies /\ CopySet' = CopySet
      BY <1>1 DEF AllCopies, CopySet
  <2> QED BY <1>1, <2>1 DEF IInv, GoesThrough, NewOnes
<1>4. Makes' /\ Removes' /\ NamesRight'
  <2>1. Makes'
      BY <1>1 DEF IInv, Makes, NoWork
  <2>2. Removes'
      BY <1>1 DEF IInv, Removes
  <2>3. NamesRight'
      BY <1>1 DEF IInv, NamesRight
  <2> QED BY <2>1, <2>2, <2>3
<1>5. FilesSpared'
  <2>1. Touched' = Touched
      BY <1>1 DEF Touched, AllCopies
  <2> QED BY <1>1, <2>1 DEF IInv, FilesSpared, Spared, Same, InUse, StillWhole
<1> QED BY <1>2, <1>3, <1>4, <1>5 DEF IInv

LEMMA Inductive == ASSUME DatabasesByName, IInv, [Next]_vars PROVE IInv'
<1>1. CASE CallModify
    BY <1>1, CallModifyStep
<1>2. ASSUME NEW p \in SqliteProcs, CallSqlite(p) PROVE IInv'
    BY <1>2, CallSqliteStep
<1>3. CASE Kill
    BY <1>3, KillStep
<1>4. CASE Modify
    BY <1>4, ModifyInductive
<1>5. CASE Sqlite
  <2>1. PICK p \in SqliteProcs :
           SqliteSteps(p) /\ UNCHANGED <<modifyVars, calls, kills, start, tool>>
      BY <1>5 DEF Sqlite
  <2>2. UNCHANGED <<modifyVars, start, tool>>
      BY <2>1
  <2> QED BY <2>1, <2>2, SqliteInductive
<1>6. CASE UNCHANGED vars
    BY <1>6, StutterStep
<1> QED BY <1>1, <1>2, <1>3, <1>4, <1>5, <1>6 DEF Next

\* The invariant of two tools that change a repository one after the other.
THEOREM ToolsInvariance == ASSUME DatabasesByName PROVE Spec => []IInv
<1>1. Init => IInv
    BY InitIInv
<1>2. IInv /\ [Next]_vars => IInv'
    BY Inductive
<1> QED BY <1>1, <1>2, PTL DEF Spec

\* Undisturbed (RepoTools): for any repository, any tasks, any number of calls
\* of modifyrepo_c and sqliterepo_c and any kills, a record that the tool
\* leaves alone has at every moment the file it had, unless the tool writes a
\* file of that very name (cr_modifyrepo, move_results,
\* remove_old_if_different).
THEOREM ToolsDisturbNothing == ASSUME DatabasesByName PROVE Spec => []Undisturbed
<1>1. ASSUME IInv PROVE Undisturbed
  <2> SUFFICES ASSUME NEW t \in DOMAIN Now, WasKept(t), Now[t] = Before[t]
               PROVE  Kept(Now[t], files) \/ Now[t].href \in Touched
      BY DEF Undisturbed
  <2> DEFINE n == Now[t].href
  <2>1. n \in DOMAIN start.files /\ start.files[n] = Now[t].sum
      BY DEF WasKept, Kept, Has
  <2>2. InUse(n)
      BY DEF InUse, Now
  <2>3. Spared(n)
      BY <1>1, <2>1, <2>2 DEF IInv, FilesSpared
  <2> QED BY <2>1, <2>3 DEF Spared, Same, Kept, Has
<1>2. Spec => []IInv
    BY ToolsInvariance
<1> QED BY <1>1, <1>2, PTL

\* What the theorems about a success assume beside: no task with zchunk is
\* for the second type of another one.
ZcksApart(ks) ==
    \A i, j \in DOMAIN ks : ks[i].zck /\ ks[j].zck => ks[i].type # Zck(ks[j].type)
SecondTypesApart == \A ks \in TaskLists : ZcksApart(ks)

-----------------------------------------------------------------------------
(* What a tool removes.                                                    *)

\* What cr_modifyrepo has detached are records of the repository it started
\* from, all that its tasks name; each of them is still to be looked at, or its
\* file is gone or in use.
Detaches ==
    /\ mpc \in {"parse", "write", "copy", "rename", "move", "repomd"} => repomd.records = Before
    /\ mpc \in {"write", "copy"} => mem = Before
    /\ mpc \in {"rename", "move", "repomd"} =>
          /\ \A rec \in old : \E t \in DOMAIN Before : rec = Before[t]
          /\ \A t \in Named \cap DOMAIN Before : Before[t] \in old
    /\ tool = "modify" /\ mpc \in {"delete", "done"} =>
          /\ \A rec \in old : \E t \in DOMAIN Before : rec = Before[t]
          /\ \A t \in Named \cap DOMAIN Before :
                \/ Before[t] \in old
                \/ Before[t].href \notin DOMAIN files
                \/ Before[t].href \in UsedNow
          /\ DOMAIN start.files \ DOMAIN files \subseteq OldFiles \union Touched
          /\ mpc = "done" => old = {}

\* sqliterepo_c only adds files until repomd.xml is in place; then it removes
\* those of the databases that it has replaced and that have other names now.
MoveOut(p) ==
    /\ DbTypes \subseteq DOMAIN Now
    /\ \A n \in work[p].old : \E t \in DbTypes \cap DOMAIN Before :
          n = Before[t].href /\ Now[t].href # n
    /\ DOMAIN start.files \ DOMAIN files \subseteq OldFiles
    /\ (opts[p].keepOld \/ ~DbsExist(Before)) =>
          work[p].old = {} /\ DOMAIN start.files \subseteq DOMAIN files
    /\ ~(opts[p].keepOld \/ ~DbsExist(Before)) =>
          \A t \in DbTypes \cap DOMAIN Before :
             \/ Before[t].href \in work[p].old
             \/ Before[t].href \notin DOMAIN files
             \/ Before[t].href \in UsedNow
    /\ spc[p] # "remove" => work[p].old = {}

Replaces(p) ==
    /\ spc[p] \in {"lock", "read", "generate", "move"} =>
          repomd.records = Before /\ DOMAIN start.files \subseteq DOMAIN files
    /\ spc[p] \in {"generate", "move"} => seen[p] = Before
    /\ spc[p] \in {"remove", "rmdir", "exit done", "done"} => MoveOut(p)

RInv ==
    /\ Detaches
    /\ tool \in SqliteProcs => Replaces(tool)
    /\ DOMAIN seen = SqliteProcs

-----------------------------------------------------------------------------
(* All the records that the tasks name are detached.                       *)

IsGone(g, ts) ==
    g = [i \in 0 .. Len(tasks) |->
            IF i = 0 THEN {} ELSE g[i - 1] \union Replaced(tasks[i], ts \ g[i - 1])]

LEMMA AllReplacedDef == AllReplaced = (CHOOSE g : IsGone(g, DOMAIN mem))[Len(tasks)]
BY DEF AllReplaced, IsGone

LEMMA GoneExists ==
    ASSUME NEW ts, Len(tasks) \in Nat
    PROVE  IsGone(CHOOSE g : IsGone(g, ts), ts)
<1> DEFINE n == Len(tasks)
           Step(g, i) == IF i = 0 THEN {}
                         ELSE g[i - 1] \union Replaced(tasks[i], ts \ g[i - 1])
           Far(g, m) == /\ g = [i \in 0 .. n |-> g[i]]
                        /\ \A i \in 0 .. m : g[i] = Step(g, i)
           F == {m \in 0 .. n : \E g : Far(g, m)}
<1>1. 0 \in F
  <2> DEFINE g == [i \in 0 .. n |-> {}]
  <2>1. Far(g, 0)
      OBVIOUS
  <2>2. 0 \in 0 .. n
      OBVIOUS
  <2> HIDE DEF Far, g
  <2> QED BY <2>1, <2>2
<1>2. ASSUME NEW m \in 0 .. n - 1, m \in F
      PROVE  m + 1 \in F
  <2>1. PICK f : Far(f, m)
      BY <1>2
  <2> DEFINE g == [i \in 0 .. n |-> IF i = m + 1 THEN Step(f, i) ELSE f[i]]
  <2>2. ASSUME NEW i \in 0 .. m + 1
        PROVE  g[i] = Step(g, i)
    <3>1. i \in 0 .. n /\ (i # 0 => i - 1 \in 0 .. n /\ i - 1 # m + 1)
        BY <1>2
    <3>2. i # 0 => g[i - 1] = f[i - 1]
        BY <3>1
    <3>3. Step(g, i) = Step(f, i)
        BY <3>2
    <3>4. CASE i = m + 1
        BY <3>1, <3>3, <3>4
    <3>5. CASE i # m + 1
      <4>1. i \in 0 .. m
          BY <1>2, <3>5
      <4>2. f[i] = Step(f, i)
          BY <2>1, <4>1
      <4> QED BY <3>1, <3>3, <3>5, <4>2
    <3> QED BY <3>4, <3>5
  <2>3. g = [i \in 0 .. n |-> g[i]]
      OBVIOUS
  <2>4. Far(g, m + 1)
    <3> HIDE DEF g, Step
    <3> QED BY <2>2, <2>3
  <2>5. m + 1 \in 0 .. n
      BY <1>2
  <2> HIDE DEF g, Far
  <2> QED BY <2>4, <2>5
<1>3. n \in F
  <2> HIDE DEF F
  <2>1. n \in 0 .. n
      OBVIOUS
  <2> HIDE DEF n
  <2>2. n \in Nat
      BY DEF n
  <2> QED BY <1>1, <1>2, <2>1, <2>2, CountingUp
<1>4. PICK g : Far(g, n)
    BY <1>3
<1>5. IsGone(g, ts)
  <2>1. g = [i \in 0 .. n |-> g[i]] /\ \A i \in 0 .. n : g[i] = Step(g, i)
      BY <1>4
  <2> QED BY <2>1 DEF IsGone
<1> QED BY <1>5

LEMMA NamedReplaced ==
    ASSUME tasks \in Seq(Tasks), ZcksApart(tasks), DOMAIN mem = DOMAIN Before
    PROVE  AllReplaced = Named \cap DOMAIN Before
<1> DEFINE ts == DOMAIN mem
           n == Len(tasks)
           g == CHOOSE f : IsGone(f, ts)
           Types1(i) == {tasks[j].type : j \in 1 .. i}
           First1(i) == {Zck(tasks[j].type) :
                            j \in {k \in 1 .. i : tasks[k].zck /\ tasks[k].type \in ts /\ FirstOf(k)}}
           Right(i) == /\ g[i] \subseteq ts
                       /\ g[i] \subseteq Types1(i) \union First1(i)
                       /\ Types1(i) \cap ts \subseteq g[i]
                       /\ First1(i) \cap ts \subseteq g[i]
           F == {i \in 0 .. n : Right(i)}
<1>0. n \in Nat /\ DOMAIN tasks = 1 .. n
    OBVIOUS
<1>1. IsGone(g, ts)
  <2> HIDE DEF ts
  <2> QED BY <1>0, GoneExists
<1> HIDE DEF g
<1>2. /\ g[0] = {}
      /\ \A i \in 1 .. n : g[i] = g[i - 1] \union Replaced(tasks[i], ts \ g[i - 1])
  <2>1. \A i \in 0 .. n : g[i] = IF i = 0 THEN {}
                                 ELSE g[i - 1] \union Replaced(tasks[i], ts \ g[i - 1])
      BY <1>0, <1>1 DEF IsGone
  <2>2. 0 \in 0 .. n /\ \A i \in 1 .. n : i \in 0 .. n /\ i # 0
      BY <1>0
  <2> HIDE DEF n, ts
  <2> QED BY <2>1, <2>2
<1>3. 0 \in F
    BY <1>0, <1>2
<1>4. ASSUME NEW m \in 0 .. n - 1, m \in F
      PROVE  m + 1 \in F
  <2> DEFINE k == tasks[m + 1]
             left == ts \ g[m]
  <2>1. m + 1 \in 1 .. n /\ (m + 1) - 1 = m /\ m + 1 \in 0 .. n
      BY <1>0
  <2>2. g[m + 1] = g[m] \union Replaced(k, left)
    <3>1. g[m + 1] = g[(m + 1) - 1] \union Replaced(k, ts \ g[(m + 1) - 1])
        BY <1>2, <2>1
    <3> QED BY <2>1, <3>1
  <2>3. Right(m)
      BY <1>4
  <2>4. /\ Types1(m + 1) = Types1(m) \union {k.type}
        /\ First1(m + 1) = First1(m) \union
              (IF k.zck /\ k.type \in ts /\ FirstOf(m + 1) THEN {Zck(k.type)} ELSE {})
    <3>1. 1 .. m + 1 = (1 .. m) \union {m + 1} /\ m + 1 \notin 1 .. m
        OBVIOUS
    <3> QED BY <3>1
  <2>5. Replaced(k, left) \subseteq left \cap ({k.type} \union (IF k.zck THEN {Zck(k.type)} ELSE {}))
      BY DEF Replaced
  <2>6. k.type \in ts => k.type \in g[m + 1]
      BY <2>2 DEF Replaced
  <2>7. ASSUME k.zck, k.type \in ts, FirstOf(m + 1), Zck(k.type) \in ts
        PROVE  Zck(k.type) \in g[m + 1]
    <3>1. \A j \in 1 .. m : tasks[j].type # k.type
        BY <1>0, <2>1, <2>7 DEF FirstOf
    <3>2. \A j \in 1 .. m : tasks[j].zck => Zck(tasks[j].type) # k.type
      <4>1. \A j \in 1 .. m : j \in DOMAIN tasks
          BY <1>0
      <4>2. m + 1 \in DOMAIN tasks
          BY <1>0, <2>1
      <4> QED BY <2>7, <4>1, <4>2 DEF ZcksApart
    <3>3. k.type \notin Types1(m) \union First1(m)
      <4> HIDE DEF k
      <4> QED BY <3>1, <3>2
    <3>4. k.type \in left
        BY <2>3, <2>7, <3>3
    <3> HIDE DEF k
    <3> QED BY <2>2, <2>7, <3>4 DEF Replaced
  <2>8. ASSUME k.type \in left, k.zck PROVE FirstOf(m + 1)
    <3>1. \A j \in 1 .. m : tasks[j].type # k.type
        BY <2>3, <2>8
    <3>2. \A j \in 1 .. (m + 1) - 1 : tasks[j].type # tasks[m + 1].type
        BY <2>1, <3>1
    <3> QED BY <3>2 DEF FirstOf
  <2>9. Replaced(k, left) \subseteq {k.type} \union
              (IF k.zck /\ k.type \in ts /\ FirstOf(m + 1) THEN {Zck(k.type)} ELSE {})
    <3> HIDE DEF k
    <3> QED BY <2>8 DEF Replaced
  <2>10. Right(m + 1)
    <3> HIDE DEF Types1, First1, k
    <3>1. g[m + 1] \subseteq ts
        BY <2>2, <2>3, <2>5
    <3>2. g[m + 1] \subseteq Types1(m + 1) \union First1(m + 1)
        BY <2>2, <2>3, <2>4, <2>9
    <3>3. Types1(m + 1) \cap ts \subseteq g[m + 1]
        BY <2>2, <2>3, <2>4, <2>6
    <3>4. First1(m + 1) \cap ts \subseteq g[m + 1]
        BY <2>2, <2>3, <2>4, <2>7
    <3> QED BY <3>1, <3>2, <3>3, <3>4
  <2> HIDE DEF Right
  <2> QED BY <2>1, <2>10
<1>5. n \in F
  <2> HIDE DEF F, n
  <2>1. n \in 0 .. n
      BY <1>0
  <2> QED BY <1>0, <1>3, <1>4, <2>1, CountingUp
<1>6. AllReplaced = g[n]
    BY AllReplacedDef DEF g
<1>7. Named = Types1(n) \union First1(n)
    BY <1>0 DEF Named
<1>8. Right(n)
    BY <1>5
<1> HIDE DEF Types1, First1
<1> QED BY <1>6, <1>7, <1>8
-----------------------------------------------------------------------------
(* The steps of modifyrepo_c.                                              *)

\* Steps before the removals that leave the records alone.
LEMMA EarlyStep ==
    ASSUME IInv, RInv, Running, UNCHANGED <<sqliteVars, start, tool, tasks>>,
           mpc \in {"parse", "write", "copy", "rename", "move"},
           mpc' \in {"write", "copy", "rename", "move"},
           mpc' \in {"rename", "move"} <=> mpc \in {"rename", "move"},
           mpc' \in {"rename", "move"} => UNCHANGED old,
           UNCHANGED repomd, mpc = "parse" \/ UNCHANGED mem,
           mpc = "parse" => mem' = repomd.records
    PROVE  RInv'
<1>1. tool = "modify" /\ tool \notin SqliteProcs
  BY ModifyFrame, RepoToolsAssumption
<1>2. Before' = Before /\ Named' = Named
  BY DEF Before, Named, FirstOf
<1>3. Detaches'
  BY <1>2 DEF RInv, Detaches
<1> QED BY <1>1, <1>3 DEF RInv, sqliteVars

LEMMA FillRemoves ==
    ASSUME DatabasesByName, SecondTypesApart, IInv, RInv, FillAndDetach,
           UNCHANGED <<sqliteVars, start, tool>>
    PROVE  RInv'
<1>0. Running /\ mpc = "write"
  BY DEF FillAndDetach, Running
<1>1. tool = "modify" /\ tool \notin SqliteProcs
  BY <1>0, ModifyFrame, RepoToolsAssumption
<1>2. Before' = Before /\ Named' = Named
  BY DEF Before, Named, FirstOf, FillAndDetach
<1>3. mem = Before /\ repomd.records = Before
  BY <1>0 DEF RInv, Detaches
<1>4. tasks \in Seq(Tasks) /\ ZcksApart(tasks)
  <2>1. <<>> \in Seq(Tasks)
    OBVIOUS
  <2>2. TaskLists \subseteq Seq(Tasks)
    BY RepoToolsAssumption
  <2>3. ZcksApart(<<>>)
    BY DEF ZcksApart
  <2>4. tasks \in TaskLists \union {<<>>}
    BY DEF IInv, GoesThrough
  <2> QED BY <2>1, <2>2, <2>3, <2>4 DEF SecondTypesApart
<1>5. AllReplaced \subseteq DOMAIN Before /\ Named \cap DOMAIN Before \subseteq AllReplaced
  BY <1>3, <1>4, NamedReplaced
<1>6. mpc' = "rename" /\ old' = {Before[t] : t \in AllReplaced} /\ UNCHANGED repomd
  BY <1>3 DEF FillAndDetach, dirVars
<1>7. Detaches'
  BY <1>2, <1>3, <1>5, <1>6 DEF Detaches
<1> QED BY <1>1, <1>7 DEF RInv, sqliteVars

LEMMA WritesRemoves ==
    ASSUME IInv, RInv, TruncateRepomd \/ WriteRepomd, UNCHANGED <<sqliteVars, start, tool>>
    PROVE  RInv'
<1>0. Running /\ mpc \in {"rename", "repomd"}
  BY DEF TruncateRepomd, WriteRepomd, Running
<1>1. tool = "modify" /\ tool \notin SqliteProcs
  BY <1>0, ModifyFrame, RepoToolsAssumption
<1>2. Before' = Before /\ Named' = Named /\ UNCHANGED <<old, files, start>>
  BY DEF Before, Named, FirstOf, TruncateRepomd, WriteRepomd
<1>3. CASE TruncateRepomd
  <2>1. mpc' = "repomd" /\ repomd'.records = repomd.records
    <3>1. repomd = [whole |-> repomd.whole, revision |-> repomd.revision,
                    records |-> repomd.records]
      BY DEF IInv, Control
    <3>2. \A r : r = [whole |-> r.whole, revision |-> r.revision, records |-> r.records]
                   => [r EXCEPT !.whole = FALSE].records = r.records
      OBVIOUS
    <3> QED BY <1>3, <3>1, <3>2 DEF TruncateRepomd
  <2>2. mpc = "rename"
    BY <1>3 DEF TruncateRepomd
  <2>3. Detaches'
    BY <1>2, <2>1, <2>2 DEF RInv, Detaches
  <2> QED BY <1>1, <2>3 DEF RInv, sqliteVars
<1>4. CASE WriteRepomd
  <2>1. mpc' = "delete" /\ mpc = "repomd"
    BY <1>4 DEF WriteRepomd
  <2>2. /\ \A rec \in old : \E t \in DOMAIN Before : rec = Before[t]
        /\ \A t \in Named \cap DOMAIN Before : Before[t] \in old
    BY <2>1 DEF RInv, Detaches
  <2>3. UNCHANGED <<tasks, new>>
    BY <1>4 DEF WriteRepomd
  <2>4. Touched' = Touched
    BY <1>0, <2>3, ModifyTouches
  <2>5. DOMAIN start.files \ DOMAIN files \subseteq Touched
    BY <2>1, ModifyWhole DEF IInv, FilesSpared, Spared, Same
  <2>6. Detaches'
    BY <1>2, <2>1, <2>2, <2>4, <2>5 DEF Detaches
  <2> QED BY <1>1, <2>6 DEF RInv, sqliteVars
<1> QED BY <1>3, <1>4

LEMMA DeleteRemoves ==
    ASSUME IInv, RInv, Delete \/ ModifyEnds, UNCHANGED <<sqliteVars, start, tool>>
    PROVE  RInv'
<1>0. Running /\ mpc = "delete"
  BY DEF Delete, ModifyEnds, Running
<1>1. tool = "modify" /\ tool \notin SqliteProcs
  BY <1>0, ModifyFrame, RepoToolsAssumption
<1>2. /\ Before' = Before /\ Named' = Named /\ UNCHANGED <<start, repomd, tasks, new>>
      /\ mem = Now /\ Now' = Now /\ UsedNow' = UsedNow /\ OldFiles' = OldFiles
  BY <1>0 DEF Before, Named, FirstOf, Delete, ModifyEnds, Ends, dirVars, Now, UsedNow, OldFiles,
              Dropped, IInv, GoesThrough
<1>3. Touched' = Touched
  BY <1>0, <1>2, ModifyTouches
<1>4. /\ \A rec \in old : \E t \in DOMAIN Before : rec = Before[t]
      /\ \A t \in Named \cap DOMAIN Before :
            \/ Before[t] \in old
            \/ Before[t].href \notin DOMAIN files
            \/ Before[t].href \in UsedNow
      /\ DOMAIN start.files \ DOMAIN files \subseteq OldFiles \union Touched
  BY <1>0, <1>1 DEF RInv, Detaches
<1>5. ASSUME NEW rec \in old, DeleteOld(rec), old' = old \ {rec}, mpc' = mpc
      PROVE  RInv'
  <2>1. PICK t0 \in DOMAIN Before : rec = Before[t0]
    BY <1>4
  <2>2. CASE StillUsed(rec)
    <3>1. UNCHANGED files
      BY <1>5, <2>2 DEF DeleteOld
    <3>2. rec.href \in UsedNow
      BY <1>2, <2>2 DEF StillUsed, UsedNow
    <3>3. Detaches'
      BY <1>0, <1>2, <1>3, <1>4, <1>5, <3>1, <3>2 DEF Detaches
    <3> QED BY <1>1, <3>3 DEF RInv, sqliteVars
  <2>3. CASE ~StillUsed(rec)
    <3>1. DOMAIN files' = DOMAIN files \ {rec.href}
      BY <1>5, <2>3 DEF DeleteOld, Drop
    <3>2. rec.href \in DOMAIN files => rec.href \in OldFiles
      <4> SUFFICES ASSUME rec.href \in DOMAIN files PROVE rec.href \in OldFiles
        OBVIOUS
      <4>1. \A t \in DOMAIN Now : Now[t].href # rec.href
        BY <1>2, <2>3 DEF StillUsed, Has
      <4>2. t0 \in Dropped
        BY <2>1, <4>1 DEF Dropped
      <4> QED BY <2>1, <4>2 DEF OldFiles
    <3>3. DOMAIN start'.files \ DOMAIN files' \subseteq OldFiles' \union Touched'
      BY <1>2, <1>3, <1>4, <3>1, <3>2
    <3>4. \A t \in Named' \cap DOMAIN Before' :
            \/ Before'[t] \in old'
            \/ Before'[t].href \notin DOMAIN files'
            \/ Before'[t].href \in UsedNow'
      BY <1>2, <1>4, <1>5, <3>1
    <3>5. \A r \in old' : \E t \in DOMAIN Before' : r = Before'[t]
      BY <1>2, <1>4, <1>5
    <3>6. Detaches'
      BY <1>0, <1>5, <3>3, <3>4, <3>5 DEF Detaches
    <3> QED BY <1>1, <3>6 DEF RInv, sqliteVars
  <2> QED BY <2>2, <2>3
<1>6. CASE ModifyEnds
  <2>1. UNCHANGED <<files, old>> /\ old = {} /\ mpc' = "done"
    BY <1>6 DEF ModifyEnds, Ends, dirVars
  <2>2. Detaches'
    BY <1>2, <1>3, <1>4, <2>1 DEF Detaches
  <2> QED BY <1>1, <2>2 DEF RInv, sqliteVars
<1>7. CASE Delete
  BY <1>5, <1>7 DEF Delete
<1> QED BY <1>6, <1>7

\* What ends a modifyrepo_c without success.
LEMMA EndsRemoves ==
    ASSUME IInv, RInv, Running, mpc' \in {"failed", "killed"}, UNCHANGED <<sqliteVars, start, tool>>
    PROVE  RInv'
<1>1. tool = "modify" /\ tool \notin SqliteProcs
  BY ModifyFrame, RepoToolsAssumption
<1> QED BY <1>1 DEF RInv, Detaches, sqliteVars

LEMMA ModifyRemoves ==
    ASSUME DatabasesByName, SecondTypesApart, IInv, RInv, Modify
    PROVE  RInv'
<1>0. UNCHANGED <<sqliteVars, start, tool>>
  BY DEF Modify
<1>1. CASE ParseAndCheck
  <2>1. mpc = "parse" /\ Running /\ UNCHANGED <<repomd, tasks>>
    BY <1>1 DEF ParseAndCheck, Running, Ends, dirVars
  <2>2. CASE Checked
    BY <1>0, <1>1, <2>1, <2>2, EarlyStep DEF ParseAndCheck
  <2>3. CASE ~Checked
    BY <1>0, <1>1, <2>1, <2>3, EndsRemoves DEF ParseAndCheck, Ends
  <2> QED BY <2>2, <2>3
<1>2. CASE UseInPlace \/ BeginCopy \/ EndCopy
  <2>1. /\ mpc \in {"write", "copy"} /\ mpc' \in {"write", "copy"} /\ Running
        /\ UNCHANGED <<repomd, tasks, mem>>
    BY <1>2 DEF UseInPlace, BeginCopy, EndCopy, Running, dirVars
  <2> QED BY <1>0, <2>1, EarlyStep
<1>3. CASE SkipRename \/ ClearTarget \/ Move
  <2>1. /\ mpc \in {"rename", "move"} /\ mpc' \in {"rename", "move"} /\ Running
        /\ UNCHANGED <<repomd, tasks, mem, old>>
    BY <1>3 DEF SkipRename, ClearTarget, Move, Running, dirVars
  <2> QED BY <1>0, <2>1, EarlyStep
<1>4. CASE CopyFails \/ WriteRepomdFails
  BY <1>0, <1>4, EndsRemoves DEF CopyFails, WriteRepomdFails, Ends, Running
<1>5. CASE FillAndDetach
  BY <1>0, <1>5, FillRemoves
<1>6. CASE TruncateRepomd \/ WriteRepomd
  BY <1>0, <1>6, WritesRemoves
<1>7. CASE Delete \/ ModifyEnds
  BY <1>0, <1>7, DeleteRemoves
<1> QED BY <1>1, <1>2, <1>3, <1>4, <1>5, <1>6, <1>7 DEF Modify, ModifySteps

-----------------------------------------------------------------------------
(* The steps of sqliterepo_c.                                              *)

LEMMA SqliteStays ==
    ASSUME IInv, RInv, NEW p \in SqliteProcs, SRunning(p), NEW x,
           spc' = [spc EXCEPT ![p] = x], UNCHANGED <<modifyVars, start, tool>>,
           DOMAIN seen' = DOMAIN seen
    PROVE  /\ tool = p /\ Before' = Before /\ spc'[p] = x /\ Replaces(p)
           /\ Replaces(p)' => RInv'
<1>1. tool = p /\ tool # "modify" /\ ~Running /\ spc'[p] = x
  BY SqliteFrame
<1>2. mpc' = mpc /\ tool' = tool
  BY DEF modifyVars
<1>3. Detaches'
  BY <1>1, <1>2 DEF Detaches, Running
<1>4. Before' = Before
  BY DEF Before
<1> QED BY <1>1, <1>2, <1>3, <1>4 DEF RInv

LEMMA SeenStays ==
    ASSUME NEW p \in SqliteProcs, SqliteSteps(p) \/ SqliteKilled(p)
    PROVE  DOMAIN seen' = DOMAIN seen
<1>1. CASE ReadRepomd(p)
  BY <1>1 DEF ReadRepomd
<1>2. CASE ~ReadRepomd(p)
  <2>1. UNCHANGED seen
    BY <1>2 DEF SqliteSteps, SqliteKilled, Lock, Generate, GenerateDamaged, MoveDb, MoveRepomd,
                RemoveOld, RemovedOld, RemoveDir, ExitCleanup, GiveUp, Refuse
  <2> QED BY <2>1
<1> QED BY <1>1, <1>2

LEMMA MovesRemoves ==
    ASSUME IInv, RInv, NEW p \in SqliteProcs, MoveDb(p) \/ MoveRepomd(p),
           UNCHANGED <<modifyVars, start, tool>>
    PROVE  RInv'
<1>s. DOMAIN seen' = DOMAIN seen
  BY SeenStays DEF SqliteSteps
<1>0. SRunning(p) /\ spc[p] = "move"
  BY DEF MoveDb, MoveRepomd, SAt, SRunning
<1>1. CASE MoveDb(p)
  <2>1. spc' = [spc EXCEPT ![p] = "move"]
    <3>1. spc = [q \in SqliteProcs |-> spc[q]]
      BY DEF IInv, Control
    <3> QED BY <1>0, <1>1, <3>1 DEF MoveDb
  <2>2. /\ tool = p /\ Before' = Before /\ spc'[p] = "move" /\ Replaces(p)
        /\ Replaces(p)' => RInv'
    BY <1>0, <2>1, <1>s, SqliteStays
  <2>3. repomd' = repomd /\ seen' = seen /\ DOMAIN files \subseteq DOMAIN files'
    BY <1>1 DEF MoveDb, Put
  <2>4. Replaces(p)'
    BY <1>0, <2>2, <2>3 DEF Replaces
  <2> QED BY <2>2, <2>4
<1>2. CASE MoveRepomd(p)
  <2>1. spc' = [spc EXCEPT ![p] = "remove"]
    BY <1>2 DEF MoveRepomd, SGoTo
  <2>2. /\ tool = p /\ Before' = Before /\ spc'[p] = "remove" /\ Replaces(p)
        /\ Replaces(p)' => RInv'
    BY <1>0, <2>1, <1>s, SqliteStays
  <2>3. /\ repomd.records = Before /\ DOMAIN start.files \subseteq DOMAIN files
        /\ seen[p] = Before
    BY <1>0, <2>2 DEF Replaces
  <2>4. /\ files' = files /\ opts' = opts /\ start' = start
        /\ Now' = NewRecords(p)
    BY <1>2 DEF MoveRepomd, Now
  <2>5. work'[p].old = OldDbs(p)
    <3>1. work' = [work EXCEPT ![p] = [files |-> work[p].files, records |-> work[p].records,
                                       old |-> OldDbs(p), damaged |-> work[p].damaged]]
      BY <1>2, WorkField DEF MoveRepomd
    <3>2. p \in DOMAIN work
      BY DEF IInv, Makes
    <3> QED BY <3>1, <3>2
  <2>6. /\ DOMAIN Now' = DOMAIN Before \union DbTypes
        /\ \A t \in DbTypes : Now'[t] = work[p].records[t]
    BY <2>3, <2>4 DEF NewRecords
  <2>7. OldDbs(p) = IF DbsExist(Before) /\ ~opts[p].keepOld
                      THEN {Before[t].href : t \in DbTypes \cap DOMAIN Before}
                             \ {work[p].records[t].href : t \in DbTypes}
                      ELSE {}
    BY <2>3 DEF OldDbs
  <2>8. MoveOut(p)'
    <3>1. \A n \in work'[p].old : \E t \in DbTypes \cap DOMAIN Before' :
            n = Before'[t].href /\ Now'[t].href # n
      BY <2>2, <2>5, <2>6, <2>7
    <3>2. \A t \in DbTypes : work[p].records[t].href \in UsedNow'
      BY <2>6 DEF UsedNow
    <3>3. ~(opts'[p].keepOld \/ ~DbsExist(Before')) =>
             \A t \in DbTypes \cap DOMAIN Before' :
                \/ Before'[t].href \in work'[p].old
                \/ Before'[t].href \notin DOMAIN files'
                \/ Before'[t].href \in UsedNow'
      BY <2>2, <2>4, <2>5, <2>7, <3>2
    <3>4. (opts'[p].keepOld \/ ~DbsExist(Before')) =>
            work'[p].old = {} /\ DOMAIN start'.files \subseteq DOMAIN files'
      BY <2>2, <2>3, <2>4, <2>5, <2>7
    <3>5. DOMAIN start'.files \ DOMAIN files' \subseteq OldFiles'
      BY <2>3, <2>4
    <3>6. DbTypes \subseteq DOMAIN Now'
      BY <2>6
    <3> QED BY <2>2, <3>1, <3>3, <3>4, <3>5, <3>6 DEF MoveOut
  <2>9. Replaces(p)'
    BY <2>2, <2>8 DEF Replaces
  <2> QED BY <2>2, <2>9
<1> QED BY <1>1, <1>2

LEMMA RemovesRemoves ==
    ASSUME IInv, RInv, NEW p \in SqliteProcs, RemoveOld(p),
           UNCHANGED <<modifyVars, start, tool>>
    PROVE  RInv'
<1>s. DOMAIN seen' = DOMAIN seen
  BY SeenStays DEF SqliteSteps
<1>0. SRunning(p) /\ spc[p] = "remove"
  BY DEF RemoveOld, SAt, SRunning
<1>1. PICK n \in work[p].old :
         /\ files' = Drop(files, {n})
         /\ work' = [work EXCEPT ![p].old = @ \ {n}]
         /\ IF Has(files, n) THEN UNCHANGED spc ELSE SGoTo(p, "exit failed")
  BY DEF RemoveOld
<1> DEFINE x == IF Has(files, n) THEN "remove" ELSE "exit failed"
<1>2. spc' = [spc EXCEPT ![p] = x]
  <2>1. spc = [q \in SqliteProcs |-> spc[q]]
    BY DEF IInv, Control
  <2> QED BY <1>0, <1>1, <2>1 DEF SGoTo
<1>3. /\ tool = p /\ Before' = Before /\ spc'[p] = x /\ Replaces(p)
      /\ Replaces(p)' => RInv'
  BY <1>0, <1>2, <1>s, SqliteStays
<1>4. MoveOut(p)
  BY <1>0, <1>3 DEF Replaces
<1>5. /\ repomd' = repomd /\ opts' = opts /\ start' = start /\ Now' = Now
      /\ DOMAIN files' = DOMAIN files \ {n}
      /\ UsedNow' = UsedNow /\ OldFiles' = OldFiles
  <2>1. repomd' = repomd /\ opts' = opts /\ start' = start
    BY DEF RemoveOld
  <2>2. DOMAIN files' = DOMAIN files \ {n}
    BY <1>1 DEF Drop
  <2> QED BY <2>1, <2>2 DEF Now, UsedNow, OldFiles, Dropped, Before
<1>6. work'[p].old = work[p].old \ {n}
  <2>1. work' = [work EXCEPT ![p] = [files |-> work[p].files, records |-> work[p].records,
                                     old |-> work[p].old \ {n}, damaged |-> work[p].damaged]]
    <3>1. [work EXCEPT ![p].old = @ \ {n}] = [work EXCEPT ![p].old = work[p].old \ {n}]
      OBVIOUS
    <3> QED BY <1>1, <3>1, WorkField
  <2>2. p \in DOMAIN work
    BY DEF IInv, Makes
  <2> QED BY <2>1, <2>2
<1>7. n \in OldFiles
  <2>1. PICK t \in DbTypes \cap DOMAIN Before : n = Before[t].href /\ Now[t].href # n
    BY <1>4 DEF MoveOut
  <2>2. t \in Dropped
    BY <2>1 DEF Dropped
  <2> QED BY <2>1, <2>2 DEF OldFiles
<1>8. CASE x = "remove"
  <2>1. MoveOut(p)'
    <3>1. ~(opts[p].keepOld \/ ~DbsExist(Before))
      BY <1>4 DEF MoveOut
    <3>2. DOMAIN start'.files \ DOMAIN files' \subseteq OldFiles'
      BY <1>4, <1>5, <1>7 DEF MoveOut
    <3>3. \A t \in DbTypes \cap DOMAIN Before' :
                \/ Before'[t].href \in work'[p].old
                \/ Before'[t].href \notin DOMAIN files'
                \/ Before'[t].href \in UsedNow'
      BY <1>3, <1>4, <1>5, <1>6, <3>1 DEF MoveOut
    <3>4. \A m \in work'[p].old : \E t \in DbTypes \cap DOMAIN Before' :
            m = Before'[t].href /\ Now'[t].href # m
      BY <1>3, <1>4, <1>5, <1>6 DEF MoveOut
    <3>5. DbTypes \subseteq DOMAIN Now'
      BY <1>4, <1>5 DEF MoveOut
    <3> QED BY <1>3, <1>5, <1>8, <3>1, <3>2, <3>3, <3>4, <3>5 DEF MoveOut
  <2> QED BY <1>3, <1>8, <2>1 DEF Replaces
<1>9. CASE x # "remove"
  <2>1. spc'[p] = "exit failed"
    BY <1>3, <1>9
  <2> QED BY <1>3, <2>1 DEF Replaces
<1> HIDE DEF x
<1> QED BY <1>8, <1>9

\* The other steps, which leave the directory and the work alone, and the
\* making of the databases.
LEMMA OthersRemove ==
    ASSUME IInv, RInv, NEW p \in SqliteProcs, UNCHANGED <<modifyVars, start, tool>>,
           \/ Lock(p) \/ ReadRepomd(p) \/ Generate(p) \/ GenerateDamaged(p)
           \/ RemovedOld(p) \/ RemoveDir(p) \/ ExitCleanup(p) \/ GiveUp(p) \/ SqliteKilled(p)
    PROVE  RInv'
<1>s. DOMAIN seen' = DOMAIN seen
  BY SeenStays DEF SqliteSteps
<1>1. CASE Lock(p)
  <2>1. PICK x \in {"read", "failed"} : spc' = [spc EXCEPT ![p] = x]
    BY <1>1 DEF Lock, SGoTo
  <2>2. SRunning(p) /\ spc[p] = "lock" /\ UNCHANGED <<files, repomd, seen, start>>
    BY <1>1 DEF Lock, SAt, SRunning, dirVars
  <2>3. Before' = Before /\ spc'[p] = x /\ Replaces(p) /\ (Replaces(p)' => RInv')
    BY <2>1, <2>2, <1>s, SqliteStays
  <2>4. Replaces(p)'
    BY <2>2, <2>3 DEF Replaces
  <2> QED BY <2>3, <2>4
<1>2. CASE ReadRepomd(p)
  <2>1. spc' = [spc EXCEPT ![p] = "generate"]
    BY <1>2 DEF ReadRepomd, SGoTo
  <2>2. SRunning(p) /\ spc[p] = "read" /\ UNCHANGED <<files, repomd, start>>
    BY <1>2 DEF ReadRepomd, SAt, SRunning, dirVars
  <2>3. Before' = Before /\ spc'[p] = "generate" /\ Replaces(p) /\ (Replaces(p)' => RInv')
    BY <2>1, <2>2, <1>s, SqliteStays
  <2>4. seen'[p] = repomd.records
    <3>1. seen' = [seen EXCEPT ![p] = repomd.records]
      BY <1>2 DEF ReadRepomd
    <3>2. DOMAIN seen = SqliteProcs
      BY DEF RInv
    <3> QED BY <3>1, <3>2
  <2>5. Replaces(p)'
    BY <2>2, <2>3, <2>4 DEF Replaces
  <2> QED BY <2>3, <2>5
<1>3. CASE Generate(p) \/ GenerateDamaged(p)
  <2>1. spc' = [spc EXCEPT ![p] = "move"]
    BY <1>3 DEF Generate, GenerateDamaged, SGoTo
  <2>2. SRunning(p) /\ spc[p] = "generate" /\ UNCHANGED <<files, repomd, seen, start>>
    BY <1>3 DEF Generate, GenerateDamaged, SAt, SRunning, dirVars
  <2>3. Before' = Before /\ spc'[p] = "move" /\ Replaces(p) /\ (Replaces(p)' => RInv')
    BY <2>1, <2>2, <1>s, SqliteStays
  <2>4. Replaces(p)'
    BY <2>2, <2>3 DEF Replaces
  <2> QED BY <2>3, <2>4
<1>4. CASE RemovedOld(p) \/ RemoveDir(p) \/ (ExitCleanup(p) /\ SAt(p, "exit done"))
  <2>1. PICK x \in {"rmdir", "exit done", "done"} : spc' = [spc EXCEPT ![p] = x]
    BY <1>4 DEF RemovedOld, RemoveDir, ExitCleanup, SGoTo, SAt
  <2>2. /\ SRunning(p) /\ spc[p] \in {"remove", "rmdir", "exit done"}
        /\ UNCHANGED <<files, repomd, opts, work, start>>
        /\ work[p].old = {} \/ spc[p] # "remove"
    BY <1>4 DEF RemovedOld, RemoveDir, ExitCleanup, SAt, SRunning, dirVars
  <2>3. Before' = Before /\ spc'[p] = x /\ Replaces(p) /\ (Replaces(p)' => RInv')
    BY <2>1, <2>2, <1>s, SqliteStays
  <2>4. MoveOut(p)
    BY <2>2, <2>3 DEF Replaces
  <2>5. UsedNow' = UsedNow /\ OldFiles' = OldFiles /\ Now' = Now
    BY <2>2 DEF UsedNow, OldFiles, Dropped, Before, Now
  <2>6. MoveOut(p)'
    BY <2>2, <2>3, <2>4, <2>5 DEF MoveOut
  <2>7. Replaces(p)'
    BY <2>3, <2>6 DEF Replaces
  <2> QED BY <2>3, <2>7
<1>5. CASE (ExitCleanup(p) /\ ~SAt(p, "exit done")) \/ GiveUp(p) \/ SqliteKilled(p)
  <2>1. PICK x \in {"failed", "exit failed", "killed"} : spc' = [spc EXCEPT ![p] = x]
    BY <1>5 DEF ExitCleanup, GiveUp, Refuse, SqliteKilled, SGoTo
  <2>2. SRunning(p)
    BY <1>5 DEF ExitCleanup, GiveUp, SqliteKilled, SAt, SRunning, Busy
  <2>3. spc'[p] = x /\ (Replaces(p)' => RInv')
    BY <2>1, <2>2, <1>s, SqliteStays
  <2> QED BY <2>3 DEF Replaces
<1> QED BY <1>1, <1>2, <1>3, <1>4, <1>5

-----------------------------------------------------------------------------
(* Calls, kills, and the theorem.                                          *)

LEMMA CallsRemove ==
    ASSUME IInv, RInv, CallModify \/ \E p \in SqliteProcs : CallSqlite(p)
    PROVE  RInv'
<1>0. /\ ~Running /\ start' = [files |-> files, repomd |-> repomd] /\ UNCHANGED dirVars
      /\ Before' = repomd.records
  BY DEF CallModify, CallSqlite, Started, Idle, ModifyStarts, SqliteStarts, Before
<1>1. CASE CallModify
  <2>1. mpc' = "parse" /\ tool' = "modify" /\ UNCHANGED seen
    BY <1>1 DEF CallModify, ModifyStarts, Started, sqliteVars
  <2>2. tool' \notin SqliteProcs
    BY <2>1, RepoToolsAssumption
  <2>3. Detaches'
    BY <1>0, <2>1 DEF Detaches, dirVars
  <2> QED BY <2>1, <2>2, <2>3 DEF RInv
<1>2. ASSUME NEW p \in SqliteProcs, CallSqlite(p) PROVE RInv'
  <2>1. /\ tool' = p /\ mpc' = mpc /\ seen' = seen
        /\ spc' = [spc EXCEPT ![p] = "lock"]
    BY <1>2 DEF CallSqlite, Started, SqliteStarts, SGoTo, modifyVars
  <2>2. spc'[p] = "lock"
    <3>1. spc = [q \in SqliteProcs |-> spc[q]]
      BY DEF IInv, Control
    <3> QED BY <2>1, <3>1
  <2>3. tool' # "modify"
    BY <2>1, RepoToolsAssumption
  <2>4. Detaches'
    BY <1>0, <2>1, <2>3 DEF Detaches, Running
  <2>5. Replaces(p)'
    BY <1>0, <2>2 DEF Replaces, dirVars
  <2> QED BY <2>1, <2>4, <2>5 DEF RInv
<1> QED BY <1>1, <1>2

LEMMA KillRemoves ==
    ASSUME IInv, RInv, Kill
    PROVE  RInv'
<1>0. UNCHANGED <<start, tool>>
  BY DEF Kill
<1>1. CASE ModifyKilled /\ UNCHANGED sqliteVars
  BY <1>0, <1>1, EndsRemoves DEF ModifyKilled, Ends
<1>2. ASSUME NEW p \in SqliteProcs, SqliteKilled(p), UNCHANGED modifyVars
      PROVE  RInv'
  BY <1>0, <1>2, OthersRemove
<1> QED BY <1>1, <1>2 DEF Kill

LEMMA StutterRemoves == ASSUME RInv, UNCHANGED vars PROVE RInv'
<1>1. UNCHANGED <<files, repomd, mpc, tasks, new, mem, old, spc, opts, seen, work, start, tool>>
  BY DEF vars, dirVars, modifyVars, sqliteVars
<1>2. Before' = Before /\ Now' = Now /\ Named' = Named /\ UsedNow' = UsedNow /\ OldFiles' = OldFiles
  BY <1>1 DEF Before, Now, Named, FirstOf, UsedNow, OldFiles, Dropped
<1>3. Touched' = Touched
  BY <1>1 DEF Touched, AllCopies
<1>4. Detaches'
  BY <1>1, <1>2, <1>3 DEF RInv, Detaches
<1>5. ASSUME tool \in SqliteProcs PROVE Replaces(tool)'
  <2>1. Replaces(tool)
    BY <1>5 DEF RInv
  <2>2. MoveOut(tool) => MoveOut(tool)'
    BY <1>1, <1>2 DEF MoveOut
  <2> QED BY <1>1, <1>2, <2>1, <2>2 DEF Replaces
<1> QED BY <1>1, <1>4, <1>5 DEF RInv

LEMMA InductiveRemoves ==
    ASSUME DatabasesByName, SecondTypesApart, IInv, RInv, [Next]_vars
    PROVE  RInv'
<1>1. CASE CallModify \/ \E p \in SqliteProcs : CallSqlite(p)
  BY <1>1, CallsRemove
<1>2. CASE Kill
  BY <1>2, KillRemoves
<1>3. CASE Modify
  BY <1>3, ModifyRemoves
<1>4. CASE Sqlite
  <2>1. PICK p \in SqliteProcs :
           SqliteSteps(p) /\ UNCHANGED <<modifyVars, calls, kills, start, tool>>
    BY <1>4 DEF Sqlite
  <2>2. UNCHANGED <<modifyVars, start, tool>>
    BY <2>1
  <2>3. CASE MoveDb(p) \/ MoveRepomd(p)
    BY <2>2, <2>3, MovesRemoves
  <2>4. CASE RemoveOld(p)
    BY <2>2, <2>4, RemovesRemoves
  <2>5. CASE ~(MoveDb(p) \/ MoveRepomd(p) \/ RemoveOld(p))
    BY <2>1, <2>2, <2>5, OthersRemove DEF SqliteSteps
  <2> QED BY <2>3, <2>4, <2>5
<1>5. CASE UNCHANGED vars
  BY <1>5, StutterRemoves
<1> QED BY <1>1, <1>2, <1>3, <1>4, <1>5 DEF Next

\* The invariant of what the two tools remove.
THEOREM RemovalInvariance ==
    ASSUME DatabasesByName, SecondTypesApart PROVE Spec => []RInv
<1>1. Init => RInv
  <2> SUFFICES ASSUME Init PROVE RInv
    OBVIOUS
  <2>1. mpc = "off" /\ tool = Nobody /\ DOMAIN seen = SqliteProcs
    BY DEF Init, ModifyInit, SqliteInit
  <2>2. tool \notin SqliteProcs
    BY <2>1, RepoToolsAssumption
  <2> QED BY <2>1, <2>2 DEF RInv, Detaches
<1>2. IInv /\ RInv /\ [Next]_vars => RInv'
  BY InductiveRemoves
<1> QED BY <1>1, <1>2, ToolsInvariance, PTL DEF Spec

\* OnlyReplacedGo (RepoTools): for any repository, any tasks, any number of
\* calls and any kills before, a tool that ends with success has removed the
\* files of the records it has replaced, unless they are still in use or were
\* to be kept, and no other file.
THEOREM ToolsRemoveOnlyReplaced ==
    ASSUME DatabasesByName, SecondTypesApart PROVE Spec => []OnlyReplacedGo
<1>1. ASSUME IInv, RInv PROVE OnlyReplacedGo
  <2> SUFFICES ASSUME Succeeded PROVE OnlyReplacedGo
    BY DEF OnlyReplacedGo
  <2>1. CASE tool = "modify"
    <3>1. mpc = "done" /\ ~KeepsOld
      BY <2>1 DEF Succeeded, KeepsOld
    <3>2. /\ \A t \in Named \cap DOMAIN Before :
                \/ Before[t].href \notin DOMAIN files
                \/ Before[t].href \in UsedNow
          /\ DOMAIN start.files \ DOMAIN files \subseteq OldFiles \union Touched
      BY <1>1, <2>1, <3>1 DEF RInv, Detaches
    <3>3. Detached \subseteq Named \cap DOMAIN Before
      BY <2>1 DEF Detached, Dropped
    <3> QED BY <3>1, <3>2, <3>3 DEF OnlyReplacedGo
  <2>2. CASE tool # "modify"
    <3>1. tool \in SqliteProcs /\ spc[tool] = "done"
      BY <1>1, <2>2 DEF Succeeded, IInv, Control
    <3>2. MoveOut(tool) /\ work[tool].old = {}
      BY <1>1, <3>1 DEF RInv, Replaces, MoveOut
    <3>3. KeepsOld <=> opts[tool].keepOld \/ ~DbsExist(Before)
      BY <2>2 DEF KeepsOld
    <3>4. Detached \subseteq DbTypes \cap DOMAIN Before
      BY <2>2 DEF Detached, Dropped
    <3> QED BY <3>2, <3>3, <3>4 DEF OnlyReplacedGo, MoveOut
  <2> QED BY <2>1, <2>2
<1>2. Spec => []IInv
  BY ToolsInvariance
<1>3. Spec => []RInv
  BY RemovalInvariance
<1> QED BY <1>1, <1>2, <1>3, PTL

-----------------------------------------------------------------------------
(* What a tool has done when it ends with success.                         *)

\* When is a record as it should be: its file is there, or was not before.
WithFiles(recs) ==
    \A t \in DOMAIN recs :
       \/ Kept(recs[t], files)
       \/ t \in DOMAIN Before /\ recs[t] = Before[t] /\ ~WasKept(t)

AsAsked(recs) ==
    /\ DOMAIN recs = (DOMAIN Before \ Named) \union Added
    /\ \A t \in DOMAIN recs :
          IF t \in Added THEN recs[t].sum = Meant(LastAdded(t)) ELSE recs[t] = Before[t]

\* The sources are those that were there, and copies are made in their order.
Here(n, c)  == n \in DOMAIN files /\ files[n] = c
Written     == Len(AllCopies) - Len(todo)
SourcesThere == \A c \in CopySet : Outside(c.task) \/ c.task.path \in DOMAIN start.files
Overwritten(n, m) == \E i \in 1 .. m : n = CopyName(AllCopies[i]) /\ ~InPlace(AllCopies[i])
Copied ==
    /\ Written \in 0 .. Len(AllCopies)
    /\ todo = [j \in 1 .. Len(todo) |-> AllCopies[Written + j]]
    /\ \A i \in 1 .. Written : Here(CopyName(AllCopies[i]), Meant(AllCopies[i]))
    /\ mpc = "copy" => ~InPlace(AllCopies[Written + 1])
    /\ \A n \in DOMAIN start.files :
          Same(n) \/ Overwritten(n, IF mpc = "copy" THEN Written + 1 ELSE Written)

\* Every new record has its file, and so have those that stay.
Staying(t) == t \in DOMAIN Before /\ \A j \in DOMAIN tasks : tasks[j].type # t
NewKept ==
    /\ DOMAIN new = DOMAIN AllCopies
    /\ \A i \in DOMAIN new :
          /\ new[i].unique = AllCopies[i].task.unique
          /\ new[i].rec.sum = Meant(AllCopies[i])
          /\ new[i].rec.href \in Takes(AllCopies[i])
          /\ Kept(new[i].rec, files)
    /\ mpc = "move" => Next1.unique /\ NeedsRename(Next1.rec)
    /\ \A t \in DOMAIN Before :
          Staying(t) /\ WasKept(t) =>
             \/ Kept(Before[t], files)
             \/ mpc = "move" /\ Before[t].href = UniqueName(Next1.rec)

AfterParse == {"write", "copy", "rename", "move", "repomd", "delete", "done"}
ModifyAsks ==
    /\ mpc \in {"write", "copy"} => SourcesThere /\ Copied
    /\ mpc \in {"rename", "move"} =>
          /\ NewKept
          /\ DOMAIN mem = DOMAIN Before \ Named
          /\ \A t \in DOMAIN mem : mem[t] = Before[t]
    /\ mpc = "repomd" => AsAsked(mem) /\ WithFiles(mem)
    /\ mpc \in {"delete", "done"} => AsAsked(Now) /\ WithFiles(Now)

\* What the databases say while they are moved, and in the end.
XmlThere == \A t \in DbTypes : \A n \in Xml(Before, t) : Has(files, n)
Kept0 == \A t \in DOMAIN Before \ DbTypes : WasKept(t) => Kept(Before[t], files)
Moving(p) ==
    \A t \in DbTypes :
       /\ work[p].records[t].href.base = t
       /\ work[p].records[t].sum = Db(Before, t)
       /\ IF work[p].records[t].href \in DOMAIN work[p].files
            THEN work[p].files[work[p].records[t].href] = t
            ELSE Kept(work[p].records[t], files)
Moved ==
    /\ DOMAIN Now = DOMAIN Before \union DbTypes
    /\ \A t \in DOMAIN Now :
          IF t \in DbTypes THEN Now[t].sum = Db(Now, t) /\ Kept(Now[t], files)
                           ELSE Now[t] = Before[t]
SqliteAsks(p) ==
    /\ spc[p] \in {"lock", "read", "generate"} => files = start.files
    /\ spc[p] \in {"move", "remove", "rmdir", "exit done", "done"} /\ ~work[p].damaged =>
          /\ XmlThere /\ Kept0
          /\ IF spc[p] = "move" THEN Moving(p) ELSE Moved

DoneInv ==
    /\ tool = "modify" /\ mpc = "parse" => files = start.files
    /\ tool = "modify" /\ mpc \in AfterParse /\ ~Clash => ModifyAsks
    /\ tool \in SqliteProcs => SqliteAsks(tool)

-----------------------------------------------------------------------------
LEMMA CopyOf ==
    ASSUME tasks \in TaskLists \union {<<>>}
    PROVE  \A c \in CopySet : \E i \in DOMAIN tasks : c.task = tasks[i] /\ ~tasks[i].remove
<1> DEFINE C == UNION {{Copies(tasks[i])[j] : j \in DOMAIN Copies(tasks[i])} :
                          i \in DOMAIN tasks}
           L == [i \in DOMAIN tasks |-> Copies(tasks[i])]
<1>1. tasks \in Seq(Tasks)
  <2>1. <<>> \in Seq(Tasks)
      OBVIOUS
  <2>2. TaskLists \subseteq Seq(Tasks)
      BY RepoToolsAssumption
  <2> QED BY <2>1, <2>2
<1>2. \A i \in DOMAIN tasks : tasks[i] \in Tasks
    BY <1>1
<1>3. \A i \in DOMAIN tasks : Copies(tasks[i]) \in Seq(C)
  <2> TAKE i \in DOMAIN tasks
  <2>1. {Copies(tasks[i])[j] : j \in DOMAIN Copies(tasks[i])} \subseteq C
      OBVIOUS
  <2>2. Copies(tasks[i]) \in Seq({Copies(tasks[i])[j] : j \in DOMAIN Copies(tasks[i])})
      BY <1>2, CopiesType
  <2> HIDE DEF C
  <2> QED BY <2>1, <2>2
<1>4. CopySet \subseteq C
  <2> HIDE DEF C
  <2>1. L \in Seq(Seq(C))
      BY <1>1, <1>3
  <2>2. FlattenSeq(L) \in Seq(C)
      BY <2>1, FlattenType
  <2> QED BY <2>2 DEF AllCopies, CopySet
<1>5. ASSUME NEW c \in C
      PROVE  \E i \in DOMAIN tasks : c.task = tasks[i] /\ ~tasks[i].remove
  <2>1. PICK i \in DOMAIN tasks : \E j \in DOMAIN Copies(tasks[i]) : c = Copies(tasks[i])[j]
      OBVIOUS
  <2>2. PICK j \in DOMAIN Copies(tasks[i]) : c = Copies(tasks[i])[j]
      BY <2>1
  <2>3. c = [task |-> tasks[i], type |-> c.type, sfx |-> c.sfx]
      BY <1>2, <2>2, CopiesType
  <2>4. ~tasks[i].remove
    <3>1. tasks[i].remove => Copies(tasks[i]) = <<>> \o <<>>
        BY DEF Copies
    <3>2. DOMAIN (<<>> \o <<>>) = {}
        OBVIOUS
    <3> HIDE DEF Copies
    <3> QED BY <2>2, <3>1, <3>2
  <2> QED BY <2>3, <2>4
<1> QED BY <1>4, <1>5

LEMMA Apart ==
    ASSUME tool = "modify", ~Clash
    PROVE  /\ \A i, j \in DOMAIN AllCopies :
                 i # j => Takes(AllCopies[i]) \cap Takes(AllCopies[j]) = {}
           /\ \A i, j \in DOMAIN AllCopies :
                 i < j /\ ~InPlace(AllCopies[i]) /\ ~Outside(AllCopies[j].task)
                    => AllCopies[j].task.path # CopyName(AllCopies[i])
           /\ \A i \in DOMAIN AllCopies, t \in DOMAIN Before :
                 Staying(t) /\ Before[t].href \in Takes(AllCopies[i]) =>
                    /\ Before[t].href # CopyName(AllCopies[i])
                    /\ Before[t].sum = Meant(AllCopies[i])
           /\ \A i, j \in DOMAIN AllCopies :
                 CopyName(AllCopies[i]) = CopyName(AllCopies[j]) => i = j
BY DEF Clash, Staying, Takes

LEMMA TodoIs ==
    ASSUME AllCopies \in Seq(CopySet), todo \in Seq(CopySet), todo # <<>>,
           Written \in 0 .. Len(AllCopies),
           todo = [j \in 1 .. Len(todo) |-> AllCopies[Written + j]]
    PROVE  /\ Written + 1 \in 0 .. Len(AllCopies) /\ Written + 1 \in DOMAIN AllCopies
           /\ Head(todo) = AllCopies[Written + 1]
           /\ Len(AllCopies) - Len(Tail(todo)) = Written + 1
           /\ Tail(todo) = [j \in 1 .. Len(Tail(todo)) |-> AllCopies[(Written + 1) + j]]
<1> DEFINE N == Len(AllCopies)
           L == Len(todo)
<1>1. N \in Nat /\ L \in Nat /\ L # 0 /\ DOMAIN AllCopies = 1 .. N /\ Written = N - L
    BY DEF Written
<1>2. Len(Tail(todo)) = L - 1 /\ \A j \in 1 .. L - 1 : Tail(todo)[j] = todo[j + 1]
    OBVIOUS
<1>3. Tail(todo) = [j \in 1 .. Len(Tail(todo)) |-> Tail(todo)[j]]
  <2>1. Tail(todo) \in Seq(CopySet)
      OBVIOUS
  <2>2. \A s \in Seq(CopySet) : s = [j \in 1 .. Len(s) |-> s[j]]
      OBVIOUS
  <2> QED BY <2>1, <2>2
<1>4. \A j \in 1 .. L - 1 : todo[j + 1] = AllCopies[(Written + 1) + j]
  <2> TAKE j \in 1 .. L - 1
  <2>1. j + 1 \in 1 .. L /\ Written + (j + 1) = (Written + 1) + j
      BY <1>1
  <2> HIDE DEF L
  <2>2. todo[j + 1] = AllCopies[Written + (j + 1)]
      BY <2>1 DEF L
  <2> QED BY <2>1, <2>2
<1>5. Head(todo) = AllCopies[Written + 1]
  <2>1. Head(todo) = todo[1] /\ 1 \in 1 .. L
      BY <1>1
  <2> QED BY <2>1
<1>6. Written + 1 \in 0 .. N /\ Written + 1 \in 1 .. N /\ N - (L - 1) = Written + 1
    BY <1>1
<1> HIDE DEF N, L
<1> QED BY <1>1, <1>2, <1>3, <1>4, <1>5, <1>6 DEF N, L

\* What only depends on the call.
LEMMA CallStays ==
    ASSUME UNCHANGED <<start, tool, tasks>>
    PROVE  /\ Before' = Before /\ Clash' = Clash /\ AllCopies' = AllCopies /\ CopySet' = CopySet
           /\ Named' = Named /\ Added' = Added
           /\ \A c : Meant(c)' = Meant(c) /\ Takes(c)' = Takes(c)
           /\ \A t : LastAdded(t)' = LastAdded(t) /\ WasKept(t)' = WasKept(t) /\ Staying(t)' = Staying(t)
<1>1. Before' = Before /\ AllCopies' = AllCopies /\ CopySet' = CopySet
    BY DEF Before, AllCopies, CopySet
<1>2. \A c : Meant(c)' = Meant(c)
    BY DEF Meant
<1>3. \A c : Takes(c)' = Takes(c)
    BY <1>2 DEF Takes
<1>4. Clash' = Clash
    BY <1>1, <1>2, <1>3 DEF Clash
<1>5. Named' = Named
    BY <1>1 DEF Named, FirstOf
<1>6. Added' = Added /\ \A t : LastAdded(t)' = LastAdded(t)
    BY <1>1 DEF Added, LastAdded
<1>7. \A t : WasKept(t)' = WasKept(t) /\ Staying(t)' = Staying(t)
    BY <1>1 DEF WasKept, Kept, Has, Staying
<1> QED BY <1>1, <1>2, <1>3, <1>4, <1>5, <1>6, <1>7

LEMMA ModifyAsking ==
    ASSUME IInv, Running, UNCHANGED <<sqliteVars, start, tool, tasks>>, mpc' # "parse",
           ~Clash /\ mpc' \in AfterParse => ModifyAsks'
    PROVE  DoneInv'
<1>1. tool = "modify" /\ tool \notin SqliteProcs
    BY ModifyFrame, RepoToolsAssumption
<1> QED BY <1>1, CallStays DEF DoneInv

LEMMA ParseAsks ==
    ASSUME DatabasesByName, IInv, DoneInv, ParseAndCheck, UNCHANGED <<sqliteVars, start, tool>>
    PROVE  DoneInv'
<1>0. Running /\ mpc = "parse" /\ UNCHANGED <<tasks, files>> /\ mpc' \in {"write", "failed"}
    BY DEF ParseAndCheck, Running, Ends, dirVars
<1>1. tool = "modify"
    BY <1>0, ModifyFrame
<1>2. SUFFICES ASSUME mpc' = "write" PROVE ModifyAsks'
    BY <1>0, ModifyAsking DEF AfterParse
<1>3. Checked /\ todo' = AllCopies
    BY <1>2 DEF ParseAndCheck, Ends
<1>4. files = start.files
    BY <1>0, <1>1 DEF DoneInv
<1>5. SourcesThere'
  <2>1. \A c \in CopySet : \E i \in DOMAIN tasks : c.task = tasks[i] /\ ~tasks[i].remove
      BY CopyOf DEF IInv, GoesThrough
  <2>2. \A c \in CopySet : Outside(c.task) \/ c.task.path \in DOMAIN start.files
      BY <1>3, <1>4, <2>1 DEF Checked, SourceExists, Has
  <2> QED BY <1>0, <2>2, CallStays DEF SourcesThere
<1>6. Copied'
  <2>1. AllCopies \in Seq(CopySet) /\ AllCopies' = AllCopies
      BY <1>0, CopyFacts, CallStays DEF IInv, GoesThrough
  <2>2. Len(AllCopies) \in Nat /\ Written' = 0
      BY <1>3, <2>1 DEF Written
  <2>3. todo' = [j \in 1 .. Len(todo') |-> AllCopies'[Written' + j]]
    <3>1. AllCopies = [j \in 1 .. Len(AllCopies) |-> AllCopies[j]]
        BY <2>1
    <3>2. \A j \in 1 .. Len(AllCopies) : 0 + j = j
        BY <2>2
    <3> QED BY <1>3, <2>1, <2>2, <3>1, <3>2
  <2>4. \A n \in DOMAIN start'.files : Same(n)'
      BY <1>0, <1>4 DEF Same
  <2>5. Written' \in 0 .. Len(AllCopies') /\ 1 .. Written' = {}
      BY <2>1, <2>2
  <2> QED BY <1>2, <2>3, <2>4, <2>5 DEF Copied
<1> QED BY <1>2, <1>5, <1>6 DEF ModifyAsks

LEMMA CopyAsks ==
    ASSUME DatabasesByName, IInv, DoneInv, UseInPlace \/ BeginCopy \/ EndCopy,
           UNCHANGED <<sqliteVars, start, tool>>
    PROVE  DoneInv'
<1>0. /\ Running /\ mpc \in {"write", "copy"} /\ mpc' \in {"write", "copy"} /\ UNCHANGED tasks
      /\ todo # <<>>
    BY DEF UseInPlace, BeginCopy, EndCopy, Running, dirVars, IInv, GoesThrough
<1>1. tool = "modify"
    BY <1>0, ModifyFrame
<1>2. SUFFICES ASSUME ~Clash PROVE SourcesThere' /\ Copied'
    BY <1>0, ModifyAsking DEF AfterParse, ModifyAsks
<1>3. SourcesThere /\ Copied
    BY <1>0, <1>1, <1>2 DEF DoneInv, ModifyAsks, AfterParse
<1>4. SourcesThere'
    BY <1>0, <1>3, CallStays DEF SourcesThere
<1>k. PICK k : k = Written
    OBVIOUS
<1>c. PICK c : c = AllCopies[k + 1]
    OBVIOUS
<1>5. /\ k + 1 \in 0 .. Len(AllCopies) /\ k + 1 \in DOMAIN AllCopies
      /\ Head(todo) = c
      /\ Len(AllCopies) - Len(Tail(todo)) = k + 1
      /\ Tail(todo) = [j \in 1 .. Len(Tail(todo)) |-> AllCopies[(k + 1) + j]]
      /\ k \in 0 .. Len(AllCopies) /\ DOMAIN AllCopies = 1 .. Len(AllCopies)
  <2>1. AllCopies \in Seq(CopySet) /\ todo \in Seq(CopySet)
      BY <1>0, CopyFacts DEF IInv, GoesThrough
  <2> QED BY <1>0, <1>3, <1>k, <1>c, <2>1, TodoIs DEF Copied
<1>6. c \in CopySet /\ (Outside(c.task) \/ c.task.path \in DOMAIN start.files)
    BY <1>3, <1>5, <1>c DEF CopySet, SourcesThere
<1>7. \A i \in 1 .. k : /\ i \in DOMAIN AllCopies /\ i < k + 1 /\ i \in 1 .. k + 1
                        /\ CopyName(AllCopies[i]) # CopyName(c)
                        /\ ~InPlace(AllCopies[i]) /\ ~Outside(c.task)
                              => c.task.path # CopyName(AllCopies[i])
  <2>1. \A i \in 1 .. k : i \in DOMAIN AllCopies /\ i < k + 1 /\ i \in 1 .. k + 1
      BY <1>5
  <2>2. \A i \in 1 .. k : CopyName(AllCopies[i]) = CopyName(AllCopies[k + 1]) => i = k + 1
      BY <1>1, <1>2, <1>5, <2>1, Apart
  <2>3. \A i \in 1 .. k : ~InPlace(AllCopies[i]) /\ ~Outside(AllCopies[k + 1].task)
                              => AllCopies[k + 1].task.path # CopyName(AllCopies[i])
      BY <1>1, <1>2, <1>5, <2>1, Apart
  <2>4. \A i \in 1 .. k : i # k + 1
      BY <1>5
  <2> QED BY <1>c, <2>1, <2>2, <2>3, <2>4
<1>8. /\ AllCopies' = AllCopies /\ start' = start
      /\ \A x : Meant(x)' = Meant(x)
    BY <1>0, CallStays
<1>9. /\ \A i \in 1 .. k : Here(CopyName(AllCopies[i]), Meant(AllCopies[i]))
      /\ mpc = "copy" => ~InPlace(c)
      /\ \A n \in DOMAIN start.files :
            Same(n) \/ Overwritten(n, IF mpc = "copy" THEN k + 1 ELSE k)
    BY <1>3, <1>k, <1>c DEF Copied
<1>10. \A n : /\ Overwritten(n, k) => Overwritten(n, k + 1)
              /\ n = CopyName(c) /\ ~InPlace(c) => Overwritten(n, k + 1)
  <2>1. k + 1 \in 1 .. k + 1
      BY <1>5
  <2> QED BY <1>7, <1>c, <2>1 DEF Overwritten
\* What is left of each copy: it is there, and what was read was the source.
<1>11. ASSUME \A n \in DOMAIN files : n # CopyName(c) => n \in DOMAIN files' /\ files'[n] = files[n],
              todo' = Tail(todo), mpc' = "write",
              CopyName(c) \in DOMAIN files' /\ files'[CopyName(c)] = Meant(c),
              \A n \in DOMAIN start.files : Same(n)' \/ Overwritten(n, k + 1)
       PROVE  Copied'
  <2>1. Written' = k + 1
      BY <1>5, <1>8, <1>11 DEF Written
  <2>2. ASSUME NEW i \in 1 .. k + 1
        PROVE  Here(CopyName(AllCopies[i]), Meant(AllCopies[i]))'
    <3>1. CASE i = k + 1
        BY <1>8, <1>11, <1>c, <3>1 DEF Here
    <3>2. CASE i # k + 1
      <4>1. i \in 1 .. k
          BY <1>5, <3>2
      <4> QED BY <1>7, <1>8, <1>9, <1>11, <4>1 DEF Here
    <3> QED BY <3>1, <3>2
  <2>3. \A n : Overwritten(n, k + 1)' = Overwritten(n, k + 1)
      BY <1>8 DEF Overwritten
  <2>4. todo' = [j \in 1 .. Len(todo') |-> AllCopies'[Written' + j]]
      BY <1>5, <1>8, <1>11, <2>1
  <2>5. \A i \in 1 .. Written' : Here(CopyName(AllCopies[i]), Meant(AllCopies[i]))'
      BY <2>1, <2>2
  <2>6. \A n \in DOMAIN start'.files : Same(n)' \/ Overwritten(n, k + 1)'
      BY <1>8, <1>11, <2>3
  <2>7. Written' \in 0 .. Len(AllCopies')
      BY <1>5, <1>8, <2>1
  <2> QED BY <1>8, <1>11, <2>1, <2>4, <2>5, <2>6, <2>7 DEF Copied
<1>12. CASE UseInPlace
  <2>1. files' = files /\ todo' = Tail(todo) /\ mpc' = "write" /\ mpc = "write" /\ InPlace(c)
      BY <1>5, <1>12 DEF UseInPlace, dirVars
  <2>2. CopyName(c) \in DOMAIN start.files /\ Meant(c) = start.files[CopyName(c)]
      BY <1>6, <2>1 DEF InPlace, Meant
  <2>3. Same(CopyName(c))
      BY <1>7, <1>9, <2>1, <2>2 DEF Overwritten
  <2>4. \A n \in DOMAIN start.files : Same(n)' \/ Overwritten(n, k + 1)
      BY <1>8, <1>9, <1>10, <2>1 DEF Same
  <2> QED BY <1>4, <1>11, <2>1, <2>2, <2>3, <2>4 DEF Same
<1>13. CASE BeginCopy
  <2>1. /\ files' = Put(files, CopyName(c), [CopyContent(c) EXCEPT !.data = Partial])
        /\ todo' = todo /\ mpc' = "copy" /\ mpc = "write" /\ ~InPlace(c)
      BY <1>5, <1>13 DEF BeginCopy
  <2>2. Written' = k
      BY <1>8, <1>k, <2>1 DEF Written
  <2>3. \A n \in DOMAIN files : n # CopyName(c) => n \in DOMAIN files' /\ files'[n] = files[n]
      BY <2>1 DEF Put
  <2>4. \A i \in 1 .. k : Here(CopyName(AllCopies[i]), Meant(AllCopies[i]))'
      BY <1>7, <1>8, <1>9, <2>3 DEF Here
  <2>5. \A n \in DOMAIN start.files : Same(n)' \/ Overwritten(n, k + 1)
      BY <1>8, <1>9, <1>10, <2>1, <2>3 DEF Same
  <2>6. \A n : Overwritten(n, k + 1)' = Overwritten(n, k + 1)
      BY <1>8 DEF Overwritten
  <2>7. todo' = [j \in 1 .. Len(todo') |-> AllCopies'[Written' + j]]
      BY <1>3, <1>k, <1>8, <2>1, <2>2 DEF Copied
  <2>8. mpc' = "copy" => ~InPlace(AllCopies'[Written' + 1])
      BY <1>8, <1>c, <2>1, <2>2
  <2>9. Written' \in 0 .. Len(AllCopies')
      BY <1>5, <1>8, <2>2
  <2>10. \A n \in DOMAIN start'.files : Same(n)' \/ Overwritten(n, k + 1)'
      BY <1>8, <2>5, <2>6
  <2>11. Copied'
      BY <1>8, <2>1, <2>2, <2>4, <2>7, <2>8, <2>9, <2>10 DEF Copied
  <2> QED BY <1>4, <2>11
<1>14. CASE EndCopy
  <2>1. /\ files' = Put(files, CopyName(c), CopyContent(c))
        /\ todo' = Tail(todo) /\ mpc' = "write" /\ mpc = "copy" /\ ~InPlace(c)
      BY <1>5, <1>9, <1>14 DEF EndCopy
  <2>2. CopyContent(c) = Meant(c)
    <3>1. CASE Outside(c.task)
        BY <3>1 DEF CopyContent, Source, Meant
    <3>2. CASE ~Outside(c.task)
      <4>1. CopyName(c) # c.task.path
          BY <2>1, <3>2 DEF InPlace
      <4>2. ~Overwritten(c.task.path, k + 1)
        <5> SUFFICES ASSUME NEW i \in 1 .. k + 1, c.task.path = CopyName(AllCopies[i]),
                            ~InPlace(AllCopies[i])
                     PROVE  FALSE
            BY DEF Overwritten
        <5>1. CASE i = k + 1
            BY <1>c, <4>1, <5>1
        <5>2. CASE i # k + 1
          <6>1. i \in 1 .. k
              BY <1>5, <5>2
          <6> QED BY <1>7, <3>2, <6>1
        <5> QED BY <5>1, <5>2
      <4>3. Same(c.task.path)
          BY <1>6, <1>9, <2>1, <3>2, <4>2
      <4> QED BY <2>1, <3>2, <4>3 DEF CopyContent, Source, Meant, Same
    <3> QED BY <3>1, <3>2
  <2>3. /\ \A n \in DOMAIN files : n # CopyName(c) => n \in DOMAIN files' /\ files'[n] = files[n]
        /\ CopyName(c) \in DOMAIN files' /\ files'[CopyName(c)] = Meant(c)
      BY <2>1, <2>2 DEF Put
  <2>4. \A n \in DOMAIN start.files : Same(n)' \/ Overwritten(n, k + 1)
      BY <1>8, <1>9, <1>10, <2>1, <2>3 DEF Same
  <2> QED BY <1>4, <1>11, <2>1, <2>3, <2>4
<1> QED BY <1>12, <1>13, <1>14

\* The file of each copy is there when the records are filled.
LEMMA FillAsks ==
    ASSUME DatabasesByName, SecondTypesApart, IInv, RInv, DoneInv, FillAndDetach,
           UNCHANGED <<sqliteVars, start, tool>>
    PROVE  DoneInv'
<1>0. /\ Running /\ mpc = "write" /\ mpc' = "rename" /\ todo = <<>>
      /\ UNCHANGED <<files, tasks>>
    BY DEF FillAndDetach, Running, dirVars
<1>1. tool = "modify"
    BY <1>0, ModifyFrame
<1>2. SUFFICES ASSUME ~Clash
               PROVE  /\ NewKept'
                      /\ DOMAIN mem' = DOMAIN Before' \ Named'
                      /\ \A t \in DOMAIN mem' : mem'[t] = Before'[t]
    BY <1>0, ModifyAsking DEF AfterParse, ModifyAsks
<1>3. Copied
    BY <1>0, <1>1, <1>2 DEF DoneInv, ModifyAsks, AfterParse
<1>4. mem = Before
    BY <1>0 DEF RInv, Detaches
<1>5. AllReplaced = Named \cap DOMAIN Before
  <2>1. <<>> \in Seq(Tasks)
      OBVIOUS
  <2>2. TaskLists \subseteq Seq(Tasks)
      BY RepoToolsAssumption
  <2>3. ZcksApart(<<>>)
      BY DEF ZcksApart
  <2>4. tasks \in TaskLists \union {<<>>}
      BY DEF IInv, GoesThrough
  <2>5. tasks \in Seq(Tasks) /\ ZcksApart(tasks)
      BY <2>1, <2>2, <2>3, <2>4 DEF SecondTypesApart
  <2> QED BY <1>4, <2>5, NamedReplaced
<1>6. /\ DOMAIN mem' = DOMAIN Before \ Named
      /\ \A t \in DOMAIN mem' : mem'[t] = Before[t]
  <2>1. mem' = Detach(mem, AllReplaced)
      BY DEF FillAndDetach
  <2> QED BY <1>4, <1>5, <2>1 DEF Detach
<1>7. /\ Before' = Before /\ Named' = Named /\ AllCopies' = AllCopies
      /\ \A x : Meant(x)' = Meant(x) /\ Takes(x)' = Takes(x)
      /\ \A t : WasKept(t)' = WasKept(t) /\ Staying(t)' = Staying(t)
    BY <1>0, CallStays
<1>8. \A i \in DOMAIN AllCopies :
         CopyName(AllCopies[i]) \in DOMAIN files /\ files[CopyName(AllCopies[i])] = Meant(AllCopies[i])
  <2>1. AllCopies \in Seq(CopySet)
      BY CopyFacts DEF IInv, GoesThrough
  <2>2. Len(AllCopies) \in Nat /\ DOMAIN AllCopies = 1 .. Len(AllCopies) /\ Len(todo) = 0
      BY <1>0, <2>1
  <2>3. Written = Len(AllCopies)
      BY <2>2 DEF Written
  <2> QED BY <1>3, <2>2, <2>3 DEF Copied, Here
<1>9. /\ DOMAIN new' = DOMAIN AllCopies
      /\ \A i \in DOMAIN AllCopies :
            new'[i] = [type |-> AllCopies[i].type, unique |-> AllCopies[i].task.unique,
                       rec |-> [href |-> CopyName(AllCopies[i]), sum |-> Meant(AllCopies[i])]]
    BY <1>8 DEF FillAndDetach, NewRecord, Filled, Has
<1>10. ASSUME NEW t \in DOMAIN Before, Staying(t), WasKept(t)
       PROVE  Kept(Before[t], files)
  <2>1. Before[t].href \in DOMAIN start.files /\ start.files[Before[t].href] = Before[t].sum
      BY <1>10 DEF WasKept, Kept, Has
  <2>2. ~Overwritten(Before[t].href, Written)
    <3> SUFFICES ASSUME NEW i \in 1 .. Written, Before[t].href = CopyName(AllCopies[i]) PROVE FALSE
        BY DEF Overwritten
    <3>1. AllCopies \in Seq(CopySet) /\ todo \in Seq(CopySet)
        BY <1>0, CopyFacts DEF IInv, GoesThrough
    <3>2. i \in DOMAIN AllCopies
        BY <1>3, <3>1 DEF Copied
    <3> QED BY <1>1, <1>2, <1>10, <3>2, Apart DEF Takes
  <2>3. Same(Before[t].href)
      BY <1>0, <1>3, <2>1, <2>2 DEF Copied
  <2> QED BY <2>1, <2>3 DEF Same, Kept, Has
<1>11. ASSUME NEW i \in DOMAIN new'
       PROVE  /\ new'[i].unique = AllCopies[i].task.unique
              /\ new'[i].rec.sum = Meant(AllCopies[i])
              /\ new'[i].rec.href \in Takes(AllCopies[i])
              /\ Kept(new'[i].rec, files)
    BY <1>8, <1>9, <1>11 DEF Takes, Kept, Has
<1>12. NewKept'
    BY <1>0, <1>7, <1>9, <1>10, <1>11 DEF NewKept
<1> QED BY <1>6, <1>7, <1>12

\* Renaming keeps to the names of the copy, and nobody else takes these.
LEMMA NamesOfNew ==
    ASSUME DatabasesByName, IInv, NewKept, tool = "modify", ~Clash, NEW h \in DOMAIN new,
           new[h].unique
    PROVE  /\ UniqueName(new[h].rec) = [CopyName(AllCopies[h]) EXCEPT !.sum = new[h].rec.sum]
           /\ UniqueName(new[h].rec).sum = new[h].rec.sum
           /\ UniqueName(new[h].rec) \in Takes(AllCopies[h])
           /\ NeedsRename(new[h].rec) => new[h].rec.href = CopyName(AllCopies[h])
           /\ \A i \in DOMAIN new : i # h =>
                 new[i].rec.href # new[h].rec.href /\ new[i].rec.href # UniqueName(new[h].rec)
<1> DEFINE c == AllCopies[h]
           m == new[h].rec.sum
<1>0. h \in DOMAIN AllCopies /\ m = Meant(c) /\ c.task.unique
    BY DEF NewKept
<1>1. \/ new[h].rec.href = CopyName(c)
      \/ new[h].rec.href = [CopyName(c) EXCEPT !.sum = m]
    BY DEF IInv, NewOnes
<1>2. UniqueName(new[h].rec) = [CopyName(c) EXCEPT !.sum = m]
    BY <1>1 DEF UniqueName, CopyName, Target
<1>3. UniqueName(new[h].rec) \in Takes(c)
    BY <1>0, <1>2 DEF Takes
<1>4. [CopyName(c) EXCEPT !.sum = m].sum = m
  <2> HIDE DEF m
  <2> QED BY DEF CopyName, Target
<1>5. ASSUME NEW i \in DOMAIN new, i # h
      PROVE  new[i].rec.href # new[h].rec.href /\ new[i].rec.href # UniqueName(new[h].rec)
  <2>1. /\ i \in DOMAIN AllCopies /\ new[i].rec.href \in Takes(AllCopies[i])
        /\ new[h].rec.href \in Takes(c)
      BY DEF NewKept
  <2>2. Takes(AllCopies[i]) \cap Takes(c) = {}
      BY <1>0, <1>5, <2>1, Apart
  <2> QED BY <1>3, <2>1, <2>2
<1>6. NeedsRename(new[h].rec) => new[h].rec.href = CopyName(c)
    BY <1>1, <1>4 DEF NeedsRename
<1> QED BY <1>2, <1>3, <1>4, <1>5, <1>6

LEMMA RenameAsks ==
    ASSUME DatabasesByName, IInv, DoneInv, SkipRename \/ ClearTarget \/ Move,
           UNCHANGED <<sqliteVars, start, tool>>
    PROVE  DoneInv'
<1>0. /\ Running /\ mpc \in {"rename", "move"} /\ mpc' \in {"rename", "move"}
      /\ UNCHANGED <<tasks, mem>> /\ todo # <<>>
    BY DEF SkipRename, ClearTarget, Move, Running, dirVars, IInv, GoesThrough
<1>1. tool = "modify"
    BY <1>0, ModifyFrame
<1>2. SUFFICES ASSUME ~Clash
               PROVE  /\ NewKept'
                      /\ DOMAIN mem' = DOMAIN Before' \ Named'
                      /\ \A t \in DOMAIN mem' : mem'[t] = Before'[t]
    BY <1>0, ModifyAsking DEF AfterParse, ModifyAsks
<1>3. /\ NewKept
      /\ DOMAIN mem = DOMAIN Before \ Named
      /\ \A t \in DOMAIN mem : mem[t] = Before[t]
    BY <1>0, <1>1, <1>2 DEF DoneInv, ModifyAsks, AfterParse
<1>4. /\ Before' = Before /\ Named' = Named /\ AllCopies' = AllCopies
      /\ \A x : Meant(x)' = Meant(x) /\ Takes(x)' = Takes(x)
      /\ \A t : WasKept(t)' = WasKept(t) /\ Staying(t)' = Staying(t)
    BY <1>0, CallStays
<1>5. SUFFICES NewKept'
    BY <1>0, <1>3, <1>4
<1> DEFINE h == Head(todo)
           c == AllCopies[h]
           u == UniqueName(new[h].rec)
<1>6. h \in DOMAIN new /\ Next1 = new[h]
    BY <1>0, RenameFacts DEF Next1
<1>7. /\ DOMAIN new = DOMAIN AllCopies
      /\ \A i \in DOMAIN new :
            /\ new[i].unique = AllCopies[i].task.unique
            /\ new[i].rec.sum = Meant(AllCopies[i])
            /\ new[i].rec.href \in Takes(AllCopies[i])
            /\ new[i].rec.href \in DOMAIN files /\ files[new[i].rec.href] = new[i].rec.sum
      /\ mpc = "move" => new[h].unique /\ NeedsRename(new[h].rec)
      /\ \A t \in DOMAIN Before :
            Staying(t) /\ WasKept(t) =>
               \/ Before[t].href \in DOMAIN files /\ files[Before[t].href] = Before[t].sum
               \/ mpc = "move" /\ Before[t].href = u
    BY <1>3, <1>6 DEF NewKept, Kept, Has
<1>8. new[h].unique =>
         /\ u.sum = new[h].rec.sum
         /\ u \in Takes(c)
         /\ NeedsRename(new[h].rec) => new[h].rec.href = CopyName(c)
         /\ \A i \in DOMAIN new : i # h => new[i].rec.href # new[h].rec.href /\ new[i].rec.href # u
    BY <1>1, <1>2, <1>3, <1>6, NamesOfNew
<1> HIDE DEF h, c, u
<1>9. CASE SkipRename
  <2>1. UNCHANGED <<files, new, mpc>> /\ mpc = "rename"
      BY <1>9 DEF SkipRename, dirVars
  <2> QED BY <1>3, <1>4, <2>1 DEF NewKept, Kept, Has
<1>10. CASE ClearTarget
  <2>1. /\ files' = Drop(files, {u}) /\ UNCHANGED <<new, todo>> /\ mpc = "rename" /\ mpc' = "move"
        /\ new[h].unique /\ NeedsRename(new[h].rec)
      BY <1>6, <1>10 DEF ClearTarget, RemoveTarget, u
  <2>2. u # new[h].rec.href
      BY <1>8, <2>1 DEF NeedsRename
  <2>3. \A i \in DOMAIN new : new[i].rec.href \in DOMAIN files' /\ files'[new[i].rec.href] = new[i].rec.sum
      BY <1>7, <1>8, <2>1, <2>2 DEF Drop
  <2>4. \A t \in DOMAIN Before :
            Staying(t) /\ WasKept(t) =>
               \/ Before[t].href \in DOMAIN files' /\ files'[Before[t].href] = Before[t].sum
               \/ Before[t].href = u
      BY <1>7, <2>1 DEF Drop
  <2>5. Next1' = new[h]
      BY <1>6, <2>1 DEF Next1
  <2>6. \A t \in DOMAIN Before' : Staying(t)' /\ WasKept(t)' =>
           \/ Kept(Before[t], files)'
           \/ mpc' = "move" /\ Before'[t].href = UniqueName(Next1.rec)'
      BY <1>4, <2>1, <2>4, <2>5 DEF Kept, Has, UniqueName, u
  <2>7. /\ DOMAIN new' = DOMAIN AllCopies
        /\ \A i \in DOMAIN new' :
              /\ new'[i].unique = AllCopies[i].task.unique
              /\ new'[i].rec.sum = Meant(AllCopies[i])
              /\ new'[i].rec.href \in Takes(AllCopies[i])
              /\ Kept(new'[i].rec, files')
      BY <1>7, <2>1, <2>3 DEF Kept, Has
  <2>8. Next1'.unique /\ NeedsRename(Next1'.rec)
      BY <2>1, <2>5
  <2> QED BY <1>4, <2>6, <2>7, <2>8 DEF NewKept, NeedsRename
<1>11. CASE Move
  <2> DEFINE r == new[h].rec
  <2>1. mpc = "move" /\ mpc' = "rename" /\ new[h].unique /\ NeedsRename(r)
      BY <1>7, <1>11 DEF Move
  <2>2. Has(files, Next1.rec.href)
      BY <1>6, <1>7 DEF Has
  <2>3. /\ files' = Put(Drop(files, {r.href}), u, files[r.href])
        /\ new' = [new EXCEPT ![h].rec = Renamed(@)]
      BY <1>6, <1>11, <2>2 DEF Move, RenameFile, u, h
  <2>4. /\ DOMAIN new' = DOMAIN new
        /\ \A i \in DOMAIN new : i # h => new'[i] = new[i]
        /\ new'[h].unique = new[h].unique /\ new'[h].rec.href = u /\ new'[h].rec.sum = r.sum
    <3>1. new[h] = [type |-> c.type, unique |-> new[h].unique,
                    rec |-> [href |-> new[h].rec.href, sum |-> new[h].rec.sum]]
        BY <1>6 DEF IInv, NewOnes, c
    <3>2. Renamed(r) = [href |-> u, sum |-> r.sum]
        BY <3>1 DEF Renamed, u
    <3>3. new'[h] = [new[h] EXCEPT !.rec = Renamed(r)]
        BY <1>6, <2>3
    <3>4. new'[h] = [type |-> c.type, unique |-> new[h].unique, rec |-> Renamed(r)]
      <4> DEFINE q == Renamed(r)
                 w == new[h]
                 a == r
                 b == new[h].unique
      <4>1. w = [type |-> c.type, unique |-> b, rec |-> a] /\ new'[h] = [w EXCEPT !.rec = q]
          BY <3>1, <3>3
      <4> HIDE DEF q, w, a, b
      <4>2. new'[h] = [type |-> c.type, unique |-> b, rec |-> q]
          BY <4>1
      <4> QED BY <4>2 DEF q, w, a, b
    <3> QED BY <1>6, <2>3, <3>2, <3>4
  <2>5. u # r.href /\ r.href = CopyName(c)
      BY <1>8, <2>1 DEF NeedsRename
  <2>6. /\ u \in DOMAIN files' /\ files'[u] = r.sum
        /\ \A n \in DOMAIN files : n # u /\ n # r.href => n \in DOMAIN files' /\ files'[n] = files[n]
      BY <1>6, <1>7, <2>3 DEF Put, Drop
  <2>7. \A i \in DOMAIN new : new'[i].rec.href \in DOMAIN files' /\ files'[new'[i].rec.href] = new'[i].rec.sum
      BY <1>7, <1>8, <2>1, <2>4, <2>6
  <2>8. ASSUME NEW t \in DOMAIN Before, Staying(t), WasKept(t)
        PROVE  Before[t].href \in DOMAIN files' /\ files'[Before[t].href] = Before[t].sum
    <3>1. Before[t].href \in Takes(c) =>
             Before[t].href # CopyName(c) /\ Before[t].sum = Meant(c)
        BY <1>1, <1>2, <1>6, <1>7, <2>8, Apart DEF c
    <3>2. r.href \in Takes(c) /\ r.sum = Meant(c) /\ u \in Takes(c)
        BY <1>6, <1>7, <1>8, <2>1 DEF c
    <3>3. CASE Before[t].href = u
        BY <2>6, <3>1, <3>2, <3>3
    <3>4. CASE Before[t].href # u
      <4>1. Before[t].href # r.href
          BY <2>5, <3>1, <3>2
      <4> QED BY <1>7, <2>6, <2>8, <3>4, <4>1
    <3> QED BY <3>3, <3>4
  <2>9. \A t \in DOMAIN Before' : Staying(t)' /\ WasKept(t)' => Kept(Before[t], files)'
      BY <1>4, <2>8 DEF Kept, Has
  <2>10. /\ DOMAIN new' = DOMAIN AllCopies
         /\ \A i \in DOMAIN new' :
              /\ new'[i].unique = AllCopies[i].task.unique
              /\ new'[i].rec.sum = Meant(AllCopies[i])
              /\ new'[i].rec.href \in Takes(AllCopies[i])
              /\ Kept(new'[i].rec, files')
    <3>1. \A i \in DOMAIN new :
              /\ new'[i].unique = AllCopies[i].task.unique
              /\ new'[i].rec.sum = Meant(AllCopies[i])
              /\ new'[i].rec.href \in Takes(AllCopies[i])
        BY <1>7, <1>8, <2>1, <2>4 DEF c
    <3> QED BY <1>7, <2>4, <2>7, <3>1 DEF Kept, Has
  <2> QED BY <1>4, <2>1, <2>9, <2>10 DEF NewKept
<1> QED BY <1>9, <1>10, <1>11

\* The new records are the last ones of their types; the others stay.
LEMMA TruncateAsks ==
    ASSUME DatabasesByName, IInv, DoneInv, TruncateRepomd, UNCHANGED <<sqliteVars, start, tool>>
    PROVE  DoneInv'
<1>0. /\ Running /\ mpc = "rename" /\ mpc' = "repomd" /\ mem' = WithNew(mem)
      /\ UNCHANGED <<files, tasks, new>>
    BY DEF TruncateRepomd, Running
<1>1. tool = "modify"
    BY <1>0, ModifyFrame
<1>2. SUFFICES ASSUME ~Clash PROVE AsAsked(mem)' /\ WithFiles(mem)'
    BY <1>0, ModifyAsking DEF AfterParse, ModifyAsks
<1>3. /\ NewKept
      /\ DOMAIN mem = DOMAIN Before \ Named
      /\ \A t \in DOMAIN mem : mem[t] = Before[t]
    BY <1>0, <1>1, <1>2 DEF DoneInv, ModifyAsks, AfterParse
<1>4. /\ Before' = Before /\ Named' = Named /\ Added' = Added
      /\ \A x : Meant(x)' = Meant(x)
      /\ \A t : LastAdded(t)' = LastAdded(t) /\ WasKept(t)' = WasKept(t)
    BY <1>0, CallStays
<1>5. /\ DOMAIN new = DOMAIN AllCopies
      /\ \A i \in DOMAIN new :
            /\ new[i].type = AllCopies[i].type
            /\ new[i].rec.sum = Meant(AllCopies[i])
            /\ Kept(new[i].rec, files)
    BY <1>3 DEF NewKept, IInv, NewOnes
<1>6. \A t : NewOf(t) = {i \in DOMAIN AllCopies : AllCopies[i].type = t}
    BY <1>5 DEF NewOf
<1>7. \A t : NewOf(t) # {} <=> t \in Added
    BY <1>6 DEF Added
<1>8. DOMAIN mem' = (DOMAIN Before \ Named) \union Added
    BY <1>0, <1>3, <1>5 DEF WithNew, Added
<1>9. ASSUME NEW t \in Added
      PROVE  mem'[t].sum = Meant(LastAdded(t)) /\ Kept(mem'[t], files)
  <2> DEFINE i == Max(NewOf(t))
  <2>1. i \in NewOf(t)
    <3>1. AllCopies \in Seq(CopySet)
        BY CopyFacts DEF IInv, GoesThrough
    <3>2. NewOf(t) \subseteq 1 .. Len(AllCopies) /\ Len(AllCopies) \in Nat
        BY <1>6, <3>1
    <3>3. NewOf(t) # {}
        BY <1>7, <1>9
    <3> QED BY <3>2, <3>3, MaxIn
  <2>2. mem'[t] = new[i].rec
      BY <1>0, <1>7, <1>8, <1>9 DEF WithNew
  <2>3. LastAdded(t) = AllCopies[i]
      BY <1>6 DEF LastAdded
  <2> HIDE DEF i
  <2> QED BY <1>5, <2>1, <2>2, <2>3 DEF NewOf
<1>10. ASSUME NEW t \in DOMAIN mem', t \notin Added
       PROVE  t \in DOMAIN Before /\ mem'[t] = Before[t] /\ (WasKept(t) => Kept(Before[t], files))
  <2>1. t \in DOMAIN Before \ Named
      BY <1>8, <1>10
  <2>2. mem'[t] = Before[t]
      BY <1>0, <1>3, <1>7, <1>10, <2>1 DEF WithNew
  <2>3. Staying(t)
      BY <2>1 DEF Staying, Named
  <2> QED BY <1>0, <1>3, <2>1, <2>2, <2>3 DEF NewKept
<1>11. AsAsked(mem)'
    BY <1>4, <1>8, <1>9, <1>10 DEF AsAsked
<1>12. WithFiles(mem)'
    BY <1>0, <1>4, <1>9, <1>10 DEF WithFiles
<1> QED BY <1>11, <1>12

LEMMA WriteAsks ==
    ASSUME IInv, DoneInv, WriteRepomd, UNCHANGED <<sqliteVars, start, tool>>
    PROVE  DoneInv'
<1>0. /\ Running /\ mpc = "repomd" /\ mpc' = "delete" /\ UNCHANGED <<files, tasks>>
    BY DEF WriteRepomd, Running
<1>1. tool = "modify"
    BY <1>0, ModifyFrame
<1>2. SUFFICES ASSUME ~Clash PROVE AsAsked(Now)' /\ WithFiles(Now)'
    BY <1>0, ModifyAsking DEF AfterParse, ModifyAsks
<1>3. AsAsked(mem) /\ WithFiles(mem)
    BY <1>0, <1>1, <1>2 DEF DoneInv, ModifyAsks, AfterParse
<1>4. Now' = mem
  <2>1. repomd = [whole |-> repomd.whole, revision |-> repomd.revision,
                  records |-> repomd.records]
      BY DEF IInv, Control
  <2> QED BY <2>1 DEF WriteRepomd, Now
<1>5. /\ Before' = Before /\ Named' = Named /\ Added' = Added
      /\ \A x : Meant(x)' = Meant(x)
      /\ \A t : LastAdded(t)' = LastAdded(t) /\ WasKept(t)' = WasKept(t)
    BY <1>0, CallStays
<1> QED BY <1>0, <1>3, <1>4, <1>5 DEF AsAsked, WithFiles

\* What is removed is no file of a record that is left.
LEMMA DeleteAsks ==
    ASSUME IInv, DoneInv, Delete \/ ModifyEnds, UNCHANGED <<sqliteVars, start, tool>>
    PROVE  DoneInv'
<1>0. /\ Running /\ mpc = "delete" /\ mpc' \in {"delete", "done"}
      /\ UNCHANGED <<tasks, repomd>> /\ mem = Now
    BY DEF Delete, ModifyEnds, Ends, Running, dirVars, IInv, GoesThrough, Now
<1>1. tool = "modify"
    BY <1>0, ModifyFrame
<1>2. SUFFICES ASSUME ~Clash PROVE AsAsked(Now)' /\ WithFiles(Now)'
    BY <1>0, ModifyAsking DEF AfterParse, ModifyAsks
<1>3. AsAsked(Now) /\ WithFiles(Now)
    BY <1>0, <1>1, <1>2 DEF DoneInv, ModifyAsks, AfterParse
<1>4. Now' = Now
    BY <1>0 DEF Now
<1>5. /\ Before' = Before /\ Named' = Named /\ Added' = Added
      /\ \A x : Meant(x)' = Meant(x)
      /\ \A t : LastAdded(t)' = LastAdded(t) /\ WasKept(t)' = WasKept(t)
    BY <1>0, CallStays
<1>6. \A t \in DOMAIN Now : Kept(Now[t], files) => Kept(Now[t], files')
  <2>1. CASE UNCHANGED files
      BY <2>1
  <2>2. ASSUME NEW rec, ~StillUsed(rec), files' = Drop(files, {rec.href})
        PROVE  \A t \in DOMAIN Now : Kept(Now[t], files) => Kept(Now[t], files')
      BY <1>0, <2>2 DEF StillUsed, Kept, Has, Drop
  <2> QED BY <2>1, <2>2 DEF Delete, DeleteOld, ModifyEnds, Ends, dirVars
<1>7. AsAsked(Now)'
    BY <1>3, <1>4, <1>5 DEF AsAsked
<1>8. WithFiles(Now)'
    BY <1>3, <1>4, <1>5, <1>6 DEF WithFiles
<1> QED BY <1>7, <1>8

\* One that ends without success has promised nothing.
LEMMA EndsAsks ==
    ASSUME IInv, Running, UNCHANGED <<sqliteVars, start, tool, tasks>>, mpc' \in {"failed", "killed"}
    PROVE  DoneInv'
BY ModifyAsking DEF AfterParse

LEMMA ModifyDone ==
    ASSUME DatabasesByName, SecondTypesApart, IInv, RInv, DoneInv, Modify
    PROVE  DoneInv'
<1>0. UNCHANGED <<sqliteVars, start, tool>>
    BY DEF Modify
<1>1. CASE CopyFails \/ WriteRepomdFails
    BY <1>0, <1>1, EndsAsks DEF CopyFails, WriteRepomdFails, Ends, Running
<1>2. CASE ~(CopyFails \/ WriteRepomdFails)
    BY <1>0, <1>2, ParseAsks, CopyAsks, FillAsks, RenameAsks, TruncateAsks, WriteAsks, DeleteAsks
       DEF Modify, ModifySteps
<1> QED BY <1>1, <1>2

-----------------------------------------------------------------------------
(* The steps of sqliterepo_c.                                              *)

LEMMA SqliteAsking ==
    ASSUME IInv, RInv, DoneInv, NEW p \in SqliteProcs, SRunning(p), NEW x,
           spc' = [spc EXCEPT ![p] = x], UNCHANGED <<modifyVars, start, tool>>
    PROVE  /\ tool = p /\ spc'[p] = x /\ SqliteAsks(p)
           /\ SqliteAsks(p)' => DoneInv'
           /\ Before' = Before /\ \A t : WasKept(t)' = WasKept(t)
<1>1. tool = p /\ tool # "modify" /\ spc'[p] = x /\ tool' = tool
    BY SqliteFrame
<1>2. Before' = Before /\ \A t : WasKept(t)' = WasKept(t)
    BY DEF Before, WasKept, Kept, Has
<1> QED BY <1>1, <1>2 DEF DoneInv

\* The XML files are no databases, so what the databases say stays.
LEMMA XmlApart ==
    ASSUME NEW b, RightNames(b), NEW t \in DbTypes, NEW n \in Xml(b, t)
    PROVE  n.base \notin DbTypes
<1>1. XmlOf[t] \notin DbTypes
    BY RepoToolsAssumption
<1> QED BY <1>1 DEF Xml, RightNames

LEMMA DbStays ==
    ASSUME NEW CONSTANT b, NEW CONSTANT t, \A n \in Xml(b, t) : files'[n] = files[n]
    PROVE  Db(b, t)' = Db(b, t) /\ Xml(b, t)' = Xml(b, t)
<1>1. Xml(b, t)' = Xml(b, t)
    BY DEF Xml
<1>2. Xml(b, t) # {} => (CHOOSE n \in Xml(b, t) : TRUE) \in Xml(b, t)
    OBVIOUS
<1>3. Says(b, t)' = Says(b, t)
    BY <1>1, <1>2 DEF Says
<1> QED BY <1>1, <1>3 DEF Db

LEMMA DbRecordSum ==
    ASSUME NEW recs, NEW t
    PROVE  DbRecord(recs, t).sum = Db(recs, t) /\ Db(recs, t) # NoSum
<1> DEFINE d == Db(recs, t)
           plain == [href |-> PlainName(t), sum |-> d]
<1>1. Renamed(plain).sum = d /\ plain.sum = d
  <2> HIDE DEF d
  <2> QED BY DEF Renamed
<1>2. DbRecord(recs, t) \in {plain, Renamed(plain)}
    BY DEF DbRecord
<1>3. Db(recs, t) # NoSum
    BY DEF Db, NoSum
<1> QED BY <1>1, <1>2, <1>3

LEMMA GenerateAsks ==
    ASSUME IInv, RInv, DoneInv, NEW p \in SqliteProcs, UNCHANGED <<modifyVars, start, tool>>,
           Generate(p) \/ GenerateDamaged(p)
    PROVE  DoneInv'
<1>0. /\ SRunning(p) /\ spc[p] = "generate" /\ spc' = [spc EXCEPT ![p] = "move"]
      /\ UNCHANGED files /\ Readable(seen[p])
    BY DEF Generate, GenerateDamaged, SAt, SRunning, SGoTo, dirVars
<1>1. /\ spc'[p] = "move" /\ SqliteAsks(p)
      /\ SqliteAsks(p)' => DoneInv'
      /\ Before' = Before /\ \A t : WasKept(t)' = WasKept(t)
    BY <1>0, SqliteAsking
<1>2. seen[p] = Before /\ files = start.files
  <2>1. tool = p
      BY <1>0, SqliteFrame
  <2> QED BY <1>0, <1>1, <2>1 DEF RInv, Replaces, SqliteAsks
<1>3. p \in DOMAIN work
    BY DEF IInv, Makes
<1>4. CASE GenerateDamaged(p)
  <2>1. PICK recs, fs : work' = [work EXCEPT ![p] =
              [NoWork EXCEPT !.records = recs, !.damaged = TRUE, !.files = fs]]
      BY <1>4 DEF GenerateDamaged
  <2>2. work'[p].damaged
      BY <1>3, <2>1, MadeWork
  <2> QED BY <1>1, <2>2 DEF SqliteAsks
<1>5. CASE Generate(p)
  <2>b. PICK b : b = Before
      OBVIOUS
  <2> DEFINE recs == [t \in DbTypes |-> DbRecord(b, t)]
             fs == [n \in {recs[t].href : t \in DbTypes} |->
                       (CHOOSE t \in DbTypes : recs[t].href = n)]
  <2>1. work' = [work EXCEPT ![p] = [NoWork EXCEPT !.records = recs, !.files = fs]]
      BY <1>2, <1>5, <2>b DEF Generate
  <2>2. \A t \in DbTypes : recs[t].href.base = t /\ recs[t].sum = Db(b, t)
      BY RecordBase, DbRecordSum
  <2> HIDE DEF recs
  <2>3. \A t \in DbTypes : recs[t].href \in DOMAIN fs /\ fs[recs[t].href] = t
    <3> TAKE t \in DbTypes
    <3>1. \A u \in DbTypes : recs[u].href = recs[t].href => u = t
        BY <2>2
    <3>2. (CHOOSE u \in DbTypes : recs[u].href = recs[t].href) = t
        BY <3>1
    <3> QED BY <3>2
  <2> HIDE DEF fs
  <2>4. work'[p].records = recs /\ work'[p].files = fs
      BY <1>3, <2>1, MadeWork
  <2>5. \A t : Db(b, t)' = Db(b, t)
      BY <1>0 DEF Db, Says, Xml
  <2>6. Moving(p)'
      BY <1>1, <2>b, <2>2, <2>3, <2>4, <2>5 DEF Moving
  <2>7. XmlThere'
      BY <1>0, <1>1, <1>2 DEF XmlThere, Readable, Xml
  <2>8. Kept0'
      BY <1>0, <1>1, <1>2 DEF Kept0, WasKept
  <2> QED BY <1>1, <2>6, <2>7, <2>8 DEF SqliteAsks
<1> QED BY <1>4, <1>5

LEMMA MovesAsk ==
    ASSUME IInv, RInv, DoneInv, NEW p \in SqliteProcs, MoveDb(p) \/ MoveRepomd(p),
           UNCHANGED <<modifyVars, start, tool>>
    PROVE  DoneInv'
<1>0. SRunning(p) /\ spc[p] = "move" /\ spc = [q \in SqliteProcs |-> spc[q]]
    BY DEF MoveDb, MoveRepomd, SAt, SRunning, IInv, Control
<1> DEFINE x == IF MoveDb(p) THEN "move" ELSE "remove"
<1>1. spc' = [spc EXCEPT ![p] = x]
    BY <1>0 DEF MoveDb, MoveRepomd, SGoTo
<1>2. /\ tool = p /\ spc'[p] = x /\ SqliteAsks(p)
      /\ SqliteAsks(p)' => DoneInv'
      /\ Before' = Before /\ \A t : WasKept(t)' = WasKept(t)
    BY <1>0, <1>1, SqliteAsking
<1>3. repomd.records = Before /\ seen[p] = Before /\ RightNames(Before)
    BY <1>0, <1>2 DEF RInv, Replaces, IInv, NamesRight
<1>b. PICK b : b = Before
    OBVIOUS
<1>4. p \in DOMAIN work /\ DOMAIN work[p].records = DbTypes
    BY <1>0 DEF IInv, Makes
<1>5. PICK fs, old1 : work' = [work EXCEPT ![p] = [files |-> fs, records |-> work[p].records,
                                         old |-> old1, damaged |-> work[p].damaged]]
  <2>1. CASE MoveDb(p)
    <3>1. PICK n : work' = [work EXCEPT ![p].files = Drop(work[p].files, {n})]
        BY <2>1 DEF MoveDb
    <3>2. work' = [work EXCEPT ![p] = [files |-> Drop(work[p].files, {n}), records |-> work[p].records,
                                       old |-> work[p].old, damaged |-> work[p].damaged]]
        BY <3>1, WorkField
    <3> QED BY <3>2
  <2>2. CASE MoveRepomd(p)
    <3>1. work' = [work EXCEPT ![p].old = OldDbs(p)]
        BY <2>2 DEF MoveRepomd
    <3>2. work' = [work EXCEPT ![p] = [files |-> work[p].files, records |-> work[p].records,
                                       old |-> OldDbs(p), damaged |-> work[p].damaged]]
        BY <3>1, WorkField
    <3> QED BY <3>2
  <2> QED BY <2>1, <2>2
<1>6. /\ work'[p].records = work[p].records /\ work'[p].damaged = work[p].damaged
      /\ work'[p].files = fs
    BY <1>4, <1>5
<1>7. SUFFICES ASSUME ~work[p].damaged
               PROVE  XmlThere' /\ Kept0' /\ IF x = "move" THEN Moving(p)' ELSE Moved'
    BY <1>2, <1>6 DEF SqliteAsks
<1>8. XmlThere /\ Kept0 /\ Moving(p)
    BY <1>0, <1>2, <1>7 DEF SqliteAsks
<1>9. ASSUME NEW t \in DbTypes
      PROVE  /\ work[p].records[t].href.base = t
             /\ work[p].records[t].sum = Db(b, t)
             /\ IF work[p].records[t].href \in DOMAIN work[p].files
                  THEN work[p].files[work[p].records[t].href] = t
                  ELSE Kept(work[p].records[t], files)
    BY <1>b, <1>8 DEF Moving
<1>10. CASE MoveDb(p)
  <2>1. PICK n \in DOMAIN work[p].files :
           /\ files' = Put(files, n, Content(p, n))
           /\ work' = [work EXCEPT ![p].files = Drop(work[p].files, {n})]
      BY <1>10 DEF MoveDb
  <2>2. PICK u \in DbTypes : work[p].records[u].href = n
      BY <1>4 DEF IInv, Makes
  <2>3. n.base = u /\ work[p].files[n] = u
      BY <1>9, <2>1, <2>2
  <2>4. Content(p, n) = Db(b, u)
      BY <1>9, <2>3, DbRecordSum DEF Content
  <2>5. /\ n \in DOMAIN files' /\ files'[n] = Db(b, u)
        /\ \A m \in DOMAIN files : m \in DOMAIN files' /\ (m # n => files'[m] = files[m])
      BY <2>1, <2>4 DEF Put
  <2>6. \A t \in DbTypes : \A m \in Xml(b, t) : m \in DOMAIN files /\ m # n
      BY <1>b, <1>3, <1>8, <2>3, XmlApart DEF XmlThere, Has
  <2>7. \A t \in DbTypes : Db(b, t)' = Db(b, t) /\ Xml(b, t)' = Xml(b, t)
      BY <2>5, <2>6, DbStays
  <2>8. XmlThere'
    <3>1. \A t \in DbTypes : \A m \in Xml(b, t)' : Has(files', m)
        BY <2>5, <2>6, <2>7 DEF Has
    <3> QED BY <1>b, <1>2, <3>1 DEF XmlThere, Xml
  <2>9. Kept0'
    <3> SUFFICES ASSUME NEW t \in DOMAIN Before \ DbTypes, WasKept(t)
                 PROVE  Kept(Before[t], files')
        BY <1>2 DEF Kept0
    <3>1. Kept(Before[t], files)
        BY <1>8 DEF Kept0
    <3>2. Before[t].href # n
        BY <1>3, <2>3 DEF RightNames
    <3> QED BY <2>5, <3>1, <3>2 DEF Kept, Has
  <2>10. fs = Drop(work[p].files, {n})
    <3>1. work' = [work EXCEPT ![p] = [files |-> Drop(work[p].files, {n}), records |-> work[p].records,
                                       old |-> work[p].old, damaged |-> work[p].damaged]]
        BY <2>1, WorkField
    <3> QED BY <1>4, <1>6, <3>1
  <2>11. ASSUME NEW t \in DbTypes
         PROVE  IF work[p].records[t].href \in DOMAIN fs
                  THEN fs[work[p].records[t].href] = t
                  ELSE Kept(work[p].records[t], files')
    <3>1. CASE t = u
        BY <1>9, <2>2, <2>5, <2>10, <3>1 DEF Kept, Has, Drop
    <3>2. CASE t # u
      <4>1. work[p].records[t].href # n
          BY <1>9, <2>3, <3>2
      <4> QED BY <1>9, <2>5, <2>10, <4>1 DEF Kept, Has, Drop
    <3> QED BY <3>1, <3>2
  <2>12. Moving(p)'
      BY <1>b, <1>2, <1>6, <1>9, <2>7, <2>11 DEF Moving
  <2> QED BY <1>10, <2>8, <2>9, <2>12
<1>11. CASE ~MoveDb(p)
  <2>1. MoveRepomd(p)
      BY <1>11
  <2>2. /\ UNCHANGED files /\ DOMAIN work[p].files = {} /\ Now' = NewRecords(p)
      BY <2>1 DEF MoveRepomd, DbsMoved, Now
  <2>3. XmlThere' /\ Kept0'
      BY <1>2, <1>8, <2>2 DEF XmlThere, Xml, Kept0
  <2>4. /\ DOMAIN Now' = DOMAIN b \union DbTypes
        /\ \A t \in DbTypes : Now'[t] = work[p].records[t]
        /\ \A t \in DOMAIN b \ DbTypes : Now'[t] = b[t]
      BY <1>b, <1>3, <2>2 DEF NewRecords
  <2>5. ASSUME NEW t \in DbTypes
        PROVE  Db(Now, t)' = Db(b, t)
    <3>1. XmlOf[t] \notin DbTypes
        BY RepoToolsAssumption
    <3>2. XmlOf[t] \in DOMAIN Now' <=> XmlOf[t] \in DOMAIN b
        BY <2>4, <3>1
    <3>3. XmlOf[t] \in DOMAIN b => Now'[XmlOf[t]] = b[XmlOf[t]]
        BY <2>4, <3>1
    <3>4. Xml(Now, t)' = Xml(b, t)
        BY <3>2, <3>3 DEF Xml
    <3>5. Says(Now, t)' = Says(b, t)
        BY <2>2, <3>4 DEF Says
    <3> QED BY <3>5 DEF Db
  <2>6. \A t \in DbTypes : Now'[t].sum = Db(Now, t)' /\ Kept(Now'[t], files')
      BY <1>9, <2>2, <2>4, <2>5
  <2>7. Moved'
      BY <1>b, <1>2, <2>4, <2>6 DEF Moved
  <2> QED BY <1>11, <2>3, <2>7
<1> QED BY <1>10, <1>11

LEMMA RemovesAsk ==
    ASSUME IInv, RInv, DoneInv, NEW p \in SqliteProcs, RemoveOld(p),
           UNCHANGED <<modifyVars, start, tool>>
    PROVE  DoneInv'
<1>0. /\ SRunning(p) /\ spc[p] = "remove" /\ spc = [q \in SqliteProcs |-> spc[q]]
      /\ UNCHANGED repomd /\ Now' = Now
    BY DEF RemoveOld, SAt, SRunning, IInv, Control, Now
<1>1. PICK n \in work[p].old :
         /\ files' = Drop(files, {n})
         /\ work' = [work EXCEPT ![p].old = work[p].old \ {n}]
         /\ IF Has(files, n) THEN UNCHANGED spc ELSE SGoTo(p, "exit failed")
    BY DEF RemoveOld
<1> DEFINE x == IF Has(files, n) THEN "remove" ELSE "exit failed"
<1>2. spc' = [spc EXCEPT ![p] = x]
    BY <1>0, <1>1 DEF SGoTo
<1>3. /\ spc'[p] = x /\ SqliteAsks(p)
      /\ SqliteAsks(p)' => DoneInv'
      /\ Before' = Before /\ \A t : WasKept(t)' = WasKept(t)
    BY <1>0, <1>2, SqliteAsking
<1>4. work'[p].damaged = work[p].damaged
  <2>1. work' = [work EXCEPT ![p] = [files |-> work[p].files, records |-> work[p].records,
                                     old |-> work[p].old \ {n}, damaged |-> work[p].damaged]]
      BY <1>1, WorkField
  <2>2. p \in DOMAIN work
      BY DEF IInv, Makes
  <2> QED BY <2>1, <2>2
<1>5. SUFFICES ASSUME ~work[p].damaged PROVE XmlThere' /\ Kept0' /\ Moved'
    BY <1>3, <1>4 DEF SqliteAsks
<1>6. XmlThere /\ Kept0 /\ Moved
    BY <1>0, <1>3, <1>5 DEF SqliteAsks
<1>7. /\ n.base \in DbTypes
      /\ \A t \in DbTypes : Now[t].href # n
      /\ RightNames(Now)
    BY <1>0 DEF IInv, Removes, NamesRight, Now
<1>8. /\ DOMAIN Now = DOMAIN Before \union DbTypes
      /\ \A t \in DbTypes : Now[t].sum = Db(Now, t) /\ Kept(Now[t], files)
      /\ \A t \in DOMAIN Before \ DbTypes : Now[t] = Before[t]
    BY <1>6 DEF Moved
<1>9. \A m \in DOMAIN files : m # n => m \in DOMAIN files' /\ files'[m] = files[m]
    BY <1>1 DEF Drop
<1>b. PICK b : b = Now
    OBVIOUS
<1>10. \A t \in DbTypes : Xml(Before, t) = Xml(b, t)
  <2> TAKE t \in DbTypes
  <2>1. XmlOf[t] \notin DbTypes
      BY RepoToolsAssumption
  <2> QED BY <1>b, <1>8, <2>1 DEF Xml
<1>11. \A t \in DbTypes : \A m \in Xml(b, t) : m \in DOMAIN files /\ m # n
    BY <1>b, <1>6, <1>7, <1>10, XmlApart DEF XmlThere, Has
<1>12. \A t \in DbTypes : Db(b, t)' = Db(b, t)
    BY <1>9, <1>11, DbStays
<1>13. XmlThere'
    BY <1>3, <1>9, <1>10, <1>11 DEF XmlThere, Xml, Has
<1>14. Kept0'
  <2> SUFFICES ASSUME NEW t \in DOMAIN Before \ DbTypes, WasKept(t)
               PROVE  Kept(Before[t], files')
      BY <1>3 DEF Kept0
  <2>1. Kept(Before[t], files)
      BY <1>6 DEF Kept0
  <2>2. Before[t].href # n
      BY <1>7, <1>8 DEF RightNames
  <2> QED BY <1>9, <2>1, <2>2 DEF Kept, Has
<1>15. \A t \in DbTypes : Now[t].sum = Db(b, t)' /\ Kept(Now[t], files')
    BY <1>b, <1>7, <1>8, <1>9, <1>12 DEF Kept, Has
<1>16. Moved'
    BY <1>b, <1>0, <1>3, <1>8, <1>15 DEF Moved
<1> QED BY <1>13, <1>14, <1>16

LEMMA QuietAsks ==
    ASSUME IInv, RInv, DoneInv, NEW p \in SqliteProcs, UNCHANGED <<modifyVars, start, tool>>,
           \/ Lock(p) \/ ReadRepomd(p) \/ RemovedOld(p) \/ RemoveDir(p) \/ ExitCleanup(p)
           \/ GiveUp(p) \/ SqliteKilled(p)
    PROVE  DoneInv'
<1>0. UNCHANGED <<files, repomd, work>> /\ Now' = Now
    BY DEF Lock, ReadRepomd, RemovedOld, RemoveDir, ExitCleanup, GiveUp, Refuse, SqliteKilled,
           dirVars, Now
<1>1. SRunning(p)
    BY DEF Lock, ReadRepomd, RemovedOld, RemoveDir, ExitCleanup, GiveUp, SqliteKilled, SAt, SRunning, Busy
<1>2. PICK x : /\ spc' = [spc EXCEPT ![p] = x]
               /\ \/ spc[p] \in {"lock", "read"} /\ x \in {"read", "generate", "failed"}
                  \/ spc[p] \in {"remove", "rmdir", "exit done"} /\ x \in {"rmdir", "exit done", "done"}
                  \/ x \in {"failed", "exit failed", "killed"}
    BY DEF Lock, ReadRepomd, RemovedOld, RemoveDir, ExitCleanup, GiveUp, Refuse, SqliteKilled, SAt, SGoTo
<1>3. /\ spc'[p] = x /\ SqliteAsks(p)
      /\ SqliteAsks(p)' => DoneInv'
      /\ Before' = Before /\ \A t : WasKept(t)' = WasKept(t)
    BY <1>1, <1>2, SqliteAsking
<1>4. CASE spc[p] \in {"lock", "read"} /\ x \in {"read", "generate", "failed"}
    BY <1>0, <1>3, <1>4 DEF SqliteAsks
<1>5. CASE spc[p] \in {"remove", "rmdir", "exit done"} /\ x \in {"rmdir", "exit done", "done"}
  <2>1. work[p].damaged \/ (XmlThere /\ Kept0 /\ Moved)
      BY <1>3, <1>5 DEF SqliteAsks
  <2>2. XmlThere' = XmlThere /\ Kept0' = Kept0
      BY <1>0, <1>3 DEF XmlThere, Xml, Kept0
  <2>3. Moved' = Moved
      BY <1>0, <1>3 DEF Moved, Db, Says, Xml
  <2> QED BY <1>0, <1>3, <1>5, <2>1, <2>2, <2>3 DEF SqliteAsks
<1>6. CASE x \in {"failed", "exit failed", "killed"}
    BY <1>3, <1>6 DEF SqliteAsks
<1> QED BY <1>2, <1>4, <1>5, <1>6

-----------------------------------------------------------------------------
(* Calls, kills, and the theorem.                                          *)

LEMMA CallsAsk ==
    ASSUME IInv, CallModify \/ \E p \in SqliteProcs : CallSqlite(p)
    PROVE  DoneInv'
<1>0. start' = [files |-> files, repomd |-> repomd] /\ UNCHANGED files
    BY DEF CallModify, CallSqlite, Started, ModifyStarts, SqliteStarts, dirVars
<1>1. CASE CallModify
  <2>1. mpc' = "parse" /\ tool' = "modify"
      BY <1>1 DEF CallModify, ModifyStarts, Started
  <2>2. tool' \notin SqliteProcs
      BY <2>1, RepoToolsAssumption
  <2> QED BY <1>0, <2>1, <2>2 DEF DoneInv, AfterParse
<1>2. ASSUME NEW p \in SqliteProcs, CallSqlite(p) PROVE DoneInv'
  <2>1. tool' = p /\ spc' = [spc EXCEPT ![p] = "lock"]
      BY <1>2 DEF CallSqlite, Started, SqliteStarts, SGoTo
  <2>2. spc'[p] = "lock"
    <3>1. spc = [q \in SqliteProcs |-> spc[q]]
        BY DEF IInv, Control
    <3> QED BY <2>1, <3>1
  <2>3. tool' # "modify"
      BY <2>1, RepoToolsAssumption
  <2>4. SqliteAsks(p)'
      BY <1>0, <2>2 DEF SqliteAsks
  <2> QED BY <2>1, <2>3, <2>4 DEF DoneInv
<1> QED BY <1>1, <1>2

LEMMA KillAsks ==
    ASSUME IInv, RInv, DoneInv, Kill
    PROVE  DoneInv'
<1>0. UNCHANGED <<start, tool>>
    BY DEF Kill
<1>1. CASE ModifyKilled /\ UNCHANGED sqliteVars
    BY <1>0, <1>1, EndsAsks DEF ModifyKilled, Ends
<1>2. ASSUME NEW p \in SqliteProcs, SqliteKilled(p), UNCHANGED modifyVars
      PROVE  DoneInv'
    BY <1>0, <1>2, QuietAsks
<1> QED BY <1>1, <1>2 DEF Kill

LEMMA StutterAsks == ASSUME DoneInv, UNCHANGED vars PROVE DoneInv'
<1>1. UNCHANGED <<files, repomd, mpc, tasks, todo, new, mem, spc, work, start, tool>>
    BY DEF vars, dirVars, modifyVars, sqliteVars
<1>2. /\ Before' = Before /\ Clash' = Clash /\ AllCopies' = AllCopies /\ CopySet' = CopySet
      /\ Named' = Named /\ Added' = Added
      /\ \A c : Meant(c)' = Meant(c) /\ Takes(c)' = Takes(c)
      /\ \A t : LastAdded(t)' = LastAdded(t) /\ WasKept(t)' = WasKept(t) /\ Staying(t)' = Staying(t)
    BY <1>1, CallStays
<1>3. ModifyAsks => ModifyAsks'
  <2>1. SourcesThere' = SourcesThere
      BY <1>1, <1>2 DEF SourcesThere
  <2>2. Copied' = Copied
      BY <1>1, <1>2 DEF Copied, Written, Here, Overwritten, Same
  <2>3. NewKept' = NewKept
      BY <1>1, <1>2 DEF NewKept, Next1, Kept, Has
  <2>4. /\ AsAsked(mem)' = AsAsked(mem) /\ AsAsked(Now)' = AsAsked(Now)
        /\ WithFiles(mem)' = WithFiles(mem) /\ WithFiles(Now)' = WithFiles(Now)
      BY <1>1, <1>2 DEF AsAsked, WithFiles, Now, Kept, Has
  <2> QED BY <1>1, <1>2, <2>1, <2>2, <2>3, <2>4 DEF ModifyAsks
<1>4. ASSUME NEW p, SqliteAsks(p) PROVE SqliteAsks(p)'
  <2>1. XmlThere' = XmlThere /\ Kept0' = Kept0
      BY <1>1, <1>2 DEF XmlThere, Xml, Kept0
  <2>2. Moving(p)' = Moving(p)
      BY <1>1, <1>2 DEF Moving, Db, Says, Xml, Kept, Has
  <2>3. Moved' = Moved
      BY <1>1, <1>2 DEF Moved, Now, Db, Says, Xml
  <2> QED BY <1>1, <1>4, <2>1, <2>2, <2>3 DEF SqliteAsks
<1> QED BY <1>1, <1>2, <1>3, <1>4 DEF DoneInv

LEMMA InductiveAsks ==
    ASSUME DatabasesByName, SecondTypesApart, IInv, RInv, DoneInv, [Next]_vars
    PROVE  DoneInv'
<1>1. CASE CallModify \/ \E p \in SqliteProcs : CallSqlite(p)
    BY <1>1, CallsAsk
<1>2. CASE Kill
    BY <1>2, KillAsks
<1>3. CASE Modify
    BY <1>3, ModifyDone
<1>4. CASE Sqlite
  <2>1. PICK p \in SqliteProcs :
           SqliteSteps(p) /\ UNCHANGED <<modifyVars, calls, kills, start, tool>>
      BY <1>4 DEF Sqlite
  <2>2. UNCHANGED <<modifyVars, start, tool>>
      BY <2>1
  <2>3. CASE Generate(p) \/ GenerateDamaged(p)
      BY <2>2, <2>3, GenerateAsks
  <2>4. CASE MoveDb(p) \/ MoveRepomd(p)
      BY <2>2, <2>4, MovesAsk
  <2>5. CASE RemoveOld(p)
      BY <2>2, <2>5, RemovesAsk
  <2>6. CASE ~(Generate(p) \/ GenerateDamaged(p) \/ MoveDb(p) \/ MoveRepomd(p) \/ RemoveOld(p))
      BY <2>1, <2>2, <2>6, QuietAsks DEF SqliteSteps
  <2> QED BY <2>3, <2>4, <2>5, <2>6
<1>5. CASE UNCHANGED vars
    BY <1>5, StutterAsks
<1> QED BY <1>1, <1>2, <1>3, <1>4, <1>5 DEF Next

\* The invariant of what the two tools have done so far.
THEOREM DoneInvariance ==
    ASSUME DatabasesByName, SecondTypesApart PROVE Spec => []DoneInv
<1>1. Init => DoneInv
  <2> SUFFICES ASSUME Init PROVE DoneInv
      OBVIOUS
  <2>1. tool = Nobody /\ mpc = "off"
      BY DEF Init, ModifyInit
  <2>2. tool \notin SqliteProcs
      BY <2>1, RepoToolsAssumption
  <2> QED BY <2>1, <2>2 DEF DoneInv, AfterParse
<1>2. IInv /\ RInv /\ DoneInv /\ [Next]_vars => DoneInv'
    BY InductiveAsks
<1> QED BY <1>1, <1>2, ToolsInvariance, RemovalInvariance, PTL DEF Spec

\* DoneAsAsked (RepoTools): for any repository, any tasks, any number of calls
\* and any kills before, a tool that ends with success has made of the records
\* what it was asked to, every record it wrote has its file, and the others
\* have theirs if they had it before.
THEOREM ToolsDoAsAsked ==
    ASSUME DatabasesByName, SecondTypesApart PROVE Spec => []DoneAsAsked
<1>1. ASSUME IInv, DoneInv PROVE DoneAsAsked
  <2> SUFFICES ASSUME Succeeded, ~Damaged, ~Clash PROVE DoneAsAsked
      BY DEF DoneAsAsked, NothingDangles, Applied
  <2>1. CASE tool = "modify"
    <3>1. AsAsked(Now) /\ WithFiles(Now)
        BY <1>1, <2>1 DEF Succeeded, DoneInv, ModifyAsks, AfterParse
    <3> QED BY <2>1, <3>1 DEF AsAsked, WithFiles, DoneAsAsked, NothingDangles, Applied
  <2>2. CASE tool # "modify"
    <3>1. tool \in SqliteProcs /\ spc[tool] = "done" /\ ~work[tool].damaged
        BY <1>1, <2>2 DEF Succeeded, Damaged, IInv, Control
    <3>2. Kept0 /\ Moved
        BY <1>1, <3>1 DEF DoneInv, SqliteAsks
    <3>3. Applied
        BY <2>2, <3>2 DEF Applied, Moved
    <3>4. NothingDangles
        BY <3>2 DEF NothingDangles, Moved, Kept0
    <3> QED BY <3>3, <3>4 DEF DoneAsAsked
  <2> QED BY <2>1, <2>2
<1>2. Spec => []IInv
    BY ToolsInvariance
<1>3. Spec => []DoneInv
    BY DoneInvariance
<1> QED BY <1>1, <1>2, <1>3, PTL
=============================================================================
