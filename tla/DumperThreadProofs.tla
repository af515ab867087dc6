------------------------- MODULE DumperThreadProofs -------------------------
(***************************************************************************)
(* What the pool of threads guarantees for any number of workers and       *)
(* tasks, any size of the buffer and any number of failing writes.         *)
(*                                                                         *)
(* The order of the output is not inductive: that a worker inside the      *)
(* critical section of a file appends the right id depends on the counters *)
(* (Turns), on whoever holds a package knowing its fate (Knowledge), and   *)
(* on no task being read twice (Readers).  Two more invariants stand on    *)
(* IInv: PoolInv, where a package that has missed its turn waits, and      *)
(* OutputInv, which relates the contents of the files to each other.       *)
(***************************************************************************)
EXTENDS DumperThread, FiniteSetTheorems, TLAPS

\* The workers that have, or wait for, a turn in some file.
InTurn(w) == pc[w] \in {"acquire", "waiting", "critical"}

\* A task is read by one worker, and its fate is open until then.
Readers ==
    /\ \A w \in Workers : pc[w] = "load" =>
          task[w] < next /\ fate[task[w]] = "pending"
    /\ \A v, w \in Workers :
          pc[v] = "load" /\ pc[w] = "load" /\ task[v] = task[w] => v = w
    /\ \A t \in Tasks : t >= next => fate[t] = "pending"

\* Whoever carries a package knows that it can be dumped; a turn is passed on
\* only for a task that cannot.
Knowledge ==
    /\ \A w \in Workers : pc[w] \in {"check", "insert"} => fate[task[w]] = "dump"
    /\ \A w \in Workers : InTurn(w) =>
          /\ wid[w] \in Tasks
          /\ fate[wid[w]] = (IF writing[w] THEN "dump" ELSE "skip")
    /\ \A w \in Workers : pc[w] = "cleanup" =>
          \/ fate[task[w]] = "skip"
          \/ fate[task[w]] = "dump" /\ task[w] < id[Pri]
    /\ \A t \in buffer : fate[t] = "dump"

\* A worker inside a critical section is alone and has moved the counter on;
\* one that has left primary behind has moved the counter of primary on.
Turns ==
    /\ \A w \in Workers : pc[w] = "critical" => id[stream[w]] = wid[w] + 1
    /\ \A v, w \in Workers :
          pc[v] = "critical" /\ pc[w] = "critical" /\ stream[v] = stream[w]
             => v = w
    /\ \A w \in Workers : InTurn(w) /\ stream[w] # Pri => wid[w] < id[Pri]

\* The ids in a file ascend, up to the next one it has to account for.
Ascending ==
    \A s \in Streams :
        /\ \A i \in DOMAIN written[s] : written[s][i] < Accounted(s)
        /\ \A i, j \in DOMAIN written[s] :
              i < j => written[s][i] < written[s][j]

IInv == TypeOK /\ Readers /\ Knowledge /\ Turns /\ Ascending /\ Complete

-----------------------------------------------------------------------------
USE DumperAssumption

LEMMA Ranges ==
    /\ \A t : t \in Tasks <=> t \in Nat /\ t < TaskCount
    /\ NStreams \in {3, 4}
    /\ \A s : s \in Streams <=> s \in Nat /\ 1 <= s /\ s <= NStreams
    /\ Pri \in Streams /\ Pri = 1
BY DEF Tasks, NStreams, Streams, Pri

\* A step that neither enters nor leaves a critical section leaves the point
\* up to which the files have accounted for the tasks alone.
LEMMA AccountedUnchanged ==
    ASSUME id' = id,
           \A v \in Workers : /\ pc'[v] = "critical" <=> pc[v] = "critical"
                              /\ pc[v] = "critical" => stream'[v] = stream[v]
    PROVE  \A s \in Streams : Accounted(s)' = Accounted(s)
<1>1. \A s \in Streams : MutexFree(s)' = MutexFree(s)
    BY DEF MutexFree
<1> QED BY <1>1 DEF Accounted

\* Such a step disturbs no file, even if it settles the fate of a task.
LEMMA OutputUnchanged ==
    ASSUME Ascending, Complete,
           written' = written, lost' = lost,
           \A t \in Tasks : fate[t] # "pending" => fate'[t] = fate[t],
           \A s \in Streams : Accounted(s)' = Accounted(s)
    PROVE  Ascending' /\ Complete'
<1>1. Ascending'
    BY DEF Ascending
<1>2. Complete'
    BY DEF Complete
<1> QED BY <1>1, <1>2

\* The invariant holds in the initial states.
THEOREM InitIInv == Init => IInv
<1> SUFFICES ASSUME Init PROVE IInv
    OBVIOUS
<1> USE DEF Init
<1>1. TypeOK
  <2>1. <<>> \in Seq(Tasks)
      OBVIOUS
  <2>2. written \in [Streams -> Seq(Tasks)]
      BY <2>1
  <2>3. stream \in [Workers -> Streams] /\ id \in [Streams -> 0 .. TaskCount]
      BY Ranges
  <2>4. header \in [Streams -> Nat] /\ next \in 0 .. TaskCount /\ packageCount \in Nat
      OBVIOUS
  <2>5. chunkEnds \in [Streams -> SUBSET Tasks] /\ fate \in [Tasks -> {"pending", "dump", "skip"}]
      OBVIOUS
  <2>6. /\ pc \in [Workers -> {"idle", "load", "check", "insert", "acquire",
                               "waiting", "critical", "cleanup", "drain"}]
        /\ \A w \in Workers : pc[w] # "idle" => task[w] \in Tasks
      OBVIOUS
  <2>7. newPkg \in [Workers -> BOOLEAN] /\ writing \in [Workers -> BOOLEAN]
      OBVIOUS
  <2>8. task \in [Workers -> Nat] /\ wid \in [Workers -> Nat]
      OBVIOUS
  <2> QED BY <2>2, <2>3, <2>4, <2>5, <2>6, <2>7, <2>8 DEF TypeOK
<1>2. Readers /\ Knowledge /\ Turns
    BY Ranges DEF Readers, Knowledge, Turns, InTurn
<1>3. \A s \in Streams : Accounted(s) = 0
    BY DEF Accounted, MutexFree
<1>4. Ascending /\ Complete
    BY <1>3, Ranges DEF Ascending, Complete
<1> QED BY <1>1, <1>2, <1>4 DEF IInv

LEMMA TakeStep ==
    ASSUME IInv, NEW w \in Workers, Take(w)
    PROVE  IInv'
<1> USE DEF IInv, Take, TasksLeft, workerVars, outputVars, mainVars
<1>0. next \in Nat /\ next + 1 \in 0 .. TaskCount /\ next \in Tasks /\ TaskCount \in Nat
    BY DEF TypeOK, Tasks, DumperAssumption
<1>a. pc'[w] = "load" /\ task'[w] = next
    BY DEF TypeOK
<1>b. \A v \in Workers : v # w => pc'[v] = pc[v] /\ task'[v] = task[v]
    BY DEF TypeOK
<1>1. TypeOK'
  <2>1. \A v \in Workers : pc'[v] # "idle" => task'[v] \in Tasks
      BY <1>0, <1>a, <1>b DEF TypeOK
  <2>2. task' \in [Workers -> Nat] /\ next' \in 0 .. TaskCount
      BY <1>0 DEF TypeOK
  <2>3. pc' \in [Workers -> {"idle", "load", "check", "insert", "acquire",
                            "waiting", "critical", "cleanup", "drain"}]
      BY DEF TypeOK
  <2> QED BY <2>1, <2>2, <2>3 DEF TypeOK
<1>2. Readers'
  <2>1. \A v \in Workers : pc'[v] = "load" => task'[v] < next' /\ fate'[task'[v]] = "pending"
      BY SMTT(30), <1>0, <1>a, <1>b DEF TypeOK, Readers
  <2>2. \A u, v \in Workers :
            pc'[u] = "load" /\ pc'[v] = "load" /\ task'[u] = task'[v] => u = v
    <3>1. \A v \in Workers : pc[v] = "load" => task[v] # next
        BY <1>0 DEF Readers, TypeOK
    <3> QED BY <3>1, <1>a, <1>b DEF Readers
  <2>3. \A t \in Tasks : t >= next' => fate'[t] = "pending"
    <3> SUFFICES ASSUME NEW t \in Tasks, t >= next' PROVE fate'[t] = "pending"
        OBVIOUS
    <3>1. t \in Nat /\ t >= next
        BY <1>0 DEF Tasks
    <3> QED BY <3>1 DEF Readers
  <2> QED BY <2>1, <2>2, <2>3 DEF Readers
<1>3. Knowledge'
    BY Ranges DEF TypeOK, Readers, Knowledge, InTurn
<1>4. Turns'
    BY Ranges DEF TypeOK, Turns, InTurn
<1>5. \A s \in Streams : Accounted(s)' = Accounted(s)
    BY AccountedUnchanged DEF TypeOK
<1>6. Ascending' /\ Complete'
    BY <1>5, OutputUnchanged DEF TypeOK, Readers
<1> QED BY <1>1, <1>2, <1>3, <1>4, <1>6

LEMMA LoadOkStep ==
    ASSUME IInv, NEW w \in Workers, LoadOk(w)
    PROVE  IInv'
<1> USE DEF IInv, LoadOk, workerVars, outputVars, mainVars
<1>1. TypeOK'
    BY Ranges DEF TypeOK
<1>2. Readers'
    BY SMTT(30), Ranges DEF TypeOK, Readers
<1>3. Knowledge'
    BY ZenonT(30), Ranges DEF TypeOK, Readers, Knowledge, InTurn
<1>4. Turns'
    BY Ranges DEF TypeOK, Turns, InTurn
<1>5. \A s \in Streams : Accounted(s)' = Accounted(s)
    BY AccountedUnchanged DEF TypeOK
<1>6. Ascending' /\ Complete'
    BY <1>5, OutputUnchanged DEF TypeOK, Readers
<1> QED BY <1>1, <1>2, <1>3, <1>4, <1>6

LEMMA LoadFailsStep ==
    ASSUME IInv, NEW w \in Workers, LoadFails(w)
    PROVE  IInv'
<1> USE DEF IInv, LoadFails, workerVars, outputVars, mainVars
<1>1. TypeOK'
    BY Ranges DEF TypeOK
<1>2. Readers'
    BY SMTT(30), Ranges DEF TypeOK, Readers
<1>3. Knowledge'
    BY ZenonT(30), Ranges DEF TypeOK, Readers, Knowledge, InTurn
<1>4. Turns'
    BY Ranges DEF TypeOK, Turns, InTurn
<1>5. \A s \in Streams : Accounted(s)' = Accounted(s)
    BY AccountedUnchanged DEF TypeOK
<1>6. Ascending' /\ Complete'
    BY <1>5, OutputUnchanged DEF TypeOK, Readers
<1> QED BY <1>1, <1>2, <1>3, <1>4, <1>6

LEMMA StatFailsStep ==
    ASSUME IInv, NEW w \in Workers, StatFails(w)
    PROVE  IInv'
<1> USE DEF IInv, StatFails, workerVars, outputVars, mainVars
<1>1. TypeOK'
    BY Ranges DEF TypeOK
<1>2. Readers'
    BY SMTT(30), Ranges DEF TypeOK, Readers
<1>3. Knowledge'
    BY ZenonT(30), Ranges DEF TypeOK, Readers, Knowledge, InTurn
<1>4. Turns'
    BY Ranges DEF TypeOK, Turns, InTurn
<1>5. \A s \in Streams : Accounted(s)' = Accounted(s)
    BY AccountedUnchanged DEF TypeOK
<1>6. Ascending' /\ Complete'
    BY <1>5, OutputUnchanged DEF TypeOK, Readers
<1> QED BY <1>1, <1>2, <1>3, <1>4, <1>6

\* A worker starts on its turn for a task whose fate it knows.
LEMMA TurnStarts ==
    ASSUME TypeOK, Readers, Knowledge, Turns,
           NEW w \in Workers, NEW t \in Tasks, NEW wr \in BOOLEAN,
           pc[w] \in {"check", "cleanup", "drain"}, StartTurn(w, t, wr),
           fate[t] = (IF wr THEN "dump" ELSE "skip"),
           buffer' \subseteq buffer,
           UNCHANGED <<next, task, newPkg, fate, id, curSrpm, packageCount,
                       hadErrors, outputVars, mainVars>>
    PROVE  TypeOK' /\ Readers' /\ Knowledge' /\ Turns'
<1> USE DEF StartTurn, outputVars, mainVars
<1>1. TypeOK'
    BY Ranges DEF TypeOK
<1>2. Readers'
    BY DEF TypeOK, Readers
<1>3. Knowledge'
    BY DEF TypeOK, Knowledge, InTurn
<1>4. Turns'
    BY DEF TypeOK, Turns, InTurn
<1> QED BY <1>1, <1>2, <1>3, <1>4

\* A worker goes on to a place where it neither reads nor has a turn.
LEMMA MovesOn ==
    ASSUME TypeOK, Readers, Knowledge, Turns,
           NEW w \in Workers, NEW place \in {"insert", "drain", "idle"},
           pc[w] # "idle", place = "insert" => pc[w] = "check",
           pc' = [pc EXCEPT ![w] = place],
           UNCHANGED <<next, task, wid, writing, stream, newPkg, fate, id,
                       buffer, curSrpm, packageCount, hadErrors, outputVars,
                       mainVars>>
    PROVE  TypeOK' /\ Readers' /\ Knowledge' /\ Turns'
<1> USE DEF outputVars, mainVars
<1>1. TypeOK'
    BY Ranges DEF TypeOK
<1>2. Readers'
    BY DEF TypeOK, Readers
<1>3. Knowledge'
    BY DEF TypeOK, Knowledge, InTurn
<1>4. Turns'
    BY DEF TypeOK, Turns, InTurn
<1> QED BY <1>1, <1>2, <1>3, <1>4

LEMMA BufferCheckStep ==
    ASSUME IInv, NEW w \in Workers, BufferCheck(w)
    PROVE  IInv'
<1> USE DEF IInv, BufferCheck, workerVars, outputVars, mainVars
<1>0. task[w] \in Tasks /\ fate[task[w]] = "dump"
    BY DEF TypeOK, Knowledge
<1>1. TypeOK' /\ Readers' /\ Knowledge' /\ Turns'
  <2>1. CASE MayBuffer(task[w])
      BY <2>1, MovesOn
  <2>2. CASE ~(MayBuffer(task[w]))
      BY <2>2, TurnStarts, <1>0
  <2> QED BY <2>1, <2>2
<1>2. \A s \in Streams : Accounted(s)' = Accounted(s)
    BY AccountedUnchanged DEF TypeOK, StartTurn
<1>3. Ascending' /\ Complete'
    BY <1>2, OutputUnchanged DEF TypeOK, Readers
<1> QED BY <1>1, <1>3

LEMMA BufferInsertStep ==
    ASSUME IInv, NEW w \in Workers, BufferInsert(w)
    PROVE  IInv'
<1> USE DEF IInv, BufferInsert, workerVars, outputVars, mainVars
<1>1. TypeOK'
    BY Ranges DEF TypeOK
<1>2. Readers'
    BY Ranges DEF TypeOK, Readers
<1>3. Knowledge'
    BY SMTT(30), Ranges DEF TypeOK, Readers, Knowledge, InTurn
<1>4. Turns'
    BY Ranges DEF TypeOK, Turns, InTurn
<1>5. \A s \in Streams : Accounted(s)' = Accounted(s)
    BY AccountedUnchanged DEF TypeOK
<1>6. Ascending' /\ Complete'
    BY <1>5, OutputUnchanged DEF TypeOK, Readers
<1> QED BY <1>1, <1>2, <1>3, <1>4, <1>6

LEMMA WaitStep ==
    ASSUME IInv, NEW w \in Workers, Wait(w)
    PROVE  IInv'
<1> USE DEF IInv, Wait, workerVars, outputVars, mainVars
<1>1. TypeOK'
    BY Ranges DEF TypeOK
<1>2. Readers'
    BY Ranges DEF TypeOK, Readers
<1>3. Knowledge'
    BY SMTT(30), Ranges DEF TypeOK, Readers, Knowledge, InTurn
<1>4. Turns'
    BY Ranges DEF TypeOK, Turns, InTurn
<1>5. \A s \in Streams : Accounted(s)' = Accounted(s)
    BY AccountedUnchanged DEF TypeOK
<1>6. Ascending' /\ Complete'
    BY <1>5, OutputUnchanged DEF TypeOK, Readers
<1> QED BY <1>1, <1>2, <1>3, <1>4, <1>6

LEMMA SpuriousWakeupStep ==
    ASSUME IInv, NEW w \in Workers, SpuriousWakeup(w)
    PROVE  IInv'
<1> USE DEF IInv, SpuriousWakeup, workerVars, outputVars, mainVars
<1>1. TypeOK'
    BY Ranges DEF TypeOK
<1>2. Readers'
    BY Ranges DEF TypeOK, Readers
<1>3. Knowledge'
    BY SMTT(30), Ranges DEF TypeOK, Readers, Knowledge, InTurn
<1>4. Turns'
    BY Ranges DEF TypeOK, Turns, InTurn
<1>5. \A s \in Streams : Accounted(s)' = Accounted(s)
    BY AccountedUnchanged DEF TypeOK
<1>6. Ascending' /\ Complete'
    BY <1>5, OutputUnchanged DEF TypeOK, Readers
<1> QED BY <1>1, <1>2, <1>3, <1>4, <1>6

LEMMA CleanupStep ==
    ASSUME IInv, NEW w \in Workers, Cleanup(w)
    PROVE  IInv'
<1> USE DEF IInv, Cleanup, workerVars, outputVars, mainVars
<1>0. /\ task[w] \in Tasks
      /\ id[Pri] <= task[w] => fate[task[w]] = "skip"
    BY SMTT(30), Ranges DEF TypeOK, Knowledge
<1>1. TypeOK' /\ Readers' /\ Knowledge' /\ Turns'
  <2>1. CASE id[Pri] <= task[w]
      BY <2>1, TurnStarts, <1>0
  <2>2. CASE ~(id[Pri] <= task[w])
      BY <2>2, MovesOn
  <2> QED BY <2>1, <2>2
<1>2. \A s \in Streams : Accounted(s)' = Accounted(s)
    BY AccountedUnchanged DEF TypeOK, StartTurn
<1>3. Ascending' /\ Complete'
    BY <1>2, OutputUnchanged DEF TypeOK, Readers
<1> QED BY <1>1, <1>3

LEMMA DrainStep ==
    ASSUME IInv, NEW w \in Workers, Drain(w)
    PROVE  IInv'
<1> USE DEF IInv, Drain, workerVars, outputVars, mainVars
<1>0. IsHead(id[Pri]) => id[Pri] \in Tasks /\ fate[id[Pri]] = "dump"
    BY DEF TypeOK, Knowledge, IsHead
<1>1. TypeOK' /\ Readers' /\ Knowledge' /\ Turns'
  <2>1. CASE IsHead(id[Pri])
      BY <2>1, TurnStarts, <1>0
  <2>2. CASE ~(IsHead(id[Pri]))
      BY <2>2, MovesOn
  <2> QED BY <2>1, <2>2
<1>2. \A s \in Streams : Accounted(s)' = Accounted(s)
    BY AccountedUnchanged DEF TypeOK, StartTurn
<1>3. Ascending' /\ Complete'
    BY <1>2, OutputUnchanged DEF TypeOK, Readers
<1> QED BY <1>1, <1>3

\* Inside its critical section a worker's file is still where it was.
LEMMA EnterAccounted ==
    ASSUME IInv, NEW w \in Workers, Enter(w)
    PROVE  \A s \in Streams : Accounted(s)' = Accounted(s)
<1> USE DEF IInv, Enter, IsTurn
<1>0. /\ stream[w] \in Streams /\ pc'[w] = "critical" /\ MutexFree(stream[w])
      /\ id[stream[w]] \in Nat
      /\ id'[stream[w]] = id[stream[w]] + 1
    BY Ranges DEF TypeOK, Knowledge, InTurn
<1> TAKE s \in Streams
<1>1. CASE s = stream[w]
  <2>1. ~MutexFree(s)'
      BY <1>0, <1>1 DEF MutexFree
  <2> QED BY <1>0, <1>1, <2>1 DEF Accounted
<1>2. CASE s # stream[w]
  <2>1. MutexFree(s)' = MutexFree(s)
      BY <1>2 DEF MutexFree, TypeOK
  <2>2. id'[s] = id[s]
      BY <1>2 DEF TypeOK
  <2> QED BY <2>1, <2>2 DEF Accounted
<1> QED BY <1>1, <1>2

\* The counter moves on: the worker is alone, at its own id.
LEMMA EnterStep ==
    ASSUME IInv, NEW w \in Workers, Enter(w)
    PROVE  IInv'
<1> USE DEF IInv, Enter, IsTurn, workerVars, outputVars, mainVars
<1>0. /\ stream[w] \in Streams /\ pc'[w] = "critical" /\ MutexFree(stream[w])
      /\ id[stream[w]] \in Nat /\ id[stream[w]] < TaskCount
      /\ id'[stream[w]] = id[stream[w]] + 1
    BY Ranges DEF TypeOK, Knowledge, InTurn
<1>1. TypeOK'
  <2>1. id' \in [Streams -> 0 .. TaskCount]
      BY <1>0 DEF TypeOK
  <2>2. packageCount' \in Nat /\ newPkg' \in [Workers -> BOOLEAN]
    <3>1. CASE Counted(w)
      <4>1. NewPkg(wid[w]) \in BOOLEAN
          BY DEF NewPkg
      <4>2. /\ packageCount' = packageCount + 1
            /\ newPkg' = [newPkg EXCEPT ![w] = NewPkg(wid[w])]
          BY <3>1 DEF CountPackage
      <4>3. packageCount' \in Nat
          BY <4>2 DEF TypeOK
      <4>4. newPkg' \in [Workers -> BOOLEAN]
          BY <4>1, <4>2 DEF TypeOK
      <4> QED BY <4>3, <4>4
    <3>2. CASE ~Counted(w)
        BY <3>2 DEF CountPackage, TypeOK
    <3> QED BY <3>1, <3>2
  <2>3. pc' \in [Workers -> {"idle", "load", "check", "insert", "acquire",
                            "waiting", "critical", "cleanup", "drain"}]
      BY DEF TypeOK
  <2>4. \A v \in Workers : pc'[v] # "idle" => task[v] \in Tasks
      BY DEF TypeOK
  <2> QED BY <2>1, <2>2, <2>3, <2>4 DEF TypeOK
<1>2. Readers'
    BY DEF TypeOK, Readers
<1>3. Knowledge'
    BY SMTT(30), Ranges DEF TypeOK, Knowledge, InTurn
<1>4. Turns'
  <2>1. \A v \in Workers : pc'[v] = "critical" => id'[stream[v]] = wid[v] + 1
      BY <1>0 DEF TypeOK, Turns, MutexFree
  <2>2. \A u, v \in Workers :
            pc'[u] = "critical" /\ pc'[v] = "critical" /\ stream[u] = stream[v]
               => u = v
      BY SMTT(30), <1>0 DEF TypeOK, Turns, MutexFree
  <2>3. \A v \in Workers : InTurn(v)' => InTurn(v)
      BY DEF InTurn, TypeOK
  <2>4. id[Pri] \in Nat /\ id'[Pri] \in Nat /\ id[Pri] <= id'[Pri] /\ wid \in [Workers -> Nat]
      BY SMTT(30), <1>0, Ranges DEF TypeOK
  <2>5. \A v \in Workers : InTurn(v)' /\ stream[v] # Pri => wid[v] < id'[Pri]
      BY <2>3, <2>4 DEF Turns
  <2> QED BY <2>1, <2>2, <2>5 DEF Turns
<1>5. \A s \in Streams : Accounted(s)' = Accounted(s)
    BY EnterAccounted
<1>6. Ascending' /\ Complete'
    BY <1>5, OutputUnchanged DEF TypeOK
<1> QED BY <1>1, <1>2, <1>3, <1>4, <1>6

\* Leaving it, the file has accounted for one more task, the worker's.
LEMMA LeaveAccounted ==
    ASSUME IInv, NEW w \in Workers, Leave(w)
    PROVE  /\ Accounted(stream[w]) = wid[w]
           /\ \A r \in Streams :
                 Accounted(r)' = IF r = stream[w] THEN wid[w] + 1 ELSE Accounted(r)
<1> USE DEF IInv
<1>0. PICK s \in Streams, k \in Nat :
         /\ s = stream[w] /\ k = wid[w] /\ id[s] = k + 1 /\ pc[w] = "critical"
    BY Ranges DEF Leave, TypeOK, Turns, Knowledge, InTurn
<1>1. /\ \A v \in Workers : pc'[v] = "critical" => pc[v] = "critical" /\ v # w
      /\ \A v \in Workers : v # w /\ pc[v] = "critical" => pc'[v] = "critical"
      /\ \A v \in Workers : v # w => stream'[v] = stream[v]
      /\ id' = id
    BY <1>0 DEF Leave, Broadcast, AfterStream, TypeOK
<1>2. MutexFree(s)'
  <2> SUFFICES ASSUME NEW v \in Workers PROVE ~(pc'[v] = "critical" /\ stream'[v] = s)
      BY DEF MutexFree
  <2> QED BY <1>0, <1>1 DEF Turns
<1>3. \A r \in Streams : r # s => MutexFree(r)' = MutexFree(r)
    BY <1>0, <1>1 DEF MutexFree
<1>4. Accounted(s) = k
    BY <1>0 DEF Accounted, MutexFree
<1> QED BY <1>0, <1>1, <1>2, <1>3, <1>4 DEF Accounted

\* The chunk is added, or lost, and the mutex given back.
LEMMA LeaveStep ==
    ASSUME IInv, NEW w \in Workers, Leave(w)
    PROVE  IInv'
<1> USE DEF IInv, mainVars
<1>0. PICK s \in Streams, k \in Tasks :
         /\ s = stream[w] /\ k = wid[w]
         /\ k \in Nat /\ id[s] = k + 1
         /\ pc[w] = "critical" /\ InTurn(w)
         /\ fate[k] = (IF writing[w] THEN "dump" ELSE "skip")
    BY Ranges DEF Leave, TypeOK, Turns, Knowledge, InTurn
<1>1. /\ UNCHANGED <<next, task, wid, writing, newPkg, fate, id, buffer,
                     curSrpm, packageCount, mainVars>>
      /\ stream' = [stream EXCEPT ![w] = IF @ < NStreams THEN @ + 1 ELSE Pri]
      /\ Broadcast(w)
    BY DEF Leave
<1>2. PICK added \in BOOLEAN :
        /\ written' = IF added THEN [written EXCEPT ![s] = Append(@, k)]
                               ELSE written
        /\ writing[w] /\ ~added => <<s, k>> \in lost'
        /\ ~writing[w] => ~added
        /\ lost \subseteq lost' /\ lost' \subseteq Streams \X Tasks
        /\ chunkEnds' \in [Streams -> SUBSET Tasks]
        /\ hadErrors' \in BOOLEAN
  <2>1. CASE writing[w]
    <3>1. PICK xmlOk, dbOk \in {TRUE, ~MayFail} : AddChunks(w, xmlOk, dbOk)
        BY <2>1 DEF Leave
    <3>2. xmlOk \in BOOLEAN /\ dbOk \in BOOLEAN
        BY DEF MayFail
    <3>3. /\ written' = IF xmlOk THEN [written EXCEPT ![s] = Append(@, k)]
                                 ELSE written
          /\ lost' = IF xmlOk /\ dbOk THEN lost ELSE lost \union {<<s, k>>}
          /\ chunkEnds' \in [Streams -> SUBSET Tasks]
          /\ hadErrors' \in BOOLEAN
        BY <1>0, <3>1, <3>2 DEF AddChunks, TypeOK
    <3>4. lost \subseteq lost' /\ lost' \subseteq Streams \X Tasks
        BY <1>0, <3>3 DEF TypeOK
    <3> QED BY <2>1, <3>2, <3>3, <3>4
  <2>2. CASE ~writing[w]
      BY <2>2 DEF Leave, TypeOK, outputVars
  <2> QED BY <2>1, <2>2
<1>4. \A v \in Workers :
        /\ pc'[v] = IF v = w THEN AfterStream(w)
                    ELSE IF pc[v] = "waiting" /\ stream[v] = s THEN "acquire"
                    ELSE pc[v]
        /\ stream'[v] = IF v # w THEN stream[v]
                        ELSE IF s < NStreams THEN s + 1 ELSE Pri
    BY <1>0, <1>1 DEF Broadcast, TypeOK
<1>5. /\ AfterStream(w) \in {"acquire", "cleanup", "drain"}
      /\ AfterStream(w) = "acquire" <=> s < NStreams
      /\ AfterStream(w) = "cleanup" => s = NStreams /\ writing[w] /\ k = task[w]
    BY <1>0, Ranges DEF AfterStream
<1>6. written' \in [Streams -> Seq(Tasks)]
    BY <1>0, <1>2 DEF TypeOK
<1>7. TypeOK'
  <2>1. stream' \in [Workers -> Streams]
    <3>1. (IF s < NStreams THEN s + 1 ELSE Pri) \in Streams
        BY Ranges
    <3> QED BY <1>0, <1>1, <3>1 DEF TypeOK
  <2>2. pc' \in [Workers -> {"idle", "load", "check", "insert", "acquire",
                            "waiting", "critical", "cleanup", "drain"}]
      BY <1>1, <1>5 DEF TypeOK, Broadcast
  <2>3. \A v \in Workers : pc'[v] # "idle" => task'[v] \in Tasks
      BY <1>0, <1>1, <1>4 DEF TypeOK
  <2> QED BY <1>1, <1>2, <1>6, <2>1, <2>2, <2>3 DEF TypeOK
<1>8. Readers'
    BY <1>1, <1>4, <1>5 DEF TypeOK, Readers
<1>9. Knowledge'
  <2>1. \A v \in Workers : pc'[v] \in {"check", "insert"} => fate[task[v]] = "dump"
      BY <1>4, <1>5 DEF Knowledge
  <2>2. \A v \in Workers : InTurn(v)' => InTurn(v)
      BY <1>0, <1>4 DEF InTurn
  <2>3. \A v \in Workers : pc'[v] = "cleanup" =>
            \/ fate[task[v]] = "skip"
            \/ fate[task[v]] = "dump" /\ task[v] < id[Pri]
      BY <1>0, <1>4, <1>5, Ranges DEF Knowledge, Turns
  <2> QED BY <1>1, <2>1, <2>2, <2>3 DEF Knowledge
<1>10. Turns'
  <2>1. \A v \in Workers : pc'[v] = "critical" => v # w /\ pc[v] = "critical"
      BY <1>4, <1>5
  <2>2. \A v \in Workers : InTurn(v)' /\ stream'[v] # Pri => wid[v] < id[Pri]
    <3> SUFFICES ASSUME NEW v \in Workers, InTurn(v)', stream'[v] # Pri
                 PROVE  wid[v] < id[Pri]
        OBVIOUS
    <3>1. CASE v # w
        BY <3>1, <1>4 DEF InTurn, Turns
    <3>2. CASE v = w /\ s = Pri
        BY <3>2, <1>0, Ranges
    <3>3. CASE v = w /\ s # Pri
        BY <3>3, <1>0 DEF Turns
    <3> QED BY <3>1, <3>2, <3>3
  <2> QED BY <1>1, <1>4, <2>1, <2>2 DEF Turns
<1>11. /\ \A r \in Streams : Accounted(r)' = IF r = s THEN k + 1 ELSE Accounted(r)
       /\ Accounted(s) = k
    BY <1>0, LeaveAccounted
<1>14. ASSUME added
       PROVE  /\ DOMAIN written'[s] = DOMAIN written[s] \union {Len(written[s]) + 1}
              /\ written'[s][Len(written[s]) + 1] = k
              /\ Len(written[s]) + 1 \notin DOMAIN written[s]
              /\ \A i \in DOMAIN written[s] : written'[s][i] = written[s][i] /\ i < Len(written[s]) + 1
              /\ \A r \in Streams : r # s => written'[r] = written[r]
  <2>1. written[s] \in Seq(Tasks) /\ written'[s] = Append(written[s], k)
      BY <1>0, <1>2, <1>14 DEF TypeOK
  <2>2. \A r \in Streams : r # s => written'[r] = written[r]
      BY <1>0, <1>2, <1>14 DEF TypeOK
  <2> QED BY <2>1, <2>2
<1>15. /\ \A r \in Streams : r # s => written'[r] = written[r]
       /\ ~added => written' = written
       /\ \A i \in DOMAIN written[s] : written[s][i] \in Nat /\ written[s][i] < k
       /\ \A i \in DOMAIN written[s] : i \in Nat
       /\ Len(written[s]) \in Nat
  <2>1. written[s] \in Seq(Tasks)
      BY <1>0 DEF TypeOK
  <2>2. \A i \in DOMAIN written[s] : written[s][i] \in Nat /\ i \in Nat
      BY <2>1 DEF Tasks
  <2> QED BY <1>2, <1>11, <1>14, <2>1, <2>2 DEF Ascending
<1>16. Ascending'
  <2> SUFFICES ASSUME NEW r \in Streams
               PROVE  /\ \A i \in DOMAIN written'[r] : written'[r][i] < Accounted(r)'
                      /\ \A i, j \in DOMAIN written'[r] :
                            i < j => written'[r][i] < written'[r][j]
      BY DEF Ascending
  <2>1. CASE r # s \/ ~added
    <3>1. written'[r] = written[r]
        BY <2>1, <1>15
    <3>2. CASE r # s
        BY <3>1, <3>2, <1>11 DEF Ascending
    <3>3. CASE r = s
        BY <3>1, <3>3, <1>0, <1>11, <1>15 DEF Ascending
    <3> QED BY <3>2, <3>3
  <2>2. CASE r = s /\ added
    <3>1. \A i \in DOMAIN written'[s] : written'[s][i] < k + 1
        BY <2>2, <1>0, <1>14, <1>15
    <3>2. \A i, j \in DOMAIN written'[s] :
              i < j => written'[s][i] < written'[s][j]
        BY <2>2, <1>0, <1>14, <1>15 DEF Ascending
    <3> QED BY <2>2, <3>1, <3>2, <1>11
  <2> QED BY <2>1, <2>2
<1>17. Complete'
  <2> SUFFICES ASSUME NEW r \in Streams, NEW t \in Tasks
               PROVE  LET there == \E i \in DOMAIN written'[r] : written'[r][i] = t
                      IN  /\ there => t < Accounted(r)' /\ fate[t] = "dump"
                          /\ t < Accounted(r)' /\ fate[t] = "dump"
                               => there \/ <<r, t>> \in lost'
                          /\ t < Accounted(r)' => fate[t] # "pending"
      BY <1>1 DEF Complete
  <2>0. t \in Nat
      BY DEF Tasks
  <2>1. CASE r # s
      BY <2>1, <1>2, <1>11, <1>15 DEF Complete
  <2>2. CASE r = s /\ added
    <3>1. (\E i \in DOMAIN written'[s] : written'[s][i] = t)
             <=> (\E i \in DOMAIN written[s] : written[s][i] = t) \/ t = k
        BY <2>2, <1>14
    <3>2. fate[k] = "dump"
        BY <2>2, <1>0, <1>2
    <3> QED BY SMTT(30), <2>0, <2>2, <3>1, <3>2, <1>0, <1>2, <1>11 DEF Complete
  <2>3. CASE r = s /\ ~added
    <3>1. fate[k] = "dump" => <<s, k>> \in lost'
        BY <2>3, <1>0, <1>2
    <3>2. fate[k] # "pending"
        BY <1>0
    <3> QED BY <2>0, <2>3, <3>1, <3>2, <1>0, <1>2, <1>11, <1>15 DEF Complete
  <2> QED BY <2>1, <2>2, <2>3
<1> QED BY <1>7, <1>8, <1>9, <1>10, <1>16, <1>17

LEMMA FinishStep ==
    ASSUME IInv, Finish
    PROVE  IInv'
<1> USE DEF IInv, Finish, workerVars, outputVars
<1>1. PICK failed : header' = [s \in Streams |->
                         IF s \in failed THEN header[s] ELSE packageCount]
    OBVIOUS
<1>2. header' \in [Streams -> Nat]
    BY <1>1 DEF TypeOK
<1>3. TypeOK'
    BY <1>2 DEF TypeOK
<1>4. Readers' /\ Knowledge' /\ Turns'
    BY DEF Readers, Knowledge, Turns, InTurn
<1>5. \A s \in Streams : Accounted(s)' = Accounted(s)
    BY AccountedUnchanged
<1>6. Ascending' /\ Complete'
    BY <1>5, OutputUnchanged
<1> QED BY <1>3, <1>4, <1>6

LEMMA StutterStep ==
    ASSUME IInv, UNCHANGED vars
    PROVE  IInv'
<1> USE DEF IInv, vars, workerVars, outputVars, mainVars
<1>1. TypeOK' /\ Readers' /\ Knowledge' /\ Turns'
    BY DEF TypeOK, Readers, Knowledge, Turns, InTurn
<1>2. \A s \in Streams : Accounted(s)' = Accounted(s)
    BY AccountedUnchanged
<1>3. Ascending' /\ Complete'
    BY <1>2, OutputUnchanged
<1> QED BY <1>1, <1>3

\* The strengthened invariant holds in every reachable state.
THEOREM Inductive == Spec => []IInv
<1>1. IInv /\ [Next]_vars => IInv'
  <2> SUFFICES ASSUME IInv, [Next]_vars PROVE IInv'
      OBVIOUS
  <2>1. ASSUME NEW w \in Workers, Worker(w) PROVE IInv'
      BY <2>1, TakeStep, LoadOkStep, LoadFailsStep, StatFailsStep,
         BufferCheckStep, BufferInsertStep, EnterStep, WaitStep, LeaveStep,
         CleanupStep, DrainStep DEF Worker
  <2>2. ASSUME NEW w \in Workers, SpuriousWakeup(w) PROVE IInv'
      BY <2>2, SpuriousWakeupStep
  <2>3. CASE Finish
      BY <2>3, FinishStep
  <2>4. CASE UNCHANGED vars
      BY <2>4, StutterStep
  <2> QED BY <2>1, <2>2, <2>3, <2>4 DEF Next, Terminated
<1> QED BY InitIInv, <1>1, PTL DEF Spec

\* No counter, no index and no id of the pool ever leaves its range.
THEOREM TypeCorrect == Spec => []TypeOK
<1>1. IInv => TypeOK
    BY DEF IInv
<1> QED BY <1>1, Inductive, PTL

\* The ids in every metadata file ascend, for any scheduling of the workers.
THEOREM OutputInOrder == Spec => []InOrder
<1>1. IInv => InOrder
    BY DEF IInv, Ascending, InOrder
<1> QED BY <1>1, Inductive, PTL

\* A metadata file contains exactly the readable packages among the tasks it
\* has accounted for, but those whose write failed.
THEOREM OutputComplete == Spec => []Complete
<1>1. IInv => Complete
    BY DEF IInv
<1> QED BY <1>1, Inductive, PTL

-----------------------------------------------------------------------------
(* The pool implements OrderedDump.                                        *)

\* A step that changes neither the files nor the fates is invisible.
LEMMA Invisible ==
    ASSUME UNCHANGED <<fate, written>>,
           \A s \in Streams : Accounted(s)' = Accounted(s)
    PROVE  UNCHANGED Abstract!vars
BY DEF Abstract!vars

LEMMA DecideMapped ==
    ASSUME IInv, NEW w \in Workers, LoadOk(w) \/ LoadFails(w) \/ StatFails(w)
    PROVE  Abstract!Next
<1> USE DEF IInv, LoadOk, LoadFails, StatFails
<1>1. task[w] \in Tasks /\ fate[task[w]] = "pending"
    BY DEF TypeOK, Readers
<1>2. \A s \in Streams : Accounted(s)' = Accounted(s)
    BY AccountedUnchanged DEF TypeOK
<1>3. /\ written' = written
      /\ \E f \in {"dump", "skip"} : fate' = [fate EXCEPT ![task[w]] = f]
    BY DEF outputVars
<1>4. Abstract!Decide(task[w])
    BY <1>1, <1>2, <1>3 DEF Abstract!Decide
<1> QED BY <1>1, <1>4 DEF Abstract!Next, Abstract!Tasks, Tasks

LEMMA LeaveMapped ==
    ASSUME IInv, NEW w \in Workers, Leave(w)
    PROVE  Abstract!Next
<1> USE DEF IInv
<1>1. /\ stream[w] \in Streams /\ wid[w] \in Tasks /\ fate' = fate
      /\ fate[wid[w]] = (IF writing[w] THEN "dump" ELSE "skip")
    BY DEF Leave, TypeOK, Knowledge, InTurn
<1>2. ASSUME MaxFails = 0 PROVE ~MayFail
  <2>1. IsFiniteSet(Streams) /\ IsFiniteSet(Tasks)
      BY FS_Interval, Ranges DEF Streams, Tasks
  <2>2. IsFiniteSet(lost)
      BY <2>1, FS_Product, FS_Subset DEF TypeOK
  <2>3. Cardinality(lost) \in Nat
      BY <2>2, FS_CardinalityType
  <2> QED BY <1>2, <2>3 DEF MayFail
<1>3. \/ /\ writing[w]
         /\ written' = [written EXCEPT ![stream[w]] = Append(@, wid[w])]
      \/ /\ ~writing[w] \/ MaxFails # 0
         /\ written' = written
    BY <1>2 DEF Leave, AddChunks, outputVars
<1>4. /\ Accounted(stream[w]) = wid[w]
      /\ \A r \in Streams :
            Accounted(r)' = IF r = stream[w] THEN wid[w] + 1 ELSE Accounted(r)
    BY LeaveAccounted
<1>5. Abstract!Account(stream[w])
  <2>1. wid[w] < TaskCount
      BY <1>1, Ranges
  <2>2. [r \in Streams |-> Accounted(r)]'
          = [[r \in Streams |-> Accounted(r)] EXCEPT ![stream[w]] = @ + 1]
      BY <1>1, <1>4
  <2> QED BY <1>1, <1>3, <1>4, <2>1, <2>2 DEF Abstract!Account
<1> QED BY <1>1, <1>5 DEF Abstract!Next, Abstract!Streams, Streams

\* The pool is a sequential dump: every metadata file receives the readable
\* packages in the order of their tasks, but for those it fails to write.
THEOREM Refinement == Spec => ImplementsOrderedDump
<1>1. Init => Abstract!Init
  <2> SUFFICES ASSUME Init PROVE Abstract!Init
      OBVIOUS
  <2>1. \A s \in Streams : Accounted(s) = 0
      BY DEF Init, Accounted, MutexFree
  <2> QED BY <2>1 DEF Init, Abstract!Init, Abstract!Tasks, Abstract!Streams,
                      Tasks, Streams
<1>2. IInv /\ [Next]_vars => [Abstract!Next]_(Abstract!vars)
  <2> SUFFICES ASSUME IInv, [Next]_vars
               PROVE  Abstract!Next \/ UNCHANGED Abstract!vars
      OBVIOUS
  <2>1. ASSUME NEW w \in Workers, Worker(w)
        PROVE  Abstract!Next \/ UNCHANGED Abstract!vars
    <3>1. CASE LoadOk(w) \/ LoadFails(w) \/ StatFails(w)
        BY <3>1, DecideMapped
    <3>2. CASE Leave(w)
        BY <3>2, LeaveMapped
    <3>3. CASE Enter(w)
        BY <3>3, EnterAccounted, Invisible DEF Enter, outputVars
    <3>4. CASE Take(w) \/ BufferInsert(w) \/ Wait(w)
        BY <3>4, AccountedUnchanged, Invisible
           DEF Take, BufferInsert, Wait, outputVars, IInv, TypeOK
    <3>5. CASE BufferCheck(w) \/ Cleanup(w) \/ Drain(w)
        BY <3>5, AccountedUnchanged, Invisible
           DEF BufferCheck, Cleanup, Drain, StartTurn, outputVars, IInv, TypeOK
    <3> QED BY <2>1, <3>1, <3>2, <3>3, <3>4, <3>5 DEF Worker
  <2>2. ASSUME NEW w \in Workers, SpuriousWakeup(w)
        PROVE  UNCHANGED Abstract!vars
      BY <2>2, AccountedUnchanged, Invisible
         DEF SpuriousWakeup, outputVars, IInv, TypeOK
  <2>3. CASE Finish \/ UNCHANGED vars
      BY <2>3, AccountedUnchanged, Invisible
         DEF Finish, vars, workerVars, outputVars
  <2> QED BY <2>1, <2>2, <2>3 DEF Next, Terminated
<1> QED BY <1>1, <1>2, Inductive, PTL DEF Spec, ImplementsOrderedDump, Abstract!Spec

-----------------------------------------------------------------------------
(* The buffer.  The test of its length and the insertion are two steps: the *)
(* bound rests on mutex_buffer, held from the one to the other.             *)

NoneInserts == \A w \in Workers : pc[w] # "insert"

BufferInv ==
    /\ BufferBounded
    /\ \A w \in Workers : pc[w] = "insert" => Cardinality(buffer) < MaxBuffer
    /\ \A v, w \in Workers : pc[v] = "insert" /\ pc[w] = "insert" => v = w

LEMMA BufferFinite ==
    ASSUME TypeOK
    PROVE  IsFiniteSet(buffer) /\ Cardinality(buffer) \in Nat
<1>1. IsFiniteSet(0 .. (TaskCount - 1))
    BY FS_Interval
<1>2. buffer \subseteq 0 .. (TaskCount - 1)
    BY DEF TypeOK, Tasks
<1>3. IsFiniteSet(buffer)
    BY <1>1, <1>2, FS_Subset
<1> QED BY <1>3, FS_CardinalityType

\* A step that puts nothing into the buffer and sends no worker to do so.
LEMMA NothingInserted ==
    ASSUME TypeOK, BufferInv, buffer' = buffer,
           \A w \in Workers : pc'[w] = "insert" => pc[w] = "insert"
    PROVE  BufferInv'
BY DEF BufferInv, BufferBounded

LEMMA BufferCheckBounded ==
    ASSUME TypeOK, BufferInv, NEW w \in Workers, BufferCheck(w)
    PROVE  BufferInv'
<1>1. CASE MayBuffer(task[w])
  <2>1. NoneInserts /\ buffer' = buffer /\ Cardinality(buffer) < MaxBuffer
      BY <1>1 DEF BufferCheck, BufferFree, MayBuffer, NoneInserts
  <2>2. \A v \in Workers : pc'[v] = "insert" => v = w
      BY <1>1, <2>1 DEF BufferCheck, NoneInserts, TypeOK
  <2> QED BY <2>1, <2>2 DEF BufferInv, BufferBounded
<1>2. CASE ~MayBuffer(task[w])
    BY <1>2, NothingInserted DEF BufferCheck, StartTurn, TypeOK
<1> QED BY <1>1, <1>2

LEMMA BufferInsertBounded ==
    ASSUME TypeOK, BufferInv, NEW w \in Workers, BufferInsert(w)
    PROVE  BufferInv'
<1>1. Cardinality(buffer) < MaxBuffer /\ buffer' = buffer \union {task[w]}
    BY DEF BufferInsert, BufferInv
<1>2. IsFiniteSet(buffer) /\ Cardinality(buffer) \in Nat
    BY BufferFinite
<1>3. Cardinality(buffer \union {task[w]}) =
         IF task[w] \in buffer THEN Cardinality(buffer)
                               ELSE Cardinality(buffer) + 1
    BY <1>2, FS_AddElement
<1>4. Cardinality(buffer') <= MaxBuffer
    BY <1>1, <1>2, <1>3
<1>5. NoneInserts'
    BY DEF BufferInsert, BufferInv, NoneInserts, TypeOK
<1> QED BY <1>4, <1>5 DEF BufferInv, BufferBounded, NoneInserts

LEMMA DrainBounded ==
    ASSUME TypeOK, BufferInv, NEW w \in Workers, Drain(w)
    PROVE  BufferInv'
<1>1. CASE IsHead(id[Pri])
  <2>1. buffer' = buffer \ {id[Pri]}
      BY <1>1 DEF Drain
  <2>2. IsFiniteSet(buffer) /\ Cardinality(buffer) \in Nat
      BY BufferFinite
  <2>3. Cardinality(buffer \ {id[Pri]}) =
           IF id[Pri] \in buffer THEN Cardinality(buffer) - 1
                                 ELSE Cardinality(buffer)
      BY <2>2, FS_RemoveElement
  <2>4. Cardinality(buffer') <= MaxBuffer
      BY <2>1, <2>2, <2>3 DEF BufferInv, BufferBounded
  <2>5. NoneInserts'
      BY <1>1 DEF Drain, BufferFree, StartTurn, NoneInserts, TypeOK
  <2> QED BY <2>4, <2>5 DEF BufferInv, BufferBounded, NoneInserts
<1>2. CASE ~IsHead(id[Pri])
    BY <1>2, NothingInserted DEF Drain, TypeOK
<1> QED BY <1>1, <1>2

LEMMA BufferStep ==
    ASSUME TypeOK, BufferInv, [Next]_vars
    PROVE  BufferInv'
<1>1. ASSUME NEW w \in Workers,
             Take(w) \/ LoadOk(w) \/ LoadFails(w) \/ StatFails(w)
      PROVE  BufferInv'
    BY <1>1, NothingInserted DEF Take, LoadOk, LoadFails, StatFails, TypeOK
<1>2. ASSUME NEW w \in Workers,
             Enter(w) \/ Wait(w) \/ Cleanup(w) \/ SpuriousWakeup(w)
      PROVE  BufferInv'
    BY <1>2, NothingInserted
       DEF Enter, Wait, Cleanup, SpuriousWakeup, StartTurn, TypeOK
<1>3. ASSUME NEW w \in Workers, Leave(w)
      PROVE  BufferInv'
  <2>1. AfterStream(w) # "insert"
      BY DEF AfterStream
  <2>2. buffer' = buffer /\ Broadcast(w)
      BY <1>3 DEF Leave
  <2>3. \A v \in Workers : pc'[v] = "insert" => pc[v] = "insert"
      BY <2>1, <2>2 DEF Broadcast, TypeOK
  <2> QED BY <2>2, <2>3, NothingInserted
<1>4. CASE Finish \/ UNCHANGED vars
    BY <1>4, NothingInserted DEF Finish, vars, workerVars
<1> QED BY <1>1, <1>2, <1>3, <1>4, BufferCheckBounded, BufferInsertBounded,
           DrainBounded DEF Next, Worker, Terminated

\* The buffer of finished packages never holds more than MAX_TASK_BUFFER_LEN
\* of them, however the workers interleave (cr_dumper_thread).
THEOREM BufferNeverFull == Spec => []BufferBounded
<1>1. Init => BufferInv
    BY FS_EmptySet DEF Init, BufferInv, BufferBounded
<1>2. IInv /\ BufferInv /\ [Next]_vars => BufferInv'
    BY BufferStep DEF IInv
<1>3. BufferInv => BufferBounded
    BY DEF BufferInv
<1> QED BY <1>1, <1>2, <1>3, Inductive, PTL DEF Spec

-----------------------------------------------------------------------------
(* No task is stranded.  A task whose turn is yet to come is with a worker *)
(* or in the buffer; one whose turn has begun is followed through the      *)
(* files by its worker; and if the task whose turn it is lies in the       *)
(* buffer, or is about to, then somebody will still look there (Draining). *)

\* Worker w has task t, which it took from the queue or from the buffer.
Holds(w, t) ==
    \/ pc[w] \in {"load", "check", "insert", "cleanup"} /\ task[w] = t
    \/ InTurn(w) /\ wid[w] = t

Exclusive ==
    /\ id[Pri] <= next
    /\ \A w \in Workers, t \in Tasks : Holds(w, t) => t < next /\ t \notin buffer
    /\ \A v, w \in Workers, t \in Tasks : Holds(v, t) /\ Holds(w, t) => v = w
    /\ \A w \in Workers : pc[w] \in {"load", "check", "insert"} => id[Pri] <= task[w]
    /\ \A t \in buffer : id[Pri] <= t /\ t < next

Held ==
    \A t \in Tasks : id[Pri] <= t /\ t < next =>
      t \in buffer \/ \E w \in Workers : Holds(w, t)

Followed ==
    \A s \in Streams, t \in Tasks : id[s] <= t /\ t < id[Pri] =>
      \E w \in Workers : InTurn(w) /\ wid[w] = t /\ stream[w] <= s

\* A worker that will look into the buffer when it is through.
WillDrain(w) ==
    \/ pc[w] = "drain"
    \/ InTurn(w) /\ wid[w] < id[Pri]
    \/ pc[w] = "cleanup" /\ task[w] < id[Pri]

Inserting(t) == \E w \in Workers : pc[w] = "insert" /\ task[w] = t

Draining ==
    id[Pri] \in buffer \/ Inserting(id[Pri]) => \E w \in Workers : WillDrain(w)

PoolInv == Exclusive /\ Held /\ Followed /\ Draining

\* What a step of w leaves alone: the others at most wake up.
OthersKept(w) ==
    \A v \in Workers \ {w} :
        /\ task'[v] = task[v] /\ wid'[v] = wid[v] /\ stream'[v] = stream[v]
        /\ InTurn(v)' <=> InTurn(v)
        /\ \A place \in {"load", "check", "insert", "cleanup", "drain"} :
             pc'[v] = place <=> pc[v] = place

LEMMA Counters ==
    ASSUME TypeOK
    PROVE  /\ \A s \in Streams : id[s] \in Nat
           /\ next \in Nat /\ next <= TaskCount /\ TaskCount \in Nat
           /\ \A t \in Tasks : t \in Nat
           /\ \A t \in Nat : t < TaskCount => t \in Tasks
           /\ Pri \in Streams /\ Streams \subseteq Nat
BY SMTT(30) DEF TypeOK, Tasks, Streams, NStreams, Pri

LEMMA OthersHold ==
    ASSUME NEW w \in Workers, OthersKept(w), id'[Pri] = id[Pri]
    PROVE  /\ \A v \in Workers \ {w}, t \in Tasks : Holds(v, t)' <=> Holds(v, t)
           /\ \A v \in Workers \ {w} : WillDrain(v)' <=> WillDrain(v)
BY DEF OthersKept, Holds, WillDrain

\* A step of one worker in which primary stays where it is.
LEMMA PoolFrame ==
    ASSUME PoolInv, NEW w \in Workers,
           id'[Pri] = id[Pri], next' = next, buffer' = buffer, OthersKept(w),
           \A t \in Tasks : Holds(w, t)' => Holds(w, t),
           \A t \in Tasks : Holds(w, t) /\ id[Pri] <= t => Holds(w, t)',
           pc'[w] \in {"load", "check", "insert"} => id[Pri] <= task'[w],
           pc'[w] = "insert" => \/ pc[w] = "insert" /\ task'[w] = task[w]
                                \/ task'[w] # id[Pri],
           WillDrain(w) => WillDrain(w)'
    PROVE  Exclusive' /\ Held' /\ Draining'
<1>1. /\ \A v \in Workers \ {w}, t \in Tasks : Holds(v, t)' <=> Holds(v, t)
      /\ \A v \in Workers \ {w} : WillDrain(v)' <=> WillDrain(v)
    BY OthersHold
<1>2. \A v \in Workers, t \in Tasks : Holds(v, t)' => Holds(v, t)
    BY <1>1
<1>3. \A v \in Workers : WillDrain(v) => WillDrain(v)'
    BY <1>1
<1>4. Exclusive'
  <2>1. \A v \in Workers : pc'[v] \in {"load", "check", "insert"} => id[Pri] <= task'[v]
      BY DEF PoolInv, Exclusive, OthersKept
  <2>2. \A v \in Workers, t \in Tasks : Holds(v, t)' => t < next /\ t \notin buffer
      BY <1>2 DEF PoolInv, Exclusive
  <2>3. \A u, v \in Workers, t \in Tasks : Holds(u, t)' /\ Holds(v, t)' => u = v
      BY <1>2 DEF PoolInv, Exclusive
  <2> QED BY <2>1, <2>2, <2>3 DEF PoolInv, Exclusive
<1>5. Held'
    BY <1>1 DEF PoolInv, Held
<1>6. Draining'
  <2>1. Inserting(id[Pri])' => Inserting(id[Pri])
      BY DEF Inserting, OthersKept
  <2> QED BY <1>3, <2>1 DEF PoolInv, Draining
<1> QED BY <1>4, <1>5, <1>6

LEMMA FollowedFrame ==
    ASSUME PoolInv, TypeOK, NEW w \in Workers, id'[Pri] = id[Pri], OthersKept(w),
           \A s \in Streams : id'[s] \in Nat /\ id'[s] >= id[s],
           \A s \in Streams, t \in Tasks :
              id'[s] <= t /\ InTurn(w) /\ wid[w] = t /\ stream[w] <= s
                => InTurn(w)' /\ wid'[w] = t /\ stream'[w] <= s
    PROVE  Followed'
<1> SUFFICES ASSUME NEW s \in Streams, NEW t \in Tasks, id'[s] <= t, t < id[Pri]
             PROVE  \E v \in Workers : InTurn(v)' /\ wid'[v] = t /\ stream'[v] <= s
    BY DEF Followed
<1>1. id[s] <= t
    BY Counters
<1>2. PICK v \in Workers : InTurn(v) /\ wid[v] = t /\ stream[v] <= s
    BY <1>1 DEF PoolInv, Followed
<1>3. CASE v = w
    BY <1>2, <1>3
<1>4. CASE v # w
    BY <1>2, <1>4 DEF OthersKept
<1> QED BY <1>3, <1>4

\* A worker that is in no turn and changes neither a counter nor a place.
LEMMA FollowedSame ==
    ASSUME PoolInv, TypeOK, NEW w \in Workers, id' = id, OthersKept(w), ~InTurn(w)
    PROVE  Followed'
BY FollowedFrame, Counters

LEMMA TakePool ==
    ASSUME IInv, PoolInv, NEW w \in Workers, Take(w)
    PROVE  PoolInv'
<1>1. /\ next \in Nat /\ next \in Tasks /\ next' = next + 1 /\ pc[w] = "idle"
      /\ pc'[w] = "load" /\ task'[w] = next /\ id' = id /\ buffer' = buffer
      /\ id[Pri] \in Nat
    BY Counters DEF Take, TasksLeft, IInv, TypeOK
<1>2. OthersKept(w)
    BY DEF Take, OthersKept, InTurn, IInv, TypeOK
<1>3. /\ \A v \in Workers \ {w}, t \in Tasks : Holds(v, t)' <=> Holds(v, t)
      /\ \A v \in Workers \ {w} : WillDrain(v)' <=> WillDrain(v)
    BY <1>1, <1>2, OthersHold
<1>4. /\ \A t \in Tasks : Holds(w, t)' <=> t = next
      /\ \A t \in Tasks : ~Holds(w, t)
      /\ ~WillDrain(w) /\ ~InTurn(w)
    BY <1>1 DEF Holds, InTurn, WillDrain
<1>5. \A t \in Tasks : t \in Nat
    BY DEF Tasks
<1>6. Exclusive'
  <2>1. \A v \in Workers \ {w}, t \in Tasks : Holds(v, t) => t < next /\ t \notin buffer
      BY DEF PoolInv, Exclusive
  <2>2. \A v \in Workers, t \in Tasks : Holds(v, t)' => t < next' /\ t \notin buffer'
      BY <1>1, <1>3, <1>4, <1>5, <2>1 DEF PoolInv, Exclusive
  <2>3. \A u, v \in Workers, t \in Tasks : Holds(u, t)' /\ Holds(v, t)' => u = v
      BY <1>1, <1>3, <1>4, <1>5, <2>1 DEF PoolInv, Exclusive
  <2>4. \A v \in Workers : pc'[v] \in {"load", "check", "insert"} => id[Pri] <= task'[v]
      BY <1>1, <1>2 DEF PoolInv, Exclusive, OthersKept
  <2>5. \A t \in buffer : id[Pri] <= t /\ t < next'
      BY <1>1, <1>5 DEF PoolInv, Exclusive, IInv, TypeOK
  <2>6. id[Pri] <= next'
      BY <1>1 DEF PoolInv, Exclusive
  <2> QED BY <1>1, <2>2, <2>3, <2>4, <2>5, <2>6 DEF Exclusive
<1>7. Held'
  <2> SUFFICES ASSUME NEW t \in Tasks, id[Pri] <= t, t < next + 1
               PROVE  t \in buffer \/ \E v \in Workers : Holds(v, t)'
      BY <1>1 DEF Held
  <2>1. CASE t = next
      BY <1>4, <2>1
  <2>2. CASE t # next
    <3>1. t < next
        BY <1>1, <1>5, <2>2 DEF Tasks
    <3>2. t \in buffer \/ \E v \in Workers : Holds(v, t)
        BY <3>1 DEF PoolInv, Held
    <3> QED BY <1>3, <1>4, <3>2
  <2> QED BY <2>1, <2>2
<1>8. Followed'
    BY <1>1, <1>2, <1>4, FollowedSame DEF IInv
<1>9. Draining'
  <2>1. Inserting(id[Pri])' => Inserting(id[Pri])
      BY <1>1, <1>2 DEF Inserting, OthersKept
  <2> QED BY <1>1, <1>3, <1>4, <2>1 DEF PoolInv, Draining
<1> QED BY <1>6, <1>7, <1>8, <1>9 DEF PoolInv

\* Reading a package, or looking whether it can wait in the buffer.
LEMMA ReadPool ==
    ASSUME IInv, PoolInv, NEW w \in Workers,
           LoadOk(w) \/ LoadFails(w) \/ StatFails(w) \/ BufferCheck(w)
    PROVE  PoolInv'
<1>1. /\ id' = id /\ buffer' = buffer /\ next' = next /\ task' = task
      /\ pc[w] \in {"load", "check"}
      /\ pc'[w] \in {"check", "insert", "cleanup", "acquire"}
      /\ pc'[w] = "acquire" => wid'[w] = task[w]
      /\ pc'[w] = "insert" => task[w] # id[Pri]
    BY DEF LoadOk, LoadFails, StatFails, BufferCheck, MayBuffer, StartTurn,
           IInv, TypeOK
<1>2. OthersKept(w)
    BY DEF LoadOk, LoadFails, StatFails, BufferCheck, StartTurn,
           OthersKept, InTurn, IInv, TypeOK
<1>3. /\ \A t \in Tasks : Holds(w, t)' <=> Holds(w, t)
      /\ ~WillDrain(w) /\ ~InTurn(w)
    BY <1>1 DEF Holds, InTurn, WillDrain
<1>4. Exclusive' /\ Held' /\ Draining'
    BY <1>1, <1>2, <1>3, PoolFrame DEF PoolInv, Exclusive
<1>5. Followed'
    BY <1>1, <1>2, <1>3, FollowedSame DEF IInv
<1> QED BY <1>4, <1>5 DEF PoolInv

\* Waiting for the turn, and being woken up.
LEMMA WaitPool ==
    ASSUME IInv, PoolInv, NEW w \in Workers, Wait(w) \/ SpuriousWakeup(w)
    PROVE  PoolInv'
<1>1. /\ id' = id /\ buffer' = buffer /\ next' = next
      /\ task' = task /\ wid' = wid /\ stream' = stream
      /\ pc[w] \in {"acquire", "waiting"} /\ pc'[w] \in {"acquire", "waiting"}
    BY DEF Wait, SpuriousWakeup, IInv, TypeOK
<1>2. OthersKept(w)
    BY DEF Wait, SpuriousWakeup, OthersKept, InTurn, IInv, TypeOK
<1>3. /\ \A t \in Tasks : Holds(w, t)' <=> Holds(w, t)
      /\ WillDrain(w)' <=> WillDrain(w)
      /\ InTurn(w)'
    BY <1>1 DEF Holds, InTurn, WillDrain
<1>4. Exclusive' /\ Held' /\ Draining'
    BY <1>1, <1>2, <1>3, PoolFrame
<1>5. Followed'
    BY <1>1, <1>2, <1>3, FollowedFrame, Counters DEF IInv
<1> QED BY <1>4, <1>5 DEF PoolInv

\* After the own task: a turn still to come is kept, one that is over is not.
LEMMA CleanupPool ==
    ASSUME IInv, PoolInv, NEW w \in Workers, Cleanup(w)
    PROVE  PoolInv'
<1>1. /\ id' = id /\ buffer' = buffer /\ next' = next /\ task' = task
      /\ pc[w] = "cleanup" /\ task[w] \in Nat /\ id[Pri] \in Nat
    BY Counters DEF Cleanup, IInv, TypeOK
<1>a. \/ id[Pri] <= task[w] /\ pc'[w] = "acquire" /\ wid'[w] = task[w]
      \/ task[w] < id[Pri] /\ pc'[w] = "drain"
    BY SMTT(30), <1>1 DEF Cleanup, StartTurn, IInv, TypeOK
<1>2. OthersKept(w)
    BY DEF Cleanup, StartTurn, OthersKept, InTurn, IInv, TypeOK
<1>3. ~InTurn(w)
    BY <1>1 DEF InTurn
<1>4. ASSUME id[Pri] <= task[w]
      PROVE  Exclusive' /\ Held' /\ Draining'
  <2>1. pc'[w] = "acquire" /\ wid'[w] = task[w] /\ ~WillDrain(w)
      BY <1>1, <1>4, <1>a DEF WillDrain, InTurn
  <2>2. \A t \in Tasks : Holds(w, t)' <=> Holds(w, t)
      BY <1>1, <2>1 DEF Holds, InTurn
  <2> QED BY <1>1, <1>2, <2>1, <2>2, PoolFrame
<1>5. ASSUME task[w] < id[Pri]
      PROVE  Exclusive' /\ Held' /\ Draining'
  <2>1. pc'[w] = "drain" /\ WillDrain(w)'
      BY <1>1, <1>5, <1>a DEF WillDrain
  <2>2. /\ \A t \in Tasks : ~Holds(w, t)'
        /\ \A t \in Tasks : Holds(w, t) => t < id[Pri]
      BY <1>1, <1>5, <2>1 DEF Holds, InTurn
  <2>3. \A t \in Tasks : Holds(w, t) => ~(id[Pri] <= t)
      BY <1>1, <2>2, Counters DEF IInv
  <2> QED BY <1>1, <1>2, <2>1, <2>2, <2>3, PoolFrame
<1>6. Followed'
    BY <1>1, <1>2, <1>3, FollowedSame DEF IInv
<1> QED BY <1>4, <1>5, <1>6, <1>a DEF PoolInv

\* A worker that leaves a file has its turn in the next, or will drain.
LEMMA LeavePool ==
    ASSUME IInv, PoolInv, NEW w \in Workers, Leave(w)
    PROVE  PoolInv'
<1>1. /\ id' = id /\ buffer' = buffer /\ next' = next /\ task' = task /\ wid' = wid
      /\ pc[w] = "critical" /\ stream[w] \in Streams /\ NStreams \in Nat
      /\ stream'[w] = (IF stream[w] < NStreams THEN stream[w] + 1 ELSE Pri)
      /\ pc'[w] = AfterStream(w)
      /\ wid[w] \in Tasks /\ wid[w] \in Nat
    BY DEF Leave, Broadcast, NStreams, IInv, TypeOK, Knowledge, InTurn, Tasks
<1>2. OthersKept(w)
    BY DEF Leave, Broadcast, OthersKept, InTurn, IInv, TypeOK
<1>3. id[stream[w]] = wid[w] + 1 /\ wid[w] < id[Pri] /\ id[Pri] \in Nat
    BY <1>1, Counters DEF IInv, Turns, InTurn
<1>4. \/ stream[w] < NStreams /\ pc'[w] = "acquire"
      \/ pc'[w] = "cleanup" /\ wid[w] = task[w] /\ stream[w] = NStreams
      \/ pc'[w] = "drain" /\ ~(stream[w] < NStreams)
    BY <1>1 DEF AfterStream, Streams
<1>5. /\ \A t \in Tasks : Holds(w, t)' => Holds(w, t)
      /\ \A t \in Tasks : Holds(w, t) => t = wid[w]
      /\ WillDrain(w)'
    BY <1>1, <1>3, <1>4 DEF Holds, InTurn, WillDrain
<1>6. \A t \in Tasks : Holds(w, t) => ~(id[Pri] <= t)
    BY <1>1, <1>3, <1>5
<1>7. Exclusive' /\ Held' /\ Draining'
    BY <1>1, <1>2, <1>4, <1>5, <1>6, PoolFrame
<1>8. ASSUME NEW s \in Streams, id'[s] <= wid[w], stream[w] <= s
      PROVE  pc'[w] = "acquire" /\ stream'[w] <= s
  <2>1. s # stream[w]
      BY <1>1, <1>3, <1>8
  <2>2. stream[w] < s /\ s <= NStreams /\ s \in Nat /\ stream[w] \in Nat
      BY <1>1, <1>8, <2>1 DEF Streams
  <2> QED BY <1>1, <1>4, <2>2
<1>9. Followed'
    BY <1>1, <1>2, <1>8, FollowedFrame, Counters DEF InTurn, IInv
<1> QED BY <1>7, <1>9 DEF PoolInv

\* A package that is put into the buffer is found there: if its turn has come
\* by then, somebody is on the way.
LEMMA InsertPool ==
    ASSUME IInv, PoolInv, NEW w \in Workers, BufferInsert(w)
    PROVE  PoolInv'
<1>1. /\ id' = id /\ next' = next /\ pc[w] = "insert" /\ pc'[w] = "idle"
      /\ buffer' = buffer \union {task[w]} /\ task[w] \in Tasks
    BY DEF BufferInsert, IInv, TypeOK
<1>2. OthersKept(w)
    BY DEF BufferInsert, OthersKept, InTurn, IInv, TypeOK
<1>3. /\ \A v \in Workers \ {w}, t \in Tasks : Holds(v, t)' <=> Holds(v, t)
      /\ \A v \in Workers \ {w} : WillDrain(v)' <=> WillDrain(v)
    BY <1>1, <1>2, OthersHold
<1>4. /\ \A t \in Tasks : ~Holds(w, t)' /\ (Holds(w, t) <=> t = task[w])
      /\ ~WillDrain(w) /\ ~InTurn(w)
    BY <1>1 DEF Holds, InTurn, WillDrain
<1>5. Exclusive'
  <2>1. \A v \in Workers \ {w}, t \in Tasks :
          Holds(v, t) => t < next /\ t \notin buffer /\ t # task[w]
      BY <1>1, <1>4 DEF PoolInv, Exclusive
  <2>2. \A v \in Workers, t \in Tasks : Holds(v, t)' => t < next /\ t \notin buffer'
      BY <1>1, <1>3, <1>4, <2>1
  <2>3. \A u, v \in Workers, t \in Tasks : Holds(u, t)' /\ Holds(v, t)' => u = v
      BY <1>3, <1>4 DEF PoolInv, Exclusive
  <2>4. \A v \in Workers : pc'[v] \in {"load", "check", "insert"} => id[Pri] <= task'[v]
      BY <1>1, <1>2 DEF PoolInv, Exclusive, OthersKept
  <2>5. \A t \in buffer' : id[Pri] <= t /\ t < next
      BY <1>1, <1>4 DEF PoolInv, Exclusive
  <2> QED BY <1>1, <2>2, <2>3, <2>4, <2>5 DEF PoolInv, Exclusive
<1>6. Held'
  <2>1. \A t \in Tasks : id[Pri] <= t /\ t < next =>
          t \in buffer' \/ \E v \in Workers \ {w} : Holds(v, t)
      BY <1>1, <1>4 DEF PoolInv, Held
  <2> QED BY <1>1, <1>3, <2>1 DEF Held
<1>7. Followed'
    BY <1>1, <1>2, <1>4, FollowedSame DEF IInv
<1>8. Draining'
  <2>1. id[Pri] \in buffer' \/ Inserting(id[Pri])'
          => id[Pri] \in buffer \/ Inserting(id[Pri])
      BY <1>1, <1>2 DEF Inserting, OthersKept
  <2> QED BY <1>1, <1>3, <1>4, <2>1 DEF PoolInv, Draining
<1> QED BY <1>5, <1>6, <1>7, <1>8 DEF PoolInv

\* A worker goes to sleep only when the task whose turn it is is not there.
LEMMA DrainPool ==
    ASSUME IInv, PoolInv, NEW w \in Workers, Drain(w)
    PROVE  PoolInv'
<1>1. /\ id' = id /\ next' = next /\ task' = task /\ pc[w] = "drain" /\ BufferFree
      /\ id[Pri] \in Nat /\ buffer \subseteq Tasks
    BY Counters DEF Drain, IInv, TypeOK
<1>2. OthersKept(w)
    BY DEF Drain, StartTurn, OthersKept, InTurn, IInv, TypeOK
<1>3. /\ \A v \in Workers \ {w}, t \in Tasks : Holds(v, t)' <=> Holds(v, t)
      /\ \A v \in Workers \ {w} : WillDrain(v)' <=> WillDrain(v)
    BY <1>1, <1>2, OthersHold
<1>4. ~InTurn(w) /\ \A t \in Tasks : ~Holds(w, t)
    BY <1>1 DEF Holds, InTurn
<1>5. Followed'
    BY <1>1, <1>2, <1>4, FollowedSame DEF IInv
<1>6. ~Inserting(id[Pri])'
  <2>1. pc'[w] # "insert"
      BY DEF Drain, StartTurn, IInv, TypeOK
  <2> QED BY <1>1, <1>2, <2>1 DEF BufferFree, Inserting, OthersKept
<1>7. id[Pri] \in buffer <=> IsHead(id[Pri])
    BY DEF PoolInv, Exclusive, IsHead
<1>8. ASSUME IsHead(id[Pri])
      PROVE  Exclusive' /\ Held' /\ Draining'
  <2>1. /\ pc'[w] = "acquire" /\ wid'[w] = id[Pri] /\ buffer' = buffer \ {id[Pri]}
        /\ id[Pri] \in buffer /\ id[Pri] \in Tasks
      BY <1>1, <1>7, <1>8 DEF Drain, StartTurn, IInv, TypeOK
  <2>2. \A t \in Tasks : Holds(w, t)' <=> t = id[Pri]
      BY <2>1 DEF Holds, InTurn
  <2>3. Exclusive'
    <3>1. \A v \in Workers, t \in Tasks : Holds(v, t)' => t < next /\ t \notin buffer'
        BY <1>3, <2>1, <2>2 DEF PoolInv, Exclusive
    <3>2. \A v \in Workers \ {w} : ~Holds(v, id[Pri])
        BY <2>1 DEF PoolInv, Exclusive
    <3>3. \A u, v \in Workers, t \in Tasks : Holds(u, t)' /\ Holds(v, t)' => u = v
        BY <1>3, <2>2, <3>2 DEF PoolInv, Exclusive
    <3>4. \A v \in Workers : pc'[v] \in {"load", "check", "insert"} => id[Pri] <= task'[v]
        BY <1>1, <1>2, <2>1 DEF PoolInv, Exclusive, OthersKept
    <3> QED BY <1>1, <2>1, <3>1, <3>3, <3>4 DEF PoolInv, Exclusive
  <2>4. Held'
    <3> SUFFICES ASSUME NEW t \in Tasks, id[Pri] <= t, t < next
                 PROVE  t \in buffer' \/ \E v \in Workers : Holds(v, t)'
        BY <1>1 DEF Held
    <3>1. t \in buffer \/ \E v \in Workers : Holds(v, t)
        BY DEF PoolInv, Held
    <3> QED BY <1>3, <1>4, <2>1, <2>2, <3>1
  <2>5. Draining'
      BY <1>1, <1>6, <2>1 DEF Draining
  <2> QED BY <2>3, <2>4, <2>5
<1>9. ASSUME ~IsHead(id[Pri])
      PROVE  Exclusive' /\ Held' /\ Draining'
  <2>1. pc'[w] = "idle" /\ buffer' = buffer /\ id[Pri] \notin buffer
      BY <1>1, <1>7, <1>9 DEF Drain, IInv, TypeOK
  <2>2. \A t \in Tasks : ~Holds(w, t)'
      BY <2>1 DEF Holds, InTurn
  <2>3. \A v \in Workers, t \in Tasks : Holds(v, t)' <=> Holds(v, t)
      BY <1>3, <1>4, <2>2
  <2>4. \A v \in Workers : pc'[v] \in {"load", "check", "insert"} => id[Pri] <= task'[v]
      BY <1>1, <1>2, <2>1 DEF PoolInv, Exclusive, OthersKept
  <2>5. Exclusive'
      BY <1>1, <2>1, <2>3, <2>4 DEF PoolInv, Exclusive
  <2>6. Held'
      BY <1>1, <2>1, <2>3 DEF PoolInv, Held
  <2>7. Draining'
      BY <1>1, <1>6, <2>1 DEF Draining
  <2> QED BY <2>5, <2>6, <2>7
<1> QED BY <1>5, <1>8, <1>9 DEF PoolInv

\* Whoever moves the turn of primary on will look into the buffer later.
LEMMA EnterPool ==
    ASSUME IInv, PoolInv, NEW w \in Workers, Enter(w)
    PROVE  PoolInv'
<1>1. /\ next' = next /\ task' = task /\ wid' = wid /\ stream' = stream
      /\ buffer' = buffer /\ pc[w] = "acquire" /\ pc'[w] = "critical"
      /\ stream[w] \in Streams /\ id[stream[w]] = wid[w]
      /\ id[stream[w]] \in Nat /\ id[Pri] \in Nat
      /\ wid[w] \in Tasks
    BY Counters DEF Enter, IsTurn, IInv, TypeOK, Knowledge, InTurn
<1>2. OthersKept(w)
    BY DEF Enter, OthersKept, InTurn, IInv, TypeOK
<1>3. \A s \in Streams :
         id'[s] = IF s = stream[w] THEN id[s] + 1 ELSE id[s]
    BY <1>1 DEF Enter, IInv, TypeOK
<1>4. InTurn(w) /\ InTurn(w)'
    BY <1>1 DEF InTurn
<1>5. CASE stream[w] # Pri
  <2>1. id'[Pri] = id[Pri]
      BY <1>3, <1>5, Counters DEF IInv
  <2>2. /\ \A t \in Tasks : Holds(w, t)' <=> Holds(w, t)
        /\ WillDrain(w)' <=> WillDrain(w)
      BY <1>1, <1>4, <2>1 DEF Holds, WillDrain
  <2>3. Exclusive' /\ Held' /\ Draining'
      BY <1>1, <1>2, <2>1, <2>2, PoolFrame
  <2>4. \A s \in Streams : id'[s] \in Nat /\ id'[s] >= id[s]
      BY <1>3, Counters DEF IInv
  <2>5. Followed'
      BY <1>1, <1>2, <1>4, <2>1, <2>4, FollowedFrame DEF IInv
  <2> QED BY <2>3, <2>5 DEF PoolInv
<1>6. CASE stream[w] = Pri
  <2>1. /\ wid[w] = id[Pri] /\ id'[Pri] = id[Pri] + 1 /\ id[Pri] \in Tasks
        /\ \A s \in Streams \ {Pri} : id'[s] = id[s]
      BY <1>1, <1>3, <1>6
  <2>2. \A v \in Workers, t \in Tasks : Holds(v, t)' <=> Holds(v, t)
      BY <1>1, <1>2, <1>4 DEF Holds, OthersKept
  <2>3. Holds(w, id[Pri]) /\ WillDrain(w)'
      BY <1>1, <1>4, <2>1 DEF Holds, WillDrain
  <2>4. /\ id[Pri] < next /\ id[Pri] \notin buffer /\ next \in Nat
        /\ \A v \in Workers \ {w} : ~Holds(v, id[Pri])
      BY <2>1, <2>3, Counters DEF PoolInv, Exclusive, IInv
  <2>5. Exclusive'
    <3>1. ASSUME NEW v \in Workers, pc'[v] \in {"load", "check", "insert"}
          PROVE  id[Pri] + 1 <= task'[v]
      <4>1. v # w /\ pc[v] \in {"load", "check", "insert"}
          BY <1>1, <1>2, <3>1 DEF OthersKept
      <4>2. task[v] \in Nat /\ id[Pri] <= task[v]
          BY <4>1 DEF PoolInv, Exclusive, IInv, TypeOK
      <4>3. task[v] # id[Pri]
          BY <2>4, <4>1 DEF Holds
      <4> QED BY <1>1, <4>2, <4>3
    <3>2. ASSUME NEW t \in buffer
          PROVE  id[Pri] + 1 <= t /\ t < next
      <4>1. id[Pri] <= t /\ t < next /\ t # id[Pri]
          BY <2>4 DEF PoolInv, Exclusive
      <4>2. t \in Nat
          BY DEF IInv, TypeOK, Tasks
      <4> QED BY <1>1, <4>1, <4>2
    <3>3. id[Pri] + 1 <= next
        BY <1>1, <2>4
    <3>4. \A u, v \in Workers, t \in Tasks : Holds(u, t)' /\ Holds(v, t)' => u = v
        BY <2>2 DEF PoolInv, Exclusive
    <3>5. \A v \in Workers, t \in Tasks : Holds(v, t)' => t < next /\ t \notin buffer
        BY <2>2 DEF PoolInv, Exclusive
    <3> QED BY <1>1, <2>1, <3>1, <3>2, <3>3, <3>4, <3>5 DEF Exclusive
  <2>6. Held'
    <3> SUFFICES ASSUME NEW t \in Tasks, id[Pri] + 1 <= t, t < next
                 PROVE  t \in buffer \/ \E v \in Workers : Holds(v, t)'
        BY <1>1, <2>1 DEF Held
    <3>1. id[Pri] <= t
        BY <1>1 DEF Tasks
    <3>2. t \in buffer \/ \E v \in Workers : Holds(v, t)
        BY <3>1 DEF PoolInv, Held
    <3> QED BY <2>2, <3>2
  <2>7. Followed'
    <3> SUFFICES ASSUME NEW s \in Streams, NEW t \in Tasks, id'[s] <= t, t < id[Pri] + 1
                 PROVE  \E v \in Workers : InTurn(v)' /\ wid'[v] = t /\ stream'[v] <= s
        BY <2>1 DEF Followed
    <3>1. CASE t = id[Pri]
      <4>1. stream'[w] <= s
          BY <1>1, <1>6 DEF Streams, Pri
      <4> QED BY <1>1, <1>4, <2>1, <3>1, <4>1
    <3>2. CASE t # id[Pri]
      <4>1. t < id[Pri] /\ s # Pri
          BY <1>1, <2>1, <3>2 DEF Tasks
      <4>2. PICK v \in Workers : InTurn(v) /\ wid[v] = t /\ stream[v] <= s
          BY <2>1, <4>1 DEF PoolInv, Followed
      <4> QED BY <1>1, <1>2, <1>4, <4>2 DEF OthersKept
    <3> QED BY <3>1, <3>2
  <2>8. Draining'
      BY <2>3 DEF Draining
  <2> QED BY <2>5, <2>6, <2>7, <2>8 DEF PoolInv
<1> QED BY <1>5, <1>6

LEMMA PoolStep ==
    ASSUME IInv, PoolInv, [Next]_vars
    PROVE  PoolInv'
<1>1. CASE Finish \/ UNCHANGED vars
    BY <1>1 DEF Finish, vars, workerVars, PoolInv, Exclusive, Held, Followed,
                Draining, Holds, WillDrain, Inserting, InTurn
<1> QED BY <1>1, TakePool, ReadPool, InsertPool, WaitPool, EnterPool, LeavePool,
           CleanupPool, DrainPool DEF Next, Worker, Terminated

LEMMA PoolAlways == Spec => []PoolInv
<1>1. Init => PoolInv
    BY Counters, InitIInv
       DEF Init, PoolInv, Exclusive, Held, Followed, Draining, Holds, WillDrain,
           Inserting, InTurn, Tasks, IInv, Pri
<1>2. IInv /\ PoolInv /\ [Next]_vars => PoolInv'
    BY PoolStep
<1> QED BY <1>1, <1>2, Inductive, PTL DEF Spec

LEMMA AllAccounted ==
    ASSUME TypeOK, PoolInv, PoolFinished
    PROVE  \A s \in Streams : id[s] = TaskCount /\ Accounted(s) = TaskCount
<1>1. \A w \in Workers : ~InTurn(w) /\ ~WillDrain(w) /\ \A t \in Tasks : ~Holds(w, t)
    BY DEF PoolFinished, InTurn, WillDrain, Holds
<1>2. \A s \in Streams : id[s] \in Nat /\ id[s] <= TaskCount
    BY Counters DEF TypeOK
<1>3. id[Pri] = TaskCount
  <2> SUFFICES ASSUME id[Pri] # TaskCount PROVE FALSE
      OBVIOUS
  <2>1. id[Pri] \in Tasks /\ id[Pri] <= id[Pri] /\ id[Pri] < next
      BY <1>2, Counters DEF PoolFinished
  <2>2. id[Pri] \in buffer
      BY <1>1, <2>1 DEF PoolInv, Held
  <2> QED BY <1>1, <2>2 DEF PoolInv, Draining
<1>4. ASSUME NEW s \in Streams
      PROVE  id[s] = TaskCount
  <2> SUFFICES ASSUME id[s] # TaskCount PROVE FALSE
      OBVIOUS
  <2>1. id[s] \in Tasks /\ id[s] <= id[s] /\ id[s] < id[Pri]
      BY <1>2, <1>3, Counters
  <2> QED BY <1>1, <2>1 DEF PoolInv, Followed
<1>5. \A s \in Streams : Accounted(s) = id[s]
    BY DEF Accounted, MutexFree, PoolFinished
<1> QED BY <1>4, <1>5

\* When the pool is finished, every task has had its turn in every file: no
\* package stays in the buffer, no turn is left to a worker that has gone.
THEOREM NothingStranded ==
    Spec => [](PoolFinished => \A s \in Streams : id[s] = TaskCount)
<1>1. IInv /\ PoolInv => (PoolFinished => \A s \in Streams : id[s] = TaskCount)
    BY AllAccounted DEF IInv
<1> QED BY <1>1, Inductive, PoolAlways, PTL

-----------------------------------------------------------------------------
(* What primary decides for a package holds for every file.  Source rpm    *)
(* and counts are those of the readable packages before the turn, whose    *)
(* fates are settled: no later step can change them.                       *)

Readable(f, t) == {u \in Tasks : u < t /\ f[u] = "dump"}
Previous(f, t) == SrpmOfLast(Readable(f, t))

\* Worker w has compared its package with the one dumped before it.
Compared(w) == InTurn(w) /\ writing[w] /\ (stream[w] = Pri => pc[w] = "critical")

Comparisons ==
    /\ curSrpm = Previous(fate, id[Pri])
    /\ \A w \in Workers : Compared(w) =>
          (newPkg[w] <=> Previous(fate, wid[w]) # Srpm[wid[w]])

Boundaries ==
    /\ \A s \in Streams : \A t \in chunkEnds[s] : t < Accounted(s)
    /\ \A s \in Streams : \A t \in Tasks : t < Accounted(s) =>
          (t \in chunkEnds[s] <=> fate[t] = "dump" /\ Previous(fate, t) # Srpm[t])

\* The packages that primary has counted, and those that a file has received.
Counts ==
    /\ packageCount = Cardinality(Readable(fate, id[Pri]))
    /\ ~hadErrors => \A s \in Streams :
          Len(written[s]) = Cardinality(Readable(fate, Accounted(s)))
    /\ mainPc = "done" => PoolFinished

OutputInv == Comparisons /\ Boundaries /\ Counts /\ HeadersMatch

\* The tasks that come before a turn that has begun are settled.
LEMMA SettledBefore ==
    ASSUME IInv
    PROVE  /\ \A s \in Streams, t \in Tasks : t < id[s] => fate[t] # "pending"
           /\ \A s \in Streams : Accounted(s) \in Int /\ Accounted(s) <= id[s]
<1> SUFFICES ASSUME NEW s \in Streams
             PROVE  /\ \A t \in Tasks : t < id[s] => fate[t] # "pending"
                    /\ Accounted(s) \in Int /\ Accounted(s) <= id[s]
    OBVIOUS
<1>1. id[s] \in Nat /\ \A t \in Tasks : t \in Nat
    BY Counters DEF IInv
<1>2. CASE MutexFree(s)
  <2>1. Accounted(s) = id[s]
      BY <1>2 DEF Accounted
  <2>2. \A t \in Tasks : t < Accounted(s) => fate[t] # "pending"
      BY DEF IInv, Complete
  <2> QED BY <1>1, <2>1, <2>2
<1>3. CASE ~MutexFree(s)
  <2>1. PICK w \in Workers : pc[w] = "critical" /\ stream[w] = s
      BY <1>3 DEF MutexFree
  <2>2. id[s] = wid[w] + 1 /\ wid[w] \in Tasks /\ fate[wid[w]] # "pending"
      BY <2>1 DEF IInv, Turns, Knowledge, InTurn
  <2>3. Accounted(s) = wid[w]
      BY <1>1, <1>3, <2>2 DEF Accounted
  <2>4. \A t \in Tasks : t < wid[w] => fate[t] # "pending"
      BY <2>3 DEF IInv, Complete
  <2> QED BY <1>1, <2>2, <2>3, <2>4
<1> QED BY <1>2, <1>3

\* What the readable packages before t are, is settled with these tasks.
LEMMA ReadableSettled ==
    ASSUME NEW f, NEW g, NEW t,
           \A u \in Tasks : u < t => f[u] # "pending",
           \A u \in Tasks : f[u] # "pending" => g[u] = f[u]
    PROVE  Readable(g, t) = Readable(f, t) /\ Previous(g, t) = Previous(f, t)
BY DEF Readable, Previous

LEMMA ReadableFinite ==
    ASSUME NEW f, NEW t
    PROVE  IsFiniteSet(Readable(f, t)) /\ Cardinality(Readable(f, t)) \in Nat
<1>1. IsFiniteSet(Tasks)
    BY FS_Interval DEF Tasks
<1>2. Readable(f, t) \subseteq Tasks
    BY DEF Readable
<1> QED BY <1>1, <1>2, FS_Subset, FS_CardinalityType

\* One task more: its source rpm is the last, and it counts, if it is readable.
LEMMA ReadableNext ==
    ASSUME NEW f, NEW t \in Tasks
    PROVE  /\ f[t] = "dump" =>
                /\ Previous(f, t + 1) = Srpm[t]
                /\ Cardinality(Readable(f, t + 1)) = Cardinality(Readable(f, t)) + 1
           /\ f[t] # "dump" => Readable(f, t + 1) = Readable(f, t)
<1>1. t \in Nat /\ \A u \in Tasks : u \in Nat /\ (u < t + 1 <=> u < t \/ u = t)
    BY DEF Tasks
<1>2. ASSUME f[t] = "dump"
      PROVE  /\ Previous(f, t + 1) = Srpm[t]
             /\ Cardinality(Readable(f, t + 1)) = Cardinality(Readable(f, t)) + 1
  <2>1. Readable(f, t + 1) = Readable(f, t) \union {t} /\ t \notin Readable(f, t)
    <3>1. \A u \in Tasks : u \in Readable(f, t + 1)
                              <=> u \in Readable(f, t) \union {t}
        BY <1>1, <1>2 DEF Readable
    <3>2. Readable(f, t + 1) \subseteq Tasks /\ Readable(f, t) \subseteq Tasks
        BY DEF Readable
    <3>3. t \notin Readable(f, t)
        BY <1>1 DEF Readable
    <3> QED BY <3>1, <3>2, <3>3
  <2>2. \A v \in Readable(f, t + 1) : v \in Nat /\ v <= t
      BY <1>1 DEF Readable
  <2>3. t \in Readable(f, t + 1)
      BY <2>1
  <2> DEFINE last == CHOOSE u \in Readable(f, t + 1) :
                              \A v \in Readable(f, t + 1) : v <= u
  <2>4. last \in Readable(f, t + 1) /\ \A v \in Readable(f, t + 1) : v <= last
      BY <2>2, <2>3
  <2>5. last = t
      BY <1>1, <2>2, <2>3, <2>4
  <2>6. Previous(f, t + 1) = Srpm[last]
      BY <2>3 DEF Previous, SrpmOfLast
  <2>7. Cardinality(Readable(f, t + 1)) = Cardinality(Readable(f, t)) + 1
      BY <2>1, ReadableFinite, FS_AddElement
  <2> QED BY <2>5, <2>6, <2>7
<1>3. ASSUME f[t] # "dump"
      PROVE  Readable(f, t + 1) = Readable(f, t)
  <2>1. \A u \in Tasks : u \in Readable(f, t + 1) <=> u \in Readable(f, t)
      BY <1>1, <1>3 DEF Readable
  <2>2. Readable(f, t + 1) \subseteq Tasks /\ Readable(f, t) \subseteq Tasks
      BY DEF Readable
  <2> QED BY <2>1, <2>2
<1> QED BY <1>2, <1>3

\* main() waits for the pool: while a worker works it has not gone on.
LEMMA MainWaits ==
    ASSUME IInv, OutputInv, NEW w \in Workers, pc[w] # "idle" \/ next # TaskCount
    PROVE  mainPc = "wait"
BY DEF IInv, TypeOK, OutputInv, Counts, PoolFinished

\* A step that settles at most the fate of a task after the turn.
LEMMA OutputFrame ==
    ASSUME IInv, OutputInv, mainPc = "wait", mainPc' = mainPc,
           id' = id, curSrpm' = curSrpm, packageCount' = packageCount,
           newPkg' = newPkg, written' = written, chunkEnds' = chunkEnds,
           hadErrors => hadErrors',
           \A u \in Tasks : fate[u] # "pending" => fate'[u] = fate[u],
           \A s \in Streams : Accounted(s)' = Accounted(s),
           \A v \in Workers : Compared(v)' => Compared(v) /\ wid'[v] = wid[v]
    PROVE  OutputInv'
<1>1. \A s \in Streams : /\ Accounted(s) \in Int /\ id[s] \in Nat
                         /\ Accounted(s) <= id[s]
    BY SettledBefore, Counters DEF IInv
<1>2. \A t \in Tasks : t \in Nat
    BY DEF Tasks
<1>3. ASSUME NEW s \in Streams, NEW t \in Int, t <= id[s]
      PROVE  Readable(fate', t) = Readable(fate, t) /\ Previous(fate', t) = Previous(fate, t)
  <2>1. \A u \in Tasks : u < t => fate[u] # "pending"
      BY <1>1, <1>2, <1>3, SettledBefore
  <2> QED BY <2>1, ReadableSettled
<1>4. \A s \in Streams : Readable(fate', Accounted(s)) = Readable(fate, Accounted(s))
    BY <1>1, <1>3
<1>5. Pri \in Streams /\ id[Pri] \in Nat /\ id[Pri] <= id[Pri]
    BY <1>1, Counters DEF IInv
<1>6. /\ Readable(fate', id[Pri]) = Readable(fate, id[Pri])
      /\ Previous(fate', id[Pri]) = Previous(fate, id[Pri])
    BY <1>3, <1>5
<1>7. Comparisons'
  <2>1. ASSUME NEW v \in Workers, Compared(v)'
        PROVE  newPkg'[v] <=> Previous(fate', wid'[v]) # Srpm[wid'[v]]
    <3>1. Compared(v) /\ wid'[v] = wid[v] /\ wid[v] \in Tasks
        BY <2>1 DEF Compared, IInv, Knowledge
    <3>2. wid[v] <= id[Pri] /\ wid[v] \in Int
      <4>1. CASE stream[v] = Pri
          BY <1>2, <1>5, <3>1, <4>1 DEF Compared, IInv, Turns
      <4>2. CASE stream[v] # Pri
          BY <1>2, <1>5, <3>1, <4>2 DEF Compared, IInv, Turns
      <4> QED BY <4>1, <4>2
    <3>3. Previous(fate', wid[v]) = Previous(fate, wid[v])
        BY <1>3, <1>5, <3>2
    <3> QED BY <3>1, <3>3 DEF OutputInv, Comparisons
  <2> QED BY <1>6, <2>1 DEF OutputInv, Comparisons
<1>8. Boundaries'
  <2>1. ASSUME NEW s \in Streams, NEW t \in Tasks, t < Accounted(s)
        PROVE  t \in chunkEnds[s] <=> fate'[t] = "dump" /\ Previous(fate', t) # Srpm[t]
    <3>1. t <= id[s] /\ t < id[s] /\ t \in Int
        BY <1>1, <1>2, <2>1
    <3>2. fate'[t] = fate[t]
        BY <3>1, SettledBefore
    <3>3. Previous(fate', t) = Previous(fate, t)
        BY <1>3, <3>1
    <3> QED BY <2>1, <3>2, <3>3 DEF OutputInv, Boundaries
  <2> QED BY <2>1 DEF OutputInv, Boundaries
<1>9. Counts'
    BY <1>4, <1>6 DEF OutputInv, Counts
<1>10. HeadersMatch'
    BY DEF HeadersMatch
<1> QED BY <1>7, <1>8, <1>9, <1>10 DEF OutputInv

LEMMA InitOutput == Init => OutputInv
<1> SUFFICES ASSUME Init PROVE OutputInv
    OBVIOUS
<1> USE DEF Init
<1>1. Readable(fate, 0) = {} /\ Cardinality({}) = 0
    BY FS_EmptySet DEF Readable
<1>2. \A s \in Streams : id[s] = 0 /\ Accounted(s) = 0
    BY DEF Accounted, MutexFree
<1>3. id[Pri] = 0
    BY <1>2, Ranges
<1>4. Comparisons
    BY <1>1, <1>3 DEF Comparisons, Compared, InTurn, Previous, SrpmOfLast
<1>5. Boundaries
    BY <1>2 DEF Boundaries, Tasks
<1>6. Counts /\ HeadersMatch
    BY <1>1, <1>2, <1>3 DEF Counts, HeadersMatch
<1> QED BY <1>4, <1>5, <1>6 DEF OutputInv

\* Steps outside the critical sections.
LEMMA QuietOutput ==
    ASSUME IInv, OutputInv, NEW w \in Workers,
           \/ Take(w) \/ LoadOk(w) \/ LoadFails(w) \/ StatFails(w)
           \/ BufferCheck(w) \/ BufferInsert(w) \/ Wait(w) \/ SpuriousWakeup(w)
           \/ Cleanup(w) \/ Drain(w)
    PROVE  OutputInv'
<1> USE DEF Take, LoadOk, LoadFails, StatFails, BufferCheck, BufferInsert, Wait,
            SpuriousWakeup, Cleanup, Drain
<1>1. pc[w] # "idle" \/ next # TaskCount
  <2>1. CASE Take(w)
      BY <2>1, Counters DEF TasksLeft, IInv
  <2>2. CASE ~Take(w)
      BY <2>2
  <2> QED BY <2>1, <2>2
<1>2. mainPc = "wait"
    BY <1>1, MainWaits
<1>3. /\ id' = id /\ curSrpm' = curSrpm /\ packageCount' = packageCount
      /\ newPkg' = newPkg /\ written' = written /\ chunkEnds' = chunkEnds
      /\ mainPc' = mainPc
    BY DEF outputVars, mainVars
<1>a. hadErrors => hadErrors'
    BY DEF IInv, TypeOK
<1>4. \A u \in Tasks : fate[u] # "pending" => fate'[u] = fate[u]
    BY DEF IInv, TypeOK, Readers
<1>5. /\ \A v \in Workers : pc'[v] = "critical" <=> pc[v] = "critical"
      /\ \A v \in Workers : pc[v] = "critical" => stream'[v] = stream[v]
    BY DEF StartTurn, IInv, TypeOK
<1>6. \A s \in Streams : Accounted(s)' = Accounted(s)
    BY <1>3, <1>5, AccountedUnchanged
<1>7. \A v \in Workers : Compared(v)' => Compared(v) /\ wid'[v] = wid[v]
  <2>1. \A v \in Workers \ {w} :
           /\ pc'[v] = pc[v] /\ wid'[v] = wid[v]
           /\ stream'[v] = stream[v] /\ writing'[v] = writing[v]
      BY DEF StartTurn, IInv, TypeOK
  <2>2. \/ ~InTurn(w)'
        \/ pc'[w] = "acquire" /\ stream'[w] = Pri
        \/ /\ wid' = wid /\ stream' = stream /\ writing' = writing
           /\ InTurn(w) /\ pc'[w] # "critical"
      BY DEF StartTurn, InTurn, IInv, TypeOK
  <2> QED BY <2>1, <2>2 DEF Compared, InTurn
<1> QED BY <1>a, <1>2, <1>3, <1>4, <1>6, <1>7, OutputFrame

\* Entering a file moves its counter on; in primary the package is compared
\* and counted, unless the turn is only passed on.
LEMMA EnterOutput ==
    ASSUME IInv, OutputInv, NEW w \in Workers, Enter(w)
    PROVE  OutputInv'
<1>1. /\ fate' = fate /\ wid' = wid /\ stream' = stream /\ writing' = writing
      /\ written' = written /\ chunkEnds' = chunkEnds /\ hadErrors' = hadErrors
      /\ mainPc' = mainPc /\ pc[w] = "acquire" /\ pc'[w] = "critical"
      /\ \A v \in Workers \ {w} : pc'[v] = pc[v]
      /\ id[stream[w]] = wid[w] /\ wid[w] \in Tasks
      /\ fate[wid[w]] = (IF writing[w] THEN "dump" ELSE "skip")
      /\ stream[w] \in Streams
    BY DEF Enter, IsTurn, outputVars, mainVars, IInv, TypeOK, Knowledge, InTurn
<1>2. mainPc = "wait"
    BY <1>1, MainWaits
<1>3. \A s \in Streams : Accounted(s)' = Accounted(s)
    BY EnterAccounted
<1>4. \A s \in Streams :
         id'[s] = IF s = stream[w] THEN id[s] + 1 ELSE id[s]
    BY DEF Enter, IInv, TypeOK
<1>5. /\ Boundaries' /\ HeadersMatch'
      /\ ~hadErrors' => \A s \in Streams :
            Len(written'[s]) = Cardinality(Readable(fate', Accounted(s)'))
      /\ mainPc' # "done"
    BY <1>1, <1>2, <1>3 DEF OutputInv, Boundaries, Counts, HeadersMatch
<1>6. \A v \in Workers \ {w} : Compared(v)' <=> Compared(v)
    BY <1>1 DEF Compared, InTurn
<1>7. Pri \in Streams
    BY Ranges
<1>8. CASE Counted(w)
  <2> DEFINE k == wid[w]
  <2>1. stream[w] = Pri /\ writing[w] /\ id[Pri] = k /\ id'[Pri] = k + 1
        /\ fate[k] = "dump" /\ k \in Tasks
      BY <1>1, <1>4, <1>7, <1>8 DEF Counted
  <2>2. /\ packageCount' = packageCount + 1 /\ curSrpm' = Srpm[k]
        /\ newPkg' = [newPkg EXCEPT ![w] = NewPkg(k)]
      BY <1>8 DEF Enter, CountPackage
  <2>3. /\ Previous(fate, k + 1) = Srpm[k]
        /\ Cardinality(Readable(fate, k + 1)) = Cardinality(Readable(fate, k)) + 1
      BY <2>1, ReadableNext
  <2>4. newPkg'[w] <=> Previous(fate, k) # Srpm[k]
      BY <2>1, <2>2 DEF NewPkg, OutputInv, Comparisons, IInv, TypeOK
  <2>5. \A v \in Workers \ {w} : newPkg'[v] = newPkg[v]
      BY <2>2 DEF IInv, TypeOK
  <2>6. Comparisons'
      BY <1>1, <1>6, <2>1, <2>2, <2>3, <2>4, <2>5 DEF OutputInv, Comparisons
  <2>7. packageCount' = Cardinality(Readable(fate', id'[Pri]))
      BY <1>1, <2>1, <2>2, <2>3 DEF OutputInv, Counts
  <2> QED BY <1>5, <2>6, <2>7 DEF OutputInv, Counts
<1>9. CASE ~Counted(w)
  <2>1. curSrpm' = curSrpm /\ packageCount' = packageCount /\ newPkg' = newPkg
      BY <1>9 DEF Enter, CountPackage
  <2>2. Readable(fate, id'[Pri]) = Readable(fate, id[Pri])
    <3>1. CASE stream[w] = Pri
      <4>1. fate[wid[w]] # "dump" /\ id[Pri] = wid[w] /\ id'[Pri] = wid[w] + 1
          BY <1>1, <1>4, <1>7, <1>9, <3>1 DEF Counted
      <4> QED BY <1>1, <4>1, ReadableNext
    <3>2. CASE stream[w] # Pri
        BY <1>4, <1>7, <3>2
    <3> QED BY <3>1, <3>2
  <2>3. Compared(w)' => Compared(w)
      BY <1>1, <1>9 DEF Compared, InTurn, Counted
  <2>4. Comparisons'
      BY <1>1, <1>6, <2>1, <2>2, <2>3 DEF OutputInv, Comparisons, Previous
  <2>5. packageCount' = Cardinality(Readable(fate', id'[Pri]))
      BY <1>1, <2>1, <2>2 DEF OutputInv, Counts
  <2> QED BY <1>5, <2>4, <2>5 DEF OutputInv, Counts
<1> QED BY <1>8, <1>9

\* Leaving a file: it has one chunk more if the package is readable and was
\* added, and ends its zchunk there if primary has found it to be new.
LEMMA LeaveOutput ==
    ASSUME IInv, OutputInv, NEW w \in Workers, Leave(w)
    PROVE  OutputInv'
<1> DEFINE s == stream[w]
           k == wid[w]
<1>1. /\ fate' = fate /\ id' = id /\ wid' = wid /\ writing' = writing
      /\ newPkg' = newPkg /\ curSrpm' = curSrpm /\ packageCount' = packageCount
      /\ mainPc' = mainPc /\ pc[w] = "critical" /\ s \in Streams /\ k \in Tasks
      /\ fate[k] = (IF writing[w] THEN "dump" ELSE "skip")
    BY DEF Leave, mainVars, IInv, TypeOK, Knowledge, InTurn
<1>2. mainPc = "wait"
    BY <1>1, MainWaits
<1>3. /\ Accounted(s) = k
      /\ \A r \in Streams : Accounted(r)' = IF r = s THEN k + 1 ELSE Accounted(r)
    BY LeaveAccounted
<1>4. \A t \in Tasks : t \in Nat /\ (t < k + 1 <=> t < k \/ t = k)
    BY <1>1 DEF Tasks
<1>5. Comparisons'
  <2>1. \A v \in Workers \ {w} : Compared(v)' => Compared(v)
      BY DEF Leave, Broadcast, Compared, InTurn, IInv, TypeOK
  <2>2. Compared(w)' => Compared(w)
      BY <1>1 DEF Compared, InTurn
  <2> QED BY <1>1, <2>1, <2>2 DEF OutputInv, Comparisons
<1>6. writing[w] => (newPkg[w] <=> Previous(fate, k) # Srpm[k])
    BY <1>1 DEF OutputInv, Comparisons, Compared, InTurn
<1>7. k \notin chunkEnds[s]
    BY <1>1, <1>3, <1>4 DEF OutputInv, Boundaries
<1>8. PICK added \in BOOLEAN :
        /\ written' = IF added THEN [written EXCEPT ![s] = Append(@, k)] ELSE written
        /\ chunkEnds' = IF writing[w] /\ newPkg[w]
                          THEN [chunkEnds EXCEPT ![s] = @ \union {k}] ELSE chunkEnds
        /\ ~hadErrors' => ~hadErrors /\ (added <=> writing[w])
  <2>1. CASE writing[w]
    <3>1. PICK xmlOk, dbOk \in {TRUE, ~MayFail} : AddChunks(w, xmlOk, dbOk)
        BY <2>1 DEF Leave
    <3>2. xmlOk \in BOOLEAN
        BY DEF MayFail
    <3> QED BY <2>1, <3>1, <3>2 DEF AddChunks
  <2>2. CASE ~writing[w]
      BY <2>2 DEF Leave, outputVars
  <2> QED BY <2>1, <2>2
<1>9. /\ \A r \in Streams \ {s} : written'[r] = written[r] /\ chunkEnds'[r] = chunkEnds[r]
      /\ chunkEnds'[s] = IF writing[w] /\ newPkg[w] THEN chunkEnds[s] \union {k}
                                                    ELSE chunkEnds[s]
      /\ chunkEnds[s] \subseteq Tasks
      /\ written[s] \in Seq(Tasks)
      /\ written'[s] = IF added THEN Append(written[s], k) ELSE written[s]
    BY <1>1, <1>8 DEF IInv, TypeOK
<1>10. Boundaries'
  <2>1. ASSUME NEW r \in Streams, NEW t \in chunkEnds'[r]
        PROVE  t < Accounted(r)'
    <3>1. CASE r # s
        BY <1>3, <1>9, <2>1, <3>1 DEF OutputInv, Boundaries
    <3>2. CASE r = s
        BY <1>1, <1>3, <1>4, <1>9, <2>1, <3>2 DEF OutputInv, Boundaries
    <3> QED BY <3>1, <3>2
  <2>2. ASSUME NEW r \in Streams, NEW t \in Tasks, t < Accounted(r)'
        PROVE  t \in chunkEnds'[r] <=> fate[t] = "dump" /\ Previous(fate, t) # Srpm[t]
    <3>1. CASE r # s
        BY <1>3, <1>9, <2>2, <3>1 DEF OutputInv, Boundaries
    <3>2. CASE r = s /\ t # k
      <4>1. t < Accounted(s)
          BY <1>3, <1>4, <2>2, <3>2
      <4>2. t \in chunkEnds'[s] <=> t \in chunkEnds[s]
          BY <1>9, <3>2
      <4> QED BY <1>1, <3>2, <4>1, <4>2 DEF OutputInv, Boundaries
    <3>3. CASE r = s /\ t = k
      <4>1. k \in chunkEnds'[s] <=> writing[w] /\ newPkg[w]
          BY <1>7, <1>9
      <4> QED BY <1>1, <1>6, <3>3, <4>1
    <3> QED BY <3>1, <3>2, <3>3
  <2> QED BY <1>1, <2>1, <2>2 DEF Boundaries
<1>11. Counts'
  <2>1. ASSUME ~hadErrors', NEW r \in Streams
        PROVE  Len(written'[r]) = Cardinality(Readable(fate, Accounted(r)'))
    <3>1. CASE r # s
        BY <1>3, <1>8, <1>9, <2>1, <3>1 DEF OutputInv, Counts
    <3>2. CASE r = s /\ writing[w]
      <4>1. Len(written'[s]) = Len(written[s]) + 1
          BY <1>1, <1>8, <1>9, <2>1, <3>2
      <4>2. Len(written[s]) = Cardinality(Readable(fate, k))
          BY <1>1, <1>3, <1>8, <2>1 DEF OutputInv, Counts
      <4>3. Cardinality(Readable(fate, k + 1)) = Cardinality(Readable(fate, k)) + 1
          BY <1>1, <3>2, ReadableNext
      <4> QED BY <1>1, <1>3, <3>2, <4>1, <4>2, <4>3
    <3>3. CASE r = s /\ ~writing[w]
      <4>1. written'[s] = written[s]
          BY <1>8, <1>9, <2>1, <3>3
      <4>2. Len(written[s]) = Cardinality(Readable(fate, k))
          BY <1>1, <1>3, <1>8, <2>1 DEF OutputInv, Counts
      <4>3. Readable(fate, k + 1) = Readable(fate, k)
          BY <1>1, <3>3, ReadableNext
      <4> QED BY <1>1, <1>3, <3>3, <4>1, <4>2, <4>3
    <3> QED BY <3>1, <3>2, <3>3
  <2> QED BY <1>1, <1>2, <2>1 DEF OutputInv, Counts
<1>12. HeadersMatch'
    BY <1>1, <1>2 DEF HeadersMatch
<1> QED BY <1>5, <1>10, <1>11, <1>12 DEF OutputInv

\* main() rewrites the headers when every task has had its turn everywhere.
LEMMA FinishOutput ==
    ASSUME IInv, PoolInv, OutputInv, Finish
    PROVE  OutputInv'
<1>1. /\ id' = id /\ pc' = pc /\ fate' = fate /\ wid' = wid /\ stream' = stream
      /\ writing' = writing /\ newPkg' = newPkg /\ curSrpm' = curSrpm
      /\ next' = next /\ packageCount' = packageCount /\ hadErrors' = hadErrors
      /\ written' = written /\ chunkEnds' = chunkEnds /\ PoolFinished
    BY DEF Finish, workerVars, outputVars
<1>2. \A s \in Streams : Accounted(s)' = Accounted(s)
    BY <1>1 DEF Accounted, MutexFree
<1>3. Comparisons' /\ Boundaries' /\ Counts'
    BY <1>1, <1>2 DEF OutputInv, Comparisons, Boundaries, Counts, Compared,
                      InTurn, PoolFinished
<1>4. HeadersMatch'
  <2> SUFFICES ASSUME exitVal' = 0, NEW s \in Streams
               PROVE  header'[s] = Len(written[s])
      BY <1>1 DEF HeadersMatch
  <2>1. ~hadErrors /\ header'[s] = packageCount
      BY DEF Finish
  <2>2. id[Pri] = TaskCount /\ Accounted(s) = TaskCount
      BY <1>1, AllAccounted, Ranges DEF IInv
  <2> QED BY <2>1, <2>2 DEF OutputInv, Counts
<1> QED BY <1>3, <1>4 DEF OutputInv

LEMMA OutputStep ==
    ASSUME IInv, PoolInv, OutputInv, [Next]_vars
    PROVE  OutputInv'
<1>1. CASE UNCHANGED vars
    BY <1>1 DEF vars, workerVars, outputVars, mainVars, OutputInv, Comparisons,
                Boundaries, Counts, HeadersMatch, Compared, InTurn, Accounted,
                MutexFree, PoolFinished
<1> QED BY <1>1, QuietOutput, EnterOutput, LeaveOutput, FinishOutput
        DEF Next, Worker, Terminated

\* What is made of one package agrees over all files: the zchunks of all of
\* them end before the packages of a new source rpm, though this is decided
\* once, in primary; and after a run without an error every header declares
\* what its file contains (write_pkg, main, cr_rewrite_pkg_count_thread).
THEOREM OutputAgrees == Spec => []FilesAgree
<1>1. IInv /\ PoolInv /\ OutputInv /\ [Next]_vars => OutputInv'
    BY OutputStep
<1>2. OutputInv => FilesAgree
    BY DEF OutputInv, Boundaries, FilesAgree, ChunkBoundaries, PrevSrpm,
           DumpedBefore, Previous, Readable
<1> HIDE DEF IInv, PoolInv, OutputInv
<1> QED BY <1>1, <1>2, InitOutput, Inductive, PoolAlways, PTL DEF Spec
=============================================================================
