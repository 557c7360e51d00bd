---------------------------- MODULE KernelProofs ----------------------------
(***************************************************************************)
(* Proofs about Kernel, for every value of its constants: the type         *)
(* invariant and OneOwner.  The inductive invariant IInv adds to them      *)
(* which program points each kind of thread can be at and which of its     *)
(* pointers are NULL there (Control).                                      *)
(***************************************************************************)
EXTENDS Kernel, TLAPS

(* Appending to a queue adds exactly the element appended.                 *)
LEMMA InAppend ==
    ASSUME NEW S, NEW q \in Seq(S), NEW e \in S, NEW x
    PROVE  In(Append(q, e), x) <=> In(q, x) \/ x = e
<1>1. /\ Len(Append(q, e)) = Len(q) + 1 /\ Len(q) \in Nat
      /\ \A n \in 1..Len(q) : Append(q, e)[n] = q[n]
      /\ Append(q, e)[Len(q) + 1] = e
  OBVIOUS
<1>2. In(q, x) => In(Append(q, e), x)
  BY <1>1 DEF In
<1>3. x = e => In(Append(q, e), x)
  BY <1>1 DEF In
<1>4. In(Append(q, e), x) => In(q, x) \/ x = e
  BY <1>1 DEF In
<1> QED BY <1>2, <1>3, <1>4

(* Popping a queue removes exactly its head.                               *)
LEMMA InTail ==
    ASSUME NEW S, NEW q \in Seq(S), q # <<>>, NEW x
    PROVE  In(q, x) <=> In(Tail(q), x) \/ x = Head(q)
<1>1. /\ Len(Tail(q)) = Len(q) - 1 /\ Len(q) \in Nat \ {0}
      /\ \A n \in 1..Len(Tail(q)) : Tail(q)[n] = q[n + 1]
      /\ Head(q) = q[1]
  OBVIOUS
<1>2. In(Tail(q), x) => In(q, x)
  BY <1>1 DEF In
<1>3. x = Head(q) => In(q, x)
  BY <1>1 DEF In
<1>4. ASSUME In(q, x), x # Head(q)  PROVE In(Tail(q), x)
  <2>1. PICK n \in 1..Len(q) : q[n] = x
    BY <1>4 DEF In
  <2>2. n - 1 \in 1..Len(Tail(q)) /\ Tail(q)[n - 1] = q[n]
    BY <2>1, <1>4, <1>1
  <2> QED BY <2>1, <2>2 DEF In
<1> QED BY <1>2, <1>3, <1>4

(* A queue stays free of duplicates when a new element, or NULL, is pushed.*)
LEMMA OnceAppend ==
    ASSUME NEW S, NEW q \in Seq(S), NEW e \in S, Once(q), e = NULL \/ ~In(q, e)
    PROVE  Once(Append(q, e))
<1>1. /\ Len(Append(q, e)) = Len(q) + 1 /\ Len(q) \in Nat
      /\ \A n \in 1..Len(q) : Append(q, e)[n] = q[n]
      /\ Append(q, e)[Len(q) + 1] = e
  OBVIOUS
<1> QED BY <1>1 DEF Once, In

(* ... and when it is popped, and its head is then no longer in it.        *)
LEMMA OnceTail ==
    ASSUME NEW S, NEW q \in Seq(S), q # <<>>, Once(q)
    PROVE  Once(Tail(q)) /\ (Head(q) = NULL \/ ~In(Tail(q), Head(q)))
<1>1. /\ Len(Tail(q)) = Len(q) - 1 /\ Len(q) \in Nat \ {0}
      /\ \A n \in 1..Len(Tail(q)) : Tail(q)[n] = q[n + 1]
      /\ Head(q) = q[1]
  OBVIOUS
<1> QED BY <1>1 DEF Once, In

-----------------------------------------------------------------------------
(* Which labels each kind of thread can be at, and what its pointers mean  *)
(* there.  A killed event thread keeps whatever it was carrying.           *)
EmitLabels == {"aquire", "recycled", "count", "limit", "create", "init", "deliver", "nothing"}
RunLabels  == {"run", "fetch", "requeue", "release", "inactive", "park", "destroy"}

LabelsOK(a) ==
    /\ a \in Workers => pc[a] \in {"unborn", "wait", "done"} \cup RunLabels \cup EmitLabels
    /\ a = Main => pc[a] \in {"idle", "maxpar"} \cup EmitLabels
    /\ a = EventThread => pc[a] \in {"idle", "requeue", "killed"} \cup EmitLabels

EmitOK(a) ==
    /\ pc[a] \in EmitLabels => dst[a] \in Stages /\ msg[a] \in Events
    /\ pc[a] \in EmitLabels /\ how[a] = "cohort" => a \in Workers

PointersOK(a) ==
    pc[a] # "killed" =>
      /\ got[a] # NULL <=> pc[a] \in {"recycled", "init", "deliver"}
      /\ cur[a] # NULL <=> pc[a] \in RunLabels \/ (a \in Workers /\ pc[a] \in EmitLabels)

Control == \A a \in Actors : LabelsOK(a) /\ EmitOK(a) /\ PointersOK(a)

IInv == TypeOK /\ Control /\ OneOwner

-----------------------------------------------------------------------------
(* The state leda_run starts from satisfies the invariant.                 *)
LEMMA InitIInv == Init => IInv
<1> SUFFICES ASSUME Init PROVE IInv
  OBVIOUS
<1> USE DEF Init, SchedulerInit, InstanceInit
<1>1. TypeOK
  <2>1. QueueTypes /\ CountTypes /\ InstTypes /\ LocalTypes
    BY ConstantsAssumption
    DEF QueueTypes, CountTypes, InstTypes, LocalTypes, Fates, Labels, Phases
  <2>2. quit \in BOOLEAN
    OBVIOUS
  <2> QED BY <2>1, <2>2 DEF TypeOK
<1>2. Control
  BY ConstantsAssumption DEF Control, LabelsOK, EmitOK, PointersOK, Actors, EmitLabels, RunLabels
<1>3. OneOwner
  <2>1. \A x : ~In(<<>>, x)
    BY DEF In
  <2>2. Once(<<>>)
    BY DEF Once
  <2> QED BY <2>1, <2>2, ConstantsAssumption
         DEF OneOwner, NoDuplicates, OnePlace, InReady, InRecycle, Carried, Allocated
<1> QED BY <1>1, <1>2, <1>3 DEF IInv

-----------------------------------------------------------------------------
(* A step that moves no pointer and allocates nothing keeps every owner.   *)
LEMMA OwnerUnmoved ==
    ASSUME OneOwner, UNCHANGED <<ready, recycle, parked, lost, cur, got, stage>>
    PROVE  OneOwner'
BY DEF OneOwner, NoDuplicates, OnePlace, InReady, InRecycle, Carried, Allocated

(* What a thread that carries an instance knows about it.                  *)
LEMMA CarriedStage ==
    ASSUME IInv, NEW a \in Actors, NEW i \in Inst, i = cur[a] \/ i = got[a]
    PROVE  stage[i] \in Stages /\ ~InReady(i) /\ ~InRecycle(i) /\ i \notin parked /\ i \notin lost
BY DEF IInv, TypeOK, InstTypes, OneOwner, OnePlace, Carried, Allocated

Others == UNCHANGED <<parked, pool_size, quit, phase, todo, kills>>

(* The steps of instance_aquire that only decide what to do next.          *)
LEMMA StepAquireEmpty ==
    ASSUME IInv, NEW a \in Actors, Others, 
           AquireEmpty(a) \/ AquireReadCount(a) \/ AquireCheckLimit(a) \/ AquireInitOk(a)
    PROVE  IInv'
<1> USE DEF IInv, AquireEmpty, AquireReadCount, AquireCheckLimit, AquireInitOk, Others, Goto,
            queueVars, countVars, instVars
<1>1. QueueTypes' /\ CountTypes' /\ InstTypes'
  BY DEF TypeOK, QueueTypes, CountTypes, InstTypes
<1>2. LocalTypes'
  BY DEF TypeOK, LocalTypes, CountTypes, Control, EmitOK, EmitLabels, Labels
<1>3. (quit \in BOOLEAN)'
  BY DEF TypeOK
<1>4. Control'
  BY DEF TypeOK, LocalTypes, Control, LabelsOK, EmitOK, PointersOK, EmitLabels, RunLabels
<1>5. OneOwner'
  BY OwnerUnmoved
<1> QED BY <1>1, <1>2, <1>3, <1>4, <1>5 DEF TypeOK

(* instance_aquire pops an idle instance: recycle queue to thread.         *)
LEMMA StepAquireRecycled ==
    ASSUME IInv, NEW a \in Actors, Others, AquireRecycled(a)
    PROVE  IInv'
<1> USE DEF IInv, AquireRecycled, Others, Goto, queueVars, countVars, instVars
<1>0. PICK s \in Stages : s = dst[a]
  BY DEF TypeOK, Control, EmitOK, EmitLabels
<1>a. recycle[s] \in Seq(Inst) /\ recycle[s] # <<>>
  BY <1>0 DEF TypeOK, QueueTypes
<1>b. PICK i \in Inst : i = Head(recycle[s])
  BY <1>a
<1>c. Tail(recycle[s]) \in Seq(Inst)
  BY <1>a
<1>1. QueueTypes' /\ CountTypes' /\ InstTypes'
  BY <1>0, <1>a, <1>c DEF TypeOK, QueueTypes, CountTypes, InstTypes
<1>2. LocalTypes'
  BY <1>0, <1>b DEF TypeOK, LocalTypes, Labels
<1>3. (quit \in BOOLEAN)'
  BY DEF TypeOK
<1>4. Control'
  BY <1>0, <1>b, ConstantsAssumption
  DEF TypeOK, LocalTypes, Control, LabelsOK, EmitOK, PointersOK, EmitLabels, RunLabels
<1>5. OneOwner'
  <2>1. /\ recycle' = [recycle EXCEPT ![s] = Tail(recycle[s])]
        /\ got' = [got EXCEPT ![a] = i]
        /\ UNCHANGED <<ready, parked, lost, cur, stage>>
    BY <1>0, <1>b
  <2>2. recycle \in [Stages -> Seq(Inst)] /\ got \in [Actors -> Inst \cup {NULL}]
    BY DEF TypeOK, QueueTypes, LocalTypes
  <2>3. \A x : In(recycle[s], x) <=> In(recycle'[s], x) \/ x = i
    BY <2>1, <2>2, <1>a, <1>b, InTail
  <2>4. Once(recycle'[s]) /\ ~In(recycle'[s], i)
    BY <2>1, <2>2, <1>a, <1>b, OnceTail, ConstantsAssumption DEF OneOwner, NoDuplicates
  <2>5. got[a] = NULL
    BY DEF Control, PointersOK
  <2>6. NoDuplicates'
    BY <2>1, <2>2, <2>3, <2>4, <2>5 DEF OneOwner, NoDuplicates, OnePlace, InRecycle, Carried
  <2>7. \A x \in Inst : InRecycle(x)' <=> InRecycle(x) /\ x # i
    BY <2>1, <2>2, <2>3, <2>4 DEF InRecycle, OneOwner, NoDuplicates
  <2>8. \A x \in Inst : Carried(x)' <=> Carried(x) \/ x = i
    BY <2>1, <2>2, <2>5, ConstantsAssumption DEF Carried
  <2>9. InRecycle(i)
    BY <2>3 DEF InRecycle
  <2>10. OnePlace'
    BY <2>1, <2>7, <2>8, <2>9 DEF OneOwner, OnePlace, InReady, Allocated
  <2> QED BY <2>6, <2>10 DEF OneOwner
<1> QED BY <1>1, <1>2, <1>3, <1>4, <1>5 DEF TypeOK

(* instance_aquire allocates an instance: free memory to thread.           *)
LEMMA StepAquireCreate ==
    ASSUME IInv, NEW a \in Actors, Others, AquireCreate(a)
    PROVE  IInv'
<1> USE DEF IInv, AquireCreate, Others, Goto, queueVars
<1>0. PICK s \in Stages : s = dst[a]
  BY DEF TypeOK, Control, EmitOK, EmitLabels
<1>a. PICK i \in Inst : /\ stage[i] = NoStage
                        /\ stage' = [stage EXCEPT ![i] = s]
                        /\ got' = [got EXCEPT ![a] = i]
  BY <1>0
<1>1. QueueTypes' /\ CountTypes' /\ InstTypes'
  BY <1>0, <1>a, SMTT(30) DEF TypeOK, QueueTypes, CountTypes, InstTypes
<1>2. LocalTypes'
  BY <1>a DEF TypeOK, LocalTypes, Labels
<1>3. (quit \in BOOLEAN)'
  BY DEF TypeOK
<1>4. Control'
  BY <1>0, <1>a, ConstantsAssumption
  DEF TypeOK, LocalTypes, Control, LabelsOK, EmitOK, PointersOK, EmitLabels, RunLabels
<1>5. OneOwner'
  <2>1. got[a] = NULL /\ got \in [Actors -> Inst \cup {NULL}] /\ stage \in [Inst -> Stages \cup {NoStage}]
    BY DEF Control, PointersOK, TypeOK, LocalTypes, InstTypes
  <2>2. ~InReady(i) /\ ~InRecycle(i) /\ i \notin parked /\ i \notin lost /\ ~Carried(i)
    BY <1>a DEF OneOwner, OnePlace, Allocated
  <2>3. NoDuplicates'
    BY <1>a, <2>1, <2>2 DEF OneOwner, NoDuplicates, Carried
  <2>4. \A x \in Inst : Carried(x)' <=> Carried(x) \/ x = i
    BY <1>a, <2>1, ConstantsAssumption DEF Carried
  <2>5. \A x \in Inst : Allocated(x)' <=> Allocated(x) \/ x = i
    BY <1>a, <2>1, ConstantsAssumption DEF Allocated
  <2>6. OnePlace'
    BY <2>2, <2>4, <2>5 DEF OneOwner, OnePlace, InReady, InRecycle
  <2> QED BY <2>3, <2>6 DEF OneOwner
<1> QED BY <1>1, <1>2, <1>3, <1>4, <1>5 DEF TypeOK

(* The init chunk fails: the new instance goes back to free memory.        *)
LEMMA StepAquireInitError ==
    ASSUME IInv, NEW a \in Actors, Others, AquireInitError(a)
    PROVE  IInv'
<1> USE DEF IInv, AquireInitError, Others, Goto, queueVars
<1>0. PICK i \in Inst : i = got[a]
  BY DEF Control, PointersOK, TypeOK, LocalTypes
<1>a. dst[a] \in Stages
  BY DEF Control, EmitOK, EmitLabels
<1>1. QueueTypes' /\ CountTypes' /\ InstTypes'
  BY <1>0, <1>a DEF TypeOK, QueueTypes, CountTypes, InstTypes
<1>2. LocalTypes'
  BY DEF TypeOK, LocalTypes, Labels
<1>3. (quit \in BOOLEAN)'
  BY DEF TypeOK
<1>4. Control'
  BY DEF TypeOK, LocalTypes, Control, LabelsOK, EmitOK, PointersOK, EmitLabels, RunLabels
<1>5. OneOwner'
  <2>1. /\ got \in [Actors -> Inst \cup {NULL}] /\ stage \in [Inst -> Stages \cup {NoStage}]
        /\ got' = [got EXCEPT ![a] = NULL] /\ stage' = [stage EXCEPT ![i] = NoStage]
    BY <1>0 DEF TypeOK, LocalTypes, InstTypes
  <2>2. ~InReady(i) /\ ~InRecycle(i) /\ i \notin parked /\ i \notin lost
    BY <1>0, CarriedStage
  <2>3. NoDuplicates'
    BY <2>1 DEF OneOwner, NoDuplicates
  <2>4. \A x \in Inst : Carried(x)' <=> Carried(x) /\ x # i
    BY <1>0, <2>1, ConstantsAssumption DEF Carried, OneOwner, NoDuplicates
  <2>5. \A x \in Inst : Allocated(x)' <=> Allocated(x) /\ x # i
    BY <2>1 DEF Allocated
  <2>6. OnePlace'
    BY <2>2, <2>4, <2>5 DEF OneOwner, OnePlace, InReady, InRecycle
  <2> QED BY <2>3, <2>6 DEF OneOwner
<1> QED BY <1>1, <1>2, <1>3, <1>4, <1>5 DEF TypeOK

-----------------------------------------------------------------------------
(* A thread that gives up the instance it runs: the effect on who carries  *)
(* what, shared by every action that does so.                              *)
LEMMA DropCur ==
    ASSUME IInv, NEW a \in Actors, NEW i \in Inst, cur[a] = i,
           cur' = [cur EXCEPT ![a] = NULL], UNCHANGED got
    PROVE  /\ \A x \in Inst : Carried(x)' <=> Carried(x) /\ x # i
           /\ \A b, c \in Actors : /\ cur'[b] = cur'[c] /\ cur'[b] # NULL => b = c
                                   /\ got'[b] = got'[c] /\ got'[b] # NULL => b = c
                                   /\ cur'[b] = got'[c] => cur'[b] = NULL
<1>1. cur \in [Actors -> Inst \cup {NULL}] /\ got \in [Actors -> Inst \cup {NULL}]
  BY DEF IInv, TypeOK, LocalTypes
<1> QED BY <1>1, ConstantsAssumption DEF Carried, IInv, OneOwner, NoDuplicates

(* push_ready_queue: thread to ready queue.                                *)
LEMMA StepRequeue ==
    ASSUME IInv, NEW a \in Actors, Others, Requeue(a)
    PROVE  IInv'
<1> USE DEF IInv, Requeue, Others, Goto, Home, countVars, instVars
<1>0. PICK i \in Inst : i = cur[a]
  BY DEF Control, PointersOK, RunLabels, TypeOK, LocalTypes
<1>1. QueueTypes' /\ CountTypes' /\ InstTypes'
  BY <1>0 DEF TypeOK, QueueTypes, CountTypes, InstTypes
<1>2. LocalTypes'
  BY DEF TypeOK, LocalTypes, Labels
<1>3. (quit \in BOOLEAN)'
  BY DEF TypeOK
<1>4. Control'
  BY ConstantsAssumption
  DEF TypeOK, LocalTypes, Control, LabelsOK, EmitOK, PointersOK, EmitLabels, RunLabels, Actors
<1>5. OneOwner'
  <2>1. ready \in Seq(Inst \cup {NULL}) /\ ready' = Append(ready, i)
    BY <1>0 DEF TypeOK, QueueTypes
  <2>2. ~InReady(i) /\ ~InRecycle(i) /\ i \notin parked /\ i \notin lost
    BY <1>0, CarriedStage
  <2>3. \A x \in Inst : InReady(x)' <=> InReady(x) \/ x = i
    BY <2>1, InAppend DEF InReady
  <2>4. Once(ready')
    BY <2>1, <2>2, OnceAppend DEF InReady, OneOwner, NoDuplicates
  <2>5. NoDuplicates'
    BY <1>0, <2>4, DropCur DEF OneOwner, NoDuplicates
  <2>6. \A x \in Inst : Carried(x)' <=> Carried(x) /\ x # i
    BY <1>0, DropCur
  <2>7. Carried(i)
    BY <1>0 DEF Carried
  <2>8. OnePlace'
    BY <2>2, <2>3, <2>6, <2>7 DEF OneOwner, OnePlace, InRecycle, Allocated
  <2> QED BY <2>5, <2>8 DEF OneOwner
<1> QED BY <1>1, <1>2, <1>3, <1>4, <1>5 DEF TypeOK

(* STATS_ACTIVE and STATS_INACTIVE: only the counter changes.              *)
LEMMA StepActive ==
    ASSUME IInv, NEW a \in Actors, Others, AquireActive(a) \/ ReleaseInactive(a)
    PROVE  IInv'
<1> USE DEF IInv, AquireActive, ReleaseInactive, Others, Goto, queueVars, instVars
<1>1. active' \in [Stages -> Int]
  BY DEF TypeOK, CountTypes
<1>2. QueueTypes' /\ CountTypes' /\ InstTypes'
  BY <1>1 DEF TypeOK, QueueTypes, CountTypes, InstTypes
<1>3. LocalTypes'
  BY DEF TypeOK, LocalTypes, Labels
<1>4. (quit \in BOOLEAN)'
  BY DEF TypeOK
<1>5. Control'
  BY ConstantsAssumption
  DEF TypeOK, LocalTypes, Control, LabelsOK, EmitOK, PointersOK, EmitLabels, RunLabels, Actors
<1>6. OneOwner'
  BY OwnerUnmoved
<1> QED BY <1>2, <1>3, <1>4, <1>5, <1>6 DEF TypeOK

(* instance_release parks the instance, or decides to destroy it.          *)
LEMMA StepReleasePark ==
    ASSUME IInv, NEW a \in Actors, Others, ReleasePark(a)
    PROVE  IInv'
<1> USE DEF IInv, Others
<1>0. PICK i \in Inst : i = cur[a]
  BY DEF ReleasePark, Control, PointersOK, RunLabels, TypeOK, LocalTypes
<1>a. PICK s \in Stages : s = stage[i]
  BY <1>0, CarriedStage
<1>b. recycle[s] \in Seq(Inst) /\ Append(recycle[s], i) \in Seq(Inst)
  BY DEF TypeOK, QueueTypes
<1>c. /\ pc[a] = "park"
      /\ \/ /\ recycle' = [recycle EXCEPT ![s] = Append(recycle[s], i)]
            /\ cur' = [cur EXCEPT ![a] = NULL]
            /\ pc' = [pc EXCEPT ![a] = Home(a)]
         \/ /\ pc' = [pc EXCEPT ![a] = "destroy"]
            /\ UNCHANGED <<recycle, cur>>
      /\ UNCHANGED <<ready, readycap, recap, evq, evcap, limit, ninst, active, stage, held, lost,
                     fate, got, dst, how, msg, seen>>
  BY <1>0, <1>a DEF ReleasePark, Goto, countVars, instVars
<1>d. recycle' \in [Stages -> Seq(Inst)]
  <2>1. recycle \in [Stages -> Seq(Inst)]
    BY DEF TypeOK, QueueTypes
  <2>2. CASE recycle' = [recycle EXCEPT ![s] = Append(recycle[s], i)]
    BY <2>1, <2>2, <1>b
  <2>3. CASE recycle' = recycle
    BY <2>1, <2>3
  <2> QED BY <2>2, <2>3, <1>c
<1>e. UNCHANGED <<ready, readycap, recap, evq, evcap, limit, ninst, active, stage, held, lost, fate>>
  BY <1>c
<1>1. QueueTypes' /\ CountTypes' /\ InstTypes'
  BY <1>d, <1>e DEF TypeOK, QueueTypes, CountTypes, InstTypes
<1>2. LocalTypes'
  BY <1>c DEF TypeOK, LocalTypes, Labels, Home
<1>3. (quit \in BOOLEAN)'
  BY DEF TypeOK
<1>4. Control'
  BY <1>0, <1>c, ConstantsAssumption
  DEF TypeOK, LocalTypes, Control, LabelsOK, EmitOK, PointersOK, EmitLabels, RunLabels, Actors, Home
<1>5. OneOwner'
  <2>1. CASE UNCHANGED <<recycle, cur>>
    BY <1>c, <2>1, OwnerUnmoved
  <2>2. CASE ~UNCHANGED <<recycle, cur>>
    <3>1. /\ recycle' = [recycle EXCEPT ![s] = Append(recycle[s], i)]
          /\ cur' = [cur EXCEPT ![a] = NULL]
          /\ UNCHANGED <<ready, parked, lost, got, stage>>
      BY <2>2, <1>c
    <3>2. recycle \in [Stages -> Seq(Inst)]
      BY DEF TypeOK, QueueTypes
    <3>3. ~InReady(i) /\ ~InRecycle(i) /\ i \notin parked /\ i \notin lost
      BY <1>0, CarriedStage
    <3>4. \A x \in Inst : In(recycle'[s], x) <=> In(recycle[s], x) \/ x = i
      BY <3>1, <3>2, <1>b, InAppend
    <3>5. Once(recycle'[s])
      BY <3>1, <3>2, <3>3, <1>b, OnceAppend DEF InRecycle, OneOwner, NoDuplicates
    <3>6. \A x \in Inst : InRecycle(x)' <=> InRecycle(x) \/ x = i
      BY <3>1, <3>2, <3>4 DEF InRecycle
    <3>7. NoDuplicates'
      BY <1>0, <3>1, <3>2, <3>3, <3>4, <3>5, DropCur DEF OneOwner, NoDuplicates, InRecycle
    <3>8. \A x \in Inst : Carried(x)' <=> Carried(x) /\ x # i
      BY <1>0, <3>1, DropCur
    <3>9. Carried(i)
      BY <1>0 DEF Carried
    <3>10. OnePlace'
      BY <3>1, <3>3, <3>6, <3>8, <3>9 DEF OneOwner, OnePlace, InReady, Allocated
    <3> QED BY <3>7, <3>10 DEF OneOwner
  <2> QED BY <2>1, <2>2
<1> QED BY <1>1, <1>2, <1>3, <1>4, <1>5 DEF TypeOK

(* instance_destroy: thread to free memory.                                *)
LEMMA StepDestroy ==
    ASSUME IInv, NEW a \in Actors, Others, Destroy(a)
    PROVE  IInv'
<1> USE DEF IInv, Destroy, Others, Goto, Home, queueVars
<1>0. PICK i \in Inst : i = cur[a]
  BY DEF Control, PointersOK, RunLabels, TypeOK, LocalTypes
<1>a. stage[i] \in Stages
  BY <1>0, CarriedStage
<1>1. QueueTypes' /\ CountTypes' /\ InstTypes'
  BY <1>0, <1>a, SMTT(30) DEF TypeOK, QueueTypes, CountTypes, InstTypes
<1>2. LocalTypes'
  BY DEF TypeOK, LocalTypes, Labels
<1>3. (quit \in BOOLEAN)'
  BY DEF TypeOK
<1>4. Control'
  BY ConstantsAssumption
  DEF TypeOK, LocalTypes, Control, LabelsOK, EmitOK, PointersOK, EmitLabels, RunLabels, Actors
<1>5. OneOwner'
  <2>1. stage \in [Inst -> Stages \cup {NoStage}] /\ stage' = [stage EXCEPT ![i] = NoStage]
    BY <1>0 DEF TypeOK, InstTypes
  <2>2. ~InReady(i) /\ ~InRecycle(i) /\ i \notin parked /\ i \notin lost
    BY <1>0, CarriedStage
  <2>3. NoDuplicates'
    BY <1>0, DropCur DEF OneOwner, NoDuplicates
  <2>4. \A x \in Inst : Carried(x)' <=> Carried(x) /\ x # i
    BY <1>0, DropCur
  <2>5. \A x \in Inst : Allocated(x)' <=> Allocated(x) /\ x # i
    BY <2>1 DEF Allocated
  <2>6. OnePlace'
    BY <2>2, <2>4, <2>5 DEF OneOwner, OnePlace, InReady, InRecycle
  <2> QED BY <2>3, <2>6 DEF OneOwner
<1> QED BY <1>1, <1>2, <1>3, <1>4, <1>5 DEF TypeOK

-----------------------------------------------------------------------------
(* The steps of the instance subsystem that move no instance.              *)
LEMMA StepReleaseEvent ==
    ASSUME IInv, NEW a \in Actors, Others,
           ReleaseTakeEvent(a) \/ PeekEvent(a) \/ FetchEvent(a)
    PROVE  IInv'
<1> USE DEF IInv, ReleaseTakeEvent, PeekEvent, FetchEvent, TakeEvent, Others, Goto, countVars
<1>0. PICK i \in Inst : i = cur[a]
  BY DEF Control, PointersOK, RunLabels, TypeOK, LocalTypes
<1>a. PICK s \in Stages : s = stage[i]
  BY <1>0, CarriedStage
<1>b. evq[s] \in Seq(Events) /\ evq[s] # <<>>
  BY <1>0, <1>a DEF TypeOK, QueueTypes
<1>c. Head(evq[s]) \in Events /\ Tail(evq[s]) \in Seq(Events)
  BY <1>b
<1>1. QueueTypes' /\ CountTypes'
  BY <1>0, <1>a, <1>c, ZenonT(60) DEF TypeOK, QueueTypes, CountTypes
<1>2. InstTypes'
  BY <1>0, <1>a, <1>c DEF TypeOK, InstTypes
<1>3. LocalTypes'
  BY DEF TypeOK, LocalTypes, Labels
<1>4. (quit \in BOOLEAN)'
  BY DEF TypeOK
<1>5. Control'
  <2>1. ASSUME NEW b \in Actors, b # a
        PROVE  (LabelsOK(b) /\ EmitOK(b) /\ PointersOK(b))'
    BY <2>1 DEF TypeOK, LocalTypes, Control, LabelsOK, EmitOK, PointersOK
  <2>2. (LabelsOK(a) /\ EmitOK(a) /\ PointersOK(a))'
    BY ConstantsAssumption
    DEF TypeOK, LocalTypes, Control, LabelsOK, EmitOK, PointersOK, EmitLabels, RunLabels, Actors
  <2> QED BY <2>1, <2>2 DEF Control
<1>6. OneOwner'
  BY OwnerUnmoved
<1> QED BY <1>1, <1>2, <1>3, <1>4, <1>5, <1>6 DEF TypeOK

(* A thread finds no pending event, or goes to wait for one.               *)
LEMMA StepReleaseNoEvent ==
    ASSUME IInv, NEW a \in Actors, Others, ReleaseNoEvent(a) \/ WaitEvent(a)
    PROVE  IInv'
<1> USE DEF IInv, ReleaseNoEvent, WaitEvent, Others, Goto, queueVars, countVars, instVars
<1>1. QueueTypes' /\ CountTypes' /\ InstTypes'
  BY DEF TypeOK, QueueTypes, CountTypes, InstTypes
<1>2. LocalTypes'
  BY DEF TypeOK, LocalTypes, Labels
<1>3. (quit \in BOOLEAN)'
  BY DEF TypeOK
<1>4. Control'
  BY ConstantsAssumption
  DEF TypeOK, LocalTypes, Control, LabelsOK, EmitOK, PointersOK, EmitLabels, RunLabels, Actors
<1>5. OneOwner'
  BY OwnerUnmoved
<1> QED BY <1>1, <1>2, <1>3, <1>4, <1>5 DEF TypeOK

-----------------------------------------------------------------------------
(* Emission.  Frame: what no step of a thread's own changes.               *)
Frame == UNCHANGED <<phase, todo, kills>>

(* The call of emmit, emmit_cohort or emmit_packed_event.                  *)
LEMMA StepStartEmit ==
    ASSUME IInv, NEW a \in Actors, NEW e \in Events, NEW s \in Stages, NEW kind \in {"emmit", "cohort"},
           kind = "cohort" => a \in Workers, Frame, StartEmit(a, e, s, kind)
    PROVE  IInv'
<1> USE DEF IInv, StartEmit, Frame, Goto, Resume, queueVars, countVars, instVars
<1>1. QueueTypes' /\ CountTypes' /\ InstTypes'
  BY DEF TypeOK, QueueTypes, CountTypes, InstTypes, Fates
<1>2. LocalTypes'
  BY DEF TypeOK, LocalTypes, Labels
<1>3. (quit \in BOOLEAN)'
  BY DEF TypeOK
<1>4. Control'
  BY ConstantsAssumption
  DEF TypeOK, LocalTypes, Control, LabelsOK, EmitOK, PointersOK, EmitLabels, RunLabels, Actors
<1>5. OneOwner'
  BY OwnerUnmoved
<1> QED BY <1>1, <1>2, <1>3, <1>4, <1>5 DEF TypeOK

(* An emission that got no instance: queued or refused.                    *)
LEMMA StepEmmitNothing ==
    ASSUME IInv, NEW a \in Actors, Frame,
           EmmitPending(a) \/ EmmitQueueFull(a) \/ EmmitExtractError(a) \/ CohortRejected(a)
    PROVE  IInv'
<1> USE DEF IInv, EmmitPending, EmmitQueueFull, EmmitExtractError, CohortRejected, Refuse, Frame, Goto, Resume,
            queueVars, countVars, instVars
<1>0. PICK s \in Stages, e \in Events : s = dst[a] /\ e = msg[a]
  BY DEF TypeOK, Control, EmitOK, EmitLabels
<1>a. evq[s] \in Seq(Events) /\ Append(evq[s], e) \in Seq(Events)
  BY DEF TypeOK, QueueTypes
<1>b. evq' = [evq EXCEPT ![s] = Append(evq[s], e)] \/ evq' = evq
  BY <1>0
<1>c. evq' \in [Stages -> Seq(Events)]
  BY <1>a, <1>b DEF TypeOK, QueueTypes
<1>d. QueueTypes' /\ CountTypes'
  BY <1>c DEF TypeOK, QueueTypes, CountTypes
<1>1. QueueTypes' /\ CountTypes' /\ InstTypes'
  BY <1>0, <1>d DEF TypeOK, InstTypes, Fates
<1>2. LocalTypes'
  BY DEF TypeOK, LocalTypes, Labels
<1>3. (quit \in BOOLEAN)'
  BY DEF TypeOK
<1>4. Control'
  BY ConstantsAssumption
  DEF TypeOK, LocalTypes, Control, LabelsOK, EmitOK, PointersOK, EmitLabels, RunLabels, Actors
<1>5. OneOwner'
  BY OwnerUnmoved
<1> QED BY <1>1, <1>2, <1>3, <1>4, <1>5 DEF TypeOK

(* A thread that gives up the instance it has acquired.                    *)
LEMMA DropGot ==
    ASSUME IInv, NEW a \in Actors, NEW i \in Inst, got[a] = i,
           got' = [got EXCEPT ![a] = NULL], UNCHANGED cur
    PROVE  /\ \A x \in Inst : Carried(x)' <=> Carried(x) /\ x # i
           /\ \A b, c \in Actors : /\ cur'[b] = cur'[c] /\ cur'[b] # NULL => b = c
                                   /\ got'[b] = got'[c] /\ got'[b] # NULL => b = c
                                   /\ cur'[b] = got'[c] => cur'[b] = NULL
<1>1. cur \in [Actors -> Inst \cup {NULL}] /\ got \in [Actors -> Inst \cup {NULL}]
  BY DEF IInv, TypeOK, LocalTypes
<1> QED BY <1>1, ConstantsAssumption DEF Carried, IInv, OneOwner, NoDuplicates

(* An emission that got one: thread to ready queue.                        *)
LEMMA StepEmmitDeliver ==
    ASSUME IInv, NEW a \in Actors, Frame, EmmitDeliver(a)
    PROVE  IInv'
<1> USE DEF IInv, EmmitDeliver, Frame, Goto, Resume, countVars
<1>0. PICK i \in Inst, e \in Events : i = got[a] /\ e = msg[a]
  BY DEF Control, PointersOK, EmitOK, EmitLabels, TypeOK, LocalTypes
<1>1. QueueTypes' /\ CountTypes' /\ InstTypes'
  BY <1>0 DEF TypeOK, QueueTypes, CountTypes, InstTypes
<1>2. LocalTypes'
  BY DEF TypeOK, LocalTypes, Labels
<1>3. (quit \in BOOLEAN)'
  BY DEF TypeOK
<1>4. Control'
  BY ConstantsAssumption
  DEF TypeOK, LocalTypes, Control, LabelsOK, EmitOK, PointersOK, EmitLabels, RunLabels, Actors
<1>5. OneOwner'
  <2>1. ready \in Seq(Inst \cup {NULL}) /\ ready' = Append(ready, i)
    BY <1>0 DEF TypeOK, QueueTypes
  <2>2. ~InReady(i) /\ ~InRecycle(i) /\ i \notin parked /\ i \notin lost
    BY <1>0, CarriedStage
  <2>3. \A x \in Inst : InReady(x)' <=> InReady(x) \/ x = i
    BY <2>1, InAppend DEF InReady
  <2>4. Once(ready')
    BY <2>1, <2>2, OnceAppend DEF InReady, OneOwner, NoDuplicates
  <2>5. NoDuplicates'
    BY <1>0, <2>4, DropGot DEF OneOwner, NoDuplicates
  <2>6. \A x \in Inst : Carried(x)' <=> Carried(x) /\ x # i
    BY <1>0, DropGot
  <2>7. Carried(i)
    BY <1>0 DEF Carried
  <2>8. OnePlace'
    BY <2>2, <2>3, <2>6, <2>7 DEF OneOwner, OnePlace, InRecycle, Allocated
  <2> QED BY <2>5, <2>8 DEF OneOwner
<1> QED BY <1>1, <1>2, <1>3, <1>4, <1>5 DEF TypeOK
(* A payload that cannot be copied: the acquired instance is leaked.       *)
LEMMA StepEmmitCopyError ==
    ASSUME IInv, NEW a \in Actors, Frame, EmmitCopyError(a)
    PROVE  IInv'
<1> USE DEF IInv, EmmitCopyError, Frame, Goto, Resume, queueVars, countVars
<1>0. PICK i \in Inst, e \in Events : i = got[a] /\ e = msg[a]
  BY DEF Control, PointersOK, EmitOK, EmitLabels, TypeOK, LocalTypes
<1>1. QueueTypes' /\ CountTypes' /\ InstTypes'
  BY <1>0 DEF TypeOK, QueueTypes, CountTypes, InstTypes, Fates
<1>2. LocalTypes'
  BY DEF TypeOK, LocalTypes, Labels
<1>3. (quit \in BOOLEAN)'
  BY DEF TypeOK
<1>4. Control'
  BY ConstantsAssumption
  DEF TypeOK, LocalTypes, Control, LabelsOK, EmitOK, PointersOK, EmitLabels, RunLabels, Actors
<1>5. OneOwner'
  <2>1. lost' = lost \cup {i} /\ UNCHANGED <<ready, recycle, parked, stage>>
    BY <1>0
  <2>2. ~InReady(i) /\ ~InRecycle(i) /\ i \notin parked /\ i \notin lost
    BY <1>0, CarriedStage
  <2>3. NoDuplicates'
    BY <1>0, DropGot DEF OneOwner, NoDuplicates
  <2>4. \A x \in Inst : Carried(x)' <=> Carried(x) /\ x # i
    BY <1>0, DropGot
  <2>5. Carried(i)
    BY <1>0 DEF Carried
  <2>6. OnePlace'
    BY <2>1, <2>2, <2>4, <2>5 DEF OneOwner, OnePlace, InReady, InRecycle, Allocated
  <2> QED BY <2>3, <2>6 DEF OneOwner
<1> QED BY <1>1, <1>2, <1>3, <1>4, <1>5 DEF TypeOK

(* A cohort call: the caller goes to the ready queue and the thread takes  *)
(* over the callee it acquired, in one exchange of pointers.               *)
LEMMA StepCohortDeliver ==
    ASSUME IInv, NEW a \in Actors, Frame, CohortDeliver(a)
    PROVE  IInv'
<1> USE DEF IInv, CohortDeliver, Frame, Goto, countVars
<1>0. PICK i \in Inst, e \in Events : i = got[a] /\ e = msg[a]
  BY DEF Control, PointersOK, EmitOK, EmitLabels, TypeOK, LocalTypes
<1>a. a \in Workers
  BY DEF Control, EmitOK, EmitLabels
<1>b. PICK j \in Inst : j = cur[a]
  BY <1>a DEF Control, PointersOK, EmitLabels, TypeOK, LocalTypes
<1>1. QueueTypes' /\ CountTypes' /\ InstTypes'
  BY <1>0, <1>b DEF TypeOK, QueueTypes, CountTypes, InstTypes
<1>2. LocalTypes'
  BY <1>0 DEF TypeOK, LocalTypes, Labels
<1>3. (quit \in BOOLEAN)'
  BY DEF TypeOK
<1>4. Control'
  BY <1>0, <1>a, ConstantsAssumption
  DEF TypeOK, LocalTypes, Control, LabelsOK, EmitOK, PointersOK, EmitLabels, RunLabels, Actors
<1>5. OneOwner'
  <2>1. /\ ready \in Seq(Inst \cup {NULL}) /\ ready' = Append(ready, j)
        /\ cur \in [Actors -> Inst \cup {NULL}] /\ got \in [Actors -> Inst \cup {NULL}]
        /\ cur' = [cur EXCEPT ![a] = i] /\ got' = [got EXCEPT ![a] = NULL]
    BY <1>0, <1>b DEF TypeOK, QueueTypes, LocalTypes
  <2>2. ~InReady(j) /\ ~InRecycle(j) /\ j \notin parked /\ j \notin lost
    BY <1>b, CarriedStage
  <2>3. \A x \in Inst : InReady(x)' <=> InReady(x) \/ x = j
    BY <2>1, InAppend DEF InReady
  <2>4. Once(ready')
    BY <2>1, <2>2, OnceAppend DEF InReady, OneOwner, NoDuplicates
  <2>5. \A b, c \in Actors : /\ cur'[b] = cur'[c] /\ cur'[b] # NULL => b = c
                             /\ got'[b] = got'[c] /\ got'[b] # NULL => b = c
                             /\ cur'[b] = got'[c] => cur'[b] = NULL
    BY <1>0, <1>b, <2>1, ConstantsAssumption DEF OneOwner, NoDuplicates
  <2>6. NoDuplicates'
    BY <2>4, <2>5 DEF OneOwner, NoDuplicates
  <2>7. \A x \in Inst : Carried(x)' <=> Carried(x) /\ x # j
    BY <1>0, <1>b, <2>1, ConstantsAssumption DEF Carried, OneOwner, NoDuplicates
  <2>8. Carried(j)
    BY <1>b DEF Carried
  <2>9. OnePlace'
    BY <2>2, <2>3, <2>7, <2>8 DEF OneOwner, OnePlace, InRecycle, Allocated
  <2> QED BY <2>6, <2>9 DEF OneOwner
<1> QED BY <1>1, <1>2, <1>3, <1>4, <1>5 DEF TypeOK

-----------------------------------------------------------------------------
(* A thread that takes an instance no thread carried.                      *)
LEMMA TakeCur ==
    ASSUME IInv, NEW a \in Actors, NEW i \in Inst, cur[a] = NULL, ~Carried(i),
           cur' = [cur EXCEPT ![a] = i], UNCHANGED got
    PROVE  /\ \A x \in Inst : Carried(x)' <=> Carried(x) \/ x = i
           /\ \A b, c \in Actors : /\ cur'[b] = cur'[c] /\ cur'[b] # NULL => b = c
                                   /\ got'[b] = got'[c] /\ got'[b] # NULL => b = c
                                   /\ cur'[b] = got'[c] => cur'[b] = NULL
<1>1. cur \in [Actors -> Inst \cup {NULL}] /\ got \in [Actors -> Inst \cup {NULL}]
  BY DEF IInv, TypeOK, LocalTypes
<1> QED BY <1>1, ConstantsAssumption DEF Carried, IInv, OneOwner, NoDuplicates

(* A worker takes the head of the ready queue, an instance.                *)
LEMMA StepPopInstance ==
    ASSUME IInv, NEW a \in Workers, Frame, PopInstance(a)
    PROVE  IInv'
<1> USE DEF IInv, PopInstance, Frame, Goto, countVars, instVars
<1>0. a \in Actors
  BY DEF Actors
<1>a. ready \in Seq(Inst \cup {NULL}) /\ ready # <<>> /\ Tail(ready) \in Seq(Inst \cup {NULL})
  BY DEF TypeOK, QueueTypes
<1>b. PICK i \in Inst : i = Head(ready)
  BY <1>a
<1>1. QueueTypes' /\ CountTypes' /\ InstTypes'
  BY <1>a DEF TypeOK, QueueTypes, CountTypes, InstTypes
<1>2. LocalTypes'
  BY <1>b DEF TypeOK, LocalTypes, Labels
<1>3. (quit \in BOOLEAN)'
  BY DEF TypeOK
<1>4. Control'
  BY <1>0, <1>b, ConstantsAssumption
  DEF TypeOK, LocalTypes, Control, LabelsOK, EmitOK, PointersOK, EmitLabels, RunLabels, Actors
<1>5. OneOwner'
  <2>1. \A x : In(ready, x) <=> In(ready', x) \/ x = i
    BY <1>a, <1>b, InTail
  <2>2. Once(ready') /\ ~In(ready', i)
    BY <1>a, <1>b, OnceTail, ConstantsAssumption DEF OneOwner, NoDuplicates
  <2>3. \A x \in Inst : InReady(x)' <=> InReady(x) /\ x # i
    BY <2>1, <2>2 DEF InReady
  <2>4. InReady(i)
    BY <2>1 DEF InReady
  <2>5. cur[a] = NULL /\ ~Carried(i) /\ cur' = [cur EXCEPT ![a] = i]
    BY <1>0, <1>b, <2>4, ConstantsAssumption
    DEF OneOwner, OnePlace, Control, PointersOK, RunLabels, EmitLabels
  <2>6. NoDuplicates'
    BY <1>0, <2>2, <2>5, TakeCur DEF OneOwner, NoDuplicates
  <2>7. \A x \in Inst : Carried(x)' <=> Carried(x) \/ x = i
    BY <1>0, <2>5, TakeCur
  <2>8. OnePlace'
    BY <2>3, <2>4, <2>7 DEF OneOwner, OnePlace, InRecycle, Allocated
  <2> QED BY <2>6, <2>8 DEF OneOwner
<1> QED BY <1>1, <1>2, <1>3, <1>4, <1>5 DEF TypeOK

(* A worker takes a request to exit: no instance moves.                    *)
LEMMA StepPopKill ==
    ASSUME IInv, NEW a \in Workers, Frame, PopKill(a)
    PROVE  IInv'
<1> USE DEF IInv, PopKill, Frame, Goto, countVars, instVars
<1>0. a \in Actors
  BY DEF Actors
<1>a. ready \in Seq(Inst \cup {NULL}) /\ ready # <<>> /\ Tail(ready) \in Seq(Inst \cup {NULL})
  BY DEF TypeOK, QueueTypes
<1>1. QueueTypes' /\ CountTypes' /\ InstTypes'
  BY <1>a DEF TypeOK, QueueTypes, CountTypes, InstTypes
<1>2. LocalTypes'
  BY DEF TypeOK, LocalTypes, Labels
<1>3. (quit \in BOOLEAN)'
  BY DEF TypeOK
<1>4. Control'
  BY <1>0, ConstantsAssumption, ZenonT(60)
  DEF TypeOK, LocalTypes, Control, LabelsOK, EmitOK, PointersOK, EmitLabels, RunLabels, Actors
<1>5. OneOwner'
  <2>1. \A x : In(ready, x) <=> In(ready', x) \/ x = NULL
    BY <1>a, InTail
  <2>2. Once(ready')
    BY <1>a, OnceTail DEF OneOwner, NoDuplicates
  <2>3. \A x \in Inst : InReady(x)' <=> InReady(x)
    BY <2>1, ConstantsAssumption DEF InReady
  <2>4. NoDuplicates'
    BY <2>2 DEF OneOwner, NoDuplicates
  <2>5. OnePlace'
    BY <2>3 DEF OneOwner, OnePlace, InRecycle, Allocated, Carried
  <2> QED BY <2>4, <2>5 DEF OneOwner
<1> QED BY <1>1, <1>2, <1>3, <1>4, <1>5 DEF TypeOK

(* The statuses that only decide what the worker does with its instance.   *)
LEMMA StepStatus ==
    ASSUME IInv, NEW a \in Workers, Frame,
           Ended(a) \/ UnknownStatus(a) \/ (pc[a] = "run" /\ BackToReady(a))
             \/ \E status \in Calls : Failed(a, status)
    PROVE  IInv'
<1> USE DEF IInv, Ended, UnknownStatus, BackToReady, Failed, Settle, Frame, Goto,
            queueVars, countVars, instVars
<1>0. a \in Actors
  BY DEF Actors
<1>a. PICK i \in Inst : i = cur[a]
  BY <1>0 DEF Control, PointersOK, RunLabels, TypeOK, LocalTypes
<1>b. PICK s \in Stages : s = stage[i]
  BY <1>0, <1>a, CarriedStage
<1>c. active' = [active EXCEPT ![s] = active[s] - 1] \/ active' = active
  BY <1>a, <1>b
<1>d. QueueTypes' /\ CountTypes'
  BY <1>c, SMTT(30) DEF TypeOK, QueueTypes, CountTypes
<1>e. /\ fate' \in [Events -> Fates]
      /\ held' \in [Inst -> SUBSET Events]
      /\ UNCHANGED <<stage, lost, parked>>
  BY <1>a DEF TypeOK, InstTypes, Fates
<1>1. InstTypes'
  BY <1>e DEF TypeOK, InstTypes
<1>2. LocalTypes'
  BY DEF TypeOK, LocalTypes, Labels
<1>3. (quit \in BOOLEAN)'
  BY Zenon DEF TypeOK
<1>4. Control'
  BY <1>0, ConstantsAssumption
  DEF TypeOK, LocalTypes, Control, LabelsOK, EmitOK, PointersOK, EmitLabels, RunLabels, Actors
<1>5. OneOwner'
  BY OwnerUnmoved
<1> QED BY <1>d, <1>1, <1>2, <1>3, <1>4, <1>5 DEF TypeOK

(* A handler suspends: its instance is registered, or leaked.              *)
LEMMA StepSuspend ==
    ASSUME IInv, NEW a \in Workers, Frame, pc[a] = "run", Suspend(a) \/ SuspendError(a)
    PROVE  IInv'
<1> USE DEF IInv, Suspend, SuspendError, Frame, Goto, queueVars, countVars, instVars
<1>0. a \in Actors
  BY DEF Actors
<1>a. PICK i \in Inst : i = cur[a]
  BY <1>0 DEF Control, PointersOK, RunLabels, TypeOK, LocalTypes
<1>1. QueueTypes' /\ CountTypes' /\ InstTypes'
  BY <1>a DEF TypeOK, QueueTypes, CountTypes, InstTypes
<1>2. LocalTypes'
  BY DEF TypeOK, LocalTypes, Labels
<1>3. (quit \in BOOLEAN)'
  BY DEF TypeOK
<1>4. Control'
  BY <1>0, ConstantsAssumption
  DEF TypeOK, LocalTypes, Control, LabelsOK, EmitOK, PointersOK, EmitLabels, RunLabels, Actors
<1>5. OneOwner'
  <2>1. /\ \/ parked' = parked \cup {i} /\ UNCHANGED lost
           \/ lost' = lost \cup {i} /\ UNCHANGED parked
        /\ UNCHANGED <<ready, recycle, stage>>
    BY <1>a
  <2>2. ~InReady(i) /\ ~InRecycle(i) /\ i \notin parked /\ i \notin lost
    BY <1>0, <1>a, CarriedStage
  <2>3. NoDuplicates'
    BY <1>0, <1>a, DropCur DEF OneOwner, NoDuplicates
  <2>4. \A x \in Inst : Carried(x)' <=> Carried(x) /\ x # i
    BY <1>0, <1>a, DropCur
  <2>5. Carried(i)
    BY <1>0, <1>a DEF Carried
  <2>6. OnePlace'
    BY <2>1, <2>2, <2>4, <2>5 DEF OneOwner, OnePlace, InReady, InRecycle, Allocated
  <2> QED BY <2>3, <2>6 DEF OneOwner
<1> QED BY <1>1, <1>2, <1>3, <1>4, <1>5 DEF TypeOK

(* A timer or a descriptor fires: the event thread takes the instance back.*)
LEMMA StepIoReady ==
    ASSUME IInv, NEW i \in Inst, Frame, IoReady(i)
    PROVE  IInv'
<1> USE DEF IInv, IoReady, Frame, Goto, queueVars, countVars, instVars
<1>0. EventThread \in Actors
  BY DEF Actors
<1>1. QueueTypes' /\ CountTypes' /\ InstTypes'
  BY DEF TypeOK, QueueTypes, CountTypes, InstTypes
<1>2. LocalTypes'
  BY DEF TypeOK, LocalTypes, Labels
<1>3. (quit \in BOOLEAN)'
  BY DEF TypeOK
<1>4. Control'
  BY <1>0, ConstantsAssumption
  DEF TypeOK, LocalTypes, Control, LabelsOK, EmitOK, PointersOK, EmitLabels, RunLabels, Actors
<1>5. OneOwner'
  <2>1. cur[EventThread] = NULL /\ ~Carried(i)
    BY <1>0, ConstantsAssumption DEF OneOwner, OnePlace, Control, PointersOK, RunLabels, EmitLabels
  <2>2. NoDuplicates'
    BY <1>0, <2>1, TakeCur DEF OneOwner, NoDuplicates
  <2>3. \A x \in Inst : Carried(x)' <=> Carried(x) \/ x = i
    BY <1>0, <2>1, TakeCur
  <2>4. OnePlace'
    BY <2>3 DEF OneOwner, OnePlace, InReady, InRecycle, Allocated
  <2> QED BY <2>2, <2>4 DEF OneOwner
<1> QED BY <1>1, <1>2, <1>3, <1>4, <1>5 DEF TypeOK

-----------------------------------------------------------------------------
(* The controller's changes of limits and capacities move no instance.     *)
LEMMA StepMaxpar ==
    ASSUME IInv, NEW s \in Stages, NEW c \in Int, todo' \subseteq Stages,
           UNCHANGED <<parked, pool_size, quit, phase, kills>>,
           MaxparCapacity(Main, s, c)
    PROVE  IInv'
<1> USE DEF IInv, MaxparCapacity, Goto, countVars, instVars
<1>0. Main \in Actors
  BY DEF Actors
<1>1. QueueTypes' /\ CountTypes' /\ InstTypes'
  BY DEF TypeOK, QueueTypes, CountTypes, InstTypes
<1>2. LocalTypes'
  BY DEF TypeOK, LocalTypes, Labels
<1>3. (quit \in BOOLEAN)'
  BY DEF TypeOK
<1>4. Control'
  BY <1>0, ConstantsAssumption
  DEF TypeOK, LocalTypes, Control, LabelsOK, EmitOK, PointersOK, EmitLabels, RunLabels, Actors
<1>5. OneOwner'
  BY OwnerUnmoved
<1> QED BY <1>1, <1>2, <1>3, <1>4, <1>5 DEF TypeOK

(* The second half of instance_set_maxpar.                                 *)
LEMMA StepMaxparLimit ==
    ASSUME IInv, Others, MaxparLimit(Main)
    PROVE  IInv'
<1> USE DEF IInv, MaxparLimit, Others, Goto, queueVars, instVars
<1>0. Main \in Actors
  BY DEF Actors
<1>1. QueueTypes' /\ CountTypes' /\ InstTypes'
  <2>1. limit' \in [Stages -> Int]
    BY <1>0 DEF TypeOK, CountTypes, LocalTypes
  <2> QED BY <2>1 DEF TypeOK, QueueTypes, CountTypes, InstTypes
<1>2. LocalTypes'
  BY DEF TypeOK, LocalTypes, Labels
<1>3. (quit \in BOOLEAN)'
  BY DEF TypeOK
<1>4. Control'
  BY <1>0, ConstantsAssumption
  DEF TypeOK, LocalTypes, Control, LabelsOK, EmitOK, PointersOK, EmitLabels, RunLabels, Actors
<1>5. OneOwner'
  BY OwnerUnmoved
<1> QED BY <1>1, <1>2, <1>3, <1>4, <1>5 DEF TypeOK

(* leda_set_capacity.                                                      *)
LEMMA StepSetCapacity ==
    ASSUME IInv, ControllerSetCapacity
    PROVE  IInv'
<1> USE ControllerAssumption
    DEF IInv, ControllerSetCapacity, SetReadyCapacity, SetEventCapacity, countVars, instVars, localVars
<1>1. readycap' \in Int /\ evcap' \in [Stages -> Int]
  BY DEF TypeOK, QueueTypes
<1>2. UNCHANGED <<ready, recycle, recap, evq, limit, ninst, active, pool_size, kills, stage, held,
                  lost, parked, fate, pc, cur, got, dst, how, msg, seen, phase, todo, quit>>
  OBVIOUS
<1>3. TypeOK'
  BY <1>1, <1>2 DEF TypeOK, QueueTypes, CountTypes, InstTypes, LocalTypes
<1>4. Control'
  BY <1>2 DEF Control, LabelsOK, EmitOK, PointersOK
<1>5. OneOwner'
  BY <1>2, OwnerUnmoved
<1> QED BY <1>3, <1>4, <1>5

(* The steps of leda_run itself: new threads, requests to exit, and the    *)
(* phases of the run.                                                      *)
LEMMA StepThreadNew ==
    ASSUME IInv, ThreadNew
    PROVE  IInv'
<1> USE DEF IInv, Goto, queueVars, countVars, instVars
<1>0. PICK w \in Workers : pc[w] = "unborn" /\ pc' = [pc EXCEPT ![w] = "wait"]
  BY DEF ThreadNew
<1>a. /\ pool_size' = pool_size + 1
      /\ UNCHANGED <<queueVars, countVars, instVars, fate, cur, got, dst, how, msg, seen,
                     parked, quit, phase, todo, kills>>
  BY DEF ThreadNew
<1>1. QueueTypes' /\ CountTypes' /\ InstTypes'
  BY <1>a DEF TypeOK, QueueTypes, CountTypes, InstTypes
<1>2. LocalTypes'
  BY <1>0, <1>a DEF TypeOK, LocalTypes, Labels
<1>3. (quit \in BOOLEAN)'
  BY <1>a DEF TypeOK
<1>4. Control'
  BY <1>0, <1>a, ConstantsAssumption
  DEF TypeOK, LocalTypes, Control, LabelsOK, EmitOK, PointersOK, EmitLabels, RunLabels, Actors
<1>5. OneOwner'
  BY <1>a, OwnerUnmoved
<1> QED BY <1>1, <1>2, <1>3, <1>4, <1>5 DEF TypeOK

(* thread_kill pushes NULL, which is no instance.                          *)
LEMMA StepThreadKill ==
    ASSUME IInv, ThreadKill
    PROVE  IInv'
<1> USE DEF IInv, ThreadKill, countVars, instVars, localVars
<1>1. QueueTypes' /\ CountTypes' /\ InstTypes' /\ LocalTypes'
  BY DEF TypeOK, QueueTypes, CountTypes, InstTypes, LocalTypes
<1>2. (quit \in BOOLEAN)'
  BY DEF TypeOK
<1>3. Control'
  BY DEF Control, LabelsOK, EmitOK, PointersOK
<1>4. OneOwner'
  <2>1. ready \in Seq(Inst \cup {NULL}) /\ ready' = Append(ready, NULL)
    BY DEF TypeOK, QueueTypes
  <2>2. \A x \in Inst : InReady(x)' <=> InReady(x)
    BY <2>1, InAppend, ConstantsAssumption DEF InReady
  <2>3. Once(ready')
    BY <2>1, OnceAppend DEF OneOwner, NoDuplicates
  <2>4. NoDuplicates'
    BY <2>3 DEF OneOwner, NoDuplicates
  <2>5. OnePlace'
    BY <2>2 DEF OneOwner, OnePlace, InRecycle, Allocated, Carried
  <2> QED BY <2>4, <2>5 DEF OneOwner
<1> QED BY <1>1, <1>2, <1>3, <1>4 DEF TypeOK

(* The steps that only move leda_run to its next phase.                    *)
LEMMA StepPhase ==
    ASSUME IInv, UNCHANGED <<schedulerVars, kills>>, phase' \in Phases, todo' \subseteq Stages
    PROVE  IInv'
<1> USE DEF IInv, schedulerVars, instanceVars, queueVars, countVars, instVars, localVars
<1>1. TypeOK'
  BY DEF TypeOK, QueueTypes, CountTypes, InstTypes, LocalTypes
<1>2. Control'
  BY DEF Control, LabelsOK, EmitOK, PointersOK
<1>3. OneOwner'
  BY OwnerUnmoved
<1> QED BY <1>1, <1>2, <1>3

(* The event thread is stopped, with whatever it carries.                  *)
LEMMA StepEventEnd ==
    ASSUME IInv, EventEnd
    PROVE  IInv'
<1> USE DEF IInv, EventEnd, Goto, queueVars, countVars, instVars
<1>1. QueueTypes' /\ CountTypes' /\ InstTypes'
  BY DEF TypeOK, QueueTypes, CountTypes, InstTypes
<1>2. LocalTypes'
  BY DEF TypeOK, LocalTypes, Labels, Phases
<1>3. (quit \in BOOLEAN)'
  BY DEF TypeOK
<1>4. Control'
  BY ConstantsAssumption
  DEF TypeOK, LocalTypes, Control, LabelsOK, EmitOK, PointersOK, EmitLabels, RunLabels, Actors
<1>5. OneOwner'
  BY OwnerUnmoved
<1> QED BY <1>1, <1>2, <1>3, <1>4, <1>5 DEF TypeOK

-----------------------------------------------------------------------------
(* What any thread does on its own, in instance.c and in emmit.            *)
LEMMA StepThread ==
    ASSUME IInv, NEW a \in Actors, Frame, ThreadStep(a)
    PROVE  IInv'
<1>1. CASE InstanceStep(a)
  <2>0. Others
    BY <1>1 DEF InstanceStep, Others, Frame
  <2>1. CASE AquireStep(a)
    BY <2>0, <2>1, StepAquireRecycled, StepActive, StepAquireEmpty, StepAquireCreate,
       StepAquireInitError
    DEF AquireStep
  <2>2. CASE ReleaseStep(a)
    BY <2>0, <2>2, StepRequeue, StepReleaseEvent, StepReleaseNoEvent, StepActive, StepReleasePark,
       StepDestroy
    DEF ReleaseStep
  <2>3. CASE FetchStep(a)
    BY <2>0, <2>3, StepReleaseEvent, StepReleaseNoEvent DEF FetchStep
  <2> QED BY <1>1, <2>1, <2>2, <2>3 DEF InstanceStep
<1>2. CASE EmmitStep(a)
  BY <1>2, StepEmmitDeliver, StepEmmitCopyError, StepEmmitNothing, StepCohortDeliver
  DEF EmmitStep
<1> QED BY <1>1, <1>2 DEF ThreadStep

(* What a worker does.                                                     *)
LEMMA StepWorker ==
    ASSUME IInv, NEW w \in Workers, WorkerStep(w)
    PROVE  IInv'
<1>0. Frame /\ w \in Actors
  BY DEF WorkerStep, Frame, Actors
<1>1. CASE ThreadStep(w)
  BY <1>0, <1>1, StepThread
<1>2. CASE PopStep(w)
  BY <1>0, <1>2, StepPopInstance, StepPopKill DEF PopStep
<1>3. CASE \E e \in HandlerEvents, s \in Stages : Emmit(w, e, s) \/ Cohort(w, e, s)
  <2>1. PICK e \in HandlerEvents, s \in Stages : Emmit(w, e, s) \/ Cohort(w, e, s)
    BY <1>3
  <2>2. e \in Events
    BY DEF Events
  <2> QED BY <1>0, <2>1, <2>2, StepStartEmit DEF Emmit, Cohort
<1>4. CASE pc[w] = "run" /\ (Suspend(w) \/ SuspendError(w))
  BY <1>0, <1>4, StepSuspend
<1>5. CASE Ended(w) \/ UnknownStatus(w) \/ (pc[w] = "run" /\ BackToReady(w))
             \/ \E status \in Calls : Failed(w, status)
  BY <1>0, <1>5, StepStatus
<1> QED BY <1>1, <1>2, <1>3, <1>4, <1>5
        DEF WorkerStep, HandlerStep, Nice, EventSleep, EventWaitIo, EventDoFileAio

(* What the event thread does.                                             *)
LEMMA StepEventLoop ==
    ASSUME IInv, EventLoopStep
    PROVE  IInv'
<1>0. Frame /\ EventThread \in Actors
  BY DEF EventLoopStep, Frame, Actors
<1>1. CASE ThreadStep(EventThread)
  BY <1>0, <1>1, StepThread
<1>2. CASE \E i \in Inst : IoReady(i)
  BY <1>0, <1>2, StepIoReady
<1>3. CASE \E e \in RemoteEvents, s \in Stages : EmmitPackedEvent(e, s)
  <2>1. PICK e \in RemoteEvents, s \in Stages : EmmitPackedEvent(e, s)
    BY <1>3
  <2>2. e \in Events
    BY DEF Events
  <2> QED BY <1>0, <2>1, <2>2, StepStartEmit DEF EmmitPackedEvent
<1> QED BY <1>1, <1>2, <1>3 DEF EventLoopStep, EventThreadStep

(* What the main thread does: leda_run and the controller.                 *)
LEMMA StepRun ==
    ASSUME IInv, RunStep \/ ControllerStep
    PROVE  IInv'
<1>0. Main \in Actors /\ todo \subseteq Stages
  BY DEF Actors, IInv, TypeOK, LocalTypes
<1>1. CASE EmmitPendingSend
  <2>1. PICK e \in PendingEvents, s \in Stages : StartEmit(Main, e, s, "emmit")
    BY <1>1 DEF EmmitPendingSend
  <2>2. e \in Events /\ Frame
    BY <1>1 DEF Events, EmmitPendingSend, Frame
  <2> QED BY <1>0, <2>1, <2>2, StepStartEmit
<1>2. CASE ControllerSend
  <2>1. PICK e \in MainEvents, s \in Stages : StartEmit(Main, e, s, "emmit")
    BY <1>2 DEF ControllerSend
  <2>2. e \in Events /\ Frame
    BY <1>2 DEF Events, ControllerSend, Frame
  <2> QED BY <1>0, <2>1, <2>2, StepStartEmit
<1>3. CASE PoolSetMaxpar
  <2>1. PICK s \in todo : MaxparCapacity(Main, s, PoolMaxpar) /\ todo' = todo \ {s}
    BY <1>3 DEF PoolSetMaxpar
  <2>2. s \in Stages /\ PoolMaxpar \in Int /\ todo' \subseteq Stages
    BY <1>0, <2>1, ControllerAssumption
  <2> QED BY <1>3, <2>1, <2>2, StepMaxpar DEF PoolSetMaxpar
<1>4. CASE ControllerMaxpar
  <2>1. PICK s \in Stages, c \in MaxparValues : MaxparCapacity(Main, s, c)
    BY <1>4 DEF ControllerMaxpar
  <2>2. c \in Int /\ todo' \subseteq Stages
    BY <1>0, <1>4, <2>1, ControllerAssumption DEF ControllerMaxpar
  <2> QED BY <1>4, <2>1, <2>2, StepMaxpar DEF ControllerMaxpar
<1>5. CASE MainStep
  BY <1>0, <1>5, StepThread, StepMaxparLimit DEF MainStep, Frame, Others
<1>6. CASE CallControllerInit \/ Dispatch \/ LoopExit \/ Join \/ InstanceEnd
  <2>1. /\ UNCHANGED <<schedulerVars, kills>>
        /\ phase' \in Phases /\ todo' \subseteq Stages
    BY <1>0, <1>6 DEF CallControllerInit, Dispatch, LoopExit, Join, InstanceEnd, Phases
  <2> QED BY <2>1, StepPhase
<1>7. CASE ControllerSetCapacity
  BY <1>7, StepSetCapacity
<1>8. CASE ThreadNew \/ ThreadKill \/ EventEnd
  BY <1>8, StepThreadNew, StepThreadKill, StepEventEnd
<1> QED BY <1>1, <1>2, <1>3, <1>4, <1>5, <1>6, <1>7, <1>8 DEF RunStep, ControllerStep

(* The invariant is inductive.                                             *)
LEMMA NextIInv == IInv /\ [Next]_vars => IInv'
<1> SUFFICES ASSUME IInv, [Next]_vars PROVE IInv'
  OBVIOUS
<1>1. CASE UNCHANGED vars
  BY <1>1, StepPhase DEF vars, IInv, TypeOK, LocalTypes
<1>2. CASE Next
  BY <1>2, StepRun, StepEventLoop, StepWorker DEF Next
<1> QED BY <1>1, <1>2

-----------------------------------------------------------------------------
(* Every variable of the process keeps its type, for any number of stages, *)
(* instances, events and worker threads: in particular no emission ever    *)
(* runs with a stage or an instance that does not exist.                   *)
THEOREM TypeCorrect == Spec => []TypeOK
<1>1. IInv => TypeOK
  BY DEF IInv
<1> QED BY InitIInv, NextIInv, <1>1, PTL DEF Spec

(* Every allocated instance has exactly one owner, for any number of       *)
(* stages, instances, events and worker threads.                           *)
THEOREM OneOwnerAlways == Spec => []OneOwner
<1>1. IInv => OneOwner
  BY DEF IInv
<1> QED BY InitIInv, NextIInv, <1>1, PTL DEF Spec
=============================================================================
