-------------------------- MODULE GestationProofs --------------------------
(***************************************************************************)
(* What is proved of Gestation for every value of its constants: any       *)
(* number of services' lives, moves of the users and faults of any kind.   *)
(***************************************************************************)
EXTENDS Gestation, TLAPS

USE PlannedAssumption, RollbackAssumption, ConceivedAssumption, FaultAssumption,
    TemplateAssumption, BoundAssumption

---------------------------------------------------------------------------
\* Types.

(* The empty objects are well formed. *)
LEMMA EmptyType ==
    /\ NoBirth \in Birth /\ NoScore \in Score /\ Expected \in Status
    /\ NoGestation \in GestationObject /\ NoDeployment \in DeploymentObject
    /\ Idle \in Pass
  <1>1. NoBirth \in Birth /\ NoScore \in Score
    BY DEF NoBirth, Birth, NoScore, Score, Minute
  <1>2. Expected \in Status
    BY <1>1 DEF Expected, Status, Phase, NoCare
  <1>3. NoGestation \in GestationObject
    BY <1>2 DEF NoGestation, GestationObject
  <1>4. NoDeployment \in DeploymentObject
    <2>1. (CHOOSE t \in Template : TRUE) \in Template
      OBVIOUS
    <2>2. [t \in Template |-> 0] \in Revisions
      BY DEF Revisions
    <2>3. QED
      BY <2>1, <2>2 DEF NoDeployment, DeploymentObject
  <1>5. [known |-> FALSE, at |-> [u \in 1 .. MaxUid |-> "none"]] \in Lives
    BY DEF Lives, Memory, Life
  <1>6. QED
    BY <1>1, <1>2, <1>3, <1>4, <1>5 DEF Idle, Pass, Step

(* A service that was sent back has one more rejected revision. *)
LEMMA RejectionsType ==
    /\ <<>> \in Rejections
    /\ \A s \in Rejections, n \in Nat : Append(s, n) \in Rejections
  BY DEF Rejections

(* A fault leaves a counter of faults. *)
LEMMA FaultType ==
    ASSUME TypeOK
    PROVE  /\ Works => faults' \in Nat
           /\ Fails => faults' \in Nat
           /\ Answered => faults' \in Nat
           /\ \A f : Counted(f) => faults' \in Nat
  BY DEF Works, Fails, Answered, Counted, TypeOK

(* Going to another step keeps a pass well formed. *)
LEMMA GotoType ==
    ASSUME TypeOK, NEW step \in Step, Goto(step)
    PROVE  pass' \in Pass
  BY DEF Goto, TypeOK, Pass

(* Opening and closing records keeps a memory well formed. *)
LEMMA RecordType ==
    ASSUME NEW m \in Lives, NEW u \in Nat
    PROVE  Put(m, u) \in Lives /\ Closed(m, u) \in Lives
  BY DEF Put, Closed, Lives, Memory, Life

(* The end of reconcile keeps a pass well formed. *)
LEMMA FinishType ==
    ASSUME TypeOK, NEW s \in Status, NEW m \in Lives, Finish(s, m)
    PROVE  pass' \in Pass
  <1>1. [s EXCEPT !.answered = pass.g.screen] \in Status
    BY DEF TypeOK, Pass, GestationObject, Status
  <1>2. NoDeployment \in DeploymentObject
    BY EmptyType
  <1>3. QED
    BY <1>1, <1>2 DEF Finish, TypeOK, Pass, Step

(* So does the end of a pass over a living service. *)
LEMMA FinishLivingType ==
    ASSUME TypeOK, NEW s \in Status, FinishLiving(s)
    PROVE  pass' \in Pass
  <1>1. Put(pass.mem, pass.d.uid) \in Lives
    BY RecordType DEF TypeOK, Pass, DeploymentObject
  <1>2. QED
    BY <1>1, FinishType DEF FinishLiving

(* And that of a pass that gives up its delivery. *)
LEMMA AbandonType ==
    ASSUME TypeOK, Abandon
    PROVE  pass' \in Pass
  BY FinishType DEF Abandon, TypeOK, Pass

(* A tier of care is one of the four. *)
LEMMA TierType == ASSUME NEW a PROVE CareTier(a) \in 0 .. 3
  BY DEF CareTier

(* A change of care and phase keeps a status well formed. *)
LEMMA CareType ==
    ASSUME NEW s \in Status, NEW c \in {NoCare} \cup 0 .. 3, NEW p \in Phase
    PROVE  [s EXCEPT !.care = c, !.phase = p] \in Status
  BY DEF Status

(* A newborn's status stays well formed through a day of care. *)
LEMMA TendType ==
    ASSUME TypeOK, NEW s \in Status, Tend(s)
    PROVE  pass' \in Pass
  <1>1. CASE ~InCare(s) /\ FinishLiving(s)
    BY <1>1, FinishLivingType
  <1>2. CASE FinishLiving([s EXCEPT !.care = CareTier(age), !.phase = "NewbornCare"])
    <2>1. [s EXCEPT !.care = CareTier(age), !.phase = "NewbornCare"] \in Status
      BY CareType, TierType DEF Phase
    <2>2. QED
      BY <1>2, <2>1, FinishLivingType
  <1>3. CASE pass' = [pass EXCEPT !.at = "home", !.status = s,
                                  !.dMoved = @ \/ deploy' # deploy]
    BY <1>3 DEF TypeOK, Pass, Step
  <1>4. CASE FinishLiving([s EXCEPT !.care = LastTier, !.phase = "NeedsCaregivers"])
    <2>1. [s EXCEPT !.care = LastTier, !.phase = "NeedsCaregivers"] \in Status
      <3>1. LastTier \in 0 .. 3 /\ "NeedsCaregivers" \in Phase
        BY DEF LastTier, Phase
      <3>2. QED
        BY <3>1, CareType
    <2>2. QED
      BY <1>4, <2>1, FinishLivingType
  <1>5. QED
    BY <1>1, <1>2, <1>3, <1>4 DEF Tend

(* A service that left has a well-formed status and record. *)
LEMMA DepartedType ==
    ASSUME TypeOK,
           Finish([pass.status EXCEPT !.phase = "Departed", !.care = NoCare],
                  Closed(pass.mem, pass.status.birth.uid))
    PROVE  pass' \in Pass
  <1>1. [pass.status EXCEPT !.phase = "Departed", !.care = NoCare] \in Status
    BY DEF TypeOK, Pass, Status, Phase
  <1>2. Closed(pass.mem, pass.status.birth.uid) \in Lives
    BY RecordType DEF TypeOK, Pass, Status, Birth
  <1>3. QED
    BY <1>1, <1>2, FinishType

(* The calls of a pass that do not touch the Deployment keep every type. *)
LEMMA CallType ==
    ASSUME TypeOK,
           \/ BeginPass \/ Look \/ EnsurePlacenta \/ ReleasePlacenta
           \/ SetNewborn \/ Plan \/ CreatePDB \/ UpdateStatus
           \/ SyncNewborns \/ SaveMemory \/ Depart
    PROVE  TypeOK'
  <1>1. CASE BeginPass
    <2>1. PICK known \in BOOLEAN :
            /\ pass' = [Idle EXCEPT !.at = IF gest.uid = 0 THEN "newborns" ELSE "look",
                                    !.g = gest, !.status = gest.status,
                                    !.mem = [known |-> known,
                                             at |-> IF known THEN memory ELSE Idle.mem.at]]
            /\ faults' = IF known THEN faults ELSE faults + 1
      BY <1>1, Zenon DEF BeginPass
    <2>2. Idle.mem.at \in Memory
      BY EmptyType DEF Pass, Lives
    <2>3. [known |-> known, at |-> IF known THEN memory ELSE Idle.mem.at] \in Lives
      BY <2>2 DEF Lives, TypeOK
    <2>4. pass' \in Pass
      BY <2>1, <2>3, EmptyType DEF Pass, Step, GestationObject, TypeOK
    <2>5. faults' \in Nat
      BY <2>1 DEF TypeOK
    <2>6. QED
      BY <1>1, <2>4, <2>5 DEF BeginPass, objects, caches, times, others, TypeOK
  <1>2. CASE Look
    <2>1. Header(pass.g, pass.status) \in Status
      BY <1>2, EmptyType DEF Header, TypeOK, Pass, GestationObject, Status, Phase, NoCare
    <2>2. pass' \in Pass
      BY <1>2, <2>1, GotoType DEF Look, Pass, Step, TypeOK
    <2>3. faults' \in Nat
      BY <1>2, FaultType DEF Look
    <2>4. QED
      BY <1>2, <2>1, <2>2, <2>3
         DEF Look, objects, caches, times, others, TypeOK
  <1>3. CASE EnsurePlacenta
    <2>1. placenta' \in [owner : Nat, size : Nat]
      BY <1>3 DEF EnsurePlacenta, Reserved, TypeOK, Pass, GestationObject
    <2>2. [pass.status EXCEPT !.phase = IF trimester = 0 THEN "Due" ELSE "Expecting",
                                !.screened = IF trimester > @ THEN trimester ELSE @] \in Status
      BY <1>3 DEF TypeOK, Pass, Status, Phase
    <2>3. pass' \in Pass
      BY <1>3, <2>2, FinishType DEF EnsurePlacenta, TypeOK, Pass
    <2>4. faults' \in Nat
      BY <1>3, FaultType DEF EnsurePlacenta
    <2>5. QED
      BY <1>3, <2>1, <2>2, <2>3, <2>4
         DEF EnsurePlacenta, objects, caches, times, others, TypeOK
  <1>4. CASE ReleasePlacenta
    <2>1. placenta' \in [owner : Nat, size : Nat]
      BY <1>4 DEF ReleasePlacenta, Released, TypeOK
    <2>2. pass' \in Pass
      BY <1>4, AbandonType, GotoType DEF ReleasePlacenta, Step
    <2>3. faults' \in Nat
      BY <1>4, FaultType DEF ReleasePlacenta
    <2>4. QED
      BY <1>4, <2>1, <2>2, <2>3
         DEF ReleasePlacenta, objects, caches, times, others, TypeOK
  <1>5. CASE SetNewborn
    <2>1. entry' \in 0 .. 3 /\ nsSeen' \in 0 .. 3
      BY <1>5, TierType DEF SetNewborn, TypeOK
    <2>2. pass' \in Pass
      BY <1>5, AbandonType, GotoType DEF SetNewborn, Step
    <2>3. faults' \in Nat
      BY <1>5, FaultType DEF SetNewborn
    <2>4. QED
      BY <1>5, <2>1, <2>2, <2>3
         DEF SetNewborn, objects, caches, times, others, TypeOK
  <1>6. CASE Plan
    <2>1. pass' \in Pass
      <3>1. hpa \in BOOLEAN /\ Covered \in BOOLEAN /\ pass \in Pass
        BY DEF TypeOK, Covered
      <3>2. \/ Abandon
            \/ pass' = [pass EXCEPT !.added = ~hpa, !.covered = Covered,
                                    !.at = IF Covered THEN "bear" ELSE "budget"]
        BY <1>6 DEF Plan
      <3>3. [pass EXCEPT !.added = ~hpa, !.covered = Covered,
                         !.at = IF Covered THEN "bear" ELSE "budget"] \in Pass
        BY <3>1 DEF Pass, Step
      <3>4. QED
        BY <3>2, <3>3, AbandonType
    <2>2. faults' \in Nat
      BY <1>6, FaultType DEF Plan
    <2>3. QED
      BY <1>6, <2>1, <2>2
         DEF Plan, objects, caches, times, others, TypeOK
  <1>7. CASE CreatePDB
    <2>1. pdb' \in Nat
      BY <1>7 DEF CreatePDB, TypeOK, Pass, GestationObject
    <2>2. pass' \in Pass
      BY <1>7, AbandonType, GotoType DEF CreatePDB, Step
    <2>3. faults' \in Nat
      BY <1>7, FaultType DEF CreatePDB
    <2>4. QED
      BY <1>7, <2>1, <2>2, <2>3
         DEF CreatePDB, objects, caches, times, others, TypeOK
  <1>8. CASE UpdateStatus
    <2>1. gest' \in GestationObject
      BY <1>8 DEF UpdateStatus, TypeOK, Pass, GestationObject
    <2>2. pass' \in Pass
      BY <1>8, GotoType DEF UpdateStatus, Step
    <2>3. faults' \in Nat
      BY <1>8, FaultType DEF UpdateStatus
    <2>4. QED
      BY <1>8, <2>1, <2>2, <2>3
         DEF UpdateStatus, objects, caches, times, others, TypeOK
  <1>9. CASE SyncNewborns
    <2>1. entry' \in 0 .. 3
      BY <1>9 DEF SyncNewborns, WantedEntry, InCare, NoCare, TypeOK, Pass, Status
    <2>2. nsSeen' \in 0 .. 3
      BY <1>9, <2>1 DEF SyncNewborns, TypeOK
    <2>3. pass' \in Pass
      BY <1>9, GotoType DEF SyncNewborns, Step
    <2>4. faults' \in Nat
      BY <1>9, FaultType DEF SyncNewborns
    <2>5. QED
      BY <1>9, <2>1, <2>2, <2>3, <2>4
         DEF SyncNewborns, objects, caches, times, others, TypeOK
  <1>10. CASE SaveMemory
    <2>1. memory' \in Memory
      <3>1. pass.mem.at \in Memory /\ memory \in Memory
        BY DEF TypeOK, Pass, Lives
      <3>2. [u \in 1 .. MaxUid |-> IF pass.mem.at[u] = "open" /\ Left(u)
                                  THEN "closed" ELSE pass.mem.at[u]] \in Memory
        BY <3>1 DEF Memory, Life
      <3>3. QED
        BY <1>10, <3>1, <3>2 DEF SaveMemory
    <2>2. pass' \in Pass
      BY <1>10, EmptyType DEF SaveMemory
    <2>3. faults' \in Nat
      BY <1>10, FaultType DEF SaveMemory
    <2>4. QED
      BY <1>10, <2>1, <2>2, <2>3
         DEF SaveMemory, objects, caches, times, others, TypeOK
  <1>11. CASE Depart
    <2>1. pdb' \in Nat
      BY <1>11 DEF Depart, DeletePDB, TypeOK
    <2>2. pass' \in Pass
      BY <1>11, DepartedType, AbandonType DEF Depart, DeletePDB
    <2>3. faults' \in Nat
      BY <1>11, FaultType DEF Depart, DeletePDB
    <2>4. QED
      BY <1>11, <2>1, <2>2, <2>3
         DEF Depart, objects, caches, times, others, TypeOK
  <1>12. QED
    BY <1>1, <1>2, <1>3, <1>4, <1>5, <1>6, <1>7, <1>8, <1>9, <1>10, <1>11

(* The newest of some revisions is a number. *)
LEMMA NewestType == ASSUME NEW ns \in SUBSET Nat PROVE Newest(ns) \in Nat
  BY DEF Newest

(* Resolving the revisions of a birth keeps a status well formed. *)
LEMMA ResolvedType ==
    ASSUME NEW s \in Status, NEW d \in DeploymentObject
    PROVE  Resolved(s, d) \in Status
  <1>1. \A t \in Template : d.revisions[t] \in Nat
    BY DEF DeploymentObject, Revisions
  <1>2. d.template \in Template
    BY DEF DeploymentObject
  <1>3. ASSUME NEW n \in Nat PROVE Newest(Older(d, n)) \in Nat
    BY <1>1, NewestType DEF Older
  <1>4. QED
    BY <1>1, <1>2, <1>3 DEF Resolved, Status, Birth

(* Every score that may come is one. *)
LEMMA ScoresType ==
    ASSUME TypeOK
    PROVE  Scores \subseteq Score
  <1>1. NextMinute(pass.status.score) \in Minute
    BY DEF TypeOK, Pass, Status, Score, Minute, NextMinute
  <1>2. Scores \subseteq {[minute |-> NextMinute(pass.status.score), low |-> l] :
                            l \in BOOLEAN}
    BY Zenon DEF Scores
  <1>3. QED
    BY <1>1, <1>2 DEF Score

(* The end of care keeps a Deployment well formed. *)
LEMMA EndedType ==
    ASSUME NEW d \in DeploymentObject
    PROVE  CareEnded(d) \in DeploymentObject
  <1>1. TakesBack(d) => d.replicas > 1
    BY Zenon DEF TakesBack
  <1>2. (IF TakesBack(d) THEN d.replicas - 1 ELSE d.replicas) \in Nat
    BY <1>1 DEF DeploymentObject
  <1>3. QED
    BY <1>2 DEF CareEnded, DeploymentObject

(* The launch and what follows it keep every type. *)
LEMMA LifeType ==
    ASSUME TypeOK,
           \/ Bear \/ AfterBirth \/ Apgar \/ RollBack \/ RollBackPDB
           \/ Discharge \/ DischargePDB
    PROVE  TypeOK'
  <1>1. CASE Bear
    <2>1. deploy' \in DeploymentObject /\ extra' \in Int /\ age' \in Ages
      <3>1. (IF pass.d.replicas = 0 THEN Planned ELSE pass.d.replicas)
              + (IF pass.added THEN 1 ELSE 0) \in Nat
        BY DEF TypeOK, Pass, DeploymentObject
      <3>2. Launched(deploy) \in DeploymentObject
        BY <3>1 DEF Launched, TypeOK, DeploymentObject
      <3>3. QED
        BY <1>1, <3>2 DEF Bear, TypeOK, Ages
    <2>2. pass.covered \in BOOLEAN /\ pass.added \in BOOLEAN /\ pass.d.uid \in Nat
      BY <1>1 DEF TypeOK, Pass, DeploymentObject
    <2>3. [NoBirth EXCEPT !.uid = pass.d.uid, !.added = pass.added,
                          !.pdb = ~pass.covered] \in Birth
      BY <1>1, <2>2, EmptyType DEF Birth
    <2>4. CareTier(0) \in 0 .. 3 /\ "NewbornCare" \in Phase
      BY <1>1, TierType DEF Phase
    <2>5. [pass.status EXCEPT
               !.birth = [NoBirth EXCEPT !.uid = pass.d.uid, !.added = pass.added,
                                         !.pdb = ~pass.covered],
               !.care = CareTier(0), !.score = NoScore, !.phase = "NewbornCare"] \in Status
      BY <1>1, <2>3, <2>4, EmptyType DEF TypeOK, Pass, Status
    <2>6. Put(pass.mem, pass.d.uid) \in Lives
      BY <1>1, <2>2, RecordType DEF TypeOK, Pass
    <2>7. pass' \in Pass
      BY <1>1, <2>5, <2>6, FinishType, AbandonType DEF Bear
    <2>8. faults' \in Nat
      BY <1>1, FaultType DEF Bear
    <2>9. QED
      BY <1>1, <2>1, <2>2, <2>3, <2>4, <2>5, <2>6, <2>7, <2>8
         DEF Bear, objects, caches, times, others, TypeOK
  <1>2. CASE AfterBirth
    <2>1. Resolved(pass.status, pass.d) \in Status
      BY <1>2, ResolvedType DEF TypeOK, Pass
    <2>2. pass' \in Pass
      <3>1. \/ Tend(Resolved(pass.status, pass.d))
            \/ pass' = [pass EXCEPT !.at = "score", !.status = Resolved(pass.status, pass.d)]
        BY <1>2 DEF AfterBirth
      <3>2. [pass EXCEPT !.at = "score", !.status = Resolved(pass.status, pass.d)] \in Pass
        BY <2>1 DEF TypeOK, Pass, Step
      <3>3. QED
        BY <2>1, <3>1, <3>2, TendType
    <2>3. QED
      BY <1>2, <2>1, <2>2
         DEF AfterBirth, objects, caches, times, others, TypeOK
  <1>3. CASE Apgar
    <2>1. \A score \in Scores : [pass.status EXCEPT !.score = score] \in Status
      BY <1>3, ScoresType DEF TypeOK, Pass, Status
    <2>2. pass.status \in Status
      BY <1>3 DEF TypeOK, Pass
    <2>3. pass' \in Pass
      BY <1>3, <2>1, <2>2, TendType, GotoType DEF Apgar, Step
    <2>4. faults' \in Nat
      BY <1>3, FaultType DEF Apgar
    <2>5. QED
      BY <1>3, <2>1, <2>2, <2>3, <2>4
         DEF Apgar, objects, caches, times, others, TypeOK
  <1>4. CASE RollBack
    <2>1. deploy' \in DeploymentObject
      BY <1>4, EndedType DEF RollBack, TemplateAt, DeploymentObject, TypeOK
    <2>2. extra' \in Int
      <3>1. extra' = extra \/ ReplicaTaken
        BY <1>4 DEF RollBack
      <3>2. extra \in Int
        BY DEF TypeOK
      <3>3. QED
        BY <3>1, <3>2 DEF ReplicaTaken
    <2>3. scoredLow' \in Rejections
      <3>1. pass.status.birth.revision \in Nat /\ scoredLow \in Rejections
        BY DEF TypeOK, Pass, Status, Birth
      <3>2. \/ scoredLow' = scoredLow
            \/ scoredLow' = Append(scoredLow, pass.status.birth.revision)
        BY <1>4 DEF RollBack
      <3>3. QED
        BY <3>1, <3>2, RejectionsType
    <2>4. [pass.status EXCEPT !.birth.back = TRUE, !.care = NoCare] \in Status
      BY <1>4 DEF TypeOK, Pass, Status, Birth
    <2>5. pass.status \in Status
      BY <1>4 DEF TypeOK, Pass
    <2>6. [pass EXCEPT !.at = "backPdb", !.status.birth.back = TRUE,
                         !.status.care = NoCare] \in Pass
      BY <1>4, <2>4 DEF TypeOK, Pass, Step
    <2>7. pass' \in Pass
      BY <1>4, <2>5, <2>6, TendType DEF RollBack
    <2>8. faults' \in Nat
      BY <1>4, FaultType DEF RollBack
    <2>9. QED
      BY <1>4, <2>1, <2>2, <2>3, <2>4, <2>5, <2>6, <2>7, <2>8
         DEF RollBack, objects, caches, times, others, TypeOK
  <1>5. CASE RollBackPDB
    <2>1. pdb' \in Nat
      BY <1>5 DEF RollBackPDB, DeletePDB, TypeOK
    <2>2. [pass.status EXCEPT !.score = [minute |-> 5, low |-> TRUE],
                                !.phase = "RolledBack"] \in Status
      BY <1>5 DEF TypeOK, Pass, Status, Score, Minute, Phase
    <2>3. pass.status \in Status
      BY <1>5 DEF TypeOK, Pass
    <2>4. pass' \in Pass
      BY <1>5, <2>2, <2>3, FinishLivingType DEF RollBackPDB, DeletePDB
    <2>5. faults' \in Nat
      BY <1>5, FaultType DEF RollBackPDB, DeletePDB
    <2>6. QED
      BY <1>5, <2>1, <2>2, <2>3, <2>4, <2>5
         DEF RollBackPDB, objects, caches, times, others, TypeOK
  <1>6. CASE Discharge
    <2>1. deploy' \in DeploymentObject /\ extra' \in Int
      <3>1. \/ deploy' = deploy /\ extra' = extra
            \/ deploy' = CareEnded(deploy) /\ ReplicaTaken
        BY <1>6 DEF Discharge
      <3>2. deploy \in DeploymentObject /\ extra \in Int
        BY DEF TypeOK
      <3>3. extra' \in Int
        BY <3>1, <3>2 DEF ReplicaTaken
      <3>4. QED
        BY <3>1, <3>2, <3>3, EndedType
    <2>2. pass.status \in Status
      BY <1>6 DEF TypeOK, Pass
    <2>3. pass' \in Pass
      BY <1>6, <2>2, FinishLivingType, GotoType DEF Discharge, Step
    <2>4. faults' \in Nat
      BY <1>6, FaultType DEF Discharge
    <2>5. QED
      BY <1>6, <2>1, <2>2, <2>3, <2>4
         DEF Discharge, objects, caches, times, others, TypeOK
  <1>7. CASE DischargePDB
    <2>1. pdb' \in Nat
      BY <1>7 DEF DischargePDB, DeletePDB, TypeOK
    <2>2. [pass.status EXCEPT !.care = 0, !.phase = "Grown"] \in Status
      <3>1. 0 \in 0 .. 3 /\ "Grown" \in Phase
        BY DEF Phase
      <3>2. QED
        BY <3>1, CareType DEF TypeOK, Pass
    <2>3. pass.status \in Status
      BY <1>7 DEF TypeOK, Pass
    <2>4. pass' \in Pass
      BY <1>7, <2>2, <2>3, FinishLivingType DEF DischargePDB, DeletePDB
    <2>5. faults' \in Nat
      BY <1>7, FaultType DEF DischargePDB, DeletePDB
    <2>6. QED
      BY <1>7, <2>1, <2>2, <2>3, <2>4, <2>5
         DEF DischargePDB, objects, caches, times, others, TypeOK
  <1>8. QED
    BY <1>1, <1>2, <1>3, <1>4, <1>5, <1>6, <1>7

(* Marking what a pass has read as moved keeps the pass well formed. *)
LEMMA MovedType ==
    ASSUME TypeOK, GestationMoved \/ DeploymentMoved
    PROVE  pass' \in Pass
  <1>1. CASE GestationMoved
    BY <1>1 DEF GestationMoved, TypeOK, Pass
  <1>2. CASE DeploymentMoved
    BY <1>2 DEF DeploymentMoved, TypeOK, Pass
  <1>3. QED
    BY <1>1, <1>2

(* What users do keeps every type. *)
LEMMA UserType ==
    ASSUME TypeOK, Users
    PROVE  TypeOK'
  <1>1. CASE Conceive
    <2>1. gest' \in GestationObject /\ made' \in [gest : Nat, deploy : Nat]
      BY <1>1, EmptyType DEF Conceive, TypeOK, GestationObject
    <2>2. QED
      BY <1>1, <2>1
         DEF Conceive, Move, caches, TypeOK
  <1>2. CASE EndGestation
    <2>1. pass' \in Pass
      BY <1>2, MovedType DEF EndGestation
    <2>2. gest' \in GestationObject
      BY <1>2, EmptyType DEF EndGestation
    <2>3. QED
      BY <1>2, <2>1, <2>2
         DEF EndGestation, Move, caches, times, TypeOK
  <1>3. CASE Apply
    <2>1. pass' \in Pass
      BY <1>3, MovedType DEF Apply
    <2>2. deploy' \in DeploymentObject /\ made' \in [gest : Nat, deploy : Nat]
      <3>1. PICK start \in {[r |-> 0, p |-> FALSE], [r |-> Planned, p |-> TRUE],
                             [r |-> Planned, p |-> FALSE]}, t \in Template,
                 n \in {FALSE} \cup (IF "prenamed" \in User THEN {TRUE} ELSE {}) :
              deploy' = [NoDeployment EXCEPT !.uid = made.deploy + 1,
                                             !.replicas = start.r, !.paused = start.p,
                                             !.template = t, !.named = n,
                                             !.observed = FALSE]
        BY <1>3, Zenon DEF Apply
      <3>2. start \in [r : Nat, p : BOOLEAN]
        <4>1. /\ [r |-> 0, p |-> FALSE] \in [r : Nat, p : BOOLEAN]
              /\ [r |-> Planned, p |-> TRUE] \in [r : Nat, p : BOOLEAN]
              /\ [r |-> Planned, p |-> FALSE] \in [r : Nat, p : BOOLEAN]
          OBVIOUS
        <4>2. QED
          BY <4>1, Zenon
      <3>3. made.deploy + 1 \in Nat
        BY DEF TypeOK
      <3>4. deploy' \in DeploymentObject
        BY <3>1, <3>2, <3>3, EmptyType DEF DeploymentObject
      <3>5. made \in [gest : Nat, deploy : Nat] /\ made' = [made EXCEPT !.deploy = @ + 1]
        BY <1>3 DEF Apply, TypeOK
      <3>6. QED
        BY <3>3, <3>4, <3>5
    <2>3. seen' \in Nat
      BY <1>3, <2>2 DEF Apply, Noticed, TypeOK, DeploymentObject
    <2>4. extra' \in Int /\ scoredLow' \in Rejections
      BY <1>3, RejectionsType DEF Apply
    <2>5. moves' \in Nat
      <3>1. Move("apply")
        BY <1>3, Zenon DEF Apply
      <3>2. moves \in Nat
        BY DEF TypeOK
      <3>3. QED
        BY <3>1, <3>2 DEF Move
    <2>6. UNCHANGED <<gest, placenta, held, pdb, otherPdb, hpa, entry, memory, nsSeen,
                      trimester, age, asked, faults>>
      BY <1>3 DEF Apply, times
    <2>7. QED
      BY <2>1, <2>2, <2>3, <2>4, <2>5, <2>6 DEF TypeOK
  <1>4. CASE Remove
    <2>1. pass' \in Pass
      BY <1>4, MovedType DEF Remove
    <2>2. deploy' \in DeploymentObject
      BY <1>4, EmptyType DEF Remove
    <2>3. seen' \in Nat
      BY <1>4, <2>2 DEF Remove, Noticed, TypeOK, DeploymentObject
    <2>4. extra' \in Int /\ scoredLow' \in Rejections
      BY <1>4, RejectionsType DEF Remove
    <2>5. QED
      BY <1>4, <2>1, <2>2, <2>3, <2>4
         DEF Remove, Move, times, TypeOK
  <1>5. CASE Rollout
    <2>1. pass' \in Pass
      BY <1>5, MovedType DEF Rollout, Edit
    <2>2. deploy' \in DeploymentObject
      BY <1>5 DEF Rollout, Edit, TypeOK, DeploymentObject
    <2>3. QED
      BY <1>5, <2>1, <2>2
         DEF Rollout, Edit, Move, caches, times, TypeOK
  <1>6. CASE Scale
    <2>1. pass' \in Pass
      BY <1>6, MovedType DEF Scale, Edit
    <2>2. deploy' \in DeploymentObject
      <3>1. PICK n \in 0 .. MaxReplicas :
              Edit("scale", [deploy EXCEPT !.replicas = n, !.observed = FALSE])
        BY <1>6, Zenon DEF Scale
      <3>2. n \in Nat
        OBVIOUS
      <3>3. QED
        BY <3>1, <3>2 DEF Edit, TypeOK, DeploymentObject
    <2>3. QED
      BY <1>6, <2>1, <2>2
         DEF Scale, Edit, Move, caches, times, TypeOK
  <1>7. CASE NameCaregivers
    <2>1. pass' \in Pass
      BY <1>7, MovedType DEF NameCaregivers, Edit
    <2>2. deploy' \in DeploymentObject
      BY <1>7 DEF NameCaregivers, Edit, TypeOK, DeploymentObject
    <2>3. QED
      BY <1>7, <2>1, <2>2
         DEF NameCaregivers, Edit, Move, caches, times, TypeOK
  <1>8. CASE Deliver
    <2>1. asked' \in Nat
      BY <1>8 DEF Deliver, TypeOK, GestationObject, Status
    <2>2. QED
      BY <1>8, <2>1
         DEF Deliver, Move, objects, caches, times, TypeOK
  <1>9. CASE PatchDelivery
    <2>1. pass' \in Pass
      BY <1>9, MovedType DEF PatchDelivery, TypeOK
    <2>2. gest' \in GestationObject
      BY <1>9 DEF PatchDelivery, TypeOK, GestationObject
    <2>3. QED
      BY <1>9, <2>1, <2>2
         DEF PatchDelivery, caches, times, TypeOK
  <1>10. CASE Screen
    <2>1. pass' \in Pass
      BY <1>10, MovedType DEF Screen
    <2>2. gest' \in GestationObject
      BY <1>10 DEF Screen, TypeOK, GestationObject
    <2>3. QED
      BY <1>10, <2>1, <2>2
         DEF Screen, Move, caches, times, TypeOK
  <1>11. CASE ToggleHpa
    BY <1>11, EmptyType DEF ToggleHpa, Move, caches, times, TypeOK
  <1>12. CASE TogglePdb
    BY <1>12, EmptyType DEF TogglePdb, Move, caches, times, TypeOK
  <1>13. QED
    BY <1>1, <1>2, <1>3, <1>4, <1>5, <1>6, <1>7, <1>8, <1>9, <1>10, <1>11, <1>12 DEF Users

(* So does what the cluster, time and faults do. *)
LEMMA ClusterType ==
    ASSUME TypeOK, Cluster \/ Time \/ Crash \/ UNCHANGED vars
    PROVE  TypeOK'
  <1>1. CASE CollectGarbage
    <2>1. placenta' \in [owner : Nat, size : Nat] /\ pdb' \in Nat
      BY <1>1 DEF CollectGarbage, TypeOK
    <2>2. QED
      BY <1>1, <2>1
         DEF CollectGarbage, caches, times, TypeOK
  <1>2. CASE Placeholders
    BY <1>2, EmptyType DEF Placeholders, caches, times, TypeOK
  <1>3. CASE Observe
    <2>1. pass' \in Pass
      BY <1>3, MovedType DEF Observe
    <2>2. \A t \in Template : deploy.revisions[t] \in Nat
      BY <1>3 DEF TypeOK, DeploymentObject, Revisions
    <2>3. Newest({deploy.revisions[t] : t \in Template}) + 1 \in Nat
      BY <1>3, <2>2, NewestType
    <2>4. deploy' \in DeploymentObject
      BY <1>3, <2>2, <2>3 DEF Observe, TypeOK, DeploymentObject, Revisions
    <2>5. QED
      BY <1>3, <2>1, <2>2, <2>3, <2>4
         DEF Observe, caches, times, TypeOK
  <1>4. CASE Progress
    <2>1. pass' \in Pass
      BY <1>4, MovedType DEF Progress
    <2>2. QED
      BY <1>4, <2>1
         DEF Progress, Move, objects, caches, times, TypeOK
  <1>5. CASE CatchUp
    <2>1. seen' \in Nat
      BY <1>5 DEF CatchUp, TypeOK, DeploymentObject
    <2>2. QED
      BY <1>5, <2>1
         DEF CatchUp, objects, times, others, TypeOK
  <1>6. CASE Grow
    BY <1>6, EmptyType DEF Grow, objects, caches, others, TypeOK
  <1>7. CASE Age
    <2>1. age' \in Ages
      BY <1>7 DEF Age, TypeOK, Ages
    <2>2. QED
      BY <1>7, <2>1
         DEF Age, objects, caches, others, TypeOK
  <1>8. CASE GraceOver
    <2>1. gest' \in GestationObject
      BY <1>8 DEF GraceOver, TypeOK, GestationObject, Status
    <2>2. QED
      BY <1>8, <2>1
         DEF GraceOver, caches, times, others, TypeOK
  <1>9. CASE Crash
    <2>1. faults' \in Nat /\ seen' \in Nat
      BY <1>9 DEF Crash, Counted, TypeOK, DeploymentObject
    <2>2. QED
      BY EmptyType, <1>9, <2>1
         DEF Crash, objects, times, others, TypeOK
  <1>10. CASE UNCHANGED vars
    BY <1>10 DEF vars, TypeOK
  <1>11. QED
    BY <1>1, <1>2, <1>3, <1>4, <1>5, <1>6, <1>7, <1>8, <1>9, <1>10 DEF Cluster, Time

(* Every variable keeps its type: among others a service is never scaled below
   no replica, whatever care takes back, and a score keeps to its minutes. *)
THEOREM TypeCorrect == Spec => []TypeOK
  <1>1. Init => TypeOK
    <2>1. [u \in 1 .. MaxUid |-> "none"] \in Memory
      BY DEF Memory, Life
    <2>2. 0 \in Ages /\ Conceived \in 0 .. 3
      BY DEF Ages
    <2>3. [owner |-> 0, size |-> 0] \in [owner : Nat, size : Nat]
      OBVIOUS
    <2>4. [gest |-> 0, deploy |-> 0] \in [gest : Nat, deploy : Nat]
      OBVIOUS
    <2>5. SUFFICES ASSUME Init PROVE TypeOK
      OBVIOUS
    <2>6. held \in BOOLEAN /\ otherPdb \in BOOLEAN /\ hpa \in BOOLEAN
      BY <2>5, Zenon DEF Init
    <2>7. QED
      BY <2>1, <2>2, <2>3, <2>4, <2>5, <2>6, EmptyType, RejectionsType DEF Init, TypeOK
  <1>2. TypeOK /\ [Next]_vars => TypeOK'
    BY CallType, LifeType, UserType, ClusterType DEF Next, Controller
  <1>3. QED
    BY <1>1, <1>2, PTL DEF Spec

---------------------------------------------------------------------------
\* Care.

\* The steps of a pass that still rely on the Deployment as it was read.
Relying == Holding \ {"backPdb", "homePdb"}

(* Why only a newborn with caregivers goes home: a copy that nothing marked as
   moved is the Deployment itself, and a discharge is under way only for a copy
   that names its caregivers, when the last tier is over. *)
Faithful ==
    /\ pass.at \in Relying /\ ~pass.dMoved => pass.d = deploy
    /\ At("home") => pass.d.named /\ CareTier(age) = 0

(* The end of reconcile leaves no step that relies on the Deployment. *)
LEMMA FinishEnds ==
    ASSUME TypeOK, NEW s, NEW m, Finish(s, m)
    PROVE  pass'.at \in {"newborns", "status"}
  BY DEF Finish, TypeOK, Pass

(* After a day of care the pass ends, or discharges the Deployment it relies on. *)
LEMMA TendFaithful ==
    ASSUME TypeOK, Faithful, pass.at \in Relying, age' = age,
           NEW s, Tend(s)
    PROVE  Faithful'
  <1>1. CASE pass'.at \in {"newborns", "status"}
    BY <1>1 DEF Faithful, Relying, Holding, At
  <1>2. CASE /\ CareTier(age) = 0 /\ pass.d.named
             /\ pass' = [pass EXCEPT !.at = "home", !.status = s,
                                     !.dMoved = @ \/ deploy' # deploy]
    <2>1. pass'.d = pass.d
      BY <1>2 DEF TypeOK, Pass
    <2>2. ~pass'.dMoved => ~pass.dMoved /\ deploy' = deploy
      BY <1>2 DEF TypeOK, Pass
    <2>3. QED
      BY <1>2, <2>1, <2>2 DEF Faithful, At
  <1>3. QED
    BY <1>1, <1>2, FinishEnds DEF Tend, FinishLiving

(* Marking the Deployment as moved, or changing nothing of it, keeps Faithful. *)
LEMMA MarkFaithful ==
    ASSUME TypeOK, Faithful, age' = age,
           DeploymentMoved \/ GestationMoved \/ pass' = pass,
           DeploymentMoved \/ deploy' = deploy
    PROVE  Faithful'
  <1>1. pass'.at = pass.at /\ pass'.d = pass.d
    BY DEF DeploymentMoved, GestationMoved, TypeOK, Pass
  <1>2. ~pass'.dMoved /\ pass.at \in Relying => ~pass.dMoved /\ deploy' = deploy
    BY DEF DeploymentMoved, GestationMoved, TypeOK, Pass, Relying
  <1>3. QED
    BY <1>1, <1>2 DEF Faithful, At

(* A step of the controller keeps Faithful. *)
LEMMA ControllerFaithful ==
    ASSUME TypeOK, Faithful, Controller
    PROVE  Faithful'
  <1>1. CASE BeginPass
    <2>1. pass'.at \notin Relying
      BY <1>1 DEF BeginPass, Idle, Relying, Holding
    <2>2. QED
      BY <2>1 DEF Faithful, Relying, Holding, At, Step
  <1>2. CASE Look
    <2>1. (pass'.d = deploy /\ pass'.at # "home") \/ pass'.at = "newborns"
      BY <1>2 DEF Look, Goto, TypeOK, Pass
    <2>2. deploy' = deploy
      BY <1>2 DEF Look, objects
    <2>3. QED
      BY <2>1, <2>2 DEF Faithful, Relying, Holding, At
  <1>3. CASE EnsurePlacenta
    BY <1>3, FinishEnds DEF EnsurePlacenta, Faithful, Relying, Holding, At
  <1>4. CASE ReleasePlacenta
    <2>1. CASE Abandon
      BY <2>1, FinishEnds DEF Abandon, Faithful, Relying, Holding, At
    <2>2. CASE Goto("protect")
      BY <1>4, <2>2 DEF ReleasePlacenta, Goto, Faithful, Relying, Holding, At, TypeOK, Pass
    <2>3. QED
      BY <1>4, <2>1, <2>2 DEF ReleasePlacenta
  <1>5. CASE SetNewborn
    <2>1. CASE Abandon
      BY <2>1, FinishEnds DEF Abandon, Faithful, Relying, Holding, At
    <2>2. CASE Goto("plan")
      BY <1>5, <2>2 DEF SetNewborn, Goto, Faithful, Relying, Holding, At, TypeOK, Pass
    <2>3. QED
      BY <1>5, <2>1, <2>2 DEF SetNewborn
  <1>6. CASE Plan
    <2>1. CASE Abandon
      BY <2>1, FinishEnds DEF Abandon, Faithful, Relying, Holding, At
    <2>2. CASE ~Abandon
      <3>1. pass'.at \in {"bear", "budget"} /\ pass'.d = pass.d /\ pass'.dMoved = pass.dMoved
        BY <1>6, <2>2 DEF Plan, TypeOK, Pass
      <3>2. QED
        BY <1>6, <3>1 DEF Plan, objects, Faithful, Relying, Holding, Step, At
    <2>3. QED
      BY <2>1, <2>2
  <1>7. CASE CreatePDB
    <2>1. CASE Abandon
      BY <2>1, FinishEnds DEF Abandon, Faithful, Relying, Holding, At
    <2>2. CASE Goto("bear")
      BY <1>7, <2>2 DEF CreatePDB, Goto, Faithful, Relying, Holding, At, TypeOK, Pass
    <2>3. QED
      BY <1>7, <2>1, <2>2 DEF CreatePDB
  <1>8. CASE Bear
    BY <1>8, FinishEnds DEF Bear, Abandon, Faithful, Relying, Holding, At
  <1>9. CASE AfterBirth
    <2>1. pass.at \in Relying /\ age' = age /\ deploy' = deploy
      BY <1>9 DEF AfterBirth, Relying, Holding, At, objects, times, Step
    <2>2. CASE \E s : pass' = [pass EXCEPT !.at = "score", !.status = s]
      BY <2>1, <2>2 DEF Faithful, At, TypeOK, Pass
    <2>3. CASE \E s : Tend(s)
      BY <2>1, <2>3, TendFaithful
    <2>4. QED
      BY <1>9, <2>2, <2>3 DEF AfterBirth
  <1>10. CASE Apgar
    <2>1. pass.at \in Relying /\ age' = age /\ deploy' = deploy
      BY <1>10 DEF Apgar, Relying, Holding, At, objects, times, Step
    <2>2. CASE Goto("back")
      BY <2>1, <2>2 DEF Goto, Faithful, At, TypeOK, Pass
    <2>3. CASE \E s : Tend(s)
      BY <2>1, <2>3, TendFaithful
    <2>4. QED
      BY <1>10, <2>2, <2>3 DEF Apgar
  <1>11. CASE RollBack
    <2>1. pass.at \in Relying /\ age' = age
      BY <1>11 DEF RollBack, Relying, Holding, At, times, Step
    <2>2. CASE Tend(pass.status)
      BY <2>1, <2>2, TendFaithful
    <2>3. CASE pass' = [pass EXCEPT !.at = "backPdb", !.status.birth.back = TRUE,
                                    !.status.care = NoCare]
      BY <2>3 DEF Faithful, Relying, Holding, At, TypeOK, Pass
    <2>4. QED
      BY <1>11, <2>2, <2>3 DEF RollBack
  <1>12. CASE RollBackPDB
    BY <1>12, FinishEnds DEF RollBackPDB, DeletePDB, FinishLiving, Faithful, Relying, Holding, At
  <1>13. CASE Discharge
    <2>1. CASE FinishLiving(pass.status)
      BY <2>1, FinishEnds DEF FinishLiving, Faithful, Relying, Holding, At
    <2>2. CASE Goto("homePdb")
      BY <2>2 DEF Goto, Faithful, Relying, Holding, At, TypeOK, Pass
    <2>3. QED
      BY <1>13, <2>1, <2>2 DEF Discharge
  <1>14. CASE DischargePDB
    BY <1>14, FinishEnds DEF DischargePDB, DeletePDB, FinishLiving, Faithful, Relying, Holding, At
  <1>15. CASE Depart
    BY <1>15, FinishEnds DEF Depart, DeletePDB, Abandon, Faithful, Relying, Holding, At
  <1>16. CASE UpdateStatus
    BY <1>16 DEF UpdateStatus, Goto, Faithful, Relying, Holding, At, TypeOK, Pass
  <1>17. CASE SyncNewborns
    BY <1>17 DEF SyncNewborns, Goto, Faithful, Relying, Holding, At, TypeOK, Pass
  <1>18. CASE SaveMemory
    BY <1>18 DEF SaveMemory, Idle, Faithful, Relying, Holding, At
  <1>19. QED
    BY <1>1, <1>2, <1>3, <1>4, <1>5, <1>6, <1>7, <1>8, <1>9, <1>10, <1>11, <1>12, <1>13, <1>14, <1>15, <1>16, <1>17, <1>18 DEF Controller

(* A step of anyone else keeps Faithful. *)
LEMMA OthersFaithful ==
    ASSUME TypeOK, Faithful, Users \/ Cluster \/ Time \/ Crash \/ UNCHANGED vars
    PROVE  Faithful'
  <1>1. CASE Users
    <2>1. /\ age' = age
          /\ DeploymentMoved \/ GestationMoved \/ pass' = pass
          /\ DeploymentMoved \/ deploy' = deploy
      BY <1>1 DEF Users, Conceive, EndGestation, Apply, Remove, Rollout, Scale,
         NameCaregivers, Edit, Deliver, PatchDelivery, Screen, ToggleHpa, TogglePdb,
         objects, times
    <2>2. QED
      BY <2>1, MarkFaithful
  <1>2. CASE Cluster
    <2>1. /\ age' = age
          /\ DeploymentMoved \/ GestationMoved \/ pass' = pass
          /\ DeploymentMoved \/ deploy' = deploy
      BY <1>2 DEF Cluster, CollectGarbage, Placeholders, Observe, Progress, CatchUp,
         objects, times
    <2>2. QED
      BY <2>1, MarkFaithful
  <1>3. CASE Time
    <2>1. At("idle") /\ pass' = pass
      BY <1>3 DEF Time, Grow, Age, GraceOver
    <2>2. QED
      BY <2>1 DEF Faithful, Relying, Holding, At
  <1>4. CASE Crash
    BY <1>4 DEF Crash, Idle, Faithful, Relying, Holding, At
  <1>5. CASE UNCHANGED vars
    BY <1>5 DEF vars, Faithful, At
  <1>6. QED
    BY <1>1, <1>2, <1>3, <1>4, <1>5

(* Only a discharge and a rollback take care off a Deployment that stays. *)
LEMMA CareStep ==
    ASSUME TypeOK, Next, deploy.care, ~deploy'.care, deploy'.uid = deploy.uid
    PROVE  (Discharge /\ Unmoved) \/ RollBack
  <1>1. CASE Controller
    <2>1. deploy' = deploy \/ Discharge \/ RollBack \/ deploy'.care
      BY <1>1 DEF Controller, BeginPass, Look, EnsurePlacenta, ReleasePlacenta,
         SetNewborn, Plan, CreatePDB, Bear, Launched, AfterBirth, Apgar, RollBackPDB,
         DischargePDB, Depart, UpdateStatus, SyncNewborns, SaveMemory, objects,
         TypeOK, DeploymentObject
    <2>2. Discharge => Unmoved \/ deploy' = deploy
      BY DEF Discharge
    <2>3. QED
      BY <2>1, <2>2
  <1>2. CASE Users
    <2>1. \A m, d : Edit(m, d) => deploy' = d
      BY DEF Edit
    <2>2. Rollout \/ Scale \/ NameCaregivers => deploy'.care = deploy.care
      BY <2>1 DEF Rollout, Scale, NameCaregivers, TypeOK, DeploymentObject
    <2>3. Apply => deploy'.uid # deploy.uid
      BY DEF Apply, NoDeployment, TypeOK
    <2>4. Remove => deploy'.uid # deploy.uid
      BY DEF Remove, NoDeployment
    <2>5. Rollout \/ Scale \/ NameCaregivers \/ Apply \/ Remove \/ deploy' = deploy
      BY <1>2 DEF Users, Conceive, EndGestation, Deliver, PatchDelivery, Screen,
         ToggleHpa, TogglePdb, objects
    <2>6. QED
      BY <2>2, <2>3, <2>4, <2>5
  <1>3. CASE Cluster
    BY <1>3 DEF Cluster, CollectGarbage, Placeholders, Observe, Progress, CatchUp,
       objects, TypeOK, DeploymentObject
  <1>4. CASE Time \/ Crash
    BY <1>4 DEF Time, Grow, Age, GraceOver, Crash, objects
  <1>5. QED
    BY <1>1, <1>2, <1>3, <1>4 DEF Next

(* However stale the pass that does it, and whatever fails, care is taken off a
   Deployment only if that very Deployment names two caregivers and its 72 hours
   are over, or by a rollback. *)
THEOREM OnlyNamedGoHome == Spec => GoesHomeNamed
  <1>1. Init => Faithful
    BY DEF Init, Idle, Faithful, Relying, Holding, At
  <1>2. TypeOK /\ Faithful /\ [Next]_vars => Faithful'
    BY ControllerFaithful, OthersFaithful DEF Next
  <1>3. TypeOK /\ Faithful /\ [Next]_vars
          => [deploy.care /\ ~deploy'.care /\ deploy'.uid = deploy.uid
                => (deploy.named /\ age = 8) \/ At("back")]_vars
    <2>1. SUFFICES ASSUME TypeOK, Faithful, Next, deploy.care, ~deploy'.care,
                          deploy'.uid = deploy.uid
                   PROVE  (deploy.named /\ age = 8) \/ At("back")
      OBVIOUS
    <2>2. CASE RollBack
      BY <2>2 DEF RollBack
    <2>3. CASE Discharge /\ Unmoved
      <3>1. pass.d = deploy /\ pass.d.named /\ CareTier(age) = 0
        BY <2>1, <2>3 DEF Discharge, Unmoved, Faithful, Relying, Holding, Step, At
      <3>2. age = 8
        BY <2>1, <3>1 DEF CareTier, TypeOK, Ages
      <3>3. QED
        BY <3>1, <3>2
    <2>4. QED
      BY <2>1, <2>2, <2>3, CareStep
  <1>4. QED
    BY <1>1, <1>2, <1>3, TypeCorrect, PTL DEF Spec, GoesHomeNamed

---------------------------------------------------------------------------
\* Room.

\* Steps of a pass that may still write the Gestation's status; those that a
\* delivery goes through; those past the placeholders' release; those past a birth.
Writing == Step \ {"idle", "newborns", "memory"}
Delivering == {"release", "protect", "plan", "budget", "bear"}
Launching == Delivering \ {"release"}
Living == {"alive", "score", "back", "backPdb", "home", "homePdb", "depart"}

\* The pass and the Gestation: uids are never used again, and what the pass read
\* is the Gestation unless it was marked as moved.
Current ==
    /\ gest.uid <= made.gest /\ pass.g.uid <= made.gest /\ placenta.owner <= made.gest
    /\ gest.uid = 0 => gest = NoGestation
    /\ pass.at \in Writing =>
         /\ pass.g.uid # 0
         /\ ~pass.gMoved => gest = pass.g
         /\ gest.uid = pass.g.uid => gest.status = pass.g.status
    /\ At("look") => pass.status = pass.g.status

\* Phases and births: a delivery under way has no birth on record.
Phased ==
    /\ gest.status.phase = "Delivering" => gest.status.birth = NoBirth
    /\ pass.at \in Writing /\ pass.status.phase = "Delivering"
         => pass.status.birth = NoBirth
    /\ pass.at \in Delivering => pass.status.phase = "Delivering"
    /\ pass.at \in Living => pass.status.phase # "Delivering"
    /\ At("ensure") => pass.g.status.birth = NoBirth /\ pass.status.birth = NoBirth

(* Why the room stays released: the placeholders are not the Gestation's once
   they are released, nor at any step that has, or is about to write, a birth. *)
Roomy ==
    /\ pass.at \in Launching \cup Living => placenta.owner # pass.g.uid
    /\ pass.at \in {"look", "status"} /\ pass.status.birth # NoBirth
         => placenta.owner # pass.g.uid
    /\ gest.status.birth # NoBirth => placenta.owner # gest.uid

\* And why the priority bump is in place: nothing takes it away before the birth.
Bumped == pass.at \in {"plan", "budget", "bear"} => entry = CareTier(0)

\* The inductive invariant of the two theorems on the launch.
RoomInv == Current /\ Phased /\ Roomy /\ Bumped

(* What the end of reconcile leaves of a pass. *)
LEMMA FinishFacts ==
    ASSUME TypeOK, NEW s \in Status, NEW m, Finish(s, m)
    PROVE  /\ pass'.at \in {"newborns", "status"}
           /\ pass'.g = pass.g /\ pass'.gMoved = pass.gMoved
           /\ pass'.status.birth = s.birth /\ pass'.status.phase = s.phase
  BY DEF Finish, TypeOK, Pass, Status

(* A pass that ends reconcile keeps the invariant if the phase and the birth it is
   about to write agree and the placeholders are not the Gestation's after a birth. *)
LEMMA FinishRoom ==
    ASSUME TypeOK, RoomInv, UNCHANGED <<gest, made>>, pass.at \in Writing \ {"look"},
           NEW s \in Status, NEW m, Finish(s, m),
           s.phase = "Delivering" => s.birth = NoBirth,
           placenta'.owner \in {0, placenta.owner, pass.g.uid},
           s.birth # NoBirth => placenta'.owner # pass.g.uid,
           gest.status.birth # NoBirth => placenta'.owner # gest.uid
    PROVE  RoomInv'
  <1>1. /\ pass'.at \in {"newborns", "status"}
        /\ pass'.g = pass.g /\ pass'.gMoved = pass.gMoved
        /\ pass'.status.birth = s.birth /\ pass'.status.phase = s.phase
    BY FinishFacts
  <1>2. Current'
    <2>1. placenta'.owner <= made.gest
      BY DEF RoomInv, Current, TypeOK
    <2>2. QED
      BY <1>1, <2>1 DEF RoomInv, Current, Writing, At
  <1>3. Phased'
    BY <1>1 DEF RoomInv, Phased, Writing, Delivering, Living, At
  <1>4. Roomy' /\ Bumped'
    BY <1>1 DEF RoomInv, Roomy, Bumped, Launching, Delivering, Living
  <1>5. QED
    BY <1>2, <1>3, <1>4 DEF RoomInv

(* So does a pass that goes on to a step past the release or past a birth. *)
LEMMA GoRoom ==
    ASSUME TypeOK, RoomInv, UNCHANGED <<gest, made, placenta>>,
           \/ pass.at \in Launching /\ pass'.at \in Launching
           \/ pass.at \in Living /\ pass'.at \in Living,
           pass'.g = pass.g, pass'.gMoved = pass.gMoved,
           pass'.status.phase = pass.status.phase,
           pass.at \in Launching => pass'.status.birth = pass.status.birth,
           Bumped'
    PROVE  RoomInv'
  <1>1. Current'
    BY DEF RoomInv, Current, Writing, Step, Launching, Delivering, Living, At
  <1>2. Phased'
    BY DEF RoomInv, Phased, Writing, Step, Launching, Delivering, Living, At
  <1>3. Roomy'
    BY DEF RoomInv, Roomy, Launching, Delivering, Living
  <1>4. QED
    BY <1>1, <1>2, <1>3 DEF RoomInv

(* Without a Gestation there is no birth on record. *)
LEMMA NobodyUnborn ==
    ASSUME RoomInv, gest.uid = 0
    PROVE  gest.status.birth = NoBirth
  <1>1. gest = NoGestation
    BY DEF RoomInv, Current
  <1>2. NoGestation.status = Expected
    BY DEF NoGestation
  <1>3. Expected.birth = NoBirth
    BY DEF Expected
  <1>4. QED
    BY <1>1, <1>2, <1>3

(* A delivery that is given up keeps the invariant once the room is released. *)
LEMMA AbandonRoom ==
    ASSUME TypeOK, RoomInv, UNCHANGED <<gest, made>>, Abandon,
           pass.at \in Delivering \cup {"depart"},
           placenta' = placenta \/ placenta' = Released(placenta),
           pass.at = "release" => pass.status.birth = NoBirth
    PROVE  RoomInv'
  <1>1. placenta'.owner \in {0, placenta.owner}
    BY DEF Released
  <1>2. pass.g.uid # 0 /\ pass.status \in Status
    BY DEF RoomInv, Current, Writing, Step, Delivering, TypeOK, Pass
  <1>3. pass.status.phase = "Delivering" => pass.status.birth = NoBirth
    BY DEF RoomInv, Phased, Writing, Step, Delivering
  <1>4. pass.status.birth # NoBirth => placenta'.owner # pass.g.uid
    BY <1>1, <1>2 DEF RoomInv, Roomy, Launching, Living, Delivering
  <1>5. gest.status.birth # NoBirth => placenta'.owner # gest.uid
    BY <1>1, NobodyUnborn DEF RoomInv, Roomy
  <1>6. QED
    BY <1>1, <1>2, <1>3, <1>4, <1>5, FinishRoom
       DEF Abandon, Writing, Step, Delivering

(* A day in the life of a newborn keeps the invariant. *)
LEMMA TendRoom ==
    ASSUME TypeOK, RoomInv, UNCHANGED <<gest, made, placenta>>, pass.at \in Living,
           NEW s \in Status, s.phase # "Delivering", Tend(s)
    PROVE  RoomInv'
  <1>1. ASSUME NEW t \in Status, t.phase # "Delivering", FinishLiving(t)
        PROVE  RoomInv'
    <2>1. pass.at \in Writing \ {"look"}
      BY DEF Living, Writing, Step
    <2>2. placenta.owner # pass.g.uid
      BY DEF RoomInv, Roomy
    <2>3. gest.status.birth # NoBirth => placenta.owner # gest.uid
      BY DEF RoomInv, Roomy
    <2>4. QED
      BY <1>1, <2>1, <2>2, <2>3, FinishRoom DEF FinishLiving
  <1>2. CASE FinishLiving(s)
    BY <1>1, <1>2
  <1>3. CASE FinishLiving([s EXCEPT !.care = CareTier(age), !.phase = "NewbornCare"])
    <2>1. [s EXCEPT !.care = CareTier(age), !.phase = "NewbornCare"] \in Status
      BY CareType, TierType DEF Phase
    <2>2. [s EXCEPT !.care = CareTier(age), !.phase = "NewbornCare"].phase # "Delivering"
      BY DEF Status
    <2>3. QED
      BY <1>1, <1>3, <2>1, <2>2
  <1>4. CASE FinishLiving([s EXCEPT !.care = LastTier, !.phase = "NeedsCaregivers"])
    <2>1. [s EXCEPT !.care = LastTier, !.phase = "NeedsCaregivers"] \in Status
      <3>1. LastTier \in 0 .. 3 /\ "NeedsCaregivers" \in Phase
        BY DEF LastTier, Phase
      <3>2. QED
        BY <3>1, CareType
    <2>2. [s EXCEPT !.care = LastTier, !.phase = "NeedsCaregivers"].phase # "Delivering"
      BY DEF Status
    <2>3. QED
      BY <1>1, <1>4, <2>1, <2>2
  <1>5. CASE pass' = [pass EXCEPT !.at = "home", !.status = s,
                                  !.dMoved = @ \/ deploy' # deploy]
    <2>1. /\ pass'.at = "home" /\ pass'.g = pass.g /\ pass'.gMoved = pass.gMoved
          /\ pass'.status = s
      BY <1>5 DEF TypeOK, Pass
    <2>2. Current'
      BY <2>1 DEF RoomInv, Current, Writing, Step, Living, At
    <2>3. Phased'
      BY <2>1 DEF RoomInv, Phased, Delivering, Living, At
    <2>4. Roomy' /\ Bumped'
      BY <2>1 DEF RoomInv, Roomy, Bumped, Launching, Delivering, Living
    <2>5. QED
      BY <2>2, <2>3, <2>4 DEF RoomInv
  <1>6. QED
    BY <1>2, <1>3, <1>4, <1>5 DEF Tend

(* A step of the controller keeps the invariant. *)
LEMMA ControllerRoom ==
    ASSUME TypeOK, RoomInv, Controller
    PROVE  RoomInv'
  <1>1. CASE BeginPass
    <2>1. PICK known \in BOOLEAN :
            pass' = [Idle EXCEPT !.at = IF gest.uid = 0 THEN "newborns" ELSE "look",
                                 !.g = gest, !.status = gest.status,
                                 !.mem = [known |-> known,
                                          at |-> IF known THEN memory ELSE Idle.mem.at]]
      BY <1>1, Zenon DEF BeginPass
    <2>2. /\ pass'.at = IF gest.uid = 0 THEN "newborns" ELSE "look"
          /\ pass'.g = gest /\ pass'.status = gest.status /\ ~pass'.gMoved
      BY <2>1 DEF Idle
    <2>3. UNCHANGED <<gest, made, placenta>>
      BY <1>1 DEF BeginPass, objects, others
    <2>4. Current'
      BY <2>2, <2>3 DEF RoomInv, Current, Writing, Step, At
    <2>5. Phased'
      BY <2>2, <2>3 DEF RoomInv, Phased, Delivering, Living, At
    <2>6. Roomy' /\ Bumped'
      BY <2>2, <2>3 DEF RoomInv, Roomy, Bumped, Launching, Delivering, Living
    <2>7. QED
      BY <2>4, <2>5, <2>6 DEF RoomInv
  <1>2. CASE Look
    <2>1. UNCHANGED <<gest, made, placenta>>
      BY <1>2 DEF Look, objects, others
    <2>2. CASE Goto("newborns")
      <3>1. pass'.at = "newborns" /\ pass'.g = pass.g
        BY <2>2 DEF Goto, TypeOK, Pass
      <3>2. Current'
        BY <2>1, <3>1 DEF RoomInv, Current, Writing, At
      <3>3. Phased' /\ Roomy' /\ Bumped'
        BY <2>1, <3>1 DEF RoomInv, Phased, Roomy, Bumped, Writing, Launching, Delivering,
           Living, At
      <3>4. QED
        BY <3>2, <3>3 DEF RoomInv
    <2>3. CASE ~Goto("newborns")
      <3>1. DEFINE s == Header(pass.g, pass.status)
      <3>2. /\ pass'.g = pass.g /\ pass'.gMoved = pass.gMoved /\ pass'.status = s
            /\ s.phase = "Delivering" => pass'.at = "release"
            /\ s.phase # "Delivering" /\ s.birth = NoBirth => pass'.at = "ensure"
            /\ s.phase # "Delivering" /\ s.birth # NoBirth => pass'.at \in {"alive", "depart"}
        BY <1>2, <2>3 DEF Look, TypeOK, Pass
      <3>3. s = pass.status \/ (s.phase = "Delivering" /\ s.birth = NoBirth)
        BY DEF Header, TypeOK, Pass, Status
      <3>4. pass.at = "look" /\ pass.status = pass.g.status
        BY <1>2 DEF Look, At, RoomInv, Current
      <3> HIDE DEF s
      <3>5. pass'.at \in {"release", "ensure", "alive", "depart"}
        BY <3>2
      <3>6. Current'
        BY <2>1, <3>2, <3>4, <3>5 DEF RoomInv, Current, Writing, Step, At
      <3>7. pass.status.phase = "Delivering" => pass.status.birth = NoBirth
        BY <3>4 DEF RoomInv, Phased, Writing, Step
      <3>8. Phased'
        BY <2>1, <3>2, <3>3, <3>4, <3>5, <3>7 DEF RoomInv, Phased, Delivering, Living, At
      <3>9. Roomy' /\ Bumped'
        BY <2>1, <3>2, <3>3, <3>4, <3>5
           DEF RoomInv, Roomy, Bumped, Launching, Delivering, Living
      <3>10. QED
        BY <3>6, <3>8, <3>9 DEF RoomInv
    <2>4. QED
      BY <2>2, <2>3
  <1>3. CASE EnsurePlacenta
    <2>1. DEFINE s == [pass.status EXCEPT
            !.phase = IF trimester = 0 THEN "Due" ELSE "Expecting",
            !.screened = IF trimester > @ THEN trimester ELSE @]
    <2>2. s \in Status /\ s.birth = pass.status.birth /\ s.phase # "Delivering"
      BY DEF TypeOK, Pass, Status, Phase
    <2>3. /\ UNCHANGED <<gest, made>> /\ pass.at = "ensure" /\ Finish(s, pass.mem)
          /\ placenta'.owner \in {placenta.owner, pass.g.uid}
      BY <1>3 DEF EnsurePlacenta, others, At
    <2> HIDE DEF s
    <2>4. s.birth = NoBirth /\ pass.g.status.birth = NoBirth
      BY <2>2, <2>3 DEF RoomInv, Phased, At
    <2>5. gest.status.birth # NoBirth => placenta'.owner # gest.uid
      <3>1. gest.status.birth # NoBirth => gest.uid # pass.g.uid
        BY <2>3, <2>4 DEF RoomInv, Current, Writing, Step
      <3>2. QED
        BY <2>3, <3>1 DEF RoomInv, Roomy
    <2>6. QED
      BY <2>2, <2>3, <2>4, <2>5, FinishRoom DEF Writing, Step
  <1>4. CASE ReleasePlacenta
    <2>1. UNCHANGED <<gest, made>> /\ pass.at = "release"
      BY <1>4 DEF ReleasePlacenta, others, At
    <2>2. pass.status.phase = "Delivering" /\ pass.status.birth = NoBirth
      BY <2>1 DEF RoomInv, Phased, Delivering, Writing, Step
    <2>3. CASE Abandon
      BY <1>4, <2>1, <2>2, <2>3, AbandonRoom DEF ReleasePlacenta, Delivering
    <2>4. CASE Goto("protect") /\ placenta' = Released(placenta)
      <3>1. /\ pass'.at = "protect" /\ pass'.g = pass.g /\ pass'.gMoved = pass.gMoved
            /\ pass'.status = pass.status
        BY <2>4 DEF Goto, TypeOK, Pass
      <3>2. pass.g.uid # 0 /\ placenta'.owner \in {0, placenta.owner}
            /\ placenta'.owner # pass.g.uid
        BY <2>1, <2>4 DEF Released, RoomInv, Current, Writing, Step
      <3>3. Current'
        BY <2>1, <3>1, <3>2 DEF RoomInv, Current, Writing, Step, TypeOK, At
      <3>4. Phased'
        BY <2>1, <2>2, <3>1 DEF RoomInv, Phased, Delivering, Living, At
      <3>5. gest.status.birth # NoBirth => placenta'.owner # gest.uid
        BY <3>2, NobodyUnborn DEF RoomInv, Roomy
      <3>6. Roomy' /\ Bumped'
        BY <2>1, <3>1, <3>2, <3>5 DEF Roomy, Bumped, Launching, Delivering, Living
      <3>7. QED
        BY <3>3, <3>4, <3>6 DEF RoomInv
    <2>5. QED
      BY <1>4, <2>3, <2>4 DEF ReleasePlacenta
  <1>5. CASE SetNewborn
    <2>1. UNCHANGED <<gest, made, placenta>> /\ pass.at = "protect"
      BY <1>5 DEF SetNewborn, objects, others, At
    <2>2. CASE Abandon
      BY <2>1, <2>2, AbandonRoom DEF Delivering
    <2>3. CASE ~Abandon
      <3>1. /\ pass'.at \in {"plan"} /\ pass'.g = pass.g
            /\ pass'.gMoved = pass.gMoved /\ pass'.status = pass.status
        BY <1>5, <2>3 DEF SetNewborn, Goto, TypeOK, Pass
      <3>2. entry' = CareTier(0)
        BY <1>5, <2>1, <2>3 DEF SetNewborn, objects, RoomInv, Bumped
      <3>3. QED
        BY <2>1, <3>1, <3>2, GoRoom DEF Bumped, Launching, Delivering
    <2>4. QED
      BY <2>2, <2>3
  <1>6. CASE Plan
    <2>1. UNCHANGED <<gest, made, placenta>> /\ pass.at = "plan"
      BY <1>6 DEF Plan, objects, others, At
    <2>2. CASE Abandon
      BY <2>1, <2>2, AbandonRoom DEF Delivering
    <2>3. CASE ~Abandon
      <3>1. /\ pass'.at \in {"bear", "budget"} /\ pass'.g = pass.g
            /\ pass'.gMoved = pass.gMoved /\ pass'.status = pass.status
        BY <1>6, <2>3 DEF Plan, Goto, TypeOK, Pass
      <3>2. entry' = CareTier(0)
        BY <1>6, <2>1 DEF Plan, objects, RoomInv, Bumped
      <3>3. QED
        BY <2>1, <3>1, <3>2, GoRoom DEF Bumped, Launching, Delivering
    <2>4. QED
      BY <2>2, <2>3
  <1>7. CASE CreatePDB
    <2>1. UNCHANGED <<gest, made, placenta>> /\ pass.at = "budget"
      BY <1>7 DEF CreatePDB, objects, others, At
    <2>2. CASE Abandon
      BY <2>1, <2>2, AbandonRoom DEF Delivering
    <2>3. CASE ~Abandon
      <3>1. /\ pass'.at \in {"bear"} /\ pass'.g = pass.g
            /\ pass'.gMoved = pass.gMoved /\ pass'.status = pass.status
        BY <1>7, <2>3 DEF CreatePDB, Goto, TypeOK, Pass
      <3>2. entry' = CareTier(0)
        BY <1>7, <2>1 DEF CreatePDB, objects, RoomInv, Bumped
      <3>3. QED
        BY <2>1, <3>1, <3>2, GoRoom DEF Bumped, Launching, Delivering
    <2>4. QED
      BY <2>2, <2>3
  <1>8. CASE Bear
    <2>1. UNCHANGED <<gest, made, placenta>> /\ pass.at = "bear"
      BY <1>8 DEF Bear, At
    <2>2. CASE Abandon
      BY <2>1, <2>2, AbandonRoom DEF Delivering
    <2>3. CASE ~Abandon
      <3>1. DEFINE s == [pass.status EXCEPT
              !.birth = [NoBirth EXCEPT !.uid = pass.d.uid, !.added = pass.added,
                                        !.pdb = ~pass.covered],
              !.care = CareTier(0), !.score = NoScore, !.phase = "NewbornCare"]
      <3>2. Finish(s, Put(pass.mem, pass.d.uid))
        BY <1>8, <2>3 DEF Bear
      <3>3. s \in Status /\ s.phase # "Delivering"
        <4>1. pass.covered \in BOOLEAN /\ pass.added \in BOOLEAN /\ pass.d.uid \in Nat
          BY DEF TypeOK, Pass, DeploymentObject
        <4>2. [NoBirth EXCEPT !.uid = pass.d.uid, !.added = pass.added,
                              !.pdb = ~pass.covered] \in Birth
          BY <4>1, EmptyType DEF Birth
        <4>3. CareTier(0) \in 0 .. 3 /\ "NewbornCare" \in Phase
          BY TierType DEF Phase
        <4>4. QED
          BY <4>2, <4>3, EmptyType DEF TypeOK, Pass, Status
      <3> HIDE DEF s
      <3>4. placenta.owner # pass.g.uid
        BY <2>1 DEF RoomInv, Roomy, Launching, Delivering
      <3>5. gest.status.birth # NoBirth => placenta.owner # gest.uid
        BY DEF RoomInv, Roomy
      <3>6. QED
        BY <2>1, <3>2, <3>3, <3>4, <3>5, FinishRoom DEF Writing, Step
    <2>4. QED
      BY <2>2, <2>3
  <1>9. CASE AfterBirth
    <2>1. UNCHANGED <<gest, made, placenta>> /\ pass.at = "alive"
      BY <1>9 DEF AfterBirth, objects, others, At
    <2>2. DEFINE s == Resolved(pass.status, pass.d)
    <2>3. s \in Status /\ s.phase = pass.status.phase
      BY ResolvedType DEF Resolved, TypeOK, Pass, Status
    <2>4. pass.status.phase # "Delivering"
      BY <2>1 DEF RoomInv, Phased, Living
    <2>5. Tend(s) \/ pass' = [pass EXCEPT !.at = "score", !.status = s]
      BY <1>9 DEF AfterBirth
    <2> HIDE DEF s
    <2>6. CASE Tend(s)
      BY <2>1, <2>3, <2>4, <2>6, TendRoom DEF Living
    <2>7. CASE pass' = [pass EXCEPT !.at = "score", !.status = s]
      <3>1. /\ pass'.at = "score" /\ pass'.g = pass.g /\ pass'.gMoved = pass.gMoved
            /\ pass'.status = s
        BY <2>7 DEF TypeOK, Pass
      <3>2. QED
        BY <2>1, <2>3, <3>1, GoRoom DEF Bumped, Living, Launching, Delivering
    <2>8. QED
      BY <2>5, <2>6, <2>7
  <1>10. CASE Apgar
    <2>1. UNCHANGED <<gest, made, placenta>> /\ pass.at = "score"
      BY <1>10 DEF Apgar, objects, others, At
    <2>2. pass.status \in Status /\ pass.status.phase # "Delivering"
      BY <2>1 DEF RoomInv, Phased, Living, TypeOK, Pass
    <2>3. ASSUME NEW score \in Scores
          PROVE  /\ [pass.status EXCEPT !.score = score] \in Status
                 /\ [pass.status EXCEPT !.score = score].phase # "Delivering"
      BY <2>2, <2>3, ScoresType DEF Status
    <2>4. CASE Goto("back")
      <3>1. /\ pass'.at = "back" /\ pass'.g = pass.g /\ pass'.gMoved = pass.gMoved
            /\ pass'.status = pass.status
        BY <2>4 DEF Goto, TypeOK, Pass
      <3>2. QED
        BY <2>1, <3>1, GoRoom DEF Bumped, Living, Launching, Delivering
    <2>5. CASE Tend(pass.status)
      BY <2>1, <2>2, <2>5, TendRoom DEF Living
    <2>6. CASE \E score \in Scores : Tend([pass.status EXCEPT !.score = score])
      BY <2>1, <2>3, <2>6, TendRoom DEF Living
    <2>7. QED
      BY <1>10, <2>4, <2>5, <2>6 DEF Apgar
  <1>11. CASE RollBack
    <2>1. UNCHANGED <<gest, made, placenta>> /\ pass.at = "back"
      BY <1>11 DEF RollBack, At
    <2>2. pass.status \in Status /\ pass.status.phase # "Delivering"
      BY <2>1 DEF RoomInv, Phased, Living, TypeOK, Pass
    <2>3. CASE Tend(pass.status)
      BY <2>1, <2>2, <2>3, TendRoom DEF Living
    <2>4. CASE pass' = [pass EXCEPT !.at = "backPdb", !.status.birth.back = TRUE,
                                    !.status.care = NoCare]
      <3>1. /\ pass'.at = "backPdb" /\ pass'.g = pass.g /\ pass'.gMoved = pass.gMoved
            /\ pass'.status.phase = pass.status.phase
        BY <2>4 DEF TypeOK, Pass, Status
      <3>2. QED
        BY <2>1, <3>1, GoRoom DEF Bumped, Living, Launching, Delivering
    <2>5. QED
      BY <1>11, <2>3, <2>4 DEF RollBack
  <1>12. CASE RollBackPDB
    <2>1. UNCHANGED <<gest, made, placenta>> /\ pass.at = "backPdb"
      BY <1>12 DEF RollBackPDB, others, At
    <2>2. pass.status \in Status /\ pass.status.phase # "Delivering"
      BY <2>1 DEF RoomInv, Phased, Living, TypeOK, Pass
    <2>3. /\ placenta.owner # pass.g.uid
          /\ gest.status.birth # NoBirth => placenta.owner # gest.uid
          /\ pass.at \in Writing \ {"look"}
      BY <2>1 DEF RoomInv, Roomy, Living, Writing, Step
    <2>4. ASSUME NEW s \in Status, s.phase # "Delivering", NEW m, Finish(s, m)
          PROVE  RoomInv'
      BY <2>1, <2>3, <2>4, FinishRoom
    <2>5. DEFINE s == [pass.status EXCEPT !.score = [minute |-> 5, low |-> TRUE],
                                          !.phase = "RolledBack"]
    <2>6. s \in Status /\ s.phase # "Delivering"
      BY DEF TypeOK, Pass, Status, Score, Minute, Phase
    <2>7. FinishLiving(s) \/ FinishLiving(pass.status)
      BY <1>12 DEF RollBackPDB, DeletePDB
    <2> HIDE DEF s
    <2>8. QED
      BY <2>2, <2>4, <2>6, <2>7 DEF FinishLiving
  <1>13. CASE Discharge
    <2>1. UNCHANGED <<gest, made, placenta>> /\ pass.at = "home"
      BY <1>13 DEF Discharge, others, At
    <2>2. pass.status \in Status /\ pass.status.phase # "Delivering"
      BY <2>1 DEF RoomInv, Phased, Living, TypeOK, Pass
    <2>3. /\ placenta.owner # pass.g.uid
          /\ gest.status.birth # NoBirth => placenta.owner # gest.uid
          /\ pass.at \in Writing \ {"look"}
      BY <2>1 DEF RoomInv, Roomy, Living, Writing, Step
    <2>4. ASSUME NEW s \in Status, s.phase # "Delivering", NEW m, Finish(s, m)
          PROVE  RoomInv'
      BY <2>1, <2>3, <2>4, FinishRoom
    <2>5. CASE Goto("homePdb")
      <3>1. /\ pass'.at = "homePdb" /\ pass'.g = pass.g /\ pass'.gMoved = pass.gMoved
            /\ pass'.status = pass.status
        BY <2>5 DEF Goto, TypeOK, Pass
      <3>2. QED
        BY <2>1, <3>1, GoRoom DEF Bumped, Living, Launching, Delivering
    <2>6. QED
      BY <1>13, <2>2, <2>4, <2>5 DEF Discharge, FinishLiving
  <1>14. CASE DischargePDB
    <2>1. UNCHANGED <<gest, made, placenta>> /\ pass.at = "homePdb"
      BY <1>14 DEF DischargePDB, others, At
    <2>2. pass.status \in Status /\ pass.status.phase # "Delivering"
      BY <2>1 DEF RoomInv, Phased, Living, TypeOK, Pass
    <2>3. /\ placenta.owner # pass.g.uid
          /\ gest.status.birth # NoBirth => placenta.owner # gest.uid
          /\ pass.at \in Writing \ {"look"}
      BY <2>1 DEF RoomInv, Roomy, Living, Writing, Step
    <2>4. ASSUME NEW s \in Status, s.phase # "Delivering", NEW m, Finish(s, m)
          PROVE  RoomInv'
      BY <2>1, <2>3, <2>4, FinishRoom
    <2>5. DEFINE s == [pass.status EXCEPT !.care = 0, !.phase = "Grown"]
    <2>6. s \in Status /\ s.phase # "Delivering"
      <3>1. 0 \in 0 .. 3 /\ "Grown" \in Phase
        BY DEF Phase
      <3>2. QED
        BY <2>2, <3>1, CareType DEF Status
    <2>7. FinishLiving(s) \/ FinishLiving(pass.status)
      BY <1>14 DEF DischargePDB, DeletePDB
    <2> HIDE DEF s
    <2>8. QED
      BY <2>2, <2>4, <2>6, <2>7 DEF FinishLiving
  <1>15. CASE Depart
    <2>1. UNCHANGED <<gest, made, placenta>> /\ pass.at = "depart"
      BY <1>15 DEF Depart, others, At
    <2>2. pass.status \in Status /\ pass.status.phase # "Delivering"
      BY <2>1 DEF RoomInv, Phased, Living, TypeOK, Pass
    <2>3. /\ placenta.owner # pass.g.uid
          /\ gest.status.birth # NoBirth => placenta.owner # gest.uid
          /\ pass.at \in Writing \ {"look"}
      BY <2>1 DEF RoomInv, Roomy, Living, Writing, Step
    <2>4. ASSUME NEW s \in Status, s.phase # "Delivering", NEW m, Finish(s, m)
          PROVE  RoomInv'
      BY <2>1, <2>3, <2>4, FinishRoom
    <2>5. DEFINE s == [pass.status EXCEPT !.phase = "Departed", !.care = NoCare]
    <2>6. s \in Status /\ s.phase # "Delivering"
      BY DEF TypeOK, Pass, Status, Phase
    <2>7. Finish(s, Closed(pass.mem, pass.status.birth.uid)) \/ Abandon
      BY <1>15 DEF Depart, DeletePDB
    <2> HIDE DEF s
    <2>8. QED
      BY <2>2, <2>4, <2>6, <2>7 DEF Abandon
  <1>16. CASE UpdateStatus
    <2>1. /\ pass.at = "status" /\ UNCHANGED <<made, placenta>>
          /\ pass'.at = "newborns" /\ pass'.g = pass.g
      BY <1>16 DEF UpdateStatus, Goto, others, At, TypeOK, Pass
    <2>2. CASE UNCHANGED gest
      BY <2>1, <2>2 DEF RoomInv, Current, Phased, Roomy, Bumped, Writing, Launching,
         Delivering, Living, At
    <2>3. CASE ~pass.gMoved /\ gest' = [gest EXCEPT !.status = pass.status]
      <3>1. gest.uid = pass.g.uid /\ gest.uid # 0
        BY <2>1, <2>3 DEF RoomInv, Current, Writing, Step
      <3>2. gest'.uid = gest.uid /\ gest'.status = pass.status
        BY <2>3 DEF TypeOK, GestationObject
      <3>3. Current'
        BY <2>1, <3>1, <3>2 DEF RoomInv, Current, Writing, At
      <3>4. Phased'
        BY <2>1, <3>2 DEF RoomInv, Phased, Writing, Step, Delivering, Living, At
      <3>5. Roomy' /\ Bumped'
        BY <2>1, <3>1, <3>2 DEF RoomInv, Roomy, Bumped, Launching, Delivering, Living
      <3>6. QED
        BY <3>3, <3>4, <3>5 DEF RoomInv
    <2>4. QED
      BY <1>16, <2>2, <2>3 DEF UpdateStatus
  <1>17. CASE SyncNewborns
    <2>1. /\ pass'.at = "memory" /\ pass'.g = pass.g /\ UNCHANGED <<gest, made, placenta>>
      BY <1>17 DEF SyncNewborns, Goto, others, TypeOK, Pass
    <2>2. QED
      BY <2>1 DEF RoomInv, Current, Phased, Roomy, Bumped, Writing, Launching, Delivering,
         Living, At
  <1>18. CASE SaveMemory
    <2>1. /\ pass'.at = "idle" /\ pass'.g = NoGestation /\ UNCHANGED <<gest, made, placenta>>
      BY <1>18 DEF SaveMemory, Idle, others
    <2>2. made.gest \in Nat /\ NoGestation.uid = 0
      BY DEF TypeOK, NoGestation
    <2>3. QED
      BY <2>1, <2>2 DEF RoomInv, Current, Phased, Roomy, Bumped, Writing, Launching,
         Delivering, Living, At
  <1>19. QED
    BY <1>1, <1>2, <1>3, <1>4, <1>5, <1>6, <1>7, <1>8, <1>9, <1>10, <1>11, <1>12, <1>13, <1>14, <1>15, <1>16, <1>17, <1>18 DEF Controller

(* A change of other objects, or a moved Deployment, does not disturb it. *)
LEMMA SameRoom ==
    ASSUME TypeOK, RoomInv, UNCHANGED <<gest, placenta, entry>>, made'.gest = made.gest,
           pass' = pass \/ DeploymentMoved
    PROVE  RoomInv'
  <1>1. /\ pass'.at = pass.at /\ pass'.g = pass.g /\ pass'.gMoved = pass.gMoved
        /\ pass'.status = pass.status
    BY DEF DeploymentMoved, TypeOK, Pass
  <1>2. Current' /\ Phased'
    BY <1>1 DEF RoomInv, Current, Phased, At
  <1>3. Roomy' /\ Bumped'
    BY <1>1 DEF RoomInv, Roomy, Bumped
  <1>4. QED
    BY <1>2, <1>3 DEF RoomInv

(* Nor does an edit of the Gestation, its deletion or a new one: the pass that read
   the old one is marked, and the uid is a new one. *)
LEMMA GestationRoom ==
    ASSUME TypeOK, RoomInv, UNCHANGED <<placenta, entry>>,
           \/ Conceive \/ EndGestation \/ Screen
           \/ PatchDelivery /\ gest' # gest
    PROVE  RoomInv'
  <1>1. CASE Conceive
    <2>1. /\ gest'.uid = made.gest + 1 /\ made'.gest = made.gest + 1 /\ gest.uid = 0
          /\ gest'.status = Expected /\ pass' = pass
      BY <1>1 DEF Conceive, NoGestation, TypeOK
    <2>2. Expected.birth = NoBirth
      BY DEF Expected
    <2>3. made.gest \in Nat /\ placenta.owner \in Nat /\ pass.g.uid \in Nat
      BY DEF TypeOK, Pass, GestationObject
    <2>4. Current'
      BY <2>1, <2>3 DEF RoomInv, Current, At
    <2>5. Phased' /\ Roomy' /\ Bumped'
      BY <2>1, <2>2, <2>3 DEF RoomInv, Phased, Roomy, Bumped, At
    <2>6. QED
      BY <2>4, <2>5 DEF RoomInv
  <1>2. CASE EndGestation
    <2>1. gest' = NoGestation /\ GestationMoved /\ made' = made
      BY <1>2 DEF EndGestation
    <2>2. /\ pass'.at = pass.at /\ pass'.g = pass.g /\ pass'.status = pass.status
          /\ pass.at \in Writing => pass'.gMoved
      BY <2>1 DEF GestationMoved, Writing, TypeOK, Pass
    <2>3. NoGestation.uid = 0 /\ NoGestation.status.birth = NoBirth
      BY DEF NoGestation, Expected
    <2>4. Current'
      BY <2>1, <2>2, <2>3 DEF RoomInv, Current, TypeOK, At
    <2>5. Phased' /\ Roomy' /\ Bumped'
      BY <2>1, <2>2, <2>3 DEF RoomInv, Phased, Roomy, Bumped, At
    <2>6. QED
      BY <2>4, <2>5 DEF RoomInv
  <1>3. CASE Screen \/ (PatchDelivery /\ gest' # gest)
    <2>1. /\ gest'.uid = gest.uid /\ gest'.status = gest.status /\ gest.uid # 0
          /\ GestationMoved /\ made' = made
      BY <1>3 DEF Screen, PatchDelivery, TypeOK, GestationObject
    <2>2. /\ pass'.at = pass.at /\ pass'.g = pass.g /\ pass'.status = pass.status
          /\ pass.at \in Writing => pass'.gMoved
      BY <2>1 DEF GestationMoved, Writing, TypeOK, Pass
    <2>3. Current'
      BY <2>1, <2>2 DEF RoomInv, Current, At
    <2>4. Phased' /\ Roomy' /\ Bumped'
      BY <2>1, <2>2 DEF RoomInv, Phased, Roomy, Bumped, At
    <2>5. QED
      BY <2>3, <2>4 DEF RoomInv
  <1>4. QED
    BY <1>1, <1>2, <1>3

(* A step of anyone else keeps the invariant. *)
LEMMA OthersRoom ==
    ASSUME TypeOK, RoomInv, Users \/ Cluster \/ Time \/ Crash \/ UNCHANGED vars
    PROVE  RoomInv'
  <1>1. CASE Conceive \/ EndGestation \/ Screen \/ (PatchDelivery /\ gest' # gest)
    BY <1>1, GestationRoom DEF Conceive, EndGestation, Screen, PatchDelivery
  <1>2. CASE Users /\ ~(Conceive \/ EndGestation \/ Screen
                         \/ (PatchDelivery /\ gest' # gest))
    <2>1. UNCHANGED <<gest, placenta, entry>> /\ (pass' = pass \/ DeploymentMoved)
      <3>1. CASE PatchDelivery
        BY <1>2, <3>1 DEF PatchDelivery, TypeOK, GestationObject
      <3>2. CASE ~PatchDelivery
        BY <1>2, <3>2 DEF Users, Apply, Remove, Rollout, Scale, NameCaregivers, Edit,
           Deliver, ToggleHpa, TogglePdb, objects
      <3>3. QED
        BY <3>1, <3>2
    <2>2. made'.gest = made.gest
      BY <1>2 DEF Users, Apply, Remove, Rollout, Scale, NameCaregivers, Edit, Deliver,
         PatchDelivery, ToggleHpa, TogglePdb, TypeOK
    <2>3. QED
      BY <2>1, <2>2, SameRoom
  <1>3. CASE CollectGarbage
    <2>1. /\ UNCHANGED <<gest, made, pass, entry>>
          /\ placenta' = placenta \/ (placenta'.owner = 0 /\ placenta.owner # gest.uid)
      BY <1>3 DEF CollectGarbage
    <2>2. gest.uid = 0 => gest.status.birth = NoBirth
      BY NobodyUnborn
    <2>3. pass.at \in Writing => pass.g.uid # 0
      BY DEF RoomInv, Current
    <2>4. Current' /\ Phased'
      BY <2>1 DEF RoomInv, Current, Phased, TypeOK, At
    <2>5. Roomy' /\ Bumped'
      BY <2>1, <2>2, <2>3 DEF RoomInv, Roomy, Bumped, Launching, Delivering, Living,
         Writing, Step
    <2>6. QED
      BY <2>4, <2>5 DEF RoomInv
  <1>4. CASE Placeholders \/ Observe \/ Progress \/ CatchUp \/ Grow \/ Age
    BY <1>4, SameRoom DEF Placeholders, Observe, Progress, CatchUp, Grow, Age, objects,
       others
  <1>5. CASE GraceOver
    <2>1. /\ gest'.uid = gest.uid /\ gest'.status.birth = gest.status.birth
          /\ gest'.status.phase = gest.status.phase
          /\ gest.status.phase = "Delivering"
      BY <1>5 DEF GraceOver, TypeOK, GestationObject, Status
    <2>2. UNCHANGED <<placenta, entry, pass, made>> /\ pass.at = "idle"
      BY <1>5 DEF GraceOver, others, At
    <2>3. gest.uid # 0
      <3>1. NoGestation.status.phase # "Delivering"
        BY DEF NoGestation, Expected
      <3>2. QED
        BY <2>1, <3>1 DEF RoomInv, Current
    <2>4. Current'
      BY <2>1, <2>2, <2>3 DEF RoomInv, Current, Writing, At
    <2>5. Phased' /\ Roomy' /\ Bumped'
      BY <2>1, <2>2 DEF RoomInv, Phased, Roomy, Bumped, Writing, At
    <2>6. QED
      BY <2>4, <2>5 DEF RoomInv
  <1>6. CASE Crash
    <2>1. /\ pass'.at = "idle" /\ pass'.g = NoGestation
          /\ UNCHANGED <<gest, made, placenta>>
      BY <1>6 DEF Crash, Idle, objects, others
    <2>2. made.gest \in Nat /\ NoGestation.uid = 0
      BY DEF TypeOK, NoGestation
    <2>3. QED
      BY <2>1, <2>2 DEF RoomInv, Current, Phased, Roomy, Bumped, Writing, Launching,
         Delivering, Living, At
  <1>7. CASE UNCHANGED vars
    BY <1>7, SameRoom DEF vars
  <1>8. QED
    BY <1>1, <1>2, <1>3, <1>4, <1>5, <1>6, <1>7 DEF Cluster, Time

(* The invariant holds for good. *)
LEMMA RoomHolds == Spec => []RoomInv
  <1>1. Init => RoomInv
    <2>1. SUFFICES ASSUME Init PROVE RoomInv
      OBVIOUS
    <2>2. /\ gest = NoGestation /\ placenta.owner = 0 /\ pass = Idle /\ made.gest = 0
      BY <2>1 DEF Init
    <2>3. Idle.at = "idle" /\ Idle.g = NoGestation
      BY DEF Idle
    <2>4. /\ NoGestation.uid = 0 /\ NoGestation.status.birth = NoBirth
          /\ NoGestation.status.phase = ""
      BY DEF NoGestation, Expected
    <2>5. pass.at = "idle" /\ pass.g.uid = 0 /\ gest.uid = 0
      BY <2>2, <2>3, <2>4
    <2>6. Current
      BY <2>2, <2>5 DEF Current, Writing, At
    <2>7. Phased /\ Roomy /\ Bumped
      BY <2>2, <2>4, <2>5 DEF Phased, Roomy, Bumped, Writing, Launching, Delivering,
         Living, At
    <2>8. QED
      BY <2>6, <2>7 DEF RoomInv
  <1>2. TypeOK /\ RoomInv /\ [Next]_vars => RoomInv'
    BY ControllerRoom, OthersRoom DEF Next
  <1>3. QED
    BY <1>1, <1>2, TypeCorrect, PTL DEF Spec

(* Only a birth puts a Deployment in care. *)
LEMMA BirthStep ==
    ASSUME TypeOK, Next, deploy'.care, ~deploy.care
    PROVE  At("bear")
  <1>1. CASE Controller
    <2>1. CareEnded(deploy).care = FALSE
      BY DEF CareEnded, TypeOK, DeploymentObject
    <2>2. ~RollBack \/ deploy' = deploy
      <3>1. \A t : [CareEnded(deploy) EXCEPT !.template = t].care = FALSE
        BY <2>1, EndedType DEF TypeOK, DeploymentObject
      <3>2. QED
        BY <3>1 DEF RollBack
    <2>3. ~Discharge \/ deploy' = deploy
      BY <2>1 DEF Discharge
    <2>4. QED
      BY <1>1, <2>2, <2>3 DEF Controller, BeginPass, Look, EnsurePlacenta,
         ReleasePlacenta, SetNewborn, Plan, CreatePDB, Bear, AfterBirth, Apgar,
         RollBackPDB, DischargePDB, Depart, UpdateStatus, SyncNewborns, SaveMemory,
         objects
  <1>2. CASE Users
    <2>1. \A m, d : Edit(m, d) => deploy' = d
      BY DEF Edit
    <2>2. Rollout \/ Scale \/ NameCaregivers => deploy'.care = deploy.care
      BY <2>1 DEF Rollout, Scale, NameCaregivers, TypeOK, DeploymentObject
    <2>3. Apply \/ Remove => ~deploy'.care
      <3>1. Apply \/ Remove => deploy'.care = NoDeployment.care
        BY EmptyType DEF Apply, Remove, DeploymentObject
      <3>2. NoDeployment.care = FALSE
        BY DEF NoDeployment
      <3>3. QED
        BY <3>1, <3>2
    <2>4. Rollout \/ Scale \/ NameCaregivers \/ Apply \/ Remove \/ deploy' = deploy
      BY <1>2 DEF Users, Conceive, EndGestation, Deliver, PatchDelivery, Screen,
         ToggleHpa, TogglePdb, objects
    <2>5. QED
      BY <2>2, <2>3, <2>4
  <1>3. CASE Cluster
    BY <1>3 DEF Cluster, CollectGarbage, Placeholders, Observe, Progress, CatchUp,
       objects, TypeOK, DeploymentObject
  <1>4. CASE Time \/ Crash
    BY <1>4 DEF Time, Grow, Age, GraceOver, Crash, objects
  <1>5. QED
    BY <1>1, <1>2, <1>3, <1>4 DEF Next

(* From the moment a delivery goes past its release, and for good once a birth is
   on record, the Gestation holds no placeholders: no late, repeated or stale pass
   reserves again the room the service needs. *)
THEOREM RoomStaysReleased == Spec => []RoomReleased
  <1>1. TypeOK /\ RoomInv => RoomReleased
    BY DEF RoomInv, Roomy, RoomReleased, Launching, Delivering
  <1>2. QED
    BY <1>1, TypeCorrect, RoomHolds, PTL

(* Whatever fails or races, a Deployment is let loose only when the room is released
   and the priority bump is in the namespace. *)
THEOREM ProtectedAtBirth == Spec => BornProtected
  <1>1. TypeOK /\ RoomInv /\ [Next]_vars
          => [deploy'.care /\ ~deploy.care
                => entry = CareTier(0) /\ placenta.owner # pass.g.uid]_vars
    <2>1. SUFFICES ASSUME TypeOK, RoomInv, Next, deploy'.care, ~deploy.care
                   PROVE  entry = CareTier(0) /\ placenta.owner # pass.g.uid
      OBVIOUS
    <2>2. At("bear")
      BY <2>1, BirthStep
    <2>3. QED
      BY <2>1, <2>2 DEF RoomInv, Roomy, Bumped, Launching, Delivering, At
  <1>2. QED
    BY <1>1, TypeCorrect, RoomHolds, PTL DEF Spec, BornProtected

---------------------------------------------------------------------------
\* The status.

\* A status in which phase, birth, score and care tell the same story.
Coherent(s) ==
    /\ s.birth.back => s.phase \in {"RolledBack", "Departed"}
    /\ s.phase = "RolledBack" => /\ s.birth.back /\ s.birth.previous # 0
                                 /\ s.score = [minute |-> 5, low |-> TRUE]
    /\ s.phase \in {"NewbornCare", "NeedsCaregivers"} => s.care \in 1 .. 3
    /\ s.phase \in {"RolledBack", "Departed"} => s.care = NoCare
    /\ s.birth.previous # 0 => s.birth.previous < s.birth.revision

(* Why the status tells what happened: so does every status a pass has in hand,
   but for the moment between a rollback and the end of its budget. *)
Telling ==
    /\ Coherent(gest.status)
    /\ pass.at \in Writing \ {"backPdb"} => Coherent(pass.status)
    /\ pass.at \in {"score", "back", "home", "homePdb"} => InCare(pass.status)
    /\ At("back") => pass.status.birth.previous # 0
    /\ At("backPdb") => /\ pass.status.birth.back /\ pass.status.care = NoCare
                        /\ pass.status.birth.previous # 0
                        /\ pass.status.birth.previous < pass.status.birth.revision

\* No call fails and no answer is lost.
NoError == Fault \cap {"error", "lost"} = {}

(* Then a call works. *)
LEMMA CallsWork ==
    ASSUME NoError
    PROVE  ~Fails /\ (Answered => Works) /\ (Works => ~AnswerLost)
  BY DEF NoError, Fails, Answered, Works, Counted, AnswerLost

(* What the end of reconcile writes is what it was given. *)
LEMMA FinishStatus ==
    ASSUME TypeOK, NEW s \in Status, NEW m, Finish(s, m)
    PROVE  /\ pass'.at \in {"newborns", "status"}
           /\ pass'.status = [s EXCEPT !.answered = pass.g.screen]
           /\ pass'.at = "newborns" => pass'.status = pass.g.status
           /\ pass'.g = pass.g /\ pass'.gMoved = pass.gMoved /\ ~pass'.dMoved
           /\ pass'.d = NoDeployment /\ pass'.mem = m
  BY DEF Finish, TypeOK, Pass

(* An answered screening does not disturb what a status tells. *)
LEMMA FinishTelling ==
    ASSUME TypeOK, Telling, gest' = gest, NEW s \in Status, NEW m, Finish(s, m),
           Coherent(s)
    PROVE  Telling'
  <1>1. /\ pass'.at \in {"newborns", "status"}
        /\ pass'.status = [s EXCEPT !.answered = pass.g.screen]
    BY FinishStatus
  <1>2. /\ pass'.status.birth = s.birth /\ pass'.status.phase = s.phase
        /\ pass'.status.score = s.score /\ pass'.status.care = s.care
    BY <1>1 DEF Status
  <1>3. Coherent(pass'.status)
    BY <1>2 DEF Coherent
  <1>4. QED
    BY <1>1, <1>3 DEF Telling, At

(* A day of care gives a newborn its tier. *)
LEMMA KeptCoherent ==
    ASSUME NEW s \in Status, Coherent(s), InCare(s), NEW c \in 1 .. 3,
           NEW p \in {"NewbornCare", "NeedsCaregivers"}
    PROVE  /\ [s EXCEPT !.care = c, !.phase = p] \in Status
           /\ Coherent([s EXCEPT !.care = c, !.phase = p])
  <1>1. p \in Phase
    BY Zenon DEF Phase
  <1>2. c \in {NoCare} \cup 0 .. 3
    OBVIOUS
  <1>3. ~s.birth.back
    BY DEF Coherent, InCare
  <1>4. [s EXCEPT !.care = c, !.phase = p] \in Status
    BY <1>1, <1>2, CareType
  <1>5. QED
    BY <1>3, <1>4 DEF Coherent, Status

(* A pass that looks after a newborn, or has none to look after, keeps the story
   together. *)
LEMMA TendTelling ==
    ASSUME TypeOK, Telling, gest' = gest, NEW s \in Status, Coherent(s), Tend(s)
    PROVE  Telling'
  <1>1. ASSUME NEW t \in Status, Coherent(t), FinishLiving(t)
        PROVE  Telling'
    BY <1>1, FinishTelling DEF FinishLiving
  <1>2. CASE ~InCare(s)
    BY <1>1, <1>2 DEF Tend
  <1>3. CASE InCare(s) /\ CareTier(age) # 0
    <2>1. CareTier(age) \in 1 .. 3
      BY <1>3 DEF CareTier
    <2>2. FinishLiving([s EXCEPT !.care = CareTier(age), !.phase = "NewbornCare"])
      BY <1>3 DEF Tend
    <2>3. QED
      BY <1>1, <1>3, <2>1, <2>2, KeptCoherent
  <1>4. CASE InCare(s) /\ CareTier(age) = 0 /\ ~pass.d.named
    <2>1. FinishLiving([s EXCEPT !.care = LastTier, !.phase = "NeedsCaregivers"])
      BY <1>4 DEF Tend
    <2>2. LastTier \in 1 .. 3
      BY DEF LastTier
    <2>3. QED
      BY <1>1, <1>4, <2>1, <2>2, KeptCoherent
  <1>5. CASE InCare(s) /\ CareTier(age) = 0 /\ pass.d.named
    <2>1. pass' = [pass EXCEPT !.at = "home", !.status = s,
                               !.dMoved = @ \/ deploy' # deploy]
      BY <1>5 DEF Tend
    <2>2. pass'.at = "home" /\ pass'.status = s
      BY <2>1 DEF TypeOK, Pass
    <2>3. QED
      BY <1>5, <2>2 DEF Telling, At
  <1>6. QED
    BY <1>2, <1>3, <1>4, <1>5

(* The newest of some revisions is one of them, or none. *)
LEMMA NewestOf ==
    ASSUME NEW ns
    PROVE  Newest(ns) = 0 \/ (Newest(ns) \in ns /\ \A m \in ns : m <= Newest(ns))
  BY DEF Newest

(* The revision before a birth is an older one. *)
LEMMA ResolvedCoherent ==
    ASSUME NEW s \in Status, NEW d \in DeploymentObject, Coherent(s)
    PROVE  Coherent(Resolved(s, d))
  <1>1. DEFINE born == d.revisions[d.template]
               previous == Newest(Older(d, born))
  <1>2. born \in Nat
    BY DEF DeploymentObject, Revisions
  <1>3. previous = 0 \/ previous \in 1 .. born - 1
    BY <1>2, NewestOf DEF Older
  <1>4. CASE Resolved(s, d) = s
    BY <1>4
  <1>5. CASE /\ s.birth.revision = 0
             /\ Resolved(s, d) = [s EXCEPT !.birth.revision = born,
                                           !.birth.previous = previous]
    <2> HIDE DEF born, previous
    <2>1. s.birth.previous = 0 /\ s.phase # "RolledBack"
      BY <1>5 DEF Coherent, Status, Birth
    <2>2. /\ Resolved(s, d).phase = s.phase /\ Resolved(s, d).care = s.care
          /\ Resolved(s, d).birth = [s.birth EXCEPT !.revision = born,
                                                   !.previous = previous]
      BY <1>5 DEF Status
    <2>3. /\ Resolved(s, d).birth.back = s.birth.back
          /\ Resolved(s, d).birth.previous = previous
          /\ Resolved(s, d).birth.revision = born
      BY <2>2 DEF Status, Birth
    <2>4. QED
      BY <1>2, <1>3, <2>1, <2>2, <2>3 DEF Coherent
  <1>6. QED
    BY <1>4, <1>5 DEF Resolved

(* Without failing calls a step of the controller keeps the status telling. *)
LEMMA ControllerTelling ==
    ASSUME NoError, TypeOK, RoomInv, Telling, Controller
    PROVE  Telling'
  <1> USE CallsWork
  <1>1. CASE BeginPass
    <2>1. PICK known \in BOOLEAN :
            pass' = [Idle EXCEPT !.at = IF gest.uid = 0 THEN "newborns" ELSE "look",
                                 !.g = gest, !.status = gest.status,
                                 !.mem = [known |-> known,
                                          at |-> IF known THEN memory ELSE Idle.mem.at]]
      BY <1>1, Zenon DEF BeginPass
    <2>2. pass'.at \in {"newborns", "look"} /\ pass'.status = gest.status
      BY <2>1 DEF Idle
    <2>3. gest' = gest
      BY <1>1 DEF BeginPass, objects
    <2>4. QED
      BY <2>2, <2>3 DEF Telling, At
  <1>2. CASE Look
    <2>1. DEFINE s == Header(pass.g, pass.status)
    <2>2. gest' = gest /\ pass.at = "look" /\ Coherent(pass.status)
      BY <1>2 DEF Look, objects, At, Telling, Writing, Step
    <2>3. Coherent(s)
      <3>1. CASE s = pass.status
        BY <2>2, <3>1
      <3>2. CASE s = [pass.status EXCEPT !.delivery = pass.g.delivery, !.waited = FALSE,
                                         !.birth = NoBirth, !.score = NoScore,
                                         !.care = NoCare, !.phase = "Delivering"]
        <4>1. s.phase = "Delivering" /\ s.birth = NoBirth
          BY <3>2 DEF TypeOK, Pass, Status
        <4>2. ~NoBirth.back /\ NoBirth.previous = 0
          BY DEF NoBirth
        <4>3. QED
          BY <4>1, <4>2 DEF Coherent
      <3>3. QED
        BY <3>1, <3>2 DEF Header
    <2>4. \/ pass'.at \in {"release", "ensure", "alive", "depart"} /\ pass'.status = s
          \/ pass'.at = "newborns"
      <3>1. CASE Goto("newborns")
        BY <3>1 DEF Goto, TypeOK, Pass
      <3>2. CASE ~Goto("newborns")
        BY <1>2, <3>2 DEF Look, TypeOK, Pass
      <3>3. QED
        BY <3>1, <3>2
    <2> HIDE DEF s
    <2>5. QED
      BY <2>2, <2>3, <2>4 DEF Telling, At, Writing
  <1>3. CASE EnsurePlacenta
    <2>1. DEFINE s == [pass.status EXCEPT
            !.phase = IF trimester = 0 THEN "Due" ELSE "Expecting",
            !.screened = IF trimester > @ THEN trimester ELSE @]
    <2>2. gest' = gest /\ pass.at = "ensure" /\ Finish(s, pass.mem)
      BY <1>3 DEF EnsurePlacenta, At
    <2>3. s \in Status
      BY DEF TypeOK, Pass, Status, Phase
    <2>4. s.birth = pass.status.birth /\ s.phase \in {"Due", "Expecting"}
      BY DEF TypeOK, Pass, Status
    <2>5. ~s.birth.back /\ s.birth.previous = 0
      BY <2>2, <2>4 DEF RoomInv, Phased, At, NoBirth
    <2> HIDE DEF s
    <2>6. Coherent(s)
      BY <2>4, <2>5 DEF Coherent
    <2>7. QED
      BY <2>2, <2>3, <2>6, FinishTelling
  <1>4. CASE \/ ReleasePlacenta \/ SetNewborn \/ Plan \/ CreatePDB
             \/ At("bear") /\ gest' = gest /\ Abandon
    <2>1. gest' = gest /\ pass.at \in {"release", "protect", "plan", "budget", "bear"}
      BY <1>4 DEF ReleasePlacenta, SetNewborn, Plan, CreatePDB, objects, At
    <2>2. pass.status \in Status /\ Coherent(pass.status)
      BY <2>1 DEF TypeOK, Pass, Telling, Writing, Step
    <2>3. CASE Abandon
      BY <2>1, <2>2, <2>3, FinishTelling DEF Abandon
    <2>4. CASE ~Abandon
      <3>1. pass'.at \in {"protect", "plan", "budget", "bear"} /\ pass'.status = pass.status
        BY <1>4, <2>4 DEF ReleasePlacenta, SetNewborn, Plan, CreatePDB, Goto, TypeOK, Pass
      <3>2. QED
        BY <2>1, <2>2, <3>1 DEF Telling, At
    <2>5. QED
      BY <2>3, <2>4
  <1>5. CASE Bear
    <2>1. CASE Abandon
      BY <1>4, <1>5, <2>1 DEF Bear
    <2>2. CASE ~Abandon
      <3>1. DEFINE s == [pass.status EXCEPT
              !.birth = [NoBirth EXCEPT !.uid = pass.d.uid, !.added = pass.added,
                                        !.pdb = ~pass.covered],
              !.care = CareTier(0), !.score = NoScore, !.phase = "NewbornCare"]
      <3>2. Finish(s, Put(pass.mem, pass.d.uid)) /\ gest' = gest
        BY <1>5, <2>2 DEF Bear
      <3>3. s \in Status
        <4>1. pass.covered \in BOOLEAN /\ pass.added \in BOOLEAN /\ pass.d.uid \in Nat
          BY DEF TypeOK, Pass, DeploymentObject
        <4>2. [NoBirth EXCEPT !.uid = pass.d.uid, !.added = pass.added,
                              !.pdb = ~pass.covered] \in Birth
          BY <4>1, EmptyType DEF Birth
        <4>3. CareTier(0) \in 0 .. 3 /\ "NewbornCare" \in Phase
          BY TierType DEF Phase
        <4>4. QED
          BY <4>2, <4>3, EmptyType DEF TypeOK, Pass, Status
      <3>4. Coherent(s)
        <4>1. s.phase = "NewbornCare" /\ s.care = CareTier(0)
              /\ s.birth = [NoBirth EXCEPT !.uid = pass.d.uid, !.added = pass.added,
                                           !.pdb = ~pass.covered]
          BY DEF TypeOK, Pass, Status
        <4>2. CareTier(0) = 1
          BY DEF CareTier
        <4>3. ~s.birth.back /\ s.birth.previous = 0
          BY <4>1, Zenon DEF NoBirth
        <4>4. QED
          BY <4>1, <4>2, <4>3 DEF Coherent
      <3> HIDE DEF s
      <3>5. QED
        BY <3>2, <3>3, <3>4, FinishTelling
    <2>3. QED
      BY <2>1, <2>2
  <1>6. CASE AfterBirth
    <2>1. DEFINE s == Resolved(pass.status, pass.d)
    <2>2. gest' = gest /\ pass.at = "alive"
      BY <1>6 DEF AfterBirth, objects, At
    <2>3. s \in Status /\ Coherent(s)
      BY <2>2, ResolvedType, ResolvedCoherent DEF TypeOK, Pass, Telling, Writing, Step
    <2>4. Tend(s) \/ (InCare(s) /\ pass' = [pass EXCEPT !.at = "score", !.status = s])
      BY <1>6 DEF AfterBirth
    <2> HIDE DEF s
    <2>5. CASE Tend(s)
      BY <2>2, <2>3, <2>5, TendTelling
    <2>6. CASE InCare(s) /\ pass' = [pass EXCEPT !.at = "score", !.status = s]
      <3>1. pass'.at = "score" /\ pass'.status = s
        BY <2>6 DEF TypeOK, Pass
      <3>2. QED
        BY <2>2, <2>3, <2>6, <3>1 DEF Telling, At
    <2>7. QED
      BY <2>4, <2>5, <2>6
  <1>7. CASE Apgar
    <2>1. gest' = gest /\ pass.at = "score"
      BY <1>7 DEF Apgar, objects, At
    <2>2. pass.status \in Status /\ Coherent(pass.status) /\ InCare(pass.status)
      BY <2>1 DEF TypeOK, Pass, Telling, Writing, Step
    <2>3. CASE Goto("back") /\ pass.status.birth.previous # 0
      <3>1. pass'.at = "back" /\ pass'.status = pass.status
        BY <2>3 DEF Goto, TypeOK, Pass
      <3>2. QED
        BY <2>1, <2>2, <2>3, <3>1 DEF Telling, At
    <2>4. CASE Tend(pass.status)
      BY <2>1, <2>2, <2>4, TendTelling
    <2>5. ASSUME NEW score \in Scores, Tend([pass.status EXCEPT !.score = score])
          PROVE  Telling'
      <3>1. [pass.status EXCEPT !.score = score] \in Status
        BY <2>2, ScoresType DEF Status
      <3>2. Coherent([pass.status EXCEPT !.score = score])
        BY <2>2 DEF Coherent, InCare, Status
      <3>3. QED
        BY <2>1, <2>5, <3>1, <3>2, TendTelling
    <2>6. \/ Goto("back") /\ pass.status.birth.previous # 0
          \/ Tend(pass.status)
          \/ \E score \in Scores : Tend([pass.status EXCEPT !.score = score])
      BY <1>7 DEF Apgar, Rollback
    <2>7. QED
      BY <2>3, <2>4, <2>5, <2>6
  <1>8. CASE RollBack
    <2>1. gest' = gest /\ pass.at = "back"
      BY <1>8 DEF RollBack, At
    <2>2. pass.status \in Status /\ Coherent(pass.status) /\ pass.status.birth.previous # 0
      BY <2>1 DEF TypeOK, Pass, Telling, Writing, Step, At
    <2>3. CASE Tend(pass.status)
      BY <2>1, <2>2, <2>3, TendTelling
    <2>4. CASE pass' = [pass EXCEPT !.at = "backPdb", !.status.birth.back = TRUE,
                                    !.status.care = NoCare]
      <3>1. /\ pass'.at = "backPdb"
            /\ pass'.status = [pass.status EXCEPT !.birth.back = TRUE, !.care = NoCare]
        BY <2>4 DEF TypeOK, Pass
      <3>2. /\ pass'.status.care = NoCare
            /\ pass'.status.birth = [pass.status.birth EXCEPT !.back = TRUE]
        BY <2>2, <3>1 DEF Status
      <3>3. /\ pass'.status.birth.back
            /\ pass'.status.birth.previous = pass.status.birth.previous
            /\ pass'.status.birth.revision = pass.status.birth.revision
        BY <2>2, <3>2 DEF Status, Birth
      <3>4. QED
        BY <2>1, <2>2, <3>1, <3>2, <3>3 DEF Telling, At, Coherent
    <2>5. QED
      BY <1>8, <2>3, <2>4 DEF RollBack
  <1>9. CASE RollBackPDB
    <2>1. DEFINE s == [pass.status EXCEPT !.score = [minute |-> 5, low |-> TRUE],
                                          !.phase = "RolledBack"]
    <2>2. gest' = gest /\ pass.at = "backPdb" /\ FinishLiving(s)
      BY <1>9 DEF RollBackPDB, DeletePDB, At
    <2>3. pass.status \in Status
      BY DEF TypeOK, Pass
    <2>4. [minute |-> 5, low |-> TRUE] \in Score /\ "RolledBack" \in Phase
      <3>1. "RolledBack" \in Phase
        BY Zenon DEF Phase
      <3>2. QED
        BY <3>1 DEF Score, Minute
    <2>5. s \in Status
      BY <2>3, <2>4 DEF Status
    <2>6. Coherent(s)
      BY <2>2, <2>3 DEF Coherent, Telling, Status, At
    <2> HIDE DEF s
    <2>7. QED
      BY <2>2, <2>5, <2>6, FinishTelling DEF FinishLiving
  <1>10. CASE Discharge
    <2>1. gest' = gest /\ pass.at = "home"
      BY <1>10 DEF Discharge, At
    <2>2. pass.status \in Status /\ Coherent(pass.status) /\ InCare(pass.status)
      BY <2>1 DEF TypeOK, Pass, Telling, Writing, Step, At
    <2>3. CASE FinishLiving(pass.status)
      BY <2>1, <2>2, <2>3, FinishTelling DEF FinishLiving
    <2>4. CASE Goto("homePdb")
      <3>1. pass'.at = "homePdb" /\ pass'.status = pass.status
        BY <2>4 DEF Goto, TypeOK, Pass
      <3>2. QED
        BY <2>1, <2>2, <3>1 DEF Telling, At
    <2>5. QED
      BY <1>10, <2>3, <2>4 DEF Discharge
  <1>11. CASE DischargePDB
    <2>1. DEFINE s == [pass.status EXCEPT !.care = 0, !.phase = "Grown"]
    <2>2. gest' = gest /\ pass.at = "homePdb"
      BY <1>11 DEF DischargePDB, At
    <2>3. pass.status \in Status /\ Coherent(pass.status) /\ InCare(pass.status)
      BY <2>2 DEF TypeOK, Pass, Telling, Writing, Step, At
    <2>4. s \in Status /\ Coherent(s)
      <3>1. 0 \in 0 .. 3 /\ "Grown" \in Phase
        BY DEF Phase
      <3>2. s \in Status
        BY <2>3, <3>1, CareType
      <3>3. QED
        BY <2>3, <3>2 DEF Coherent, InCare, Status
    <2>5. FinishLiving(s) \/ FinishLiving(pass.status)
      BY <1>11 DEF DischargePDB, DeletePDB
    <2> HIDE DEF s
    <2>6. QED
      BY <2>2, <2>3, <2>4, <2>5, FinishTelling DEF FinishLiving
  <1>12. CASE Depart
    <2>1. DEFINE s == [pass.status EXCEPT !.phase = "Departed", !.care = NoCare]
    <2>2. gest' = gest /\ pass.at = "depart"
      BY <1>12 DEF Depart, At
    <2>3. pass.status \in Status /\ Coherent(pass.status)
      BY <2>2 DEF TypeOK, Pass, Telling, Writing, Step
    <2>4. s \in Status
      BY <2>3 DEF Status, Phase
    <2>5. Coherent(s)
      BY <2>3 DEF Coherent, Status
    <2>6. Finish(s, Closed(pass.mem, pass.status.birth.uid)) \/ Finish(pass.status, pass.mem)
      BY <1>12 DEF Depart, DeletePDB, Abandon
    <2> HIDE DEF s
    <2>7. QED
      BY <2>2, <2>3, <2>4, <2>5, <2>6, FinishTelling
  <1>13. CASE UpdateStatus
    <2>1. pass.at = "status" /\ pass'.at = "newborns"
      BY <1>13 DEF UpdateStatus, Goto, At, TypeOK, Pass
    <2>2. gest' = gest \/ gest'.status = pass.status
      BY <1>13 DEF UpdateStatus, TypeOK, GestationObject
    <2>3. Coherent(gest'.status)
      BY <2>1, <2>2 DEF Telling, Writing, Step
    <2>4. QED
      BY <2>1, <2>3 DEF Telling, At, Writing
  <1>14. CASE SyncNewborns \/ SaveMemory
    <2>1. gest' = gest /\ pass'.at \in {"idle", "memory"}
      BY <1>14 DEF SyncNewborns, SaveMemory, Goto, Idle, TypeOK, Pass
    <2>2. QED
      BY <2>1 DEF Telling, At, Writing
  <1>15. QED
    BY <1>1, <1>2, <1>3, <1>4, <1>5, <1>6, <1>7, <1>8, <1>9, <1>10, <1>11, <1>12, <1>13, <1>14
       DEF Controller

(* Nobody else writes a status but for the wait that is over. *)
LEMMA OthersTelling ==
    ASSUME TypeOK, Telling, Users \/ Cluster \/ Time \/ Crash \/ UNCHANGED vars
    PROVE  Telling'
  <1>1. ASSUME pass' = pass \/ DeploymentMoved \/ GestationMoved,
               Coherent(gest'.status)
        PROVE  Telling'
    <2>1. pass'.at = pass.at /\ pass'.status = pass.status
      BY <1>1 DEF DeploymentMoved, GestationMoved, TypeOK, Pass
    <2>2. QED
      BY <1>1, <2>1 DEF Telling, At
  <1>2. Coherent(Expected)
    BY DEF Coherent, Expected, NoBirth
  <1>3. NoGestation.status = Expected
    BY DEF NoGestation
  <1>4. CASE Users
    <2>1. pass' = pass \/ DeploymentMoved \/ GestationMoved
      BY <1>4 DEF Users, Conceive, EndGestation, Apply, Remove, Rollout, Scale,
         NameCaregivers, Edit, Deliver, PatchDelivery, Screen, ToggleHpa, TogglePdb
    <2>2. gest'.status \in {gest.status, Expected}
      BY <1>3, <1>4 DEF Users, Conceive, EndGestation, Apply, Remove, Rollout, Scale,
         NameCaregivers, Edit, Deliver, PatchDelivery, Screen, ToggleHpa, TogglePdb,
         objects, TypeOK, GestationObject, NoGestation
    <2>3. QED
      BY <1>1, <1>2, <2>1, <2>2 DEF Telling
  <1>5. CASE Cluster \/ Grow \/ Age
    <2>1. (pass' = pass \/ DeploymentMoved) /\ gest' = gest
      BY <1>5 DEF Cluster, CollectGarbage, Placeholders, Observe, Progress, CatchUp,
         Grow, Age, objects
    <2>2. QED
      BY <1>1, <2>1 DEF Telling
  <1>6. CASE GraceOver
    <2>1. gest'.status = [gest.status EXCEPT !.waited = TRUE] /\ pass' = pass
      BY <1>6 DEF GraceOver, TypeOK, GestationObject
    <2>2. Coherent(gest'.status)
      BY <2>1 DEF Telling, Coherent, TypeOK, GestationObject, Status
    <2>3. QED
      BY <1>1, <2>1, <2>2
  <1>7. CASE Crash
    <2>1. pass'.at = "idle" /\ gest' = gest
      BY <1>7 DEF Crash, Idle, objects
    <2>2. QED
      BY <2>1 DEF Telling, At, Writing
  <1>8. CASE UNCHANGED vars
    BY <1>1, <1>8 DEF vars, Telling
  <1>9. QED
    BY <1>4, <1>5, <1>6, <1>7, <1>8 DEF Time

(* While no call fails, object and pass always tell one story. *)
LEMMA TellingHolds == ASSUME NoError PROVE Spec => []Telling
  <1>1. Init => Telling
    <2>1. SUFFICES ASSUME Init PROVE Telling
      OBVIOUS
    <2>2. gest.status = Expected /\ pass.at = "idle"
      BY <2>1 DEF Init, NoGestation, Idle
    <2>3. Coherent(Expected)
      BY DEF Coherent, Expected, NoBirth
    <2>4. QED
      BY <2>2, <2>3 DEF Telling, At, Writing
  <1>2. TypeOK /\ RoomInv /\ Telling /\ [Next]_vars => Telling'
    BY ControllerTelling, OthersTelling DEF Next
  <1>3. QED
    BY <1>1, <1>2, TypeCorrect, RoomHolds, PTL DEF Spec

(* Whatever crashes, races or lags, while no call fails the status says what
   happened: a birth that was rolled back is shown as such after a low score at
   five minutes, and care and phase agree. *)
THEOREM StatusTellsTheTruth == ASSUME NoError PROVE Spec => []StatusTells
  <1>1. Telling => StatusTells
    BY DEF Telling, Coherent, StatusTells
  <1>2. QED
    BY <1>1, TellingHolds, PTL

---------------------------------------------------------------------------
\* The record.

(* Why only those who left have a closed record: uids are given once, records
   beyond them are empty, and neither the record nor a pass's copy of it has
   closed the life of the Deployment there is. *)
Recorded ==
    /\ deploy.uid <= made.deploy /\ made.deploy <= MaxUid /\ seen = deploy.uid
    /\ gest.status.birth.uid <= made.deploy /\ pass.d.uid <= made.deploy
    /\ pass.at \in Writing => pass.status.birth.uid <= made.deploy
    /\ At("depart") /\ deploy.uid # 0 => pass.status.birth.uid # deploy.uid
    /\ \A u \in 1 .. MaxUid :
         /\ u > made.deploy => memory[u] = "none" /\ pass.mem.at[u] = "none"
         /\ u = deploy.uid => memory[u] # "closed" /\ pass.mem.at[u] # "closed"

\* The informers show what there is.
NoLag == "lag" \notin Fault

\* Records that may be written: nobody who is to come is in them, and the
\* Deployment there is has not left.
Sound(at) == \A u \in 1 .. MaxUid :
               /\ u > made.deploy => at[u] = "none"
               /\ u = deploy.uid => at[u] # "closed"

(* To open the record of a Deployment there was keeps records sound. *)
LEMMA PutSound ==
    ASSUME TypeOK, NEW m \in Lives, NEW u \in Nat, u <= made.deploy, Sound(m.at)
    PROVE  Sound(Put(m, u).at)
  <1>1. /\ m.at \in [1 .. MaxUid -> Life]
        /\ Put(m, u) = m \/ Put(m, u).at = [m.at EXCEPT ![u] = "open"]
    BY DEF Put, Lives, Memory
  <1>2. made.deploy \in Nat
    BY DEF TypeOK
  <1>3. QED
    BY <1>1, <1>2 DEF Sound

(* So does to close the record of one that left. *)
LEMMA ClosedSound ==
    ASSUME TypeOK, NEW m \in Lives, NEW u \in Nat, Sound(m.at),
           deploy.uid # 0 => u # deploy.uid
    PROVE  Sound(Closed(m, u).at)
  <1>1. /\ m.at \in [1 .. MaxUid -> Life]
        /\ \/ Closed(m, u) = m
           \/ m.at[u] = "open" /\ Closed(m, u).at = [m.at EXCEPT ![u] = "closed"]
    BY DEF Closed, Lives, Memory
  <1>2. \A v \in 1 .. MaxUid : v = deploy.uid => v # u
    OBVIOUS
  <1>3. ASSUME NEW v \in 1 .. MaxUid, v > made.deploy
        PROVE  Closed(m, u).at[v] = "none"
    <2>1. m.at[v] = "none"
      BY <1>3 DEF Sound
    <2>2. v # u \/ Closed(m, u) = m
      BY <1>1, <2>1
    <2>3. QED
      BY <1>1, <2>1, <2>2
  <1>4. QED
    BY <1>1, <1>2, <1>3 DEF Sound

(* The end of reconcile hands on a sound record. *)
LEMMA FinishRecorded ==
    ASSUME TypeOK, Recorded, UNCHANGED <<made, memory, seen, gest>>,
           deploy'.uid = deploy.uid,
           NEW s \in Status, NEW m \in Lives, Finish(s, m),
           s.birth.uid <= made.deploy, Sound(m.at)
    PROVE  Recorded'
  <1>1. /\ pass'.at \in {"newborns", "status"} /\ pass'.mem = m /\ pass'.d.uid = 0
        /\ pass'.status = [s EXCEPT !.answered = pass.g.screen]
    <2>1. NoDeployment.uid = 0
      BY DEF NoDeployment
    <2>2. QED
      BY <2>1, FinishStatus
  <1>2. pass'.status.birth = s.birth
    BY <1>1 DEF Status
  <1>3. made.deploy \in Nat
    BY DEF TypeOK
  <1>4. QED
    BY <1>1, <1>2, <1>3 DEF Recorded, Sound, At

(* The end of a pass over a living Deployment records that very Deployment. *)
LEMMA FinishLivingRecorded ==
    ASSUME TypeOK, Recorded, UNCHANGED <<made, memory, seen, gest>>,
           deploy'.uid = deploy.uid,
           NEW s \in Status, FinishLiving(s), s.birth.uid <= made.deploy
    PROVE  Recorded'
  <1>1. pass.mem \in Lives /\ pass.d.uid \in Nat /\ pass.d.uid <= made.deploy
    BY DEF TypeOK, Pass, DeploymentObject, Recorded
  <1>2. Sound(pass.mem.at)
    BY DEF Recorded, Sound
  <1>3. Put(pass.mem, pass.d.uid) \in Lives /\ Sound(Put(pass.mem, pass.d.uid).at)
    BY <1>1, <1>2, PutSound, RecordType
  <1>4. QED
    BY <1>3, FinishRecorded DEF FinishLiving

(* A pass that goes on, whatever it makes of its status, keeps the record. *)
LEMMA GoRecorded ==
    ASSUME TypeOK, Recorded, UNCHANGED <<made, memory, seen, gest>>,
           deploy'.uid = deploy.uid,
           pass'.mem = pass.mem, pass'.d.uid = pass.d.uid, pass'.at # "depart",
           pass'.at \in Writing => /\ pass.at \in Writing
                                   /\ pass'.status.birth.uid <= made.deploy
    PROVE  Recorded'
  BY DEF Recorded, At

(* Looking after a newborn keeps the records sound. *)
LEMMA TendRecorded ==
    ASSUME TypeOK, Recorded, UNCHANGED <<made, memory, seen, gest>>,
           deploy'.uid = deploy.uid, pass.at \in Writing,
           NEW s \in Status, Tend(s), s.birth.uid <= made.deploy
    PROVE  Recorded'
  <1>1. CASE FinishLiving(s)
    BY <1>1, FinishLivingRecorded
  <1>2. ASSUME NEW c \in {NoCare} \cup 0 .. 3, NEW p \in Phase,
               FinishLiving([s EXCEPT !.care = c, !.phase = p])
        PROVE  Recorded'
    <2>1. [s EXCEPT !.care = c, !.phase = p] \in Status
      BY CareType
    <2>2. [s EXCEPT !.care = c, !.phase = p].birth = s.birth
      BY DEF Status
    <2>3. QED
      BY <1>2, <2>1, <2>2, FinishLivingRecorded
  <1>3. CASE pass' = [pass EXCEPT !.at = "home", !.status = s,
                                  !.dMoved = @ \/ deploy' # deploy]
    <2>1. /\ pass'.at = "home" /\ pass'.mem = pass.mem /\ pass'.d = pass.d
          /\ pass'.status = s
      BY <1>3 DEF TypeOK, Pass
    <2>2. QED
      BY <2>1, GoRecorded
  <1>4. /\ CareTier(age) \in {NoCare} \cup 0 .. 3 /\ LastTier \in {NoCare} \cup 0 .. 3
        /\ "NewbornCare" \in Phase /\ "NeedsCaregivers" \in Phase
    BY TierType DEF LastTier, Phase
  <1>5. QED
    BY <1>1, <1>2, <1>3, <1>4 DEF Tend

(* A step of the controller keeps the records sound. *)
LEMMA ControllerRecorded ==
    ASSUME NoLag, TypeOK, Recorded, Controller
    PROVE  Recorded'
  <1>1. /\ pass.status \in Status /\ pass.mem \in Lives /\ pass.d.uid \in Nat
        /\ pass.status.birth.uid \in Nat /\ made.deploy \in Nat
        /\ memory \in [1 .. MaxUid -> Life] /\ deploy.uid \in Nat
    BY DEF TypeOK, Pass, Status, Birth, DeploymentObject, Memory
  <1>2. Sound(pass.mem.at) /\ pass.d.uid <= made.deploy
    BY DEF Recorded, Sound
  <1>3. CASE BeginPass
    <2>1. PICK known \in BOOLEAN :
            pass' = [Idle EXCEPT !.at = IF gest.uid = 0 THEN "newborns" ELSE "look",
                                 !.g = gest, !.status = gest.status,
                                 !.mem = [known |-> known,
                                          at |-> IF known THEN memory ELSE Idle.mem.at]]
      BY <1>3, Zenon DEF BeginPass
    <2>2. /\ pass'.at \in {"newborns", "look"} /\ pass'.status = gest.status
          /\ pass'.d = NoDeployment
          /\ pass'.mem.at = memory \/ pass'.mem.at = [u \in 1 .. MaxUid |-> "none"]
      BY <2>1 DEF Idle
    <2>3. UNCHANGED <<gest, deploy, memory, seen, made>> /\ NoDeployment.uid = 0
      BY <1>3 DEF BeginPass, objects, caches, others, NoDeployment
    <2>4. /\ \A u \in 1 .. MaxUid : u > made.deploy => pass'.mem.at[u] = "none"
          /\ \A u \in 1 .. MaxUid : u = deploy.uid => pass'.mem.at[u] # "closed"
      BY <2>2 DEF Recorded
    <2>5. pass'.d.uid <= made'.deploy /\ pass'.status.birth.uid <= made'.deploy
      BY <1>1, <2>2, <2>3 DEF Recorded
    <2>6. QED
      BY <2>2, <2>3, <2>4, <2>5 DEF Recorded, At
  <1>4. CASE Look
    <2>1. DEFINE s == Header(pass.g, pass.status)
    <2>2. UNCHANGED <<gest, deploy, memory, seen, made>> /\ pass.at = "look"
      BY <1>4 DEF Look, objects, caches, others, At
    <2>3. s.birth \in {pass.status.birth, NoBirth}
      BY <1>1 DEF Header, Status
    <2>4. pass.status.birth.uid <= made.deploy /\ NoBirth.uid = 0
      BY <2>2 DEF Recorded, Writing, Step, NoBirth
    <2>5. /\ pass'.mem = pass.mem
          /\ \/ /\ pass'.at \in {"release", "ensure", "alive", "depart"}
                /\ pass'.status = s /\ pass'.d = deploy
                /\ pass'.at = "depart" => s.birth.uid # deploy.uid
             \/ pass'.at = "newborns" /\ pass'.d = pass.d
      <3>1. CASE Goto("newborns")
        BY <3>1 DEF Goto, TypeOK, Pass
      <3>2. CASE ~Goto("newborns")
        BY <1>4, <3>2 DEF Look, TypeOK, Pass, SameLife
      <3>3. QED
        BY <3>1, <3>2
    <2> HIDE DEF s
    <2>6. s.birth.uid <= made.deploy
      BY <1>1, <2>3, <2>4
    <2>7. QED
      BY <1>1, <2>2, <2>5, <2>6 DEF Recorded, At, Writing
  <1>5. CASE EnsurePlacenta
    <2>1. DEFINE s == [pass.status EXCEPT
            !.phase = IF trimester = 0 THEN "Due" ELSE "Expecting",
            !.screened = IF trimester > @ THEN trimester ELSE @]
    <2>2. /\ UNCHANGED <<gest, deploy, memory, seen, made>> /\ pass.at = "ensure"
          /\ Finish(s, pass.mem)
      BY <1>5 DEF EnsurePlacenta, caches, others, At
    <2>3. s \in Status
      BY DEF TypeOK, Pass, Status, Phase
    <2>4. s.birth = pass.status.birth
      BY <1>1 DEF Status
    <2>5. pass.status.birth.uid <= made.deploy
      BY <2>2 DEF Recorded, Writing, Step
    <2> HIDE DEF s
    <2>6. QED
      BY <1>1, <1>2, <2>2, <2>3, <2>4, <2>5, FinishRecorded
  <1>6. CASE \/ ReleasePlacenta \/ SetNewborn \/ Plan \/ CreatePDB
             \/ /\ At("bear") /\ UNCHANGED <<gest, memory, seen, made>>
                /\ deploy'.uid = deploy.uid /\ Abandon
    <2>1. /\ UNCHANGED <<gest, memory, seen, made>> /\ deploy'.uid = deploy.uid
          /\ pass.at \in {"release", "protect", "plan", "budget", "bear"}
      BY <1>6 DEF ReleasePlacenta, SetNewborn, Plan, CreatePDB, objects, caches, others, At
    <2>2. pass.at \in Writing /\ pass.status.birth.uid <= made.deploy
      BY <2>1 DEF Recorded, Writing, Step
    <2>3. CASE Abandon
      BY <1>1, <1>2, <2>1, <2>2, <2>3, FinishRecorded DEF Abandon
    <2>4. CASE ~Abandon
      <3>1. /\ pass'.at \in {"protect", "plan", "budget", "bear"}
            /\ pass'.status = pass.status /\ pass'.mem = pass.mem /\ pass'.d = pass.d
        BY <1>6, <2>4 DEF ReleasePlacenta, SetNewborn, Plan, CreatePDB, Goto, TypeOK, Pass
      <3>2. QED
        BY <2>1, <2>2, <3>1, GoRecorded
    <2>5. QED
      BY <2>3, <2>4
  <1>7. CASE Bear
    <2>1. UNCHANGED <<gest, memory, seen, made>> /\ deploy'.uid = deploy.uid
      BY <1>7 DEF Bear, Launched, caches, TypeOK, DeploymentObject
    <2>2. CASE Abandon
      BY <1>6, <1>7, <2>1, <2>2 DEF Bear
    <2>3. CASE ~Abandon
      <3>1. DEFINE s == [pass.status EXCEPT
              !.birth = [NoBirth EXCEPT !.uid = pass.d.uid, !.added = pass.added,
                                        !.pdb = ~pass.covered],
              !.care = CareTier(0), !.score = NoScore, !.phase = "NewbornCare"]
      <3>2. FinishLiving(s)
        BY <1>7, <2>3 DEF Bear, FinishLiving
      <3>3. [NoBirth EXCEPT !.uid = pass.d.uid, !.added = pass.added,
                            !.pdb = ~pass.covered] \in Birth
        <4>1. pass.covered \in BOOLEAN /\ pass.added \in BOOLEAN
          BY DEF TypeOK, Pass
        <4>2. QED
          BY <1>1, <4>1, EmptyType DEF Birth
      <3>4. s \in Status
        <4>1. CareTier(0) \in 0 .. 3 /\ "NewbornCare" \in Phase
          BY TierType DEF Phase
        <4>2. QED
          BY <1>1, <3>3, <4>1, EmptyType DEF Status
      <3>5. s.birth.uid = pass.d.uid
        <4>1. s.birth = [NoBirth EXCEPT !.uid = pass.d.uid, !.added = pass.added,
                                        !.pdb = ~pass.covered]
          BY <1>1 DEF Status
        <4>2. NoBirth \in Birth
          BY EmptyType
        <4> HIDE DEF s
        <4>3. QED
          BY <4>1, <4>2 DEF Birth
      <3> HIDE DEF s
      <3>6. QED
        BY <1>2, <2>1, <3>2, <3>4, <3>5, FinishLivingRecorded
    <2>4. QED
      BY <2>2, <2>3
  <1>8. CASE AfterBirth
    <2>1. DEFINE s == Resolved(pass.status, pass.d)
    <2>2. UNCHANGED <<gest, deploy, memory, seen, made>> /\ pass.at \in Writing
      BY <1>8 DEF AfterBirth, objects, caches, others, At, Writing, Step
    <2>3. s \in Status
      BY ResolvedType DEF TypeOK, Pass
    <2>4. s.birth.uid = pass.status.birth.uid
      BY <1>1 DEF Resolved, Status, Birth
    <2>5. Tend(s) \/ pass' = [pass EXCEPT !.at = "score", !.status = s]
      BY <1>8 DEF AfterBirth
    <2>6. s.birth.uid <= made.deploy
      BY <2>2, <2>4 DEF Recorded
    <2> HIDE DEF s
    <2>7. CASE Tend(s)
      BY <2>2, <2>3, <2>6, <2>7, TendRecorded
    <2>8. CASE pass' = [pass EXCEPT !.at = "score", !.status = s]
      <3>1. /\ pass'.at = "score" /\ pass'.status = s /\ pass'.mem = pass.mem
            /\ pass'.d = pass.d
        BY <2>8 DEF TypeOK, Pass
      <3>2. QED
        BY <2>2, <2>6, <3>1, GoRecorded
    <2>9. QED
      BY <2>5, <2>7, <2>8
  <1>9. CASE Apgar
    <2>1. UNCHANGED <<gest, deploy, memory, seen, made>> /\ pass.at \in Writing
      BY <1>9 DEF Apgar, objects, caches, others, At, Writing, Step
    <2>2. pass.status.birth.uid <= made.deploy
      BY <2>1 DEF Recorded
    <2>3. CASE Goto("back")
      <3>1. /\ pass'.at = "back" /\ pass'.status = pass.status /\ pass'.mem = pass.mem
            /\ pass'.d = pass.d
        BY <2>3 DEF Goto, TypeOK, Pass
      <3>2. QED
        BY <2>1, <2>2, <3>1, GoRecorded
    <2>4. CASE Tend(pass.status)
      BY <1>1, <2>1, <2>2, <2>4, TendRecorded
    <2>5. ASSUME NEW score \in Scores, Tend([pass.status EXCEPT !.score = score])
          PROVE  Recorded'
      <3>1. /\ [pass.status EXCEPT !.score = score] \in Status
            /\ [pass.status EXCEPT !.score = score].birth = pass.status.birth
        BY <1>1, ScoresType DEF Status
      <3>2. QED
        BY <2>1, <2>2, <2>5, <3>1, TendRecorded
    <2>6. QED
      BY <1>9, <2>3, <2>4, <2>5 DEF Apgar
  <1>10. CASE RollBack
    <2>1. UNCHANGED <<gest, memory, seen, made>> /\ pass.at \in Writing
      BY <1>10 DEF RollBack, caches, At, Writing, Step
    <2>2. deploy'.uid = deploy.uid
      <3>1. \A t : [CareEnded(deploy) EXCEPT !.template = t].uid = deploy.uid
        BY EndedType DEF CareEnded, TypeOK, DeploymentObject
      <3>2. QED
        BY <1>10, <3>1 DEF RollBack
    <2>3. pass.status.birth.uid <= made.deploy
      BY <2>1 DEF Recorded
    <2>4. CASE Tend(pass.status)
      BY <1>1, <2>1, <2>2, <2>3, <2>4, TendRecorded
    <2>5. CASE pass' = [pass EXCEPT !.at = "backPdb", !.status.birth.back = TRUE,
                                    !.status.care = NoCare]
      <3>1. /\ pass'.at = "backPdb" /\ pass'.mem = pass.mem /\ pass'.d = pass.d
            /\ pass'.status = [pass.status EXCEPT !.birth.back = TRUE, !.care = NoCare]
        BY <2>5 DEF TypeOK, Pass
      <3>2. pass'.status.birth.uid = pass.status.birth.uid
        BY <1>1, <3>1 DEF Status, Birth
      <3>3. QED
        BY <2>1, <2>2, <2>3, <3>1, <3>2, GoRecorded
    <2>6. QED
      BY <1>10, <2>4, <2>5 DEF RollBack
  <1>11. CASE RollBackPDB
    <2>1. DEFINE s == [pass.status EXCEPT !.score = [minute |-> 5, low |-> TRUE],
                                          !.phase = "RolledBack"]
    <2>2. UNCHANGED <<gest, deploy, memory, seen, made>> /\ pass.at \in Writing
      BY <1>11 DEF RollBackPDB, caches, others, At, Writing, Step
    <2>3. FinishLiving(s) \/ FinishLiving(pass.status)
      BY <1>11 DEF RollBackPDB, DeletePDB
    <2>4. s \in Status
      <3>1. "RolledBack" \in Phase
        BY Zenon DEF Phase
      <3>2. QED
        BY <1>1, <3>1 DEF Status, Score, Minute
    <2>5. s.birth = pass.status.birth
      BY <1>1 DEF Status
    <2>6. pass.status.birth.uid <= made.deploy
      BY <2>2 DEF Recorded
    <2> HIDE DEF s
    <2>7. QED
      BY <1>1, <2>2, <2>3, <2>4, <2>5, <2>6, FinishLivingRecorded
  <1>12. CASE Discharge
    <2>1. UNCHANGED <<gest, memory, seen, made>> /\ pass.at \in Writing
      BY <1>12 DEF Discharge, caches, At, Writing, Step
    <2>2. deploy'.uid = deploy.uid
      BY <1>12 DEF Discharge, CareEnded, TypeOK, DeploymentObject
    <2>3. pass.status.birth.uid <= made.deploy
      BY <2>1 DEF Recorded
    <2>4. CASE FinishLiving(pass.status)
      BY <1>1, <2>1, <2>2, <2>3, <2>4, FinishLivingRecorded
    <2>5. CASE Goto("homePdb")
      <3>1. /\ pass'.at = "homePdb" /\ pass'.status = pass.status /\ pass'.mem = pass.mem
            /\ pass'.d = pass.d
        BY <2>5 DEF Goto, TypeOK, Pass
      <3>2. QED
        BY <2>1, <2>2, <2>3, <3>1, GoRecorded
    <2>6. QED
      BY <1>12, <2>4, <2>5 DEF Discharge
  <1>13. CASE DischargePDB
    <2>1. DEFINE s == [pass.status EXCEPT !.care = 0, !.phase = "Grown"]
    <2>2. UNCHANGED <<gest, deploy, memory, seen, made>> /\ pass.at \in Writing
      BY <1>13 DEF DischargePDB, caches, others, At, Writing, Step
    <2>3. FinishLiving(s) \/ FinishLiving(pass.status)
      BY <1>13 DEF DischargePDB, DeletePDB
    <2>4. s \in Status
      <3>1. 0 \in 0 .. 3 /\ "Grown" \in Phase
        BY DEF Phase
      <3>2. QED
        BY <1>1, <3>1, CareType
    <2>5. s.birth = pass.status.birth
      BY <1>1 DEF Status
    <2>6. pass.status.birth.uid <= made.deploy
      BY <2>2 DEF Recorded
    <2> HIDE DEF s
    <2>7. QED
      BY <1>1, <2>2, <2>3, <2>4, <2>5, <2>6, FinishLivingRecorded
  <1>14. CASE Depart
    <2>1. DEFINE s == [pass.status EXCEPT !.phase = "Departed", !.care = NoCare]
                 m == Closed(pass.mem, pass.status.birth.uid)
    <2>2. UNCHANGED <<gest, deploy, memory, seen, made>> /\ At("depart")
      BY <1>14 DEF Depart, caches, others
    <2>3. Finish(s, m) \/ Finish(pass.status, pass.mem)
      BY <1>14 DEF Depart, DeletePDB, Abandon
    <2>4. s \in Status
      BY <1>1 DEF Status, Phase
    <2>5. s.birth = pass.status.birth
      BY <1>1 DEF Status
    <2>6. pass.status.birth.uid <= made.deploy
      BY <2>2 DEF Recorded, Writing, Step, At
    <2>7. m \in Lives /\ Sound(m.at)
      <3>1. deploy.uid # 0 => pass.status.birth.uid # deploy.uid
        BY <2>2 DEF Recorded
      <3>2. QED
        BY <1>1, <1>2, <3>1, ClosedSound, RecordType
    <2> HIDE DEF s, m
    <2>8. QED
      BY <1>1, <1>2, <2>2, <2>3, <2>4, <2>5, <2>6, <2>7, FinishRecorded
  <1>15. CASE UpdateStatus
    <2>1. /\ UNCHANGED <<deploy, memory, seen, made>> /\ pass.at = "status"
          /\ pass'.at = "newborns" /\ pass'.mem = pass.mem /\ pass'.d = pass.d
      BY <1>15 DEF UpdateStatus, Goto, caches, others, At, TypeOK, Pass
    <2>2. gest' = gest \/ gest'.status = pass.status
      BY <1>15 DEF UpdateStatus, TypeOK, GestationObject
    <2>3. gest'.status.birth.uid <= made.deploy
      BY <2>1, <2>2 DEF Recorded, Writing, Step
    <2>4. QED
      BY <2>1, <2>3 DEF Recorded, Writing, At
  <1>16. CASE SyncNewborns
    <2>1. /\ UNCHANGED <<gest, deploy, memory, seen, made>>
          /\ pass'.at = "memory" /\ pass'.mem = pass.mem /\ pass'.d = pass.d
      BY <1>16 DEF SyncNewborns, Goto, others, TypeOK, Pass
    <2>2. QED
      BY <2>1, GoRecorded DEF Writing
  <1>17. CASE SaveMemory
    <2>1. DEFINE kept == [u \in 1 .. MaxUid |->
                            IF pass.mem.at[u] = "open" /\ Left(u) THEN "closed"
                                                                  ELSE pass.mem.at[u]]
    <2>2. /\ UNCHANGED <<gest, deploy, seen, made>> /\ pass' = Idle
          /\ memory' = memory \/ memory' = kept
      BY <1>17 DEF SaveMemory, caches, others
    <2>3. /\ Idle.at = "idle" /\ Idle.d.uid = 0
          /\ \A u \in 1 .. MaxUid : Idle.mem.at[u] = "none"
      BY DEF Idle, NoDeployment
    <2>4. Sound(kept)
      BY <1>1, <1>2 DEF Sound, Left, Recorded
    <2>5. Sound(memory)
      BY DEF Sound, Recorded
    <2> HIDE DEF kept
    <2>6. QED
      BY <1>1, <2>2, <2>3, <2>4, <2>5 DEF Recorded, Sound, Writing, At
  <1>18. QED
    BY <1>3, <1>4, <1>5, <1>6, <1>7, <1>8, <1>9, <1>10, <1>11, <1>12, <1>13, <1>14,
       <1>15, <1>16, <1>17 DEF Controller

(* A step of anyone else keeps the records sound: a new Deployment has a uid beyond
   every record. *)
LEMMA OthersRecorded ==
    ASSUME NoLag, TypeOK, Recorded,
           Users \/ Cluster \/ Time \/ Crash \/ UNCHANGED vars
    PROVE  Recorded'
  <1>1. made.deploy \in Nat /\ deploy.uid \in Nat /\ NoDeployment.uid = 0
    BY DEF TypeOK, DeploymentObject, NoDeployment
  <1>2. ASSUME pass' = pass \/ DeploymentMoved \/ GestationMoved
        PROVE  /\ pass'.at = pass.at /\ pass'.status = pass.status
               /\ pass'.d = pass.d /\ pass'.mem = pass.mem
    BY <1>2 DEF DeploymentMoved, GestationMoved, TypeOK, Pass
  <1>3. ASSUME pass' = pass \/ DeploymentMoved \/ GestationMoved,
               UNCHANGED <<memory, seen>>, made'.deploy = made.deploy,
               deploy'.uid = deploy.uid, gest'.status.birth.uid <= made.deploy
        PROVE  Recorded'
    BY <1>2, <1>3 DEF Recorded, At
  <1>4. CASE Apply
    <2>1. DeploymentMoved /\ UNCHANGED <<gest, memory>>
      BY <1>4 DEF Apply
    <2>2. /\ deploy'.uid = made.deploy + 1 /\ made'.deploy = made.deploy + 1
          /\ made.deploy + 1 <= MaxUid
      <3>1. made' = [made EXCEPT !.deploy = @ + 1] /\ made.deploy < MaxUid
        BY <1>4 DEF Apply
      <3>2. made \in [gest : Nat, deploy : Nat] /\ MaxUid \in Nat
        BY BoundAssumption DEF TypeOK
      <3>3. PICK n \in Nat, p \in BOOLEAN, t \in Template, c \in BOOLEAN :
              deploy' = [NoDeployment EXCEPT !.uid = made.deploy + 1, !.replicas = n,
                                             !.paused = p, !.template = t,
                                             !.named = c, !.observed = FALSE]
        <4>1. DEFINE Start == {[r |-> 0, p |-> FALSE], [r |-> Planned, p |-> TRUE],
                               [r |-> Planned, p |-> FALSE]}
        <4>2. \A start \in Start : start.r \in Nat /\ start.p \in BOOLEAN
          <5>1. Planned \in Nat
            BY PlannedAssumption
          <5>2. Start \subseteq [r : Nat, p : BOOLEAN]
            BY <5>1
          <5>3. QED
            BY <5>2
        <4> DEFINE Named == {FALSE} \cup (IF "prenamed" \in User THEN {TRUE} ELSE {})
        <4>3. \E start \in Start, t \in Template, c \in Named :
                deploy' = [NoDeployment EXCEPT !.uid = made.deploy + 1, !.replicas = start.r,
                                               !.paused = start.p, !.template = t,
                                               !.named = c, !.observed = FALSE]
          BY <1>4, Zenon DEF Apply
        <4>4. \A c \in Named : c \in BOOLEAN
          OBVIOUS
        <4> HIDE DEF Start, Named
        <4>5. PICK start \in Start, t \in Template, c \in Named :
                deploy' = [NoDeployment EXCEPT !.uid = made.deploy + 1, !.replicas = start.r,
                                               !.paused = start.p, !.template = t,
                                               !.named = c, !.observed = FALSE]
          BY <4>3
        <4>6. start.r \in Nat /\ start.p \in BOOLEAN /\ c \in BOOLEAN
          BY <4>2, <4>4
        <4>7. QED
          BY <4>5, <4>6
      <3>4. deploy'.uid = made.deploy + 1
        <4>1. NoDeployment \in DeploymentObject
          BY EmptyType
        <4>2. QED
          BY <3>3, <4>1 DEF DeploymentObject
      <3>5. QED
        BY <3>1, <3>2, <3>4
    <2>3. seen' = deploy'.uid
      BY <1>4 DEF Apply, Noticed, NoLag
    <2>4. QED
      <3>1. /\ gest.status.birth.uid \in Nat /\ pass.status.birth.uid \in Nat
            /\ pass.d.uid \in Nat
        BY DEF TypeOK, Pass, Status, Birth, GestationObject, DeploymentObject
      <3>2. ASSUME NEW u \in 1 .. MaxUid
            PROVE  /\ u > made'.deploy => memory[u] = "none" /\ pass.mem.at[u] = "none"
                   /\ u = deploy'.uid => memory[u] # "closed" /\ pass.mem.at[u] # "closed"
        BY <1>1, <2>2 DEF Recorded
      <3>3. /\ pass'.at = pass.at /\ pass'.status = pass.status
            /\ pass'.d = pass.d /\ pass'.mem = pass.mem
        BY <1>2, <2>1
      <3>4. made'.deploy <= MaxUid /\ deploy'.uid = made'.deploy /\ seen' = deploy'.uid
        BY <2>2, <2>3
      <3>5. /\ gest'.status.birth.uid < made'.deploy /\ pass'.d.uid < made'.deploy
            /\ pass.at \in Writing => pass.status.birth.uid < made'.deploy
        BY <1>1, <2>1, <2>2, <3>1, <3>3 DEF Recorded
      <3>6. At("depart")' /\ deploy'.uid # 0 => pass'.status.birth.uid # deploy'.uid
        BY <2>2, <3>1, <3>3, <3>4, <3>5 DEF At, Writing, Step
      <3>7. memory' = memory /\ made'.deploy \in Nat
        BY <1>1, <2>1, <2>2
      <3>8. /\ gest'.status.birth.uid <= made'.deploy /\ pass'.d.uid <= made'.deploy
            /\ pass'.at \in Writing => pass'.status.birth.uid <= made'.deploy
        BY <2>1, <3>1, <3>3, <3>5, <3>7
      <3>9. QED
        BY <3>2, <3>3, <3>4, <3>6, <3>7, <3>8 DEF Recorded
  <1>5. CASE Remove
    <2>1. /\ DeploymentMoved /\ UNCHANGED <<gest, memory, made>> /\ deploy'.uid = 0
      BY <1>1, <1>5 DEF Remove
    <2>2. seen' = deploy'.uid
      BY <1>5 DEF Remove, Noticed, NoLag
    <2>3. QED
      BY <1>1, <1>2, <2>1, <2>2 DEF Recorded, At
  <1>6. CASE Users /\ ~Apply /\ ~Remove
    <2>1. /\ pass' = pass \/ DeploymentMoved \/ GestationMoved
          /\ UNCHANGED <<memory, seen>>
      BY <1>6 DEF Users, Conceive, EndGestation, Rollout, Scale, NameCaregivers, Edit,
         Deliver, PatchDelivery, Screen, ToggleHpa, TogglePdb, objects, caches
    <2>2. made'.deploy = made.deploy
      BY <1>6 DEF Users, Conceive, EndGestation, Rollout, Scale, NameCaregivers, Edit,
         Deliver, PatchDelivery, Screen, ToggleHpa, TogglePdb, TypeOK
    <2>3. deploy'.uid = deploy.uid
      <3>1. \A m, d : Edit(m, d) => deploy' = d
        BY DEF Edit
      <3>2. Rollout \/ Scale \/ NameCaregivers => deploy'.uid = deploy.uid
        BY <3>1 DEF Rollout, Scale, NameCaregivers, TypeOK, DeploymentObject
      <3>3. QED
        BY <1>6, <3>2 DEF Users, Conceive, EndGestation, Deliver, PatchDelivery, Screen,
           ToggleHpa, TogglePdb, objects
    <2>4. gest'.status \in {gest.status, Expected}
      <3>1. NoGestation.status = Expected
        BY DEF NoGestation
      <3>2. QED
        BY <1>6, <3>1 DEF Users, Conceive, EndGestation, Rollout, Scale, NameCaregivers,
           Edit, Deliver, PatchDelivery, Screen, ToggleHpa, TogglePdb, objects, TypeOK,
           GestationObject, NoGestation
    <2>5. Expected.birth.uid = 0
      BY DEF Expected, NoBirth
    <2>6. QED
      BY <1>1, <1>3, <2>1, <2>2, <2>3, <2>4, <2>5 DEF Recorded
  <1>7. CASE Cluster /\ ~CatchUp
    <2>1. /\ pass' = pass \/ DeploymentMoved
          /\ UNCHANGED <<gest, memory, seen, made>> /\ deploy'.uid = deploy.uid
      BY <1>7 DEF Cluster, CollectGarbage, Placeholders, Observe, Progress, objects,
         caches, TypeOK, DeploymentObject
    <2>2. QED
      BY <1>3, <2>1 DEF Recorded
  <1>8. CASE CatchUp
    <2>1. UNCHANGED <<gest, deploy, memory, made, pass>> /\ seen' = deploy.uid
      BY <1>8 DEF CatchUp, objects, others
    <2>2. QED
      BY <2>1 DEF Recorded, At
  <1>9. CASE Time
    <2>1. UNCHANGED <<pass, memory, seen, made, deploy>>
      BY <1>9 DEF Time, Grow, Age, GraceOver, objects, caches, others
    <2>2. gest' = gest \/ gest' = [gest EXCEPT !.status.waited = TRUE]
      BY <1>9 DEF Time, Grow, Age, GraceOver, objects
    <2>3. gest'.status.birth = gest.status.birth
      <3>1. gest' = gest \/ gest'.status = [gest.status EXCEPT !.waited = TRUE]
        BY <2>2 DEF TypeOK, GestationObject
      <3>2. QED
        BY <3>1 DEF TypeOK, GestationObject, Status
    <2>4. QED
      BY <1>3, <2>1, <2>3 DEF Recorded
  <1>10. CASE Crash
    <2>1. /\ UNCHANGED <<gest, deploy, memory, made>> /\ pass' = Idle
          /\ seen' = deploy.uid
      BY <1>10 DEF Crash, objects, others
    <2>2. /\ Idle.at = "idle" /\ Idle.d.uid = 0
          /\ \A u \in 1 .. MaxUid : Idle.mem.at[u] = "none"
      BY DEF Idle, NoDeployment
    <2>3. QED
      BY <1>1, <2>1, <2>2 DEF Recorded, Writing, At
  <1>11. CASE UNCHANGED vars
    BY <1>3, <1>11 DEF vars, Recorded
  <1>12. QED
    BY <1>4, <1>5, <1>6, <1>7, <1>8, <1>9, <1>10, <1>11 DEF Cluster

(* Whatever fails, crashes or races, as long as the informers do not lag behind, a
   Deployment that lives never has a closed record. *)
THEOREM OnlyTheDepartedAreClosed == ASSUME NoLag PROVE Spec => []RecordOfTheLiving
  <1>1. Init => Recorded
    <2>1. SUFFICES ASSUME Init PROVE Recorded
      OBVIOUS
    <2>2. /\ gest = NoGestation /\ deploy.uid = 0 /\ pass = Idle /\ seen = 0
          /\ made.deploy = 0 /\ memory = [u \in 1 .. MaxUid |-> "none"]
      BY <2>1 DEF Init, NoDeployment
    <2>3. /\ Idle.at = "idle" /\ Idle.d.uid = 0 /\ NoGestation.status.birth.uid = 0
          /\ \A u \in 1 .. MaxUid : Idle.mem.at[u] = "none"
      BY DEF Idle, NoDeployment, NoGestation, Expected, NoBirth
    <2>4. QED
      BY <2>2, <2>3 DEF Recorded, Writing, At
  <1>2. TypeOK /\ Recorded /\ [Next]_vars => Recorded'
    BY ControllerRecorded, OthersRecorded DEF Next
  <1>3. TypeOK /\ Recorded => RecordOfTheLiving
    BY DEF Recorded, RecordOfTheLiving, TypeOK, DeploymentObject
  <1>4. QED
    BY <1>1, <1>2, <1>3, TypeCorrect, PTL DEF Spec

---------------------------------------------------------------------------
\* Replica and budget.

\* Nothing fails, passes are not disturbed, nobody ends a Gestation or scales the
\* service by hand.  Informers may lag.
Quiet == Fault \subseteq {"lag"} /\ User \cap {"end", "scale"} = {}

Undone == {"backPdb", "homePdb"}
Lasting == {"score", "back", "home"}

\* A Deployment d with x extra replicas is in care when status s says so, and has
\* then the replica that s remembers.
Agrees(d, x, s) ==
    /\ d.care <=> InCare(s) /\ s.birth.uid = d.uid
    /\ x = IF d.care /\ s.birth.added THEN 1 ELSE 0
    /\ d.care /\ s.birth.added => d.replicas > 1
\* A budget p there is goes with care that remembers having created it.
Budgeted(p, s) == p # 0 => InCare(s) /\ s.birth.pdb
\* A birth on record is that of a Deployment there was.
Recalled(s, n) == InCare(s) => s.birth.uid \in 1 .. n

Same(s, t) == /\ s.care = t.care /\ s.phase = t.phase
              /\ s.birth.uid = t.birth.uid /\ s.birth.added = t.birth.added
              /\ s.birth.pdb = t.birth.pdb

(* Why nothing is left over: the Deployment, its replica and its budget are what
   the status on record says, or the status about to be written, at every step of
   a pass but those between the calls of a birth or of an end of care. *)
Harmony ==
    /\ ~pass.gMoved /\ ~pass.dMoved
    /\ deploy.uid <= made.deploy
    /\ Recalled(gest.status, made.deploy)
    /\ pass.at \notin {"status"} \cup Undone => Agrees(deploy, extra, gest.status)
    /\ pass.at \notin {"status", "bear"} \cup Undone => Budgeted(pdb, gest.status)
    /\ At("status") => /\ Agrees(deploy, extra, pass.status)
                       /\ Budgeted(pdb, pass.status)
                       /\ Recalled(pass.status, made.deploy)
    /\ pass.at \in Undone => ~deploy.care /\ extra = 0 /\ (pdb # 0 => pass.status.birth.pdb)
    /\ pass.at \in Delivering => ~InCare(gest.status)
    /\ pass.at \in Launching => deploy.uid # 0
    /\ At("budget") => ~pass.covered
    /\ At("bear") => (pdb # 0 => ~pass.covered)
    /\ pass.at \in {"alive", "depart"} \cup Lasting => Same(pass.status, gest.status)
    /\ pass.at \in {"alive"} \cup Lasting => pass.status.birth.uid = deploy.uid
    /\ At("depart") => pass.status.birth.uid # deploy.uid

\* All that a step needs to know.
Kept == TypeOK /\ RoomInv /\ Faithful /\ Telling /\ Harmony

(* In quiet times calls work, and others act between passes. *)
LEMMA QuietCalls ==
    ASSUME Quiet
    PROVE  /\ NoError /\ ~Fails /\ (Answered => Works) /\ (Works => ~AnswerLost)
           /\ (Free => At("idle")) /\ ~Crash /\ ~EndGestation /\ ~Scale
  <1>1. NoError /\ "crash" \notin Fault /\ "race" \notin Fault
    BY DEF Quiet, NoError
  <1>2. ~Fails /\ (Answered => Works) /\ (Works => ~AnswerLost)
    BY <1>1, CallsWork
  <1>3. ~EndGestation /\ ~Scale
    BY DEF Quiet, EndGestation, Scale, Edit, Move
  <1>4. QED
    BY <1>1, <1>2, <1>3 DEF Free, Crash, Counted

(* A screening that is answered changes nothing of this. *)
LEMMA SameStatus ==
    ASSUME NEW s, NEW t, Same(s, t)
    PROVE  /\ InCare(s) <=> InCare(t)
           /\ \A d, x : Agrees(d, x, s) <=> Agrees(d, x, t)
           /\ \A p : Budgeted(p, s) <=> Budgeted(p, t)
           /\ \A n : Recalled(s, n) <=> Recalled(t, n)
  <1>1. InCare(s) <=> InCare(t)
    BY DEF Same, InCare
  <1>2. QED
    BY <1>1 DEF Same, Agrees, Budgeted, Recalled

(* While a pass may write, what it read of the Gestation is the Gestation. *)
LEMMA Undisturbed ==
    ASSUME Kept, pass.at \in Writing
    PROVE  pass.g = gest /\ gest.uid # 0
  BY DEF Kept, RoomInv, Current, Harmony

(* And its copy of the Deployment is the Deployment until care has ended. *)
LEMMA Trusted ==
    ASSUME Kept, pass.at \in Relying
    PROVE  pass.d = deploy
  BY DEF Kept, Faithful, Harmony

(* The end of reconcile keeps the harmony if the status agrees. *)
LEMMA FinishHarmony ==
    ASSUME Kept, pass.at \in Writing, UNCHANGED <<gest, made>>, deploy'.uid = deploy.uid,
           NEW s \in Status, NEW m, Finish(s, m),
           Agrees(deploy', extra', s), Budgeted(pdb', s), Recalled(s, made.deploy)
    PROVE  Harmony'
  <1>1. /\ pass'.at \in {"newborns", "status"}
        /\ pass'.status = [s EXCEPT !.answered = pass.g.screen]
        /\ pass'.at = "newborns" => pass'.status = pass.g.status
        /\ pass'.gMoved = pass.gMoved /\ ~pass'.dMoved
    BY FinishStatus DEF Kept
  <1>2. pass.g = gest
    BY Undisturbed
  <1>3. Same(pass'.status, s)
    BY <1>1 DEF Same, Status
  <1>4. /\ Agrees(deploy', extra', pass'.status) /\ Budgeted(pdb', pass'.status)
        /\ Recalled(pass'.status, made.deploy)
    BY <1>3, SameStatus
  <1>5. QED
    BY <1>1, <1>2, <1>4 DEF Kept, Harmony, Launching, Delivering, Lasting, Undone, At

(* So does a step between passes. *)
LEMMA RestHarmony ==
    ASSUME Kept, At("idle"), pass'.at = "idle", ~pass'.gMoved, ~pass'.dMoved,
           deploy'.uid <= made'.deploy, Recalled(gest'.status, made'.deploy),
           Agrees(deploy', extra', gest'.status), Budgeted(pdb', gest'.status)
    PROVE  Harmony'
  BY DEF Harmony, Launching, Delivering, Lasting, Undone, At

(* A delivery that is given up leaves the Deployment as it was. *)
LEMMA AbandonHarmony ==
    ASSUME Kept, pass.at \in Delivering \ {"bear"}, UNCHANGED <<gest, made, deploy, extra, pdb>>,
           Abandon
    PROVE  Harmony'
  <1>1. pass.status \in Status /\ pass.status.phase = "Delivering" /\ pass.at \in Writing
    BY DEF Kept, TypeOK, Pass, RoomInv, Phased, Delivering, Writing, Step
  <1>2. ~InCare(pass.status) /\ ~InCare(gest.status)
    BY <1>1 DEF InCare, Kept, Harmony
  <1>3. Agrees(deploy, extra, gest.status) /\ Budgeted(pdb, gest.status)
    BY DEF Kept, Harmony, Delivering, Undone
  <1>4. /\ Agrees(deploy, extra, pass.status) /\ Budgeted(pdb, pass.status)
        /\ Recalled(pass.status, made.deploy)
    BY <1>2, <1>3 DEF Agrees, Budgeted, Recalled
  <1>5. QED
    BY <1>1, <1>4, FinishHarmony DEF Abandon

(* A day of care keeps the harmony, for a status that differs in score or revisions. *)
LEMMA TendHarmony ==
    ASSUME Kept, pass.at \in {"alive", "score"}, UNCHANGED <<gest, made, deploy, extra, pdb>>,
           NEW s \in Status, Same(s, gest.status), Tend(s)
    PROVE  Harmony'
  <1>1. /\ Agrees(deploy, extra, gest.status) /\ Budgeted(pdb, gest.status)
        /\ Recalled(gest.status, made.deploy) /\ pass.at \in Writing
        /\ pass.status.birth.uid = deploy.uid /\ Same(pass.status, gest.status)
    BY DEF Kept, Harmony, Undone, Lasting, Writing, Step
  <1>2. /\ Agrees(deploy, extra, s) /\ Budgeted(pdb, s) /\ Recalled(s, made.deploy)
    BY <1>1, SameStatus
  <1>3. ASSUME NEW c \in 0 .. 3, NEW p \in {"NewbornCare", "NeedsCaregivers"}, InCare(s),
               FinishLiving([s EXCEPT !.care = c, !.phase = p])
        PROVE  Harmony'
    <2>1. DEFINE t == [s EXCEPT !.care = c, !.phase = p]
    <2>2. p \in Phase
      BY Zenon DEF Phase
    <2>3. t \in Status
      BY <2>2, CareType
    <2>4. t.birth = s.birth /\ t.care = c /\ t.phase = p
      BY DEF Status
    <2> HIDE DEF t
    <2>5. InCare(t)
      BY <2>4 DEF InCare, NoCare
    <2>6. Agrees(deploy, extra, t) /\ Budgeted(pdb, t) /\ Recalled(t, made.deploy)
      BY <1>2, <1>3, <2>4, <2>5 DEF Agrees, Budgeted, Recalled
    <2>7. Finish(t, Put(pass.mem, pass.d.uid))
      BY <1>3 DEF FinishLiving, t
    <2>8. QED
      BY <1>1, <2>3, <2>6, <2>7, FinishHarmony
  <1>4. CASE FinishLiving(s)
    BY <1>1, <1>2, <1>4, FinishHarmony DEF FinishLiving
  <1>5. CASE pass' = [pass EXCEPT !.at = "home", !.status = s,
                                  !.dMoved = @ \/ deploy' # deploy]
    <2>1. /\ pass'.at = "home" /\ pass'.status = s /\ pass'.gMoved = pass.gMoved
          /\ pass'.dMoved = pass.dMoved
      BY <1>5 DEF Kept, TypeOK, Pass
    <2>2. s.birth.uid = deploy.uid
      BY <1>1 DEF Same
    <2>3. QED
      BY <1>1, <2>1, <2>2 DEF Kept, Harmony, Launching, Delivering, Lasting, Undone, At
  <1>6. /\ CareTier(age) \in 0 .. 3 /\ LastTier \in 0 .. 3
    BY TierType DEF LastTier
  <1>7. QED
    BY <1>3, <1>4, <1>5, <1>6 DEF Tend

(* A pass that begins has what is on record in hand. *)
LEMMA BeginHarmony ==
    ASSUME Quiet, Kept, BeginPass \/ Look
    PROVE  Harmony'
  <1> USE QuietCalls
  <1>1. CASE BeginPass
    <2>1. PICK known \in BOOLEAN :
            pass' = [Idle EXCEPT !.at = IF gest.uid = 0 THEN "newborns" ELSE "look",
                                 !.g = gest, !.status = gest.status,
                                 !.mem = [known |-> known,
                                          at |-> IF known THEN memory ELSE Idle.mem.at]]
      BY <1>1, Zenon DEF BeginPass
    <2>2. pass'.at \in {"newborns", "look"} /\ ~pass'.gMoved /\ ~pass'.dMoved
      BY <2>1 DEF Idle
    <2>3. UNCHANGED <<gest, deploy, extra, pdb, made>> /\ pass.at = "idle"
      BY <1>1 DEF BeginPass, objects, others, At
    <2>4. QED
      BY <2>2, <2>3 DEF Kept, Harmony, Launching, Delivering, Lasting, Undone, At
  <1>2. CASE Look
    <2>1. DEFINE s == Header(pass.g, pass.status)
    <2>2. UNCHANGED <<gest, deploy, extra, pdb, made>> /\ pass.at = "look"
      BY <1>2 DEF Look, objects, others, At
    <2>3. pass.g = gest /\ pass.status = gest.status /\ pass.status \in Status
      BY <2>2, Undisturbed DEF Kept, TypeOK, Pass, RoomInv, Current, Writing, Step, At
    <2>4. /\ Agrees(deploy, extra, gest.status) /\ Budgeted(pdb, gest.status)
          /\ Recalled(gest.status, made.deploy)
      BY <2>2 DEF Kept, Harmony, Undone
    <2>5. s = gest.status \/ (s.phase = "Delivering" /\ ~InCare(gest.status))
      <3>1. NoBirth.uid = 0
        BY DEF NoBirth
      <3>2. gest.status.birth = NoBirth \/ gest.status.phase = "RolledBack"
              => ~InCare(gest.status)
        BY <2>4, <3>1 DEF Recalled, InCare
      <3>3. [pass.status EXCEPT !.delivery = pass.g.delivery, !.waited = FALSE,
                                !.birth = NoBirth, !.score = NoScore,
                                !.care = NoCare, !.phase = "Delivering"].phase = "Delivering"
        BY <2>3 DEF Status
      <3>4. QED
        BY <2>3, <3>2, <3>3 DEF Header
    <2>6. /\ pass'.d = deploy /\ pass'.status = s
          /\ pass'.gMoved = pass.gMoved /\ pass'.dMoved = pass.dMoved
          /\ \/ pass'.at = "release" /\ s.phase = "Delivering"
             \/ pass'.at = "ensure"
             \/ pass'.at = "alive" /\ s.phase # "Delivering" /\ deploy.uid = s.birth.uid
             \/ pass'.at = "depart" /\ s.phase # "Delivering" /\ deploy.uid # s.birth.uid
      BY <1>2 DEF Look, SameLife, Kept, TypeOK, Pass
    <2> HIDE DEF s
    <2>7. CASE pass'.at = "release"
      <3>1. ~InCare(gest.status)
        BY <2>5, <2>6, <2>7 DEF InCare
      <3>2. QED
        BY <2>2, <2>4, <2>6, <2>7, <3>1
           DEF Kept, Harmony, Launching, Delivering, Lasting, Undone, At
    <2>8. CASE pass'.at = "ensure"
      BY <2>2, <2>4, <2>6, <2>8
         DEF Kept, Harmony, Launching, Delivering, Lasting, Undone, At
    <2>9. CASE pass'.at \in {"alive", "depart"}
      <3>1. s = gest.status /\ Same(s, gest.status)
        BY <2>5, <2>6, <2>9 DEF Same
      <3>2. QED
        BY <2>2, <2>4, <2>6, <2>9, <3>1
           DEF Kept, Harmony, Launching, Delivering, Lasting, Undone, At
    <2>10. QED
      BY <2>6, <2>7, <2>8, <2>9
  <1>3. QED
    BY <1>1, <1>2

(* A delivery keeps the harmony up to the birth. *)
LEMMA LaunchHarmony ==
    ASSUME Quiet, Kept,
           EnsurePlacenta \/ ReleasePlacenta \/ SetNewborn \/ Plan \/ CreatePDB \/ Bear
    PROVE  Harmony'
  <1> USE QuietCalls
  <1>1. CASE EnsurePlacenta
    <2>1. DEFINE s == [pass.status EXCEPT
            !.phase = IF trimester = 0 THEN "Due" ELSE "Expecting",
            !.screened = IF trimester > @ THEN trimester ELSE @]
    <2>2. /\ UNCHANGED <<gest, deploy, extra, pdb, made>> /\ pass.at = "ensure"
          /\ Finish(s, pass.mem)
      BY <1>1 DEF EnsurePlacenta, others, At
    <2>3. s \in Status
      BY DEF Kept, TypeOK, Pass, Status, Phase
    <2>4. s.phase \in {"Due", "Expecting"}
      BY DEF Kept, TypeOK, Pass, Status
    <2>5. pass.at \in Writing /\ pass.g = gest
      BY <2>2, Undisturbed DEF Writing, Step
    <2>6. gest.status.birth = NoBirth
      BY <2>2, <2>5 DEF Kept, RoomInv, Phased, At
    <2>7. ~InCare(gest.status)
      BY <2>6 DEF Kept, Harmony, Recalled, NoBirth
    <2>8. Agrees(deploy, extra, gest.status) /\ Budgeted(pdb, gest.status)
      BY <2>2 DEF Kept, Harmony, Undone
    <2> HIDE DEF s
    <2>9. ~InCare(s)
      BY <2>4 DEF InCare
    <2>10. Agrees(deploy, extra, s) /\ Budgeted(pdb, s) /\ Recalled(s, made.deploy)
      BY <2>7, <2>8, <2>9 DEF Agrees, Budgeted, Recalled
    <2>11. QED
      BY <2>2, <2>3, <2>5, <2>10, FinishHarmony
  <1>2. CASE ReleasePlacenta \/ SetNewborn \/ Plan
    <2>1. /\ UNCHANGED <<gest, deploy, extra, pdb, made>>
          /\ pass.at \in {"release", "protect", "plan"}
      BY <1>2 DEF ReleasePlacenta, SetNewborn, Plan, objects, others, At
    <2>2. CASE Abandon
      BY <2>1, <2>2, AbandonHarmony DEF Delivering
    <2>3. CASE ~Abandon
      <3>1. pass.d = deploy /\ ~InCare(gest.status) /\ Budgeted(pdb, gest.status)
        BY <2>1, Trusted DEF Relying, Holding, Step, Kept, Harmony, Delivering, Undone
      <3>2. pdb = 0
        BY <3>1 DEF Budgeted
      <3>3. /\ pass'.at \in {"protect", "plan", "budget", "bear"}
            /\ pass'.gMoved = pass.gMoved /\ pass'.dMoved = pass.dMoved
            /\ pass.at # "release" \/ pass.d.uid # 0
            /\ pass'.at = "budget" => ~pass'.covered
        <4>1. CASE ReleasePlacenta \/ SetNewborn
          <5>1. ReleasePlacenta => Goto("protect") /\ pass.d.uid # 0
            BY <2>3 DEF ReleasePlacenta
          <5>2. SetNewborn => Goto("plan") /\ pass.at = "protect"
            BY <2>3 DEF SetNewborn, At
          <5>3. QED
            BY <4>1, <5>1, <5>2 DEF Goto, Kept, TypeOK, Pass
        <4>2. CASE Plan
          BY <2>3, <4>2 DEF Plan, Covered, At, Kept, TypeOK, Pass
        <4>3. QED
          BY <1>2, <4>1, <4>2
      <3>4. deploy.uid # 0
        BY <2>1, <3>1, <3>3 DEF Kept, Harmony, Launching, Delivering
      <3>5. QED
        BY <2>1, <3>1, <3>2, <3>3, <3>4
           DEF Kept, Harmony, Launching, Delivering, Lasting, Undone, At
    <2>4. QED
      BY <2>2, <2>3
  <1>3. CASE CreatePDB
    <2>1. /\ UNCHANGED <<gest, deploy, extra, made>> /\ pass.at = "budget"
          /\ Goto("bear")
      BY <1>3 DEF CreatePDB, objects, others, At
    <2>2. /\ pass'.at = "bear" /\ pass'.gMoved = pass.gMoved /\ pass'.dMoved = pass.dMoved
          /\ pass'.covered = pass.covered
      BY <2>1 DEF Goto, Kept, TypeOK, Pass
    <2>3. QED
      BY <2>1, <2>2 DEF Kept, Harmony, Launching, Delivering, Lasting, Undone, At
  <1>4. CASE Bear
    <2>1. DEFINE birth == [NoBirth EXCEPT !.uid = pass.d.uid, !.added = pass.added,
                                          !.pdb = ~pass.covered]
                 s == [pass.status EXCEPT !.birth = birth, !.care = CareTier(0),
                                          !.score = NoScore, !.phase = "NewbornCare"]
    <2>2. pass.at = "bear" /\ pass.d = deploy /\ ~pass.dMoved
      BY <1>4, Trusted DEF Bear, At, Relying, Holding, Step, Kept, Harmony
    <2>3. /\ UNCHANGED <<gest, pdb, made>> /\ deploy' = Launched(deploy)
          /\ extra' = extra + (IF pass.added THEN 1 ELSE 0)
          /\ Finish(s, Put(pass.mem, pass.d.uid))
      BY <1>4, <2>2 DEF Bear, Unmoved
    <2>4. /\ deploy.uid # 0 /\ deploy.uid <= made.deploy /\ ~InCare(gest.status)
          /\ Agrees(deploy, extra, gest.status) /\ (pdb # 0 => ~pass.covered)
      BY <2>2 DEF Kept, Harmony, Launching, Delivering, Undone, At
    <2>5. /\ deploy.uid \in 1 .. made.deploy /\ ~deploy.care /\ extra = 0
          /\ deploy \in DeploymentObject /\ pass.status \in Status
          /\ pass.added \in BOOLEAN /\ pass.covered \in BOOLEAN
      BY <2>4 DEF Agrees, Kept, TypeOK, Pass, DeploymentObject
    <2>6. birth \in Birth
      BY <2>2, <2>5, EmptyType DEF Birth, DeploymentObject
    <2>7. birth.uid = deploy.uid /\ birth.added = pass.added /\ birth.pdb = ~pass.covered
      BY <2>2, <2>5, EmptyType DEF Birth
    <2> HIDE DEF birth
    <2>8. s \in Status
      <3>1. CareTier(0) \in 0 .. 3 /\ "NewbornCare" \in Phase
        BY TierType DEF Phase
      <3>2. QED
        BY <2>5, <2>6, <3>1, EmptyType DEF Status
    <2>9. s.birth = birth /\ InCare(s)
      <3>1. s.birth = birth /\ s.care = CareTier(0) /\ s.phase = "NewbornCare"
        BY <2>5 DEF Status
      <3>2. CareTier(0) # NoCare
        BY DEF CareTier, NoCare
      <3>3. QED
        BY <3>1, <3>2 DEF InCare
    <2>10. /\ deploy'.uid = deploy.uid /\ deploy'.care
           /\ pass.added => deploy'.replicas > 1
      BY <2>2, <2>3, <2>5 DEF Launched, DeploymentObject
    <2> HIDE DEF s
    <2>11. Agrees(deploy', extra', s) /\ Budgeted(pdb', s) /\ Recalled(s, made.deploy)
      <3>1. extra' = IF pass.added THEN 1 ELSE 0
        BY <2>3, <2>5
      <3>2. Agrees(deploy', extra', s)
        BY <2>5, <2>7, <2>9, <2>10, <3>1 DEF Agrees
      <3>3. Budgeted(pdb', s)
        BY <2>3, <2>4, <2>7, <2>9, Zenon DEF Budgeted
      <3>4. QED
        BY <2>5, <2>7, <2>9, <3>2, <3>3 DEF Recalled
    <2>12. QED
      BY <2>2, <2>3, <2>8, <2>10, <2>11, FinishHarmony DEF Writing, Step
  <1>5. QED
    BY <1>1, <1>2, <1>3, <1>4

(* The end of care takes back exactly the replica that the birth added. *)
LEMMA EndHarmony ==
    ASSUME Kept, pass.at \in {"back", "home"}
    PROVE  /\ pass.d = deploy /\ deploy.care /\ deploy \in DeploymentObject
           /\ CareEnded(deploy).care = FALSE /\ CareEnded(deploy).uid = deploy.uid
           /\ ReplicaTaken => extra' = 0
           /\ pdb # 0 => pass.status.birth.pdb
  <1>1. pass.d = deploy /\ deploy \in DeploymentObject
    BY Trusted DEF Relying, Holding, Step, Kept, TypeOK
  <1>2. /\ Agrees(deploy, extra, gest.status) /\ Budgeted(pdb, gest.status)
        /\ Same(pass.status, gest.status) /\ pass.status.birth.uid = deploy.uid
        /\ InCare(pass.status)
    BY DEF Kept, Harmony, Lasting, Undone, Telling
  <1>3. /\ deploy.care /\ extra = IF pass.status.birth.added THEN 1 ELSE 0
        /\ pass.status.birth.added => deploy.replicas > 1
        /\ pdb # 0 => pass.status.birth.pdb
    BY <1>2, SameStatus DEF Agrees, Budgeted
  <1>4. CareEnded(deploy).care = FALSE /\ CareEnded(deploy).uid = deploy.uid
    BY <1>1 DEF CareEnded, DeploymentObject
  <1>5. ReplicaTaken => extra' = 0
    BY <1>1, <1>3 DEF ReplicaTaken, TakesBack
  <1>6. QED
    BY <1>1, <1>3, <1>4, <1>5

(* The life of a newborn, to the end of its care, keeps the harmony. *)
LEMMA LifeHarmony ==
    ASSUME Quiet, Kept,
           AfterBirth \/ Apgar \/ RollBack \/ RollBackPDB \/ Discharge \/ DischargePDB
    PROVE  Harmony'
  <1> USE QuietCalls
  <1>1. pass.status \in Status
    BY DEF Kept, TypeOK, Pass
  <1>2. CASE AfterBirth
    <2>1. DEFINE s == Resolved(pass.status, pass.d)
    <2>2. UNCHANGED <<gest, deploy, extra, pdb, made>> /\ pass.at = "alive"
      BY <1>2 DEF AfterBirth, objects, others, At
    <2>3. s \in Status
      BY ResolvedType DEF Kept, TypeOK, Pass
    <2>4. Same(s, pass.status)
      BY <1>1 DEF Same, Resolved, Status, Birth
    <2>5. Same(pass.status, gest.status) /\ pass.status.birth.uid = deploy.uid
      BY <2>2 DEF Kept, Harmony, Lasting
    <2>6. Same(s, gest.status) /\ s.birth.uid = deploy.uid
      BY <2>4, <2>5 DEF Same
    <2>7. Tend(s) \/ pass' = [pass EXCEPT !.at = "score", !.status = s]
      BY <1>2 DEF AfterBirth
    <2> HIDE DEF s
    <2>8. CASE Tend(s)
      BY <2>2, <2>3, <2>6, <2>8, TendHarmony
    <2>9. CASE pass' = [pass EXCEPT !.at = "score", !.status = s]
      <3>1. /\ pass'.at = "score" /\ pass'.status = s
            /\ pass'.gMoved = pass.gMoved /\ pass'.dMoved = pass.dMoved
        BY <2>9 DEF Kept, TypeOK, Pass
      <3>2. QED
        BY <2>2, <2>6, <3>1 DEF Kept, Harmony, Launching, Delivering, Lasting, Undone, At
    <2>10. QED
      BY <2>7, <2>8, <2>9
  <1>3. CASE Apgar
    <2>1. UNCHANGED <<gest, deploy, extra, pdb, made>> /\ pass.at = "score"
      BY <1>3 DEF Apgar, objects, others, At
    <2>2. Same(pass.status, gest.status) /\ pass.status.birth.uid = deploy.uid
      BY <2>1 DEF Kept, Harmony, Lasting
    <2>3. CASE Goto("back")
      <3>1. /\ pass'.at = "back" /\ pass'.status = pass.status
            /\ pass'.gMoved = pass.gMoved /\ pass'.dMoved = pass.dMoved
        BY <2>3 DEF Goto, Kept, TypeOK, Pass
      <3>2. QED
        BY <2>1, <2>2, <3>1 DEF Kept, Harmony, Launching, Delivering, Lasting, Undone, At
    <2>4. CASE Tend(pass.status)
      BY <1>1, <2>1, <2>2, <2>4, TendHarmony
    <2>5. ASSUME NEW score \in Scores, Tend([pass.status EXCEPT !.score = score])
          PROVE  Harmony'
      <3>1. DEFINE s == [pass.status EXCEPT !.score = score]
      <3>2. s \in Status
        BY <1>1, ScoresType DEF Kept, Status
      <3>3. Same(s, gest.status)
        BY <1>1, <2>2 DEF Same, Status
      <3> HIDE DEF s
      <3>4. Tend(s)
        BY <2>5 DEF s
      <3>5. QED
        BY <2>1, <3>2, <3>3, <3>4, TendHarmony
    <2>6. QED
      BY <1>3, <2>3, <2>4, <2>5 DEF Apgar
  <1>4. CASE RollBack
    <2>1. pass.at = "back" /\ UNCHANGED <<gest, pdb, made>> /\ ~pass.dMoved
      BY <1>4 DEF RollBack, At, Kept, Harmony
    <2>2. /\ \E t \in Template : deploy' = [CareEnded(deploy) EXCEPT !.template = t]
          /\ ReplicaTaken
          /\ pass' = [pass EXCEPT !.at = "backPdb", !.status.birth.back = TRUE,
                                  !.status.care = NoCare]
      BY <1>4, <2>1 DEF RollBack, Unmoved, TemplateAt
    <2>3. CareEnded(deploy) \in DeploymentObject
      BY EndedType DEF Kept, TypeOK
    <2>4. ~deploy'.care /\ deploy'.uid = deploy.uid /\ extra' = 0
          /\ (pdb # 0 => pass.status.birth.pdb)
      BY <2>1, <2>2, <2>3, EndHarmony DEF DeploymentObject
    <2>5. /\ pass'.at = "backPdb" /\ pass'.gMoved = pass.gMoved /\ pass'.dMoved = pass.dMoved
          /\ pass'.status = [pass.status EXCEPT !.birth.back = TRUE, !.care = NoCare]
      BY <2>2 DEF Kept, TypeOK, Pass
    <2>6. pass'.status.birth.pdb = pass.status.birth.pdb
      BY <1>1, <2>5 DEF Status, Birth
    <2>7. QED
      BY <2>1, <2>4, <2>5, <2>6
         DEF Kept, Harmony, Launching, Delivering, Lasting, Undone, At
  <1>5. CASE Discharge
    <2>1. pass.at = "home" /\ UNCHANGED <<gest, pdb, made>> /\ ~pass.dMoved
      BY <1>5 DEF Discharge, At, Kept, Harmony
    <2>2. deploy' = CareEnded(deploy) /\ ReplicaTaken /\ Goto("homePdb")
      BY <1>5, <2>1 DEF Discharge, Unmoved
    <2>3. ~deploy'.care /\ deploy'.uid = deploy.uid /\ extra' = 0
          /\ (pdb # 0 => pass.status.birth.pdb)
      BY <2>1, <2>2, EndHarmony
    <2>4. /\ pass'.at = "homePdb" /\ pass'.status = pass.status
          /\ pass'.gMoved = pass.gMoved /\ pass'.dMoved = pass.dMoved
      BY <2>2 DEF Goto, Kept, TypeOK, Pass
    <2>5. QED
      BY <2>1, <2>3, <2>4
         DEF Kept, Harmony, Launching, Delivering, Lasting, Undone, At
  <1>6. ASSUME pass.at \in Undone, UNCHANGED <<gest, deploy, extra, made>>, pdb' = 0,
               NEW s \in Status, FinishLiving(s), ~InCare(s)
        PROVE  Harmony'
    <2>1. ~deploy.care /\ extra = 0 /\ pass.at \in Writing
      BY <1>6 DEF Kept, Harmony, Undone, Writing, Step
    <2>2. Agrees(deploy', extra', s) /\ Budgeted(pdb', s) /\ Recalled(s, made.deploy)
      BY <1>6, <2>1 DEF Agrees, Budgeted, Recalled
    <2>3. QED
      BY <1>6, <2>1, <2>2, FinishHarmony DEF FinishLiving
  <1>7. CASE RollBackPDB
    <2>1. DEFINE s == [pass.status EXCEPT !.score = [minute |-> 5, low |-> TRUE],
                                          !.phase = "RolledBack"]
    <2>2. pass.at = "backPdb" /\ UNCHANGED <<gest, deploy, extra, made>>
      BY <1>7 DEF RollBackPDB, others, At
    <2>3. FinishLiving(s) /\ pdb' = 0
      BY <1>7, <2>2 DEF RollBackPDB, DeletePDB, Kept, Harmony, Undone
    <2>4. s \in Status
      <3>1. "RolledBack" \in Phase
        BY Zenon DEF Phase
      <3>2. QED
        BY <1>1, <3>1 DEF Status, Score, Minute
    <2>5. ~InCare(s)
      BY <1>1 DEF InCare, Status
    <2> HIDE DEF s
    <2>6. QED
      BY <1>6, <2>2, <2>3, <2>4, <2>5 DEF Undone
  <1>8. CASE DischargePDB
    <2>1. DEFINE s == [pass.status EXCEPT !.care = 0, !.phase = "Grown"]
    <2>2. pass.at = "homePdb" /\ UNCHANGED <<gest, deploy, extra, made>>
      BY <1>8 DEF DischargePDB, others, At
    <2>3. FinishLiving(s) /\ pdb' = 0
      BY <1>8, <2>2 DEF DischargePDB, DeletePDB, Kept, Harmony, Undone
    <2>4. s \in Status
      <3>1. 0 \in 0 .. 3 /\ "Grown" \in Phase
        BY DEF Phase
      <3>2. QED
        BY <1>1, <3>1, CareType
    <2>5. ~InCare(s)
      BY <1>1 DEF InCare, Status
    <2> HIDE DEF s
    <2>6. QED
      BY <1>6, <2>2, <2>3, <2>4, <2>5 DEF Undone
  <1>9. QED
    BY <1>2, <1>3, <1>4, <1>5, <1>7, <1>8

(* A departure and the end of a pass keep the harmony. *)
LEMMA EndOfPassHarmony ==
    ASSUME Quiet, Kept, Depart \/ UpdateStatus \/ SyncNewborns \/ SaveMemory
    PROVE  Harmony'
  <1> USE QuietCalls
  <1>1. pass.status \in Status
    BY DEF Kept, TypeOK, Pass
  <1>2. CASE Depart
    <2>1. DEFINE s == [pass.status EXCEPT !.phase = "Departed", !.care = NoCare]
                 m == Closed(pass.mem, pass.status.birth.uid)
    <2>2. /\ UNCHANGED <<gest, deploy, extra, made>> /\ pass.at = "depart"
          /\ pass.at \in Writing
      BY <1>2 DEF Depart, others, At, Writing, Step
    <2>3. /\ Agrees(deploy, extra, gest.status) /\ Budgeted(pdb, gest.status)
          /\ Recalled(gest.status, made.deploy) /\ Same(pass.status, gest.status)
          /\ pass.status.birth.uid # deploy.uid
      BY <2>2 DEF Kept, Harmony, Undone, At
    <2>4. /\ Agrees(deploy, extra, pass.status) /\ Budgeted(pdb, pass.status)
          /\ Recalled(pass.status, made.deploy)
      BY <2>3, SameStatus
    <2>5. CASE pass.status.phase = "Departed"
      <3>1. Finish(pass.status, pass.mem) /\ pdb' = pdb
        BY <1>2, <2>5 DEF Depart, Abandon
      <3>2. QED
        BY <1>1, <2>2, <2>4, <3>1, FinishHarmony
    <2>6. CASE pass.status.phase # "Departed"
      <3>1. Finish(s, m) /\ (pdb' = 0 \/ (pdb' = pdb /\ ~pass.status.birth.pdb))
        BY <1>2, <2>6 DEF Depart, DeletePDB
      <3>2. pdb' = 0
        BY <2>4, <3>1 DEF Budgeted
      <3>3. s \in Status
        BY <1>1 DEF Status, Phase
      <3>4. ~InCare(s)
        BY <1>1 DEF InCare, Status
      <3>5. ~deploy.care /\ extra = 0
        BY <2>3, <2>4 DEF Agrees
      <3> HIDE DEF s, m
      <3>6. Agrees(deploy', extra', s) /\ Budgeted(pdb', s) /\ Recalled(s, made.deploy)
        BY <2>2, <3>2, <3>4, <3>5 DEF Agrees, Budgeted, Recalled
      <3>7. QED
        BY <2>2, <3>1, <3>3, <3>6, FinishHarmony
    <2>7. QED
      BY <2>5, <2>6
  <1>3. CASE UpdateStatus
    <2>1. /\ UNCHANGED <<deploy, extra, pdb, made>> /\ pass.at = "status" /\ ~pass.gMoved
          /\ Goto("newborns")
      BY <1>3 DEF UpdateStatus, others, At, Kept, Harmony
    <2>2. /\ pass'.at = "newborns" /\ pass'.gMoved = pass.gMoved
          /\ pass'.dMoved = pass.dMoved
      BY <2>1 DEF Goto, Kept, TypeOK, Pass
    <2>3. gest'.status = pass.status
      BY <1>3, <2>1 DEF UpdateStatus, Kept, TypeOK, GestationObject
    <2>4. QED
      BY <2>1, <2>2, <2>3 DEF Kept, Harmony, Launching, Delivering, Lasting, Undone, At
  <1>4. CASE SyncNewborns \/ SaveMemory
    <2>1. /\ UNCHANGED <<gest, deploy, extra, pdb, made>>
          /\ pass.at \in {"newborns", "memory"} /\ (Goto("memory") \/ pass' = Idle)
      BY <1>4 DEF SyncNewborns, SaveMemory, others, At
    <2>2. pass'.at \in {"memory", "idle"} /\ ~pass'.gMoved /\ ~pass'.dMoved
      <3>1. ~pass.gMoved /\ ~pass.dMoved
        BY DEF Kept, Harmony
      <3>2. QED
        <4>1. CASE Goto("memory")
          BY <3>1, <4>1 DEF Goto, Kept, TypeOK, Pass
        <4>2. CASE pass' = Idle
          BY <4>2 DEF Idle
        <4>3. QED
          BY <2>1, <4>1, <4>2
    <2>3. QED
      BY <2>1, <2>2 DEF Kept, Harmony, Launching, Delivering, Lasting, Undone, At
  <1>5. QED
    BY <1>2, <1>3, <1>4

(* So does what others do between passes: a new Deployment is not the one on record. *)
LEMMA OthersHarmony ==
    ASSUME Quiet, Kept, Users \/ Cluster \/ Time \/ Crash \/ UNCHANGED vars
    PROVE  Harmony'
  <1> USE QuietCalls
  <1>1. CASE UNCHANGED vars
    BY <1>1 DEF vars, Kept, Harmony, Launching, Delivering, Lasting, Undone, At
  <1>2. CASE CatchUp
    BY <1>2 DEF CatchUp, objects, others, Kept, Harmony, Launching, Delivering, Lasting,
       Undone, At
  <1>3. CASE /\ Users \/ Cluster \/ Time
             /\ ~CatchUp
    <2>1. At("idle")
      BY <1>3 DEF Users, Conceive, EndGestation, Apply, Remove, Rollout, Scale,
         NameCaregivers, Edit, Deliver, PatchDelivery, Screen, ToggleHpa, TogglePdb, Move,
         Cluster, CollectGarbage, Placeholders, Observe, Progress, Time, Grow, Age, GraceOver
    <2>2. pass' = pass \/ DeploymentMoved \/ GestationMoved
      BY <1>3 DEF Users, Conceive, EndGestation, Apply, Remove, Rollout, Scale,
         NameCaregivers, Edit, Deliver, PatchDelivery, Screen, ToggleHpa, TogglePdb,
         Cluster, CollectGarbage, Placeholders, Observe, Progress, Time, Grow, Age, GraceOver
    <2>3. pass'.at = "idle" /\ ~pass'.gMoved /\ ~pass'.dMoved
      BY <2>1, <2>2 DEF DeploymentMoved, GestationMoved, Holding, At, Kept, TypeOK, Pass,
         Harmony
    <2>4. /\ Agrees(deploy, extra, gest.status) /\ Budgeted(pdb, gest.status)
          /\ Recalled(gest.status, made.deploy) /\ deploy.uid <= made.deploy
          /\ deploy.uid \in Nat /\ made.deploy \in Nat
      BY <2>1 DEF At, Kept, Harmony, Undone, TypeOK, DeploymentObject
    <2>5. CASE Apply
      <3>1. /\ UNCHANGED <<gest, pdb>> /\ extra' = 0
            /\ deploy'.uid = made.deploy + 1 /\ made'.deploy = made.deploy + 1
            /\ deploy'.care = NoDeployment.care
        BY <2>5, EmptyType DEF Apply, DeploymentObject, Kept, TypeOK
      <3>2. ~deploy'.care
        BY <3>1 DEF NoDeployment
      <3>3. /\ Agrees(deploy', extra', gest'.status) /\ Budgeted(pdb', gest'.status)
            /\ Recalled(gest'.status, made'.deploy)
        BY <2>4, <3>1, <3>2 DEF Agrees, Budgeted, Recalled
      <3>4. QED
        BY <2>1, <2>3, <2>4, <3>1, <3>3, RestHarmony
    <2>6. CASE Remove
      <3>1. /\ UNCHANGED <<gest, pdb, made>> /\ extra' = 0 /\ deploy' = NoDeployment
        BY <2>6 DEF Remove
      <3>2. ~NoDeployment.care /\ NoDeployment.uid = 0
        BY DEF NoDeployment
      <3>3. Agrees(deploy', extra', gest'.status)
        BY <2>4, <3>1, <3>2 DEF Agrees, Recalled
      <3>4. QED
        BY <2>1, <2>3, <2>4, <3>1, <3>2, <3>3, RestHarmony
    <2>7. CASE ~Apply /\ ~Remove
      <3>1. /\ extra' = extra /\ made'.deploy = made.deploy
            /\ pdb' = pdb \/ pdb' = 0
        BY <1>3, <2>7 DEF Users, Conceive, EndGestation, Rollout, Scale,
           NameCaregivers, Edit, Deliver, PatchDelivery, Screen, ToggleHpa, TogglePdb,
           Cluster, CollectGarbage, Placeholders, Observe, Progress, Time, Grow, Age,
           GraceOver, objects, times, others, Kept, TypeOK
      <3>2. /\ deploy'.uid = deploy.uid /\ deploy'.care = deploy.care
            /\ deploy'.replicas = deploy.replicas
        <4>1. \A m, d : Edit(m, d) => deploy' = d
          BY DEF Edit
        <4>2. CASE Rollout \/ NameCaregivers \/ Observe
          BY <4>1, <4>2 DEF Rollout, NameCaregivers, Observe, Kept, TypeOK, DeploymentObject
        <4>3. CASE ~Rollout /\ ~NameCaregivers /\ ~Observe
          <5>1. deploy' = deploy
            BY <1>3, <2>7, <4>3 DEF Users, Conceive, EndGestation, Scale, Deliver,
               PatchDelivery, Screen, ToggleHpa, TogglePdb, Cluster, CollectGarbage,
               Placeholders, Progress, Time, Grow, Age, GraceOver, objects
          <5>2. QED
            BY <5>1
        <4>4. QED
          BY <4>2, <4>3
      <3>3. Same(gest'.status, gest.status)
        <4>1. CASE Conceive
          <5>1. gest = NoGestation /\ NoGestation.status = Expected
            BY <4>1 DEF Conceive, Kept, RoomInv, Current, NoGestation
          <5>2. gest'.status = Expected
            BY <4>1 DEF Conceive, NoGestation
          <5>3. QED
            BY <5>1, <5>2 DEF Same
        <4>2. CASE GraceOver
          <5>1. gest'.status = [gest.status EXCEPT !.waited = TRUE]
            BY <4>2 DEF GraceOver, Kept, TypeOK, GestationObject
          <5>2. QED
            BY <5>1 DEF Same, Kept, TypeOK, GestationObject, Status
        <4>3. CASE ~Conceive /\ ~GraceOver
          <5>1. gest'.status = gest.status
            BY <1>3, <2>7, <4>3 DEF Users, EndGestation, Rollout, Scale,
               NameCaregivers, Edit, Deliver, PatchDelivery, Screen, ToggleHpa, TogglePdb,
               Cluster, CollectGarbage, Placeholders, Observe, Progress, Time, Grow, Age,
               objects, Kept, TypeOK, GestationObject
          <5>2. QED
            BY <5>1 DEF Same
        <4>4. QED
          BY <4>1, <4>2, <4>3
      <3>4. /\ Agrees(deploy', extra', gest.status) /\ Budgeted(pdb', gest.status)
        BY <2>4, <3>1, <3>2 DEF Agrees, Budgeted
      <3>5. /\ Agrees(deploy', extra', gest'.status) /\ Budgeted(pdb', gest'.status)
            /\ Recalled(gest'.status, made'.deploy)
        BY <2>4, <3>1, <3>3, <3>4, SameStatus
      <3>6. QED
        BY <2>1, <2>3, <2>4, <3>1, <3>2, <3>5, RestHarmony
    <2>8. QED
      BY <2>5, <2>6, <2>7
  <1>4. QED
    BY <1>1, <1>2, <1>3 DEF Cluster

(* The harmony holds for good in quiet times. *)
LEMMA KeptHolds == ASSUME Quiet PROVE Spec => []Kept
  <1>1. Init => Faithful
    BY DEF Init, Idle, Faithful, Relying, Holding, At
  <1>2. TypeOK /\ Faithful /\ [Next]_vars => Faithful'
    BY ControllerFaithful, OthersFaithful DEF Next
  <1>3. Init => Harmony
    <2>1. SUFFICES ASSUME Init PROVE Harmony
      OBVIOUS
    <2>2. /\ gest = NoGestation /\ deploy = NoDeployment /\ pass = Idle /\ pdb = 0
          /\ extra = 0 /\ made.deploy = 0
      BY <2>1 DEF Init
    <2>3. /\ Idle.at = "idle" /\ ~Idle.gMoved /\ ~Idle.dMoved
          /\ NoDeployment.uid = 0 /\ ~NoDeployment.care
      BY DEF Idle, NoDeployment
    <2>4. ~InCare(NoGestation.status)
      BY DEF NoGestation, Expected, InCare
    <2>5. QED
      BY <2>2, <2>3, <2>4 DEF Harmony, Agrees, Budgeted, Recalled, Launching, Delivering,
         Lasting, Undone, At
  <1>4. Kept /\ [Next]_vars => Harmony'
    BY BeginHarmony, LaunchHarmony, LifeHarmony, EndOfPassHarmony, OthersHarmony
       DEF Next, Controller
  <1>5. NoError
    BY QuietCalls
  <1>6. Spec => []Telling
    BY <1>5, TellingHolds
  <1>7. QED
    BY <1>1, <1>2, <1>3, <1>4, <1>6, TypeCorrect, RoomHolds, PTL DEF Spec, Kept

(* In quiet times one birth adds one replica at most and the end of care takes back
   what the birth added: nothing is left over, nothing is taken twice. *)
THEOREM ReplicaIsTakenBack == ASSUME Quiet PROVE Spec => []OneExtra
  <1>1. Kept => OneExtra
    <2>1. SUFFICES ASSUME Kept PROVE OneExtra
      OBVIOUS
    <2>2. extra \in {0, 1} /\ (extra = 1 => deploy.care)
      <3>1. CASE pass.at \in Undone
        BY <2>1, <3>1 DEF Kept, Harmony
      <3>2. CASE pass.at = "status"
        BY <2>1, <3>2 DEF Kept, Harmony, Agrees, At
      <3>3. CASE pass.at \notin {"status"} \cup Undone
        BY <2>1, <3>3 DEF Kept, Harmony, Agrees
      <3>4. QED
        BY <3>1, <3>2, <3>3
    <2>3. At("idle") => Agrees(deploy, extra, gest.status)
      <3>1. At("idle") => pass.at \notin {"status"} \cup Undone
        BY DEF At, Undone
      <3>2. QED
        BY <2>1, <3>1 DEF Kept, Harmony
    <2>4. QED
      BY <2>2, <2>3 DEF OneExtra, Agrees
  <1>2. QED
    BY <1>1, KeptHolds, PTL

(* And between passes the budget is there only for a newborn in care who remembers
   having created it. *)
THEOREM BudgetGoesWithCare == ASSUME Quiet PROVE Spec => []BudgetInCare
  <1>1. Kept => BudgetInCare
    BY DEF Kept, Harmony, Budgeted, BudgetInCare, At, Undone
  <1>2. QED
    BY <1>1, KeptHolds, PTL

---------------------------------------------------------------------------
\* What the owners are promised.

\* Some template has the newest revision.
Numbered == \E t \in Template : \A u \in Template : deploy.revisions[u] <= deploy.revisions[t]

(* The newest of revisions that have one is it. *)
LEMMA NewestTop ==
    ASSUME NEW ns \in SUBSET Nat, NEW top \in ns, \A m \in ns : m <= top
    PROVE  Newest(ns) = top
  <1>1. DEFINE last == {n \in ns : \A m \in ns : m <= n}
  <1>2. top \in last
    OBVIOUS
  <1>3. Newest(ns) = CHOOSE n \in last : TRUE
    BY <1>2 DEF Newest
  <1>4. Newest(ns) \in last
    BY <1>2, <1>3
  <1>5. Newest(ns) \in ns /\ \A m \in ns : m <= Newest(ns)
    BY <1>4
  <1>6. Newest(ns) \in Nat /\ top \in Nat /\ top <= Newest(ns) /\ Newest(ns) <= top
    BY <1>5
  <1>7. QED
    BY <1>6

(* The deployment controller numbers the running template above all others, or
   leaves the numbers alone. *)
LEMMA ObserveNumbers ==
    ASSUME TypeOK, Numbered, Observe
    PROVE  /\ Numbered'
           /\ \/ deploy'.revisions = deploy.revisions
              \/ \E n \in Nat : /\ \A t \in Template : deploy.revisions[t] < n
                                /\ deploy'.revisions = [deploy.revisions EXCEPT
                                                          ![deploy.template] = n]
           /\ deploy'.uid = deploy.uid /\ deploy'.care = deploy.care
           /\ deploy'.named = deploy.named /\ deploy'.template = deploy.template
  <1>1. DEFINE newest == Newest({deploy.revisions[t] : t \in Template})
  <1>2. /\ deploy.template \in Template /\ deploy.revisions \in [Template -> Nat]
        /\ deploy \in DeploymentObject
    BY DEF TypeOK, DeploymentObject, Revisions
  <1>3. PICK top \in Template : \A u \in Template : deploy.revisions[u] <= deploy.revisions[top]
    BY DEF Numbered
  <1>4. newest = deploy.revisions[top]
    BY <1>2, <1>3, NewestTop
  <1>5. newest \in Nat /\ \A t \in Template : deploy.revisions[t] <= newest
    BY <1>2, <1>3, <1>4
  <1>6. deploy' = [deploy EXCEPT
             !.observed = TRUE,
             !.revisions[deploy.template] =
                IF deploy.paused \/ (@ = newest /\ @ # 0) THEN @ ELSE newest + 1]
    BY DEF Observe
  <1> HIDE DEF newest
  <1>7. /\ deploy'.uid = deploy.uid /\ deploy'.care = deploy.care
        /\ deploy'.named = deploy.named /\ deploy'.template = deploy.template
    BY <1>2, <1>6 DEF DeploymentObject
  <1>8. \/ deploy'.revisions = deploy.revisions
        \/ deploy'.revisions = [deploy.revisions EXCEPT ![deploy.template] = newest + 1]
    BY <1>2, <1>6 DEF DeploymentObject
  <1>9. CASE deploy'.revisions = deploy.revisions
    BY <1>7, <1>9 DEF Numbered
  <1>10. CASE deploy'.revisions = [deploy.revisions EXCEPT ![deploy.template] = newest + 1]
    <2>1. /\ deploy'.revisions[deploy.template] = newest + 1
          /\ \A t \in Template : deploy'.revisions[t] <= newest + 1
      BY <1>2, <1>5, <1>10
    <2>2. Numbered'
      BY <1>2, <2>1 DEF Numbered
    <2>3. newest + 1 \in Nat /\ \A t \in Template : deploy.revisions[t] < newest + 1
      BY <1>2, <1>5
    <2>4. QED
      BY <1>7, <1>10, <2>2, <2>3
  <1>11. QED
    BY <1>8, <1>9, <1>10

(* Nobody else numbers revisions. *)
LEMMA NumberedStep ==
    ASSUME TypeOK, Numbered, [Next]_vars
    PROVE  Numbered'
  <1>1. CASE Observe
    BY <1>1, ObserveNumbers
  <1>2. CASE Apply \/ Remove
    <2>1. deploy'.revisions = [t \in Template |-> 0]
      <3>1. NoDeployment.revisions = [t \in Template |-> 0]
        BY DEF NoDeployment
      <3>2. QED
        BY <1>2, <3>1, EmptyType DEF Apply, Remove, DeploymentObject
    <2>2. QED
      BY <2>1 DEF Numbered
  <1>3. CASE ~Observe /\ ~Apply /\ ~Remove
    <2>1. deploy'.revisions = deploy.revisions
      <3>1. \A m, d : Edit(m, d) => deploy' = d
        BY DEF Edit
      <3>2. deploy \in DeploymentObject /\ CareEnded(deploy) \in DeploymentObject
        BY EndedType DEF TypeOK
      <3>3. CareEnded(deploy).revisions = deploy.revisions
        BY <3>2 DEF CareEnded, DeploymentObject
      <3>4. RollBack => deploy'.revisions = deploy.revisions
        BY <3>2, <3>3 DEF RollBack, DeploymentObject
      <3>5. Rollout \/ Scale \/ NameCaregivers \/ Bear \/ Discharge
              => deploy'.revisions = deploy.revisions
        BY <3>1, <3>2, <3>3 DEF Rollout, Scale, NameCaregivers, Bear, Launched, Discharge,
           DeploymentObject
      <3>6. QED
        BY <1>3, <3>4, <3>5 DEF Next, Controller, BeginPass, Look, EnsurePlacenta,
           ReleasePlacenta, SetNewborn, Plan, CreatePDB, AfterBirth, Apgar, RollBackPDB,
           DischargePDB, Depart, UpdateStatus, SyncNewborns, SaveMemory, Users, Conceive,
           EndGestation, Deliver, PatchDelivery, Screen, ToggleHpa, TogglePdb, Cluster,
           CollectGarbage, Placeholders, Progress, CatchUp, Time, Grow, Age, GraceOver,
           Crash, objects, vars
    <2>2. QED
      BY <2>1 DEF Numbered
  <1>4. QED
    BY <1>1, <1>2, <1>3

(* The steps of the launch are steps of the promise. *)
LEMMA ControllerPromise ==
    ASSUME Quiet, Kept, Controller
    PROVE  [Promise!Next]_(Promise!vars)
  <1> USE QuietCalls
  <1>1. deploy \in DeploymentObject
    BY DEF Kept, TypeOK
  <1>2. CASE Bear
    <2>1. /\ pass.at = "bear" /\ ~pass.dMoved /\ deploy.uid # 0 /\ ~deploy.care /\ extra = 0
      BY <1>2 DEF Bear, At, Kept, Harmony, Launching, Delivering, Agrees, Undone
    <2>2. /\ deploy' = Launched(deploy) /\ scoredLow' = scoredLow
          /\ extra' = extra + (IF pass.added THEN 1 ELSE 0)
      BY <1>2, <2>1 DEF Bear, Unmoved
    <2>3. /\ deploy'.care /\ deploy'.uid = deploy.uid /\ deploy'.named = deploy.named
          /\ deploy'.template = deploy.template /\ deploy'.revisions = deploy.revisions
      BY <1>1, <2>2 DEF Launched, DeploymentObject
    <2>4. extra' \in {0, 1}
      BY <2>1, <2>2
    <2>5. Promise!Birth
      BY <2>1, <2>2, <2>3, <2>4 DEF Promise!Birth
    <2>6. QED
      BY <2>5 DEF Promise!Next
  <1>3. CASE Discharge
    <2>1. pass.at = "home" /\ ~pass.dMoved /\ pass.d.named
      BY <1>3 DEF Discharge, At, Kept, Harmony, Faithful
    <2>2. deploy' = CareEnded(deploy) /\ ReplicaTaken /\ scoredLow' = scoredLow
      BY <1>3, <2>1 DEF Discharge, Unmoved
    <2>3. deploy.care /\ pass.d = deploy /\ extra' = 0
      BY <2>1, <2>2, EndHarmony
    <2>4. /\ ~deploy'.care /\ deploy'.uid = deploy.uid /\ deploy'.named = deploy.named
          /\ deploy'.template = deploy.template /\ deploy'.revisions = deploy.revisions
      BY <1>1, <2>2 DEF CareEnded, DeploymentObject
    <2>5. Promise!GoHome
      BY <2>1, <2>2, <2>3, <2>4 DEF Promise!GoHome
    <2>6. QED
      BY <2>5 DEF Promise!Next
  <1>4. CASE RollBack
    <2>1. DEFINE born == pass.status.birth.revision
                 previous == pass.status.birth.previous
    <2>2. pass.at = "back" /\ ~pass.dMoved
      BY <1>4 DEF RollBack, At, Kept, Harmony
    <2>3. deploy.care /\ pass.d = deploy
      BY <2>2, EndHarmony
    <2>4. PICK t \in Template : /\ deploy.revisions[t] = previous
                                /\ deploy' = [CareEnded(deploy) EXCEPT !.template = t]
      BY <1>4, <2>2, <2>3 DEF RollBack, Unmoved, TemplateAt
    <2>5. extra' = 0 /\ scoredLow' = Append(scoredLow, born)
      BY <1>4, <2>2, EndHarmony DEF RollBack, Unmoved
    <2>6. CareEnded(deploy) \in DeploymentObject
      BY <1>1, EndedType
    <2>7. /\ CareEnded(deploy).care = FALSE /\ CareEnded(deploy).uid = deploy.uid
          /\ CareEnded(deploy).named = deploy.named
          /\ CareEnded(deploy).revisions = deploy.revisions
      BY <1>1 DEF CareEnded, DeploymentObject
    <2>8. /\ ~deploy'.care /\ deploy'.uid = deploy.uid /\ deploy'.named = deploy.named
          /\ deploy'.template = t /\ deploy'.revisions = deploy.revisions
      BY <2>4, <2>6, <2>7 DEF DeploymentObject
    <2>9. born \in Nat /\ previous \in Nat /\ scoredLow \in Seq(Nat)
      BY DEF Kept, TypeOK, Pass, Status, Birth, Rejections
    <2>10. previous \in 1 .. born - 1
      <3>1. Coherent(pass.status) /\ previous # 0
        <4>1. pass.at \in Writing \ {"backPdb"}
          BY <2>2 DEF Writing, Step
        <4>2. QED
          BY <2>2, <4>1 DEF Kept, Telling, At
      <3>2. previous < born
        BY <3>1 DEF Coherent
      <3>3. QED
        <4>1. \A a, b \in Nat : b # 0 /\ b < a => b \in 1 .. a - 1
          OBVIOUS
        <4>2. QED
          BY <2>9, <3>1, <3>2, <4>1, Zenon
    <2> HIDE DEF born, previous
    <2>11. /\ Len(scoredLow) + 1 \in DOMAIN scoredLow'
           /\ scoredLow'[Len(scoredLow) + 1] = born
      BY <2>5, <2>9
    <2>12. Promise!GoBack
      <3>1. \E i \in DOMAIN scoredLow' :
              /\ scoredLow' = Append(scoredLow, scoredLow'[i])
              /\ deploy.revisions[deploy'.template] \in 1 .. scoredLow'[i] - 1
        BY <2>4, <2>5, <2>8, <2>10, <2>11
      <3>2. QED
        BY <2>3, <2>5, <2>8, <3>1 DEF Promise!GoBack
    <2>13. QED
      BY <2>12 DEF Promise!Next
  <1>5. CASE ~Bear /\ ~Discharge /\ ~RollBack
    <2>1. UNCHANGED <<deploy, extra, scoredLow>>
      BY <1>5 DEF Controller, BeginPass, Look, EnsurePlacenta, ReleasePlacenta, SetNewborn,
         Plan, CreatePDB, AfterBirth, Apgar, RollBackPDB, DischargePDB, Depart,
         UpdateStatus, SyncNewborns, SaveMemory, objects, others
    <2>2. QED
      BY <2>1 DEF Promise!vars
  <1>6. QED
    BY <1>2, <1>3, <1>4, <1>5

(* So is what everyone else does, whenever they do it. *)
LEMMA OthersPromise ==
    ASSUME TypeOK, Numbered, ~Scale, Users \/ Cluster \/ Time \/ Crash \/ UNCHANGED vars
    PROVE  [Promise!Next]_(Promise!vars)
  <1>1. deploy \in DeploymentObject
    BY DEF TypeOK
  <1>2. /\ NoDeployment \in DeploymentObject /\ NoDeployment.uid = 0
        /\ ~NoDeployment.care /\ ~NoDeployment.named
        /\ NoDeployment.template \in Template
        /\ NoDeployment.revisions = [t \in Template |-> 0]
    BY EmptyType DEF NoDeployment, DeploymentObject
  <1>3. CASE Apply
    <2>1. /\ deploy.uid = 0 /\ deploy'.uid = made.deploy + 1
          /\ extra' = 0 /\ scoredLow' = <<>> /\ deploy'.template \in Template
          /\ deploy'.care = NoDeployment.care /\ deploy'.named \in BOOLEAN
          /\ deploy'.revisions = NoDeployment.revisions
      <3>1. deploy.uid = 0 /\ extra' = 0 /\ scoredLow' = <<>>
        BY <1>3 DEF Apply
      <3>2. NoDeployment \in DeploymentObject
        BY EmptyType
      <3>3. PICK start \in {[r |-> 0, p |-> FALSE], [r |-> Planned, p |-> TRUE],
                             [r |-> Planned, p |-> FALSE]}, t \in Template,
                 n \in {FALSE} \cup (IF "prenamed" \in User THEN {TRUE} ELSE {}) :
              deploy' = [NoDeployment EXCEPT !.uid = made.deploy + 1,
                                             !.replicas = start.r, !.paused = start.p,
                                             !.template = t, !.named = n,
                                             !.observed = FALSE]
        BY <1>3, Zenon DEF Apply
      <3>4. n \in BOOLEAN
        OBVIOUS
      <3>5. QED
        BY <3>1, <3>2, <3>3, <3>4 DEF DeploymentObject
    <2>2. deploy'.uid \in Nat \ {0}
      BY <2>1 DEF TypeOK
    <2>3. Promise!Fresh'
      BY <1>2, <2>1 DEF Promise!Fresh
    <2>4. QED
      BY <2>1, <2>2, <2>3 DEF Promise!Next, Promise!Arrive
  <1>4. CASE Remove
    <2>1. deploy.uid # 0 /\ deploy' = NoDeployment /\ extra' = 0 /\ scoredLow' = <<>>
      BY <1>4 DEF Remove
    <2>2. Promise!Fresh'
      BY <1>2, <2>1 DEF Promise!Fresh
    <2>3. QED
      BY <1>2, <2>1, <2>2 DEF Promise!Next, Promise!Leave
  <1>5. CASE Rollout
    <2>1. PICK t \in Template \ {deploy.template} :
            /\ deploy' = [deploy EXCEPT !.template = t, !.observed = FALSE]
            /\ deploy.uid # 0 /\ extra' = extra /\ scoredLow' = scoredLow
      BY <1>5 DEF Rollout, Edit
    <2>2. /\ deploy'.template = t /\ deploy'.uid = deploy.uid /\ deploy'.care = deploy.care
          /\ deploy'.named = deploy.named /\ deploy'.revisions = deploy.revisions
      BY <1>1, <2>1 DEF DeploymentObject
    <2>3. QED
      BY <2>1, <2>2 DEF Promise!Next, Promise!Rollout
  <1>6. CASE NameCaregivers
    <2>1. /\ deploy' = [deploy EXCEPT !.named = ~deploy.named]
          /\ deploy.uid # 0 /\ extra' = extra /\ scoredLow' = scoredLow
      BY <1>6 DEF NameCaregivers, Edit
    <2>2. /\ deploy'.named = ~deploy.named /\ deploy'.uid = deploy.uid
          /\ deploy'.care = deploy.care /\ deploy'.template = deploy.template
          /\ deploy'.revisions = deploy.revisions
      BY <1>1, <2>1 DEF DeploymentObject
    <2>3. QED
      BY <2>1, <2>2 DEF Promise!Next, Promise!Name
  <1>7. CASE Observe
    <2>1. deploy.uid # 0 /\ extra' = extra /\ scoredLow' = scoredLow
      BY <1>7 DEF Observe
    <2>2. CASE deploy'.revisions = deploy.revisions
      BY <1>7, <2>1, <2>2, ObserveNumbers DEF Promise!vars
    <2>3. CASE deploy'.revisions # deploy.revisions
      <3>1. PICK n \in Nat : /\ \A t \in Template : deploy.revisions[t] < n
                             /\ deploy'.revisions = [deploy.revisions EXCEPT
                                                       ![deploy.template] = n]
        BY <1>7, <2>3, ObserveNumbers
      <3>2. deploy'.revisions[deploy.template] = n
        BY <1>1, <3>1 DEF DeploymentObject, Revisions
      <3>3. Promise!Number
        BY <1>7, <2>1, <3>1, <3>2, ObserveNumbers DEF Promise!Number
      <3>4. QED
        BY <3>3 DEF Promise!Next
    <2>4. QED
      BY <2>2, <2>3
  <1>8. CASE ~Apply /\ ~Remove /\ ~Rollout /\ ~NameCaregivers /\ ~Observe
    <2>1. UNCHANGED <<deploy, extra, scoredLow>>
      BY <1>8 DEF Users, Conceive, EndGestation, Deliver, PatchDelivery, Screen, ToggleHpa,
         TogglePdb, Cluster, CollectGarbage, Placeholders, Progress, CatchUp, Time, Grow,
         Age, GraceOver, Crash, objects, others, vars
    <2>2. QED
      BY <2>1 DEF Promise!vars
  <1>9. QED
    BY <1>3, <1>4, <1>5, <1>6, <1>7, <1>8

(* In quiet times the service is born, kept in care and sent home or back as its
   owners are promised: with two caregivers, or to an older revision. *)
THEOREM PromiseKept == ASSUME Quiet PROVE Spec => ImplementsServiceLife
  <1>1. Init => Numbered /\ Promise!Init
    <2>1. SUFFICES ASSUME Init PROVE Numbered /\ Promise!Init
      OBVIOUS
    <2>2. deploy = NoDeployment /\ extra = 0 /\ scoredLow = <<>>
      BY <2>1 DEF Init
    <2>3. /\ NoDeployment.uid = 0 /\ ~NoDeployment.care /\ ~NoDeployment.named
          /\ NoDeployment.template \in Template
          /\ NoDeployment.revisions = [t \in Template |-> 0]
      BY EmptyType DEF NoDeployment, DeploymentObject
    <2>4. deploy.uid = 0 /\ ~deploy.care /\ ~deploy.named /\ deploy.template \in Template
      BY <2>2, <2>3
    <2>5. deploy.revisions = [t \in Template |-> 0]
      BY <2>2, <2>3
    <2>6. Numbered
      <3>1. \A t \in Template : deploy.revisions[t] = 0
        BY <2>5
      <3>2. deploy.template \in Template
        BY <2>4
      <3>3. \A u \in Template : deploy.revisions[u] <= deploy.revisions[deploy.template]
        <4>1. TAKE u \in Template
        <4>2. deploy.revisions[u] = 0 /\ deploy.revisions[deploy.template] = 0
          BY <3>1, <3>2
        <4>3. QED
          BY <4>2
      <3>4. QED
        BY <3>2, <3>3 DEF Numbered
    <2>7. Promise!Init
      BY <2>2, <2>4, <2>5 DEF Promise!Init, Promise!Fresh
    <2>8. QED
      BY <2>6, <2>7
  <1>2. TypeOK /\ Numbered /\ [Next]_vars => Numbered'
    BY NumberedStep
  <1>3. Kept /\ Numbered /\ [Next]_vars => [Promise!Next]_(Promise!vars)
    <2>1. SUFFICES ASSUME Kept, Numbered, [Next]_vars
                   PROVE  [Promise!Next]_(Promise!vars)
      OBVIOUS
    <2>2. CASE Controller
      BY <2>1, <2>2, ControllerPromise
    <2>3. CASE Users \/ Cluster \/ Time \/ Crash \/ UNCHANGED vars
      BY <2>1, <2>3, QuietCalls, OthersPromise DEF Kept
    <2>4. QED
      BY <2>1, <2>2, <2>3 DEF Next
  <1>4. QED
    BY <1>1, <1>2, <1>3, KeptHolds, TypeCorrect, PTL
       DEF Spec, ImplementsServiceLife, Promise!Spec
=============================================================================
