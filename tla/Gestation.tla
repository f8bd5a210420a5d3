----------------------------- MODULE Gestation -----------------------------
(***************************************************************************)
(* One service's launch: the passes of the gestation controller (Sync of   *)
(* controller/gestation) over its Gestation, Deployment, placeholders,     *)
(* budget, namespace entry and record, beside the users, the deployment    *)
(* controller and the garbage collector that change the same objects.      *)
(*                                                                         *)
(* A step of a pass is one call to the API server.  What the pass has read *)
(* lives in pass: g and d are its copies, status the Gestation's status as *)
(* it is about to be written.  uid 0 stands for an object that is absent.  *)
(***************************************************************************)
EXTENDS Integers, FiniteSets, Sequences

CONSTANTS
    Planned,        \* spec.replicas
    AutoRollback,   \* spec.autoRollback
    Conceived,      \* the trimester in which the first Gestation is made
    Fault,          \* which of Faults may happen
    User,           \* which of Moves the users make
    Template,       \* pod templates the users apply
    MaxReplicas, MaxGest, MaxUid, MaxScreens, MaxFaults, MaxMoves, MaxAge

\* error: a call fails; lost: it succeeds and its answer is lost; crash: the
\* controller restarts; race: others act during a pass; lag: informers lag.
Faults == {"error", "lost", "crash", "race", "lag"}
\* prenamed: manifests may come with their caregivers; again: deliver after a rollback.
Moves == {"conceive", "end", "apply", "prenamed", "remove", "rollout", "scale",
          "name", "deliver", "again", "screen", "pdb", "hpa", "progress"}

ASSUME PlannedAssumption == Planned \in Nat \ {0}
ASSUME RollbackAssumption == AutoRollback \in BOOLEAN
ASSUME ConceivedAssumption == Conceived \in 0 .. 3
ASSUME FaultAssumption == Fault \subseteq Faults /\ User \subseteq Moves
ASSUME TemplateAssumption == Template \subseteq Nat \ {0} /\ Template # {}
ASSUME BoundAssumption ==
    {MaxReplicas, MaxGest, MaxUid, MaxScreens, MaxFaults, MaxMoves, MaxAge} \subseteq Nat

VARIABLES
    gest,       \* the Gestation
    deploy,     \* the service's Deployment, with the revisions of its ReplicaSets
    placenta,   \* uid of the Gestation that owns <name>-placenta, and its size
    held,       \* placeholder pods hold room
    pdb,        \* uid of the Gestation that owns <name>-newborn
    otherPdb,   \* another budget covers the service's pods
    hpa,        \* an autoscaler targets the Deployment
    entry,      \* tier in the namespace's newborn-care annotation, 0 for none
    memory,     \* the microchimerism record of every Deployment
    seen,       \* the Deployment's uid in the informer cache
    nsSeen,     \* the namespace's entry in the informer cache
    trimester,  \* 1, 2, 3, then 0: due
    age,        \* time since the birth, in Ages
    pass,       \* the controller's pass
    asked,      \* the delivery kyvctl is about to ask for, 0 for none
    faults, moves,  \* how many faults and users' moves there were
    made,       \* how many Gestations and Deployments there were
    extra,      \* observed: replicas newborn care added and did not take back
    scoredLow   \* observed: revisions that were rolled back from, in order

objects == <<gest, deploy, placenta, held, pdb, otherPdb, hpa, entry, memory>>
caches == <<seen, nsSeen>>
times == <<trimester, age>>
others == <<asked, moves, made, extra, scoredLow>>
vars == <<gest, deploy, placenta, held, pdb, otherPdb, hpa, entry, memory,
          seen, nsSeen, trimester, age, pass, asked, faults, moves, made, extra, scoredLow>>

\* Since birth: under 1 minute, 5, 10, 15, 20 minutes, 24, 48, 72 hours, more.
Ages == 0 .. 8
\* The age at which a score's minute has come.
Reached(minute) == CASE minute = 1 -> 1 [] minute = 5 -> 2 [] minute = 10 -> 3
                     [] minute = 15 -> 4 [] OTHER -> 5
\* Wrong form: care ends a day early.
CareTierShort(a) == IF a <= 5 THEN 1 ELSE IF a = 6 THEN 2 ELSE 0
CareTier(a) == IF a <= 5 THEN 1 ELSE IF a = 6 THEN 2 ELSE IF a = 7 THEN 3 ELSE 0
LastTier == 3

Phase == {"", "Expecting", "Due", "Delivering", "NewbornCare", "NeedsCaregivers",
          "Grown", "RolledBack", "Departed"}
Birth == [uid : Nat, revision : Nat, previous : Nat, added : BOOLEAN,
          pdb : BOOLEAN, back : BOOLEAN]
NoBirth == [uid |-> 0, revision |-> 0, previous |-> 0, added |-> FALSE,
            pdb |-> FALSE, back |-> FALSE]
Minute == {0, 1, 5, 10, 15, 20}
Score == [minute : Minute, low : BOOLEAN]       \* the last Apgar score
NoScore == [minute |-> 0, low |-> FALSE]
NoCare == -1                                    \* status.care is nil
Status == [phase : Phase, delivery : Nat, waited : BOOLEAN, birth : Birth,
           score : Score, care : {NoCare} \cup 0 .. 3, screened : 0 .. 3,
           answered : Nat]
Expected == [phase |-> "", delivery |-> 0, waited |-> FALSE, birth |-> NoBirth,
             score |-> NoScore, care |-> NoCare, screened |-> 0, answered |-> 0]
GestationObject == [uid : Nat, delivery : Nat, screen : Nat, status : Status]
NoGestation == [uid |-> 0, delivery |-> 0, screen |-> 0, status |-> Expected]

Revisions == [Template -> Nat]                  \* of the ReplicaSets, 0 for none
Rejections == Seq(Nat)                          \* revisions, the last one last
DeploymentObject == [uid : Nat, replicas : Nat, paused : BOOLEAN, care : BOOLEAN,
                     named : BOOLEAN, template : Template, observed : BOOLEAN,
                     revisions : Revisions]
NoDeployment == [uid |-> 0, replicas |-> 0, paused |-> FALSE, care |-> FALSE,
                 named |-> FALSE, template |-> CHOOSE t \in Template : TRUE,
                 observed |-> TRUE, revisions |-> [t \in Template |-> 0]]

Life == {"none", "open", "closed"}
Memory == [1 .. MaxUid -> Life]
Lives == [known : BOOLEAN, at : Memory]         \* what loadMemory returned

Step == {"idle", "look", "release", "protect", "plan", "budget", "bear", "ensure",
         "depart", "alive", "score", "back", "backPdb", "home", "homePdb", "status",
         "newborns", "memory"}
Pass == [at : Step, g : GestationObject, d : DeploymentObject, status : Status,
         mem : Lives, gMoved : BOOLEAN, dMoved : BOOLEAN, added : BOOLEAN,
         covered : BOOLEAN]
Idle == [at |-> "idle", g |-> NoGestation, d |-> NoDeployment, status |-> Expected,
         mem |-> [known |-> FALSE, at |-> [u \in 1 .. MaxUid |-> "none"]],
         gMoved |-> FALSE, dMoved |-> FALSE, added |-> FALSE, covered |-> FALSE]

At(step) == pass.at = step
Goto(step) == pass' = [pass EXCEPT !.at = step]

\* How a call may end: as it should, in an error, or in an error although it
\* took effect.
Works == UNCHANGED faults
Counted(f) == f \in Fault /\ faults < MaxFaults /\ faults' = faults + 1
Fails == Counted("error")
Answered == Works \/ Counted("lost")
AnswerLost == faults' # faults

\* Wrong form: care ends when the care period does.
InCareOnce(s) == s.care # NoCare /\ s.phase = "NewbornCare"
InCare(s) == s.care # NoCare /\ s.phase \in {"NewbornCare", "NeedsCaregivers"}
Born(s) == s.birth # NoBirth /\ s.phase # "RolledBack"

---------------------------------------------------------------------------
\* The end of reconcile: a requested screening, then the status.

Put(m, u) == IF m.known /\ m.at[u] = "none" THEN [m EXCEPT !.at[u] = "open"] ELSE m
Closed(m, u) == IF m.known /\ m.at[u] = "open" THEN [m EXCEPT !.at[u] = "closed"] ELSE m

Finish(s, m) ==
    LET answered == [s EXCEPT !.answered = pass.g.screen]
    IN  pass' = [pass EXCEPT !.at = IF answered = pass.g.status THEN "newborns"
                                                                ELSE "status",
                             !.d = NoDeployment, !.status = answered, !.mem = m,
                             !.dMoved = FALSE, !.added = FALSE, !.covered = FALSE]
FinishLiving(s) == Finish(s, Put(pass.mem, pass.d.uid))
Abandon == Finish(pass.status, pass.mem)

\* List and loadMemory.
BeginPass ==
    /\ At("idle")
    /\ \E known \in {TRUE} \cup (IF "error" \in Fault /\ faults < MaxFaults
                                 THEN {FALSE} ELSE {}) :
         /\ pass' = [Idle EXCEPT !.at = IF gest.uid = 0 THEN "newborns" ELSE "look",
                                 !.g = gest, !.status = gest.status,
                                 !.mem = [known |-> known,
                                          at |-> IF known THEN memory ELSE Idle.mem.at]]
         /\ faults' = IF known THEN faults ELSE faults + 1
    /\ UNCHANGED <<objects, caches, times, others>>

(* updateStatus: the Gestation must still be the one that was listed.  A stale
   pass loses its status, not what it did to other objects. *)
UpdateStatus ==
    /\ At("status")
    /\ \/ Answered /\ ~pass.gMoved /\ gest' = [gest EXCEPT !.status = pass.status]
       \/ Works /\ pass.gMoved /\ UNCHANGED gest
       \/ Fails /\ UNCHANGED gest
    /\ Goto("newborns")
    /\ UNCHANGED <<deploy, placenta, held, pdb, otherPdb, hpa, entry, memory,
                   caches, times, others>>

\* Wrong form: only the namespaces of listed Gestations are visited.
WantedWhereListed == IF pass.g.uid = 0 THEN nsSeen
                     ELSE IF InCare(pass.status) THEN pass.status.care ELSE 0
WantedEntry == IF InCare(pass.status) /\ pass.status.birth # NoBirth
               THEN pass.status.care ELSE 0

\* syncNewborns compares what the pass believes with what the informer shows.
SyncNewborns ==
    LET want == WantedEntry
    IN  /\ At("newborns")
        /\ \/ nsSeen = want /\ Works /\ UNCHANGED entry
           \/ nsSeen # want /\ Answered /\ entry' = want
           \/ nsSeen # want /\ Fails /\ UNCHANGED entry
        /\ nsSeen' = IF "lag" \in Fault THEN nsSeen ELSE entry'
        /\ Goto("memory")
        /\ UNCHANGED <<gest, deploy, placenta, held, pdb, otherPdb, hpa, memory, seen,
                       times, others>>

\* Wrong form: only a name that is gone has left.
LeftByName(u) == seen = 0
\* closeDeparted: by the informer, the Deployment is gone or another one.
Left(u) == seen # u

\* closeDeparted and saveMemory.
SaveMemory ==
    LET kept == [u \in 1 .. MaxUid |->
                   IF pass.mem.at[u] = "open" /\ Left(u) THEN "closed"
                                                         ELSE pass.mem.at[u]]
    IN  /\ At("memory")
        /\ \/ (~pass.mem.known \/ kept = memory) /\ Works /\ UNCHANGED memory
           \/ pass.mem.known /\ kept # memory /\ Answered /\ memory' = kept
           \/ pass.mem.known /\ kept # memory /\ Fails /\ UNCHANGED memory
        /\ pass' = Idle
        /\ UNCHANGED <<gest, deploy, placenta, held, pdb, otherPdb, hpa, entry,
                       caches, times, others>>

---------------------------------------------------------------------------
\* reconcile: what the pass does with this Gestation.

\* Wrong form: the birth that was rolled back is kept.
HeaderForgetful(g, s) ==
    IF g.delivery > s.delivery /\ (s.birth = NoBirth \/ s.phase = "RolledBack")
    THEN [s EXCEPT !.delivery = g.delivery, !.waited = FALSE, !.phase = "Delivering"]
    ELSE s
\* A delivery asked for starts one, unless there was a birth that still counts.
Header(g, s) ==
    IF g.delivery > s.delivery /\ (s.birth = NoBirth \/ s.phase = "RolledBack")
    THEN [s EXCEPT !.delivery = g.delivery, !.waited = FALSE, !.birth = NoBirth,
                   !.score = NoScore, !.care = NoCare, !.phase = "Delivering"]
    ELSE s

\* Wrong form: a Deployment without the care label is taken for another one.
SameLifeByLabel(d, birth) == d.uid = birth.uid /\ d.care
SameLife(d, birth) == d.uid = birth.uid

Look ==
    /\ At("look")
    /\ \/ /\ Works
          /\ LET s == Header(pass.g, pass.status)
             IN  pass' = [pass EXCEPT
                   !.d = deploy, !.status = s,
                   !.at = CASE s.phase = "Delivering" -> "release"
                            [] s.phase # "Delivering" /\ s.birth = NoBirth -> "ensure"
                            [] s.phase # "Delivering" /\ s.birth # NoBirth ->
                                 IF SameLife(deploy, s.birth) THEN "alive" ELSE "depart"]
       \/ Fails /\ Goto("newborns")
    /\ UNCHANGED <<objects, caches, times, others>>

---------------------------------------------------------------------------
\* pregnancy

Reserved(tri, replicas) ==
    LET term == replicas + 1
    IN  CASE tri = 1 -> (term + 3) \div 4
          [] tri = 2 -> (2 * term + 2) \div 3
          [] tri \in {0, 3} -> term

\* ensurePlacenta may fail or find another's Deployment: the status moves on.
EnsurePlacenta ==
    /\ At("ensure")
    /\ \/ /\ Works /\ placenta.owner \in {0, pass.g.uid}
          /\ placenta' = [owner |-> pass.g.uid, size |-> Reserved(trimester, Planned)]
       \/ /\ (placenta.owner \notin {0, pass.g.uid} /\ Works) \/ Fails
          /\ UNCHANGED placenta
    /\ Finish([pass.status EXCEPT
                 !.phase = IF trimester = 0 THEN "Due" ELSE "Expecting",
                 !.screened = IF trimester > @ THEN trimester ELSE @], pass.mem)
    /\ UNCHANGED <<gest, deploy, held, pdb, otherPdb, hpa, entry, memory,
                   caches, times, others>>

---------------------------------------------------------------------------
\* deliver

\* Wrong form: the placeholders are left to the garbage collector.
ReleasedLater(p) == p
Released(p) == IF p.owner = pass.g.uid THEN [owner |-> 0, size |-> 0] ELSE p

\* Wrong form: delivery waits for the last placeholder.
RoomFreeAtLast == ~held
\* placentaGrace
RoomFree == ~held \/ pass.status.waited

\* releasePlacenta, then wait for the room and for the Deployment.
ReleasePlacenta ==
    /\ At("release")
    /\ \/ /\ Answered /\ placenta' = Released(placenta)
          /\ IF AnswerLost \/ ~RoomFree \/ pass.d.uid = 0
             THEN Abandon ELSE Goto("protect")
       \/ Fails /\ UNCHANGED placenta /\ Abandon
    /\ UNCHANGED <<gest, deploy, held, pdb, otherPdb, hpa, entry, memory,
                   caches, times, others>>

\* setNewborn: the priority bump comes before the first pods.
SetNewborn ==
    /\ At("protect")
    /\ \/ /\ Answered /\ entry' = CareTier(0)
          /\ IF AnswerLost THEN Abandon ELSE Goto("plan")
       \/ Fails /\ UNCHANGED entry /\ Abandon
    /\ nsSeen' = IF "lag" \in Fault THEN nsSeen ELSE entry'
    /\ UNCHANGED <<gest, deploy, placenta, held, pdb, otherPdb, hpa, memory, seen,
                   times, others>>

\* Any budget over the pods counts, <name>-newborn included.
Covered == otherPdb \/ pdb # 0

\* autoscaled and the list of budgets.
Plan ==
    /\ At("plan")
    /\ \/ Works /\ pass' = [pass EXCEPT !.added = ~hpa, !.covered = Covered,
                                        !.at = IF Covered THEN "bear" ELSE "budget"]
       \/ Fails /\ Abandon
    /\ UNCHANGED <<objects, caches, times, others>>

CreatePDB ==
    /\ At("budget")
    /\ \/ /\ Answered /\ pdb' = IF pdb = 0 THEN pass.g.uid ELSE pdb
          /\ IF AnswerLost THEN Abandon ELSE Goto("bear")
       \/ Fails /\ UNCHANGED pdb /\ Abandon
    /\ UNCHANGED <<gest, deploy, placenta, held, otherPdb, hpa, entry, memory,
                   caches, times, others>>

\* Wrong form: the update carries no resourceVersion.
UnmovedOrNot == TRUE
\* The Deployment a pass updates must still be the one it read.
Unmoved == ~pass.dMoved

Launched(d) ==
    [d EXCEPT !.replicas = (IF pass.d.replicas = 0 THEN Planned ELSE pass.d.replicas)
                           + (IF pass.added THEN 1 ELSE 0),
              !.paused = FALSE, !.care = TRUE, !.observed = FALSE]

Bear ==
    /\ At("bear")
    /\ \/ /\ Answered /\ Unmoved
          /\ deploy' = Launched(deploy)
          /\ extra' = extra + (IF pass.added THEN 1 ELSE 0)
          /\ age' = 0
          /\ IF AnswerLost THEN Abandon
             ELSE Finish([pass.status EXCEPT
                            !.birth = [NoBirth EXCEPT !.uid = pass.d.uid,
                                                      !.added = pass.added,
                                                      !.pdb = ~pass.covered],
                            !.care = CareTier(0), !.score = NoScore,
                            !.phase = "NewbornCare"],
                         Put(pass.mem, pass.d.uid))
       \/ ((~Unmoved /\ Works) \/ Fails) /\ Abandon /\ UNCHANGED <<deploy, extra, age>>
    /\ UNCHANGED <<gest, placenta, held, pdb, otherPdb, hpa, entry, memory, caches,
                   trimester, asked, moves, made, scoredLow>>

---------------------------------------------------------------------------
\* afterBirth

NextMinute(score) ==
    CASE score.minute = 0 -> 1
      [] score.minute = 1 -> 5
      [] score.minute \in {5, 10, 15} -> IF score.low THEN score.minute + 5 ELSE 0
      [] score.minute = 20 -> 0
ScoreDue(s) == /\ s.birth.revision # 0 /\ NextMinute(s.score) # 0
               /\ age >= Reached(NextMinute(s.score))

Older(d, n) == {d.revisions[t] : t \in Template} \cap 1 .. n - 1
Newest(ns) == LET last == {n \in ns : \A m \in ns : m <= n}
              IN  IF last = {} THEN 0 ELSE CHOOSE n \in last : TRUE

\* resolveRevisions waits for the deployment controller.
Resolved(s, d) ==
    LET born == d.revisions[d.template]
    IN  IF s.birth.revision # 0 \/ ~d.observed \/ born = 0 THEN s
        ELSE [s EXCEPT !.birth.revision = born,
                       !.birth.previous = Newest(Older(d, born))]

(* What is left of afterBirth once the launch is scored: care, then remember.
   Only a discharge calls the API server, with the Deployment as it was read,
   which a rollback whose answer was lost has moved. *)
Tend(s) ==
    \/ ~InCare(s) /\ FinishLiving(s)
    \/ /\ InCare(s) /\ CareTier(age) # 0
       /\ FinishLiving([s EXCEPT !.care = CareTier(age), !.phase = "NewbornCare"])
    \/ /\ InCare(s) /\ CareTier(age) = 0 /\ pass.d.named
       /\ pass' = [pass EXCEPT !.at = "home", !.status = s,
                               !.dMoved = @ \/ deploy' # deploy]
    \/ /\ InCare(s) /\ CareTier(age) = 0 /\ ~pass.d.named
       /\ FinishLiving([s EXCEPT !.care = LastTier, !.phase = "NeedsCaregivers"])

AfterBirth ==
    /\ At("alive")
    /\ UNCHANGED <<objects, caches, times, faults, others>>
    /\ LET s == Resolved(pass.status, pass.d)
       IN  IF InCare(s) /\ ScoreDue(s)
           THEN pass' = [pass EXCEPT !.at = "score", !.status = s] ELSE Tend(s)

\* The template of the ReplicaSet at a revision.
TemplateAt(d, n) == {t \in Template : d.revisions[t] = n}

\* signs and Score: without its ReplicaSet the newborn scores low.
Scores == {[minute |-> NextMinute(pass.status.score), low |-> l] :
             l \in IF TemplateAt(pass.d, pass.status.birth.revision) = {}
                   THEN {TRUE} ELSE BOOLEAN}

\* Rollback: on the five-minute score only, and only to a revision there was.
Rollback(score, birth) ==
    score.minute = 5 /\ score.low /\ AutoRollback /\ birth.previous # 0

Apgar ==
    /\ At("score")
    /\ UNCHANGED <<objects, caches, times, others>>
    /\ \/ /\ Works
          /\ \E score \in Scores :
               IF Rollback(score, pass.status.birth)
               THEN IF TemplateAt(pass.d, pass.status.birth.previous) = {}
                    THEN Tend(pass.status) ELSE Goto("back")
               ELSE Tend([pass.status EXCEPT !.score = score])
       \/ Fails /\ Tend(pass.status)

\* Wrong form: a service scaled to zero gives a replica back too.
TakesAlways(d) == pass.status.birth.added
\* Wrong form: the replica is forgotten.
TakesNoneBack(d) == FALSE
\* endCare: the extra replica and the label go.
TakesBack(d) == pass.status.birth.added /\ d.replicas > 1
CareEnded(d) == [d EXCEPT !.replicas = IF TakesBack(d) THEN @ - 1 ELSE @,
                          !.care = FALSE, !.observed = FALSE]
ReplicaTaken == extra' = extra - (IF TakesBack(pass.d) THEN 1 ELSE 0)

RollBack ==
    /\ At("back")
    /\ \/ /\ Answered /\ Unmoved
          /\ \E t \in TemplateAt(pass.d, pass.status.birth.previous) :
               deploy' = [CareEnded(deploy) EXCEPT !.template = t]
          /\ ReplicaTaken
          /\ scoredLow' = Append(scoredLow, pass.status.birth.revision)
          /\ IF AnswerLost THEN Tend(pass.status)
             ELSE pass' = [pass EXCEPT !.at = "backPdb", !.status.birth.back = TRUE,
                                       !.status.care = NoCare]
       \/ /\ (~Unmoved /\ Works) \/ Fails
          /\ UNCHANGED <<deploy, extra, scoredLow>>
          /\ Tend(pass.status)
    /\ UNCHANGED <<gest, placenta, held, pdb, otherPdb, hpa, entry, memory, caches,
                   times, asked, moves, made>>

\* Wrong form: the budget is left behind.
KeepPDB(yes, no) == Works /\ UNCHANGED pdb /\ yes
\* deletePDB removes <name>-newborn if the birth remembers creating it.
DeletePDB(yes, no) ==
    \/ ~pass.status.birth.pdb /\ Works /\ UNCHANGED pdb /\ yes
    \/ /\ pass.status.birth.pdb /\ Answered /\ pdb' = 0
       /\ IF AnswerLost THEN no ELSE yes
    \/ pass.status.birth.pdb /\ Fails /\ UNCHANGED pdb /\ no

RollBackPDB ==
    /\ At("backPdb")
    /\ DeletePDB(FinishLiving([pass.status EXCEPT !.score = [minute |-> 5, low |-> TRUE],
                                                  !.phase = "RolledBack"]),
                 FinishLiving(pass.status))
    /\ UNCHANGED <<gest, deploy, placenta, held, otherPdb, hpa, entry, memory,
                   caches, times, others>>

Discharge ==
    /\ At("home")
    /\ \/ /\ Answered /\ Unmoved
          /\ deploy' = CareEnded(deploy)
          /\ ReplicaTaken
          /\ IF AnswerLost THEN FinishLiving(pass.status) ELSE Goto("homePdb")
       \/ ((~Unmoved /\ Works) \/ Fails) /\ FinishLiving(pass.status)
          /\ UNCHANGED <<deploy, extra>>
    /\ UNCHANGED <<gest, placenta, held, pdb, otherPdb, hpa, entry, memory, caches,
                   times, asked, moves, made, scoredLow>>

DischargePDB ==
    /\ At("homePdb")
    /\ DeletePDB(FinishLiving([pass.status EXCEPT !.care = 0, !.phase = "Grown"]),
                 FinishLiving(pass.status))
    /\ UNCHANGED <<gest, deploy, placenta, held, otherPdb, hpa, entry, memory,
                   caches, times, others>>

\* depart: whatever becomes of the budget, the service has left.
Depart ==
    LET left == Finish([pass.status EXCEPT !.phase = "Departed", !.care = NoCare],
                       Closed(pass.mem, pass.status.birth.uid))
    IN  /\ At("depart")
        /\ \/ pass.status.phase = "Departed" /\ Works /\ UNCHANGED pdb /\ Abandon
           \/ pass.status.phase # "Departed" /\ DeletePDB(left, left)
        /\ UNCHANGED <<gest, deploy, placenta, held, otherPdb, hpa, entry, memory,
                       caches, times, others>>

---------------------------------------------------------------------------
\* Everyone else.

Free == At("idle") \/ "race" \in Fault
Move(m) == Free /\ m \in User /\ moves < MaxMoves /\ moves' = moves + 1

Holding == Step \ {"idle", "look", "status", "newborns", "memory"}
GestationMoved == pass' = [pass EXCEPT !.gMoved =
                                       @ \/ pass.at \notin {"idle", "newborns", "memory"}]
DeploymentMoved == pass' = [pass EXCEPT !.dMoved = @ \/ pass.at \in Holding]
Noticed == seen' = IF "lag" \in Fault THEN seen ELSE deploy'.uid

Conceive ==
    /\ Move("conceive") /\ gest.uid = 0 /\ made.gest < MaxGest
    /\ made' = [made EXCEPT !.gest = @ + 1]
    /\ gest' = [NoGestation EXCEPT !.uid = made.gest + 1]
    /\ trimester' = Conceived
    /\ UNCHANGED <<deploy, placenta, held, pdb, otherPdb, hpa, entry, memory, caches,
                   age, pass, asked, faults, extra, scoredLow>>

EndGestation ==
    /\ Move("end") /\ gest.uid # 0
    /\ gest' = NoGestation
    /\ GestationMoved
    /\ UNCHANGED <<deploy, placenta, held, pdb, otherPdb, hpa, entry, memory, caches,
                   times, asked, faults, made, extra, scoredLow>>

\* The garbage collector removes what a Gestation owned.
CollectGarbage ==
    /\ Free /\ \E o \in {placenta.owner, pdb} : o \notin {0, gest.uid}
    /\ placenta' = IF placenta.owner = gest.uid THEN placenta ELSE [owner |-> 0, size |-> 0]
    /\ pdb' = IF pdb = gest.uid THEN pdb ELSE 0
    /\ UNCHANGED <<gest, deploy, held, otherPdb, hpa, entry, memory, caches, times,
                   pass, asked, faults, moves, made, extra, scoredLow>>

\* Placeholder pods come with the placenta and go after it.
Placeholders ==
    /\ Free /\ held # (placenta.owner # 0) /\ held' = ~held
    /\ UNCHANGED <<gest, deploy, placenta, pdb, otherPdb, hpa, entry, memory, caches,
                   times, pass, asked, faults, moves, made, extra, scoredLow>>

\* A Deployment is applied paused, at no replicas, or running, with or without
\* its caregivers.
Apply ==
    /\ Move("apply") /\ deploy.uid = 0 /\ made.deploy < MaxUid
    /\ made' = [made EXCEPT !.deploy = @ + 1]
    /\ \E start \in {[r |-> 0, p |-> FALSE], [r |-> Planned, p |-> TRUE],
                     [r |-> Planned, p |-> FALSE]}, t \in Template,
          n \in {FALSE} \cup (IF "prenamed" \in User THEN {TRUE} ELSE {}) :
         deploy' = [NoDeployment EXCEPT !.uid = made.deploy + 1, !.replicas = start.r,
                                        !.paused = start.p, !.template = t,
                                        !.named = n, !.observed = FALSE]
    /\ DeploymentMoved /\ Noticed
    /\ extra' = 0 /\ scoredLow' = <<>>
    /\ UNCHANGED <<gest, placenta, held, pdb, otherPdb, hpa, entry, memory, nsSeen,
                   times, asked, faults>>

Remove ==
    /\ Move("remove") /\ deploy.uid # 0
    /\ deploy' = NoDeployment
    /\ DeploymentMoved /\ Noticed
    /\ extra' = 0 /\ scoredLow' = <<>>
    /\ UNCHANGED <<gest, placenta, held, pdb, otherPdb, hpa, entry, memory, nsSeen,
                   times, asked, faults, made>>

Edit(m, d) ==
    /\ Move(m) /\ deploy.uid # 0 /\ d # deploy
    /\ deploy' = d
    /\ DeploymentMoved
    /\ UNCHANGED <<gest, placenta, held, pdb, otherPdb, hpa, entry, memory, caches,
                   times, asked, faults, made, extra, scoredLow>>

Rollout == \E t \in Template \ {deploy.template} :
             Edit("rollout", [deploy EXCEPT !.template = t, !.observed = FALSE])
Scale == \E n \in 0 .. MaxReplicas :
           Edit("scale", [deploy EXCEPT !.replicas = n, !.observed = FALSE])
NameCaregivers == Edit("name", [deploy EXCEPT !.named = ~deploy.named])

\* The deployment controller: a new or returning template becomes the newest
\* revision, unless the Deployment is paused.
Observe ==
    LET newest == Newest({deploy.revisions[t] : t \in Template})
    IN  /\ Free /\ deploy.uid # 0 /\ ~deploy.observed
        /\ deploy' = [deploy EXCEPT
             !.observed = TRUE,
             !.revisions[deploy.template] =
                IF deploy.paused \/ (@ = newest /\ @ # 0) THEN @ ELSE newest + 1]
        /\ DeploymentMoved
        /\ UNCHANGED <<gest, placenta, held, pdb, otherPdb, hpa, entry, memory, caches,
                       times, asked, faults, moves, made, extra, scoredLow>>

\* It also writes the Deployment's status as pods come and go.
Progress ==
    /\ Move("progress") /\ deploy.uid # 0
    /\ pass.at \in Holding /\ ~pass.dMoved /\ DeploymentMoved
    /\ UNCHANGED <<objects, caches, times, asked, faults, made, extra, scoredLow>>

ToggleHpa ==
    /\ Move("hpa") /\ hpa' = ~hpa
    /\ UNCHANGED <<gest, deploy, placenta, held, pdb, otherPdb, entry, memory, caches,
                   times, pass, asked, faults, made, extra, scoredLow>>

TogglePdb ==
    /\ Move("pdb") /\ otherPdb' = ~otherPdb
    /\ UNCHANGED <<gest, deploy, placenta, held, pdb, hpa, entry, memory, caches,
                   times, pass, asked, faults, made, extra, scoredLow>>

\* kyvctl deliver reads the Gestation, then patches the number it computed.
MayDeliver(g) ==
    /\ g.status.phase = "RolledBack" => "again" \in User
    /\ g.status.phase # "Departed" /\ ~Born(g.status)
    /\ g.delivery <= g.status.delivery

Deliver ==
    /\ Move("deliver") /\ gest.uid # 0 /\ asked = 0 /\ MayDeliver(gest)
    /\ asked' = gest.status.delivery + 1
    /\ UNCHANGED <<objects, caches, times, pass, faults, made, extra, scoredLow>>

PatchDelivery ==
    /\ Free /\ asked # 0 /\ asked' = 0
    /\ IF gest.uid # 0 /\ gest.delivery # asked
       THEN gest' = [gest EXCEPT !.delivery = asked] /\ GestationMoved
       ELSE UNCHANGED <<gest, pass>>
    /\ UNCHANGED <<deploy, placenta, held, pdb, otherPdb, hpa, entry, memory, caches,
                   times, faults, moves, made, extra, scoredLow>>

Screen ==
    /\ Move("screen") /\ gest.uid # 0 /\ gest.screen < MaxScreens
    /\ gest' = [gest EXCEPT !.screen = @ + 1]
    /\ GestationMoved
    /\ UNCHANGED <<deploy, placenta, held, pdb, otherPdb, hpa, entry, memory, caches,
                   times, asked, faults, made, extra, scoredLow>>

\* Informers catch up.
CatchUp ==
    /\ Free /\ (seen # deploy.uid \/ nsSeen # entry)
    /\ seen' = deploy.uid /\ nsSeen' = entry
    /\ UNCHANGED <<objects, times, pass, faults, others>>

\* Time, which a pass reads once.
Grow == /\ At("idle") /\ gest.uid # 0 /\ trimester # 0
        /\ trimester' = IF trimester = 3 THEN 0 ELSE trimester + 1
        /\ UNCHANGED <<objects, caches, age, pass, faults, others>>
Age == /\ At("idle") /\ InCare(gest.status) /\ age < MaxAge /\ age < 8
       /\ age' = age + 1
       /\ UNCHANGED <<objects, caches, trimester, pass, faults, others>>
GraceOver == /\ At("idle") /\ gest.status.phase = "Delivering" /\ ~gest.status.waited
             /\ gest' = [gest EXCEPT !.status.waited = TRUE]
             /\ UNCHANGED <<deploy, placenta, held, pdb, otherPdb, hpa, entry, memory,
                            caches, times, pass, faults, others>>

\* The controller restarts, or another replica takes over.
Crash ==
    /\ ~At("idle") /\ Counted("crash")
    /\ pass' = Idle /\ seen' = deploy.uid /\ nsSeen' = entry
    /\ UNCHANGED <<objects, times, others>>

---------------------------------------------------------------------------
Init ==
    /\ gest = NoGestation /\ deploy = NoDeployment
    /\ placenta = [owner |-> 0, size |-> 0] /\ held = FALSE
    /\ pdb = 0 /\ otherPdb = FALSE /\ hpa = FALSE /\ entry = 0
    /\ memory = [u \in 1 .. MaxUid |-> "none"]
    /\ seen = 0 /\ nsSeen = 0 /\ trimester = Conceived /\ age = 0
    /\ pass = Idle /\ asked = 0 /\ faults = 0 /\ moves = 0
    /\ made = [gest |-> 0, deploy |-> 0]
    /\ extra = 0 /\ scoredLow = <<>>

Controller == \/ BeginPass \/ Look \/ EnsurePlacenta \/ ReleasePlacenta \/ SetNewborn
              \/ Plan \/ CreatePDB \/ Bear \/ AfterBirth \/ Apgar \/ RollBack
              \/ RollBackPDB \/ Discharge \/ DischargePDB \/ Depart \/ UpdateStatus
              \/ SyncNewborns \/ SaveMemory
Users == \/ Conceive \/ EndGestation \/ Apply \/ Remove \/ Rollout \/ Scale
         \/ NameCaregivers \/ Deliver \/ PatchDelivery \/ Screen \/ ToggleHpa \/ TogglePdb
Cluster == CollectGarbage \/ Placeholders \/ Observe \/ Progress \/ CatchUp
Time == Grow \/ Age \/ GraceOver

Next == Controller \/ Users \/ Cluster \/ Time \/ Crash

Spec == Init /\ [][Next]_vars

\* The controller keeps passing; time, watch events and the deployment
\* controller go on, though they act only between passes: a pass is over long
\* before the next one is due.  Users, placeholder pods and faults are free.
FairSpec == /\ Spec
            /\ WF_vars(Controller) /\ SF_vars(CatchUp) /\ SF_vars(Observe)
            /\ SF_vars(Age) /\ SF_vars(GraceOver)

---------------------------------------------------------------------------
TypeOK ==
    /\ gest \in GestationObject /\ deploy \in DeploymentObject
    /\ placenta \in [owner : Nat, size : Nat] /\ held \in BOOLEAN
    /\ pdb \in Nat /\ otherPdb \in BOOLEAN /\ hpa \in BOOLEAN
    /\ entry \in 0 .. 3 /\ nsSeen \in 0 .. 3 /\ seen \in Nat
    /\ memory \in Memory /\ trimester \in 0 .. 3 /\ age \in Ages
    /\ pass \in Pass /\ asked \in Nat /\ faults \in Nat /\ moves \in Nat
    /\ made \in [gest : Nat, deploy : Nat]
    /\ extra \in Int /\ scoredLow \in Rejections

(* From the moment a delivery goes past its release, and for good once a birth
   is on record, the Gestation holds no placeholders: no late or repeated pass
   reserves again the room the service itself now needs. *)
RoomReleased ==
    /\ pass.at \in {"protect", "plan", "budget", "bear"} => placenta.owner # pass.g.uid
    /\ gest.status.birth # NoBirth => placenta.owner # gest.uid

(* The Deployment is let loose only when the room is released and, as
   birth.go:76 asks, the priority bump is in place. *)
BornProtected ==
    [][deploy'.care /\ ~deploy.care
       => entry = CareTier(0) /\ placenta.owner # pass.g.uid]_vars

(* Care is taken off a Deployment, however stale the pass that does it, only
   if that very Deployment names two caregivers and its 72 hours are over, or
   by a rollback. *)
GoesHomeNamed ==
    [][deploy.care /\ ~deploy'.care /\ deploy'.uid = deploy.uid
       => (deploy.named /\ age = 8) \/ At("back")]_vars

(* The status says what happened: a birth that was rolled back is shown as such
   (or as departed) after a low score at five minutes, a grown service is out of
   care and a newborn in it. *)
StatusTells ==
    LET s == gest.status IN
    /\ s.birth.back => s.phase \in {"RolledBack", "Departed"}
    /\ s.phase = "RolledBack" => /\ s.birth.back /\ s.birth.previous # 0
                                 /\ s.score = [minute |-> 5, low |-> TRUE]
    /\ s.phase \in {"NewbornCare", "NeedsCaregivers"} => s.care \in 1 .. 3
    /\ s.phase \in {"RolledBack", "Departed"} => s.care = NoCare

(* One birth adds one replica at most, and the end of care takes back what the
   birth added: nothing is left over, nothing is taken twice. *)
OneExtra == /\ extra \in {0, 1}
            /\ extra = 1 => deploy.care
            /\ At("idle") /\ InCare(gest.status) /\ gest.status.birth.added
                 /\ gest.status.birth.uid = deploy.uid => extra = 1

(* Between passes the budget is there only for a newborn in care, who
   remembers having created it, or for one that has left since the last pass. *)
BudgetInCare ==
    At("idle") /\ pdb # 0 => InCare(gest.status) /\ gest.status.birth.pdb

(* A record is closed only when the Deployment it is of is gone. *)
RecordOfTheLiving == deploy.uid # 0 => memory[deploy.uid] # "closed"

(* OPERATIONS.md: a delivery scales the Deployment to what was planned plus one. *)
PlusOne == extra <= 1

(* OPERATIONS.md: the end of care undoes the extra replica, and no more. *)
TakenOnce == extra >= 0

(* OPERATIONS.md: discharge, a rollback or the Deployment's deletion undo the
   care: the budget that was created for it goes. *)
BudgetUndone ==
    At("idle") /\ gest.status.phase \in {"Grown", "RolledBack", "Departed"}
      => pdb # gest.uid

(* OPERATIONS.md: a launch that scored low gets its previous template back, its
   care ends and the phase becomes RolledBack. *)
RolledBackSays ==
    At("idle") /\ gest.status.birth.back => gest.status.phase \in {"RolledBack", "Departed"}

(* OPERATIONS.md: it takes kyvctl deliver --again to start a new delivery after
   a rollback.  For users who never ask so. *)
AgainIsAsked ==
    [][gest.status.phase = "RolledBack" /\ "again" \notin User
       => gest'.status.phase \in {"RolledBack", "Departed"} \/ gest'.uid = 0]_vars

(* OPERATIONS.md: a rollback puts the previous revision back "like kubectl
   rollout undo": the one before the revision that is running. *)
UndoesLikeRollout ==
    [][At("back") /\ deploy.observed /\ deploy'.template # deploy.template
       => deploy.revisions[deploy'.template]
            = Newest(Older(deploy, deploy.revisions[deploy.template]))]_vars

(* birth.go:301: it goes back to a revision "where it was well", never to one
   that was itself rolled back from. *)
BackWhereItWasWell ==
    [][At("back") /\ deploy' # deploy
       => \A i \in DOMAIN scoredLow :
            deploy.revisions[deploy'.template] # scoredLow[i]]_vars

(* A delivery that was asked for happens once there is a Deployment, whether or
   not the placeholders ever go. *)
AskedIsBorn ==
    (gest.uid # 0 /\ gest.delivery > gest.status.delivery
       /\ gest.status.birth = NoBirth /\ deploy.uid # 0)
    ~> (gest.uid = 0 \/ deploy.uid = 0 \/ gest.status.birth # NoBirth)

(* A newborn with two caregivers goes home, whether they were named in time or
   long after: it is not kept in care for ever. *)
NamedGoesHome ==
    LET newborn == gest.status.phase \in {"NewbornCare", "NeedsCaregivers"}
    IN  (newborn /\ deploy.named) ~> (~newborn \/ ~deploy.named)

(* The record of a service that left is closed, by depart or, when nobody
   watched it any more, by closeDeparted. *)
GoneIsClosed ==
    \A u \in 1 .. MaxUid :
      (memory[u] = "open" /\ deploy.uid # u) ~> (memory[u] = "closed")

(* The namespace entry of a Gestation that was deleted goes too. *)
EntryGoes == (gest.uid = 0) ~> (entry = 0 \/ gest.uid # 0)

(* To its owners the service is born, kept in care and sent home or back as
   ServiceLife says. *)
Promise == INSTANCE ServiceLife WITH
    uid <- deploy.uid, newborn <- deploy.care, named <- deploy.named,
    template <- deploy.template, revisions <- deploy.revisions, rejected <- scoredLow
ImplementsServiceLife == Promise!Spec
=============================================================================
