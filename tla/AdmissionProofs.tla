-------------------------- MODULE AdmissionProofs --------------------------
(***************************************************************************)
(* What is proved of Admission for every value of its constants: any       *)
(* namespaces, lists of newborns, classes, resources and pods, any number  *)
(* of changes, failed reads and requests.                                  *)
(***************************************************************************)
EXTENDS Admission, WellFoundedInduction, TLAPS


---------------------------------------------------------------------------
\* Types.

\* The steps at which a request has a pod in its hands.
Carrying == {"dose", "care", "priority", "validate", "update"}

Who == {"person", "controller", "component"}

\* Where a request may be, and who may have refused it.
Plugin == {"StartingDose", "Priority", "Immunity", "NamespaceLifecycle", "NoBruteForce"}

Request == [pc : Carrying \union Plugin \union {"none", "delete", "evict", "evicted"}, by : Who, pod : Pod \union {Absent}, dosed : SUBSET Resource,
            cared : BOOLEAN, saw : State \union {Absent}]

Spent == [changes : Nat, faults : Nat, pods : Nat]

Typed ==
    /\ spaces \in [Namespace -> Labels \union {Absent}]
    /\ seen \in [Namespace -> Labels \union {Absent}]
    /\ classes \in ClassState /\ seenClasses \in ClassState
    /\ ready \in BOOLEAN
    /\ pod \in StoredPod \union {Absent}
    /\ seenPod \in State \union {Absent}
    /\ req \in Request
    /\ req.pc \in Carrying => req.pod \in Pod
    /\ past \in [Namespace -> SUBSET (Labels \union {Absent})]
    /\ spent \in Spent

(* A request that ends has the type of a request. *)
LEMMA NoneType == None \in Request /\ None.pc = "none" /\ "none" \notin Carrying
  BY DEF None, Request, Who, Carrying, Plugin

(* A refused request has the type of a request and goes nowhere. *)
LEMMA RefusedType ==
    ASSUME Typed, NEW plugin \in Plugin, Refuse(plugin)
    PROVE  /\ req' \in Request /\ req'.pc = plugin /\ req'.pod = req.pod
           /\ req'.by = req.by /\ req'.cared = req.cared /\ req'.dosed = req.dosed
           /\ req'.saw = req.saw
  BY DEF Refuse, Typed, Request, Plugin

(* The state of a stored pod is a state. *)
LEMMA StateOfType == ASSUME Typed PROVE StateOf(pod) \in State \union {Absent}
  BY DEF Typed, StateOf, StoredPod

(* The initial state is well typed. *)
LEMMA InitTyped == Init => Typed
  <1>1. SUFFICES ASSUME Init PROVE Typed
    OBVIOUS
  <1>2. req \in Request /\ req.pc \notin Carrying
    BY <1>1, NoneType DEF Init
  <1>3. spaces \in [Namespace -> Labels \union {Absent}]
    BY <1>1 DEF Init
  <1>4. seen \in [Namespace -> Labels \union {Absent}]
    BY <1>1 DEF Init
  <1>5. past \in [Namespace -> SUBSET (Labels \union {Absent})]
    BY <1>1, <1>3 DEF Init
  <1>6. classes \in ClassState /\ seenClasses \in ClassState
    BY <1>1, TiersValued DEF Init, ClassState
  <1>7. spent \in Spent
    BY <1>1 DEF Init, Spent
  <1>8. QED
    BY <1>1, <1>2, <1>3, <1>4, <1>5, <1>6, <1>7 DEF Init, Typed

(* A failed read is counted. *)
LEMMA FaultType ==
    ASSUME Typed, Fault
    PROVE  spent' \in Spent /\ spent' # spent
  <1>1. spent' = [spent EXCEPT !.faults = @ + 1] /\ spent \in Spent
    BY DEF Fault, Typed
  <1>2. spent.faults \in Nat /\ spent'.faults = spent.faults + 1
    BY <1>1 DEF Spent
  <1>3. QED
    BY <1>1, <1>2 DEF Spent

(* What the dosing step leaves: a refusal, or the doses of the pod. *)
LEMMA StartingDoseDoes ==
    ASSUME Typed, StartingDose
    PROVE  /\ req' \in Request /\ req'.pod = req.pod /\ req.pod \in Pod
           /\ req'.by = req.by /\ req'.cared = req.cared /\ req'.saw = req.saw
           /\ spent' \in Spent
           /\ \/ req'.pc = "StartingDose"
              \/ /\ req'.pc = "care" /\ (NeedsDose(req.pod) => ready)
                 /\ req'.dosed = IF NeedsDose(req.pod) /\ OptedIn(req.pod.ns)
                                 THEN Missing(req.pod) ELSE {}
  <1>1. req.pc = "dose" /\ req \in Request /\ req.pod \in Pod
    BY DEF StartingDose, Typed, Carrying
  <1>2. spent' \in Spent
    BY FaultType DEF StartingDose, Typed
  <1>3. CASE Refuse("StartingDose")
    BY <1>1, <1>2, <1>3, RefusedType DEF Carrying, Plugin
  <1>4. CASE /\ ~ NeedsDose(req.pod) \/ ready
             /\ req' = [req EXCEPT !.pc = "care",
                                   !.dosed = IF NeedsDose(req.pod) /\ OptedIn(req.pod.ns)
                                             THEN Missing(req.pod) ELSE {}]
    <2> DEFINE doses == IF NeedsDose(req.pod) /\ OptedIn(req.pod.ns)
                        THEN Missing(req.pod) ELSE {}
    <2>1. doses \in SUBSET Resource
      BY DEF Missing
    <2> HIDE DEF doses
    <2>2. req' = [req EXCEPT !.pc = "care", !.dosed = doses]
      BY <1>4 DEF doses
    <2>3. /\ req' \in Request /\ req'.pc = "care" /\ req'.dosed = doses
          /\ req'.pod = req.pod /\ req'.by = req.by /\ req'.cared = req.cared
          /\ req'.saw = req.saw
      BY <1>1, <2>1, <2>2 DEF Request, Carrying
    <2>4. QED
      BY <1>1, <1>2, <1>4, <2>3 DEF doses
  <1>5. QED
    BY <1>3, <1>4 DEF StartingDose

\* The class the care step gives a pod, or Absent.
Given(p) == IF Chosen(p) \/ ~ ready \/ Look(p.ns) = Absent THEN Absent
            ELSE ClassFor(Look(p.ns).care, p.app, seenClasses)

(* What the care step leaves: the pod, or the pod with the class it is given. *)
LEMMA NewbornCareDoes ==
    ASSUME Typed, NewbornCare
    PROVE  /\ req' \in Request /\ req'.pc = "priority" /\ req.pod \in Pod
           /\ req'.by = req.by /\ req'.dosed = req.dosed /\ req'.saw = req.saw
           /\ spent' \in Spent
           /\ req'.pod \in Pod /\ req'.pod.ns = req.pod.ns /\ req'.pod.app = req.pod.app
           /\ req'.pod.parts = req.pod.parts /\ req'.pod.has = req.pod.has
           /\ req'.pod.mirror = req.pod.mirror
           /\ req'.pod.resources = req.pod.resources
           /\ \/ req'.pod = req.pod /\ req'.cared = req.cared
              \/ /\ Given(req.pod) # Absent
                 /\ req'.cared = TRUE /\ req'.pod.class = Given(req.pod)
  <1>1. req.pc = "care" /\ req \in Request /\ req.pod \in Pod
    BY DEF NewbornCare, Typed, Carrying
  <1>2. spent' \in Spent
    BY FaultType DEF NewbornCare, Typed
  <1>3. CASE req' = [req EXCEPT !.pc = "priority"]
    BY <1>1, <1>2, <1>3 DEF Request, Carrying
  <1>4. CASE /\ Given(req.pod) # Absent
             /\ req' = [req EXCEPT !.pc = "priority", !.cared = TRUE,
                                   !.pod.class = Given(req.pod)]
    <2>1. Given(req.pod) \in DOMAIN Value
      <3>1. Given(req.pod) \in seenClasses.exist
        BY <1>4 DEF Given, ClassFor, Above
      <3>2. QED
        BY <3>1 DEF Typed, ClassState
    <2>2. [req.pod EXCEPT !.class = Given(req.pod)] \in Pod
      BY <1>1, <2>1 DEF Pod
    <2>3. /\ req' \in Request /\ req'.pc = "priority" /\ req'.cared = TRUE
          /\ req'.pod = [req.pod EXCEPT !.class = Given(req.pod)]
          /\ req'.by = req.by /\ req'.dosed = req.dosed /\ req'.saw = req.saw
      <3>1. req' = [req EXCEPT !.pc = "priority", !.cared = TRUE,
                               !.pod = [req.pod EXCEPT !.class = Given(req.pod)]]
        BY <1>1, <1>4 DEF Request
      <3>2. QED
        BY <1>1, <2>2, <3>1 DEF Request, Carrying
    <2>4. /\ req'.pod.class = Given(req.pod) /\ req'.pod.ns = req.pod.ns
          /\ req'.pod.app = req.pod.app /\ req'.pod.parts = req.pod.parts
          /\ req'.pod.has = req.pod.has /\ req'.pod.mirror = req.pod.mirror
          /\ req'.pod.resources = req.pod.resources
      BY <1>1, <2>3 DEF Pod
    <2>5. QED
      BY <1>1, <1>2, <1>4, <2>2, <2>3, <2>4
  <1>5. QED
    BY <1>3, <1>4 DEF NewbornCare, Given

(* A verdict on antigens: the pod is stored, or nothing changes and the
   request is refused, for a reason. *)
LEMMA CreateDoes ==
    ASSUME Typed, ValidateCreate
    PROVE  /\ req \in Request /\ req.pod \in Pod /\ req.pc = "validate"
           /\ req' \in Request /\ req'.pc \notin Carrying /\ req'.pc # "evicted"
           /\ spent' \in Spent
           /\ \/ /\ pod' = Stored(req.pod, req.dosed, req.cared) /\ req' = None
                 /\ Tolerates(req.pod.ns, NewAntigens({}, req.pod.parts))
                 /\ spaces[req.pod.ns] # Absent
              \/ /\ pod' = pod /\ Refuse(req'.pc)
                 /\ req'.pc = "Immunity" /\ spent' = spent =>
                      /\ spaces[req.pod.ns] # Absent
                      /\ ~ Tolerates(req.pod.ns, NewAntigens({}, req.pod.parts))
  <1>1. req.pc = "validate" /\ req \in Request /\ req.pod \in Pod
    BY DEF ValidateCreate, Typed, Carrying
  <1>2. CASE spaces[req.pod.ns] = Absent
    <2>1. Refuse("NamespaceLifecycle") /\ pod' = pod /\ spent' = spent
      BY <1>2 DEF ValidateCreate
    <2>2. req' \in Request /\ req'.pc = "NamespaceLifecycle"
      BY <2>1, RefusedType DEF Carrying, Plugin
    <2>3. QED
      BY <1>1, <2>1, <2>2 DEF Carrying, Typed
  <1>3. CASE spaces[req.pod.ns] # Absent
    <2> DEFINE ns == req.pod.ns
               new == NewAntigens({}, req.pod.parts)
               store == pod' = Stored(req.pod, req.dosed, req.cared)
    <2>1. Judge(ns, new, store)
      BY <1>3 DEF ValidateCreate
    <2>2. CASE Tolerates(ns, new) /\ store /\ req' = None /\ UNCHANGED spent
      BY <1>1, <1>3, <2>2, NoneType DEF Typed, None
    <2>3. CASE ~ Tolerates(ns, new) /\ UNCHANGED spent /\ Refuse("Immunity") /\ UNCHANGED pod
      <3>1. req' \in Request /\ req'.pc = "Immunity"
        BY <2>3, RefusedType DEF Carrying, Plugin
      <3>2. QED
        BY <1>1, <1>3, <2>3, <3>1 DEF Typed, Carrying
    <2>4. CASE Fault /\ Refuse("Immunity") /\ UNCHANGED pod
      <3>1. req' \in Request /\ req'.pc = "Immunity"
        BY <2>4, RefusedType DEF Carrying, Plugin
      <3>2. spent' \in Spent /\ spent' # spent
        BY <2>4, FaultType
      <3>3. QED
        BY <1>1, <2>4, <3>1, <3>2 DEF Carrying
    <2>5. QED
      BY <2>1, <2>2, <2>3, <2>4 DEF Judge
  <1>4. QED
    BY <1>2, <1>3

(* The same for a change of a pod's containers. *)
LEMMA UpdateDoes ==
    ASSUME Typed, ValidateUpdate
    PROVE  /\ req \in Request /\ req.pod \in Pod /\ req.pc = "update"
           /\ pod \in StoredPod /\ pod # Absent
           /\ req' \in Request /\ req'.pc \notin Carrying /\ req'.pc # "evicted"
           /\ spent' \in Spent
           /\ \/ /\ pod' \in StoredPod /\ req' = None
                 /\ pod'.dosed = pod.dosed /\ pod'.cared = pod.cared /\ pod'.state = pod.state
                 /\ pod'.spec = [pod.spec EXCEPT !.parts = req.pod.parts]
                 /\ Tolerates(pod.spec.ns, NewAntigens(pod.spec.parts, req.pod.parts))
              \/ /\ pod' = pod /\ Refuse(req'.pc)
                 /\ req'.pc = "Immunity" /\ spent' = spent =>
                      ~ Tolerates(pod.spec.ns, NewAntigens(pod.spec.parts, req.pod.parts))
  <1>1. /\ req.pc = "update" /\ req \in Request /\ req.pod \in Pod
        /\ pod \in StoredPod /\ pod # Absent
    BY DEF ValidateUpdate, Typed, Carrying
  <1> DEFINE ns == pod.spec.ns
             new == NewAntigens(pod.spec.parts, req.pod.parts)
             store == pod' = [pod EXCEPT !.spec.parts = req.pod.parts]
  <1>2. Judge(ns, new, store)
    BY DEF ValidateUpdate
  <1>3. CASE Tolerates(ns, new) /\ store /\ req' = None /\ UNCHANGED spent
    <2>1. pod.spec \in Pod /\ req.pod.parts \in SUBSET Part
      BY <1>1 DEF StoredPod, Pod
    <2>2. [pod.spec EXCEPT !.parts = req.pod.parts] \in Pod
      BY <2>1 DEF Pod
    <2>3. /\ pod' \in StoredPod /\ pod'.spec = [pod.spec EXCEPT !.parts = req.pod.parts]
          /\ pod'.dosed = pod.dosed /\ pod'.cared = pod.cared /\ pod'.state = pod.state
      BY <1>1, <1>3, <2>2 DEF StoredPod
    <2>4. QED
      BY <1>1, <1>3, <2>3, NoneType DEF Typed, None
  <1>4. CASE ~ Tolerates(ns, new) /\ UNCHANGED spent /\ Refuse("Immunity") /\ UNCHANGED pod
    <2>1. req' \in Request /\ req'.pc = "Immunity"
      BY <1>4, RefusedType DEF Carrying, Plugin
    <2>2. QED
      BY <1>1, <1>4, <2>1 DEF Typed, Carrying
  <1>5. CASE Fault /\ Refuse("Immunity") /\ UNCHANGED pod
    <2>1. req' \in Request /\ req'.pc = "Immunity"
      BY <1>5, RefusedType DEF Carrying, Plugin
    <2>2. spent' \in Spent /\ spent' # spent
      BY <1>5, FaultType
    <2>3. QED
      BY <1>1, <1>5, <2>1, <2>2 DEF Carrying
  <1>6. QED
    BY <1>2, <1>3, <1>4, <1>5 DEF Judge

(* Every step keeps the types. *)
LEMMA StepTyped == Typed /\ [Next]_vars => Typed'
  <1>1. SUFFICES ASSUME Typed, [Next]_vars PROVE Typed'
    OBVIOUS
  <1> USE <1>1
  <1>2. CASE StartingDose
    <2>1. /\ req' \in Request /\ spent' \in Spent /\ req'.pod = req.pod /\ req.pod \in Pod
      BY <1>2, StartingDoseDoes
    <2>2. QED
      BY <1>2, <2>1 DEF StartingDose, Typed, world, caches
  <1>3. CASE NewbornCare
    <2>1. /\ req' \in Request /\ spent' \in Spent /\ req'.pod \in Pod
      BY <1>3, NewbornCareDoes
    <2>2. QED
      BY <1>3, <2>1 DEF NewbornCare, Typed, world, caches
  <1>4. CASE Priority
    <2>1. req' \in Request /\ (req'.pc \in Carrying => req'.pod \in Pod)
      <3>1. CASE req' = [req EXCEPT !.pc = "validate"]
        BY <1>4, <3>1 DEF Priority, Typed, Request, Carrying
      <3>2. CASE Refuse("Priority")
        BY <3>2, RefusedType DEF Carrying, Plugin
      <3>3. QED
        BY <1>4, <3>1, <3>2 DEF Priority
    <2>2. QED
      BY <1>4, <2>1 DEF Priority, Typed, world, caches
  <1>5. CASE ValidateCreate
    <2>1. /\ req \in Request /\ req.pod \in Pod
          /\ req' \in Request /\ req'.pc \notin Carrying /\ spent' \in Spent
          /\ pod' = Stored(req.pod, req.dosed, req.cared) \/ pod' = pod
      BY <1>5, CreateDoes
    <2>2. Stored(req.pod, req.dosed, req.cared) \in StoredPod
      BY <2>1 DEF Stored, StoredPod, Request, State
    <2>3. QED
      BY <1>5, <2>1, <2>2 DEF ValidateCreate, Typed, caches
  <1>6. CASE ValidateUpdate
    <2>1. /\ req' \in Request /\ req'.pc \notin Carrying /\ spent' \in Spent
          /\ pod' \in StoredPod \/ pod' = pod
      BY <1>6, UpdateDoes
    <2>2. QED
      BY <1>6, <2>1 DEF ValidateUpdate, Typed, caches
  <1>7. CASE DeleteNow
    <2>1. req' \in Request /\ req'.pc \notin Carrying /\ pod' \in {pod, Absent}
      <3>1. CASE Refuse("NoBruteForce") /\ UNCHANGED pod
        BY <3>1, RefusedType DEF Carrying, Plugin
      <3>2. CASE req' = None /\ pod' = Absent
        BY <3>2, NoneType
      <3>3. QED
        BY <1>7, <3>1, <3>2 DEF DeleteNow
    <2>2. QED
      BY <1>7, <2>1 DEF DeleteNow, Typed, caches
  <1>8. CASE ValidateEviction
    <2>1. req' \in Request /\ req'.pc \notin Carrying
      <3>1. CASE Refuse("NoBruteForce")
        BY <3>1, RefusedType DEF Carrying, Plugin
      <3>2. CASE req' = [req EXCEPT !.pc = "evicted", !.saw = seenPod]
        BY <3>2 DEF Typed, Request, Carrying
      <3>3. QED
        BY <1>8, <3>1, <3>2 DEF ValidateEviction
    <2>2. QED
      BY <1>8, <2>1 DEF ValidateEviction, Typed, world, caches
  <1>9. CASE EvictNow
    BY <1>9, NoneType DEF EvictNow, Typed, caches
  <1>10. ASSUME NEW p \in Asked, Create(p) PROVE Typed'
    <2>1. p \in Pod
      BY AskedArePods DEF Pod
    <2>2. req' \in Request /\ req'.pod = p
      BY <1>10, <2>1, NoneType DEF Create, None, Request, Carrying, Who
    <2>3. spent' \in Spent
      BY <1>10 DEF Create, Typed, Spent
    <2>4. QED
      BY <1>10, <2>1, <2>2, <2>3 DEF Create, Typed, world, caches
  <1>11. ASSUME NEW parts \in Changed, Update(parts) PROVE Typed'
    <2>1. pod.spec \in Pod /\ parts \in SUBSET Part
      BY <1>11, PartsAreParts DEF Update, Typed, StoredPod
    <2>2. [pod.spec EXCEPT !.parts = parts] \in Pod
      BY <2>1 DEF Pod
    <2>3. /\ req' \in Request /\ req'.pod = [pod.spec EXCEPT !.parts = parts]
      BY <1>11, <2>2, NoneType DEF Update, None, Request, Carrying, Who
    <2>4. QED
      BY <1>11, <2>2, <2>3 DEF Update, Typed, world, caches
  <1>12. ASSUME NEW how \in {"delete", "evict"}, NEW by \in Who, Kill(how, by) PROVE Typed'
    <2>1. req' \in Request /\ req'.pc \notin Carrying
      BY <1>12, NoneType DEF Kill, None, Request, Carrying, Who
    <2>2. QED
      BY <1>12, <2>1 DEF Kill, Typed, world, caches
  <1>13. CASE Miss
    BY <1>13, NoneType DEF Miss, Typed, world, caches
  <1>14. CASE Lives
    <2>1. pod' \in StoredPod \union {Absent}
      <3>1. pod \in StoredPod /\ pod.state \in State
        BY <1>14 DEF Lives, Typed, StoredPod
      <3>2. CASE pod' = Absent
        BY <3>2
      <3>3. ASSUME NEW s \in State, pod' = [pod EXCEPT !.state = s]
            PROVE  pod' \in StoredPod
        BY <3>1, <3>3 DEF StoredPod
      <3>4. /\ [pod.state EXCEPT !.life = "bound"] \in State
            /\ [pod.state EXCEPT !.life = "finished"] \in State
            /\ [pod.state EXCEPT !.leaving = TRUE] \in State
            /\ [pod.state EXCEPT !.discussed = TRUE] \in State
        BY <3>1 DEF State
      <3>5. QED
        BY <1>14, <3>2, <3>3, <3>4 DEF Lives
    <2>2. QED
      BY <1>14, <2>1 DEF Lives, Typed, caches
  <1>15. ASSUME NEW ns \in Namespace, NEW labels \in Labels \union {Absent},
                ChangeSpace(ns, labels)
         PROVE  Typed'
    <2>1. spaces' \in [Namespace -> Labels \union {Absent}]
      BY <1>15 DEF ChangeSpace, Typed
    <2>2. past[ns] \union {labels} \in SUBSET (Labels \union {Absent})
      BY DEF Typed
    <2>3. past' \in [Namespace -> SUBSET (Labels \union {Absent})]
      BY <1>15, <2>2 DEF ChangeSpace, Typed
    <2>4. spent' \in Spent
      BY <1>15 DEF ChangeSpace, Changes, Typed, Spent
    <2>5. QED
      BY <1>15, <2>1, <2>3, <2>4 DEF ChangeSpace, Typed, caches
  <1>16. ASSUME NEW cs \in ClassState, ChangeClasses(cs) PROVE Typed'
    <2>1. spent' \in Spent
      BY <1>16 DEF ChangeClasses, Changes, Typed, Spent
    <2>2. QED
      BY <1>16, <2>1 DEF ChangeClasses, Typed, caches
  <1>17. CASE Follow
    <2>1. seen' \in [Namespace -> Labels \union {Absent}]
      <3>1. CASE UNCHANGED seen
        BY <3>1 DEF Typed
      <3>2. ASSUME NEW ns \in Namespace, seen' = [seen EXCEPT ![ns] = spaces[ns]]
            PROVE  seen' \in [Namespace -> Labels \union {Absent}]
        BY <3>2 DEF Typed
      <3>3. QED
        BY <1>17, <3>1, <3>2 DEF Follow
    <2>2. seenClasses' \in ClassState /\ seenPod' \in State \union {Absent}
      BY <1>17, StateOfType DEF Follow, Typed
    <2>3. QED
      BY <1>17, <2>1, <2>2 DEF Follow, Typed, world
  <1>18. CASE GetReady
    BY <1>18, StateOfType DEF GetReady, Typed, world
  <1>19. CASE UNCHANGED vars
    BY <1>19 DEF vars, world, caches, Typed
  <1>20. QED
    BY <1>2, <1>3, <1>4, <1>5, <1>6, <1>7, <1>8, <1>9, <1>10, <1>11, <1>12, <1>13,
       <1>14, <1>15, <1>16, <1>17, <1>18, <1>19 DEF Next, Plugins, Who

---------------------------------------------------------------------------
\* What the copies and the requests know of the past.

\* Every version of a namespace somebody can see is in its history.
Recorded == \A ns \in Namespace : {spaces[ns], seen[ns]} \ {Absent} \subseteq past[ns]

\* A request to change a pod is about a pod in its own namespace, and a pod's
\* namespace is there.
Asking ==
    /\ req.pc = "update" /\ pod # Absent => req.pod.ns = pod.spec.ns
    /\ pod # Absent => spaces[pod.spec.ns] # Absent

\* An eviction under way, if a person's, was let through on a copy of the pod
\* that it does not cut off.
Looked == req.pc = "evicted" /\ req.by # "component" => req.saw = Absent \/ ~ CutOff(req.saw)

IInv == Typed /\ Recorded /\ Asking /\ Looked /\ AntigensWereTolerated

(* The namespace a plugin looks up is a version that was. *)
LEMMA LookedUp ==
    ASSUME Typed, Recorded, NEW ns \in Namespace, Look(ns) # Absent
    PROVE  Look(ns) \in past[ns] \ {Absent} /\ Look(ns) \in Labels
  BY DEF Typed, Recorded, Look

(* What is tolerated with antigens is self, by name or by a version that was. *)
LEMMA ToleratedWasSelf ==
    ASSUME Typed, Recorded, NEW ns \in Namespace, NEW antigens, antigens # {},
           Tolerates(ns, antigens)
    PROVE  ns \in SelfNamespaces \/ \E v \in past[ns] \ {Absent} : v.self
  BY LookedUp DEF Tolerates, IsSelf

(* Nothing is known before the first request. *)
LEMMA InitIInv == Init => IInv
  <1>1. SUFFICES ASSUME Init PROVE IInv
    OBVIOUS
  <1>2. Typed
    BY <1>1, InitTyped
  <1>3. Recorded
    BY <1>1 DEF Init, Recorded
  <1>4. Asking /\ Looked /\ AntigensWereTolerated
    BY <1>1 DEF Init, Asking, Looked, AntigensWereTolerated, None
  <1>5. QED
    BY <1>2, <1>3, <1>4 DEF IInv

(* Histories only grow, and only a change of a namespace adds to them. *)
LEMMA StepRecorded ==
    ASSUME Typed, Recorded, [Next]_vars
    PROVE  Recorded' /\ \A ns \in Namespace : past[ns] \subseteq past'[ns]
  <1>1. ASSUME UNCHANGED <<spaces, seen, past>>
        PROVE  Recorded' /\ \A ns \in Namespace : past[ns] \subseteq past'[ns]
    BY <1>1 DEF Recorded
  <1>2. ASSUME NEW ns \in Namespace, NEW labels \in Labels \union {Absent},
               ChangeSpace(ns, labels)
        PROVE  Recorded' /\ \A m \in Namespace : past[m] \subseteq past'[m]
    BY <1>2 DEF ChangeSpace, Recorded, Typed, caches
  <1>3. CASE Follow
    <2>1. past' = past /\ spaces' = spaces
      BY <1>3 DEF Follow, world
    <2>2. CASE UNCHANGED seen
      BY <1>1, <2>1, <2>2
    <2>3. ASSUME NEW ns \in Namespace, seen' = [seen EXCEPT ![ns] = spaces[ns]]
          PROVE  Recorded'
      BY <2>1, <2>3 DEF Recorded, Typed
    <2>4. QED
      BY <1>3, <2>1, <2>2, <2>3 DEF Follow
  <1>4. CASE GetReady
    BY <1>4 DEF GetReady, Recorded, world
  <1>5. QED
    BY <1>1, <1>2, <1>3, <1>4
    DEF Next, Plugins, vars, world, caches, StartingDose, NewbornCare, Priority, ValidateCreate,
        ValidateUpdate, DeleteNow, ValidateEviction, EvictNow, Create, Update, Kill, Miss,
        Lives, ChangeClasses

(* What a step may do to the pod. *)
LEMMA PodSteps ==
    ASSUME Typed, [Next]_vars
    PROVE  \/ pod' = Absent
           \/ /\ pod # Absent /\ pod \in StoredPod /\ pod' # Absent
              /\ pod'.spec = pod.spec /\ pod'.dosed = pod.dosed /\ pod'.cared = pod.cared
           \/ ValidateCreate /\ pod' = Stored(req.pod, req.dosed, req.cared)
           \/ ValidateUpdate /\ pod'.spec = [pod.spec EXCEPT !.parts = req.pod.parts]
                /\ pod'.dosed = pod.dosed /\ pod'.cared = pod.cared
  <1>1. CASE pod' = pod
    BY <1>1 DEF Typed
  <1>2. CASE Lives
    <2>1. pod \in StoredPod
      BY <1>2 DEF Lives, Typed
    <2>2. ASSUME NEW s, pod' = [pod EXCEPT !.state = s]
          PROVE  /\ pod'.spec = pod.spec /\ pod'.dosed = pod.dosed
                 /\ pod'.cared = pod.cared
      BY <2>1, <2>2 DEF StoredPod
    <2>3. pod # Absent
      BY <1>2 DEF Lives
    <2>4. QED
      BY <1>2, <2>1, <2>2, <2>3 DEF Lives
  <1>3. CASE ValidateCreate
    BY <1>1, <1>3, CreateDoes
  <1>4. CASE ValidateUpdate
    BY <1>1, <1>4, UpdateDoes
  <1>5. CASE DeleteNow
    BY <1>1, <1>5 DEF DeleteNow
  <1>6. CASE EvictNow
    BY <1>6 DEF EvictNow
  <1>7. QED
    BY <1>1, <1>2, <1>3, <1>4, <1>5, <1>6
    DEF Next, Plugins, vars, world, StartingDose, NewbornCare, Priority, ValidateEviction,
        Create, Update, Kill, Miss, ChangeSpace, ChangeClasses, Follow, GetReady

\* A request that was refused is the request it was.
Refused == /\ req'.pc \in Plugin /\ req'.pod = req.pod /\ req'.by = req.by
           /\ req'.dosed = req.dosed /\ req'.cared = req.cared

(* What a step may do to the request. *)
LEMMA ReqSteps ==
    ASSUME Typed, [Next]_vars
    PROVE  \/ req' = req
           \/ req' = None
           \/ Refused
           \/ StartingDose /\ req'.pc = "care"
           \/ NewbornCare /\ req'.pc = "priority"
           \/ Priority /\ req' = [req EXCEPT !.pc = "validate"]
           \/ ValidateEviction /\ req' = [req EXCEPT !.pc = "evicted", !.saw = seenPod]
                /\ (IsClusterComponent \/ seenPod = Absent \/ ~ CutOff(seenPod))
           \/ \E p \in Asked : Create(p)
           \/ \E parts \in Changed : Update(parts)
           \/ \E how \in {"delete", "evict"}, by \in Who : Kill(how, by)
  <1>1. ASSUME NEW plugin \in Plugin, Refuse(plugin) PROVE Refused
    BY <1>1, RefusedType DEF Refused
  <1>2. CASE StartingDose
    <2>1. /\ req'.pod = req.pod /\ req'.by = req.by
          /\ req'.pc = "care" \/ Refuse("StartingDose")
      <3>1. StartingDose => \/ Refuse("StartingDose")
                            \/ req' = [req EXCEPT !.pc = "care",
                                                  !.dosed = IF NeedsDose(req.pod) /\ OptedIn(req.pod.ns)
                                                            THEN Missing(req.pod) ELSE {}]
        BY DEF StartingDose
      <3>2. req \in Request
        BY DEF Typed
      <3>3. QED
        BY <1>2, <3>1, <3>2, StartingDoseDoes DEF Request
    <2>2. QED
      BY <1>1, <1>2, <2>1 DEF Plugin
  <1>3. CASE NewbornCare
    BY <1>3, NewbornCareDoes
  <1>4. CASE Priority
    BY <1>1, <1>4 DEF Priority, Plugin
  <1>5. CASE ValidateCreate
    <2>1. CASE spaces[req.pod.ns] = Absent
      BY <1>1, <1>5, <2>1 DEF ValidateCreate, Plugin
    <2>2. CASE spaces[req.pod.ns] # Absent
      BY <1>1, <1>5, <2>2 DEF ValidateCreate, Judge, Plugin
    <2>3. QED
      BY <2>1, <2>2
  <1>6. CASE ValidateUpdate
    BY <1>1, <1>6 DEF ValidateUpdate, Judge, Plugin
  <1>7. CASE DeleteNow
    BY <1>1, <1>7 DEF DeleteNow, Plugin
  <1>8. CASE ValidateEviction
    BY <1>1, <1>8 DEF ValidateEviction, Plugin
  <1>9. CASE EvictNow \/ Miss
    BY <1>9 DEF EvictNow, Miss
  <1>10. QED
    BY <1>2, <1>3, <1>4, <1>5, <1>6, <1>7, <1>8, <1>9
    DEF Next, Plugins, vars, world, Lives, ChangeSpace, ChangeClasses, Follow, GetReady, Who

(* Every step keeps what is asked about pods that are there in their namespaces. *)
LEMMA StepAsking == IInv /\ [Next]_vars => Asking'
  <1>1. SUFFICES ASSUME IInv, [Next]_vars PROVE Asking'
    OBVIOUS
  <1>2. Typed /\ Recorded /\ Asking /\ Typed'
    BY <1>1, StepTyped DEF IInv
  <1>3. pod' # Absent => spaces'[pod'.spec.ns] # Absent
    <2>1. SUFFICES ASSUME pod' # Absent PROVE spaces'[pod'.spec.ns] # Absent
      OBVIOUS
    <2>2. CASE /\ pod # Absent /\ pod \in StoredPod /\ pod'.spec = pod.spec
      <3>1. pod.spec.ns \in Namespace
        BY <2>2 DEF StoredPod, Pod
      <3>2. ASSUME NEW ns \in Namespace, NEW labels \in Labels \union {Absent},
                   ChangeSpace(ns, labels)
            PROVE  spaces'[pod'.spec.ns] # Absent
        BY <1>2, <2>2, <3>1, <3>2 DEF ChangeSpace, Asking, Typed
      <3>3. ASSUME spaces' = spaces PROVE spaces'[pod'.spec.ns] # Absent
        BY <1>2, <2>2, <3>3 DEF Asking
      <3>4. QED
        BY <1>1, <3>2, <3>3
        DEF Next, Plugins, vars, world, StartingDose, NewbornCare, Priority, ValidateCreate,
            ValidateUpdate, DeleteNow, ValidateEviction, EvictNow, Create, Update, Kill, Miss,
            Lives, ChangeClasses, Follow, GetReady
    <2>3. CASE ValidateCreate /\ pod' = Stored(req.pod, req.dosed, req.cared)
      <3>1. spaces' = spaces /\ pod'.spec = req.pod
        BY <2>3 DEF ValidateCreate, Stored
      <3>2. CASE pod' = pod
        BY <1>2, <2>1, <3>1, <3>2 DEF Asking
      <3>3. CASE pod' # pod
        BY <1>2, <2>3, <3>1, <3>3, CreateDoes
      <3>4. QED
        BY <3>2, <3>3
    <2>4. CASE ValidateUpdate /\ pod'.spec = [pod.spec EXCEPT !.parts = req.pod.parts]
      <3>1. pod # Absent /\ pod.spec \in Pod /\ spaces' = spaces
        BY <1>2, <2>4 DEF ValidateUpdate, Typed, StoredPod
      <3>2. pod'.spec.ns = pod.spec.ns
        BY <2>4, <3>1 DEF Pod
      <3>3. QED
        BY <1>2, <3>1, <3>2 DEF Asking
    <2>5. QED
      BY <1>1, <1>2, <2>1, <2>2, <2>3, <2>4, PodSteps
  <1>4. req'.pc = "update" /\ pod' # Absent => req'.pod.ns = pod'.spec.ns
    <2>1. SUFFICES ASSUME req'.pc = "update", pod' # Absent
                   PROVE  req'.pod.ns = pod'.spec.ns
      OBVIOUS
    <2>2. CASE req' = req
      <3>1. ~ ValidateCreate /\ ~ ValidateUpdate
        <4>1. ASSUME ValidateCreate PROVE FALSE
          BY <1>2, <2>1, <2>2, <4>1, CreateDoes DEF Carrying
        <4>2. ASSUME ValidateUpdate PROVE FALSE
          BY <1>2, <2>1, <2>2, <4>2, UpdateDoes DEF Carrying
        <4>3. QED
          BY <4>1, <4>2
      <3>2. pod # Absent /\ pod'.spec = pod.spec
        BY <1>1, <1>2, <2>1, <3>1, PodSteps
      <3>3. QED
        BY <1>2, <2>1, <2>2, <3>2 DEF Asking
    <2>3. ASSUME NEW parts \in Changed, Update(parts) PROVE req'.pod.ns = pod'.spec.ns
      <3>1. req'.pod = [pod.spec EXCEPT !.parts = parts] /\ pod.spec \in Pod /\ pod' = pod
        BY <1>2, <2>3 DEF Update, None, Typed, StoredPod, world
      <3>2. QED
        BY <3>1 DEF Pod
    <2>4. req' # None /\ ~ Refused
      BY <2>1 DEF None, Refused, Plugin
    <2>5. req' # [req EXCEPT !.pc = "validate"]
          /\ req' # [req EXCEPT !.pc = "evicted", !.saw = seenPod]
      BY <1>2, <2>1 DEF Typed, Request
    <2>6. ASSUME NEW p \in Asked, Create(p) PROVE FALSE
      BY <2>1, <2>6 DEF Create, None
    <2>7. ASSUME NEW how \in {"delete", "evict"}, NEW by \in Who, Kill(how, by) PROVE FALSE
      BY <2>1, <2>7 DEF Kill, None
    <2>8. QED
      BY <1>1, <1>2, <2>1, <2>2, <2>3, <2>4, <2>5, <2>6, <2>7, ReqSteps
  <1>5. QED
    BY <1>3, <1>4 DEF Asking

(* An eviction goes on only from the check that let it through. *)
LEMMA StepLooked == IInv /\ [Next]_vars => Looked'
  <1>1. SUFFICES ASSUME IInv, [Next]_vars, req'.pc = "evicted", req'.by # "component"
                 PROVE  req'.saw = Absent \/ ~ CutOff(req'.saw)
    BY DEF Looked, CutOff
  <1>2. Typed /\ Looked /\ req \in Request
    BY <1>1 DEF IInv, Typed
  <1>3. CASE req' = req
    BY <1>1, <1>2, <1>3 DEF Looked
  <1>4. CASE /\ req' = [req EXCEPT !.pc = "evicted", !.saw = seenPod]
             /\ IsClusterComponent \/ seenPod = Absent \/ ~ CutOff(seenPod)
    <2>1. req'.saw = seenPod /\ req'.by = req.by
      BY <1>2, <1>4 DEF Request
    <2>2. QED
      BY <1>1, <1>4, <2>1 DEF IsClusterComponent
  <1>5. req' # None /\ ~ Refused /\ req' # [req EXCEPT !.pc = "validate"]
    BY <1>1, <1>2 DEF None, Refused, Plugin, Request
  <1>6. ASSUME NEW p \in Asked, Create(p) PROVE FALSE
    BY <1>1, <1>6 DEF Create, None
  <1>7. ASSUME NEW parts \in Changed, Update(parts) PROVE FALSE
    BY <1>1, <1>7 DEF Update, None
  <1>8. ASSUME NEW how \in {"delete", "evict"}, NEW by \in Who, Kill(how, by) PROVE FALSE
    BY <1>1, <1>8 DEF Kill, None
  <1>9. QED
    BY <1>1, <1>2, <1>3, <1>4, <1>5, <1>6, <1>7, <1>8, ReqSteps

(* Every step keeps antigens where they were tolerated. *)
LEMMA StepTolerated == IInv /\ [Next]_vars => AntigensWereTolerated'
  <1>1. SUFFICES ASSUME IInv, [Next]_vars, pod' # Absent, Antigens(pod'.spec.parts) # {}
                 PROVE  \/ pod'.spec.ns \in SelfNamespaces
                        \/ \E v \in past'[pod'.spec.ns] \ {Absent} : v.self
    BY DEF AntigensWereTolerated, Antigens
  <1>2. Typed /\ Recorded /\ AntigensWereTolerated
    BY <1>1 DEF IInv
  <1>3. \A ns \in Namespace : past[ns] \subseteq past'[ns]
    BY <1>1, <1>2, StepRecorded
  <1>4. ASSUME NEW ns \in Namespace,
               ns \in SelfNamespaces \/ \E v \in past[ns] \ {Absent} : v.self
        PROVE  ns \in SelfNamespaces \/ \E v \in past'[ns] \ {Absent} : v.self
    BY <1>3, <1>4
  <1>5. CASE pod # Absent /\ pod \in StoredPod /\ pod'.spec = pod.spec
    <2>1. pod.spec.ns \in Namespace
      BY <1>5 DEF StoredPod, Pod
    <2>2. QED
      BY <1>1, <1>2, <1>4, <1>5, <2>1 DEF AntigensWereTolerated
  <1>6. CASE ValidateCreate /\ pod' # pod
    <2>1. /\ req.pod \in Pod /\ pod' = Stored(req.pod, req.dosed, req.cared)
          /\ Tolerates(req.pod.ns, NewAntigens({}, req.pod.parts))
      BY <1>2, <1>6, CreateDoes
    <2>2. pod'.spec = req.pod /\ req.pod.ns \in Namespace
      BY <2>1 DEF Stored, Pod
    <2>3. NewAntigens({}, req.pod.parts) = Antigens(req.pod.parts)
      BY DEF NewAntigens, Antigens
    <2>4. QED
      BY <1>1, <1>2, <1>4, <2>1, <2>2, <2>3, ToleratedWasSelf
  <1>7. CASE ValidateUpdate /\ pod' # pod
    <2>1. /\ req.pod \in Pod /\ pod \in StoredPod /\ pod # Absent
          /\ pod'.spec = [pod.spec EXCEPT !.parts = req.pod.parts]
          /\ Tolerates(pod.spec.ns, NewAntigens(pod.spec.parts, req.pod.parts))
      BY <1>2, <1>7, UpdateDoes
    <2>2. /\ pod'.spec.ns = pod.spec.ns /\ pod'.spec.parts = req.pod.parts
          /\ pod.spec.ns \in Namespace
      BY <2>1 DEF StoredPod, Pod
    <2>3. CASE NewAntigens(pod.spec.parts, req.pod.parts) = {}
      <3>1. Antigens(pod.spec.parts) # {}
        BY <1>1, <2>2, <2>3 DEF NewAntigens
      <3>2. QED
        BY <1>2, <1>4, <2>1, <2>2, <3>1 DEF AntigensWereTolerated
    <2>4. CASE NewAntigens(pod.spec.parts, req.pod.parts) # {}
      BY <1>2, <1>4, <2>1, <2>2, <2>4, ToleratedWasSelf
    <2>5. QED
      BY <2>3, <2>4
  <1>8. CASE pod' = pod
    BY <1>1, <1>2, <1>5, <1>8 DEF Typed
  <1>9. QED
    BY <1>1, <1>2, <1>5, <1>6, <1>7, <1>8, PodSteps

(* Every step keeps the invariant. *)
LEMMA StepIInv == IInv /\ [Next]_vars => IInv'
  BY StepTyped, StepRecorded, StepAsking, StepLooked, StepTolerated DEF IInv

---------------------------------------------------------------------------
\* Theorems about antigens, organs and pods cut off.

(* No antigen lives in a namespace that was never self, for any pods, changes
   of pods and labels, and however old the copies are the plugin judges by. *)
THEOREM NoStrangeAntigens == Spec => []AntigensWereTolerated
  <1>1. IInv => AntigensWereTolerated
    BY DEF IInv
  <1>2. QED
    BY <1>1, InitIInv, StepIInv, PTL DEF Spec

(* A refusal by Immunity that is no failed read is the verdict of one of the two
   checks. *)
LEMMA OnlyVerdictsRefuse ==
    ASSUME Typed, [Next]_vars, req.pc # "Immunity", req'.pc = "Immunity"
    PROVE  ValidateCreate \/ ValidateUpdate
  <1>1. req \in Request
    BY DEF Typed
  <1>2. req' # req /\ req' # None
    BY DEF None
  <1>3. ASSUME NEW plugin \in Plugin \ {"Immunity"}, Refuse(plugin) PROVE FALSE
    BY <1>1, <1>3 DEF Refuse, Request
  <1>4. ~ StartingDose
    BY <1>3, StartingDoseDoes DEF StartingDose, Plugin
  <1>5. ~ NewbornCare
    BY NewbornCareDoes
  <1>6. ~ Priority
    BY <1>1, <1>3 DEF Priority, Request, Plugin
  <1>7. ~ DeleteNow
    BY <1>2, <1>3 DEF DeleteNow, Plugin
  <1>8. ~ ValidateEviction
    BY <1>1, <1>3 DEF ValidateEviction, Request, Plugin
  <1>9. ASSUME NEW p \in Asked, Create(p) PROVE FALSE
    BY <1>9 DEF Create, None
  <1>10. ASSUME NEW parts \in Changed, Update(parts) PROVE FALSE
    BY <1>10 DEF Update, None
  <1>11. ASSUME NEW how \in {"delete", "evict"}, NEW by \in Who, Kill(how, by) PROVE FALSE
    BY <1>11 DEF Kill, None
  <1>12. QED
    BY <1>2, <1>4, <1>5, <1>6, <1>7, <1>8, <1>9, <1>10, <1>11
    DEF Next, Plugins, vars, EvictNow, Miss, Lives, ChangeSpace, ChangeClasses, Follow,
        GetReady, Who

(* A ready plugin whose read does not fail refuses nothing in a namespace that
   has been self since it was made. *)
THEOREM NoAutoimmunity == Spec => SelfIsNeverRefused
  <1> DEFINE Fair == req.pc # "Immunity" /\ req'.pc = "Immunity" /\ ready /\ spent' = spent =>
         LET ns == req.pod.ns
         IN  ns \notin SelfNamespaces /\ \E v \in past[ns] : v = Absent \/ ~ v.self
  <1>1. IInv /\ [Next]_vars => Fair
    <2>1. SUFFICES ASSUME IInv, [Next]_vars, req.pc # "Immunity", req'.pc = "Immunity",
                          ready, spent' = spent
                   PROVE  /\ req.pod.ns \notin SelfNamespaces
                          /\ \E v \in past[req.pod.ns] : v = Absent \/ ~ v.self
      OBVIOUS
    <2>2. Typed /\ Recorded /\ Asking
      BY <2>1 DEF IInv
    <2>3. ASSUME NEW ns \in Namespace, NEW antigens, ~ Tolerates(ns, antigens),
                 spaces[ns] # Absent
          PROVE  ns \notin SelfNamespaces /\ \E v \in past[ns] : v = Absent \/ ~ v.self
      <3>1. Look(ns) # Absent
        BY <2>3 DEF Look
      <3>2. Look(ns) \in past[ns]
        BY <2>2, <3>1, LookedUp
      <3>3. QED
        BY <2>1, <2>3, <3>1, <3>2 DEF Tolerates, IsSelf
    <2>4. req' # None
      BY <2>1 DEF None
    <2>5. CASE ValidateCreate
      <3>1. /\ req.pod \in Pod /\ spaces[req.pod.ns] # Absent
            /\ ~ Tolerates(req.pod.ns, NewAntigens({}, req.pod.parts))
        BY <2>1, <2>2, <2>4, <2>5, CreateDoes
      <3>2. QED
        BY <2>3, <3>1 DEF Pod
    <2>6. CASE ValidateUpdate
      <3>1. /\ req.pod \in Pod /\ pod # Absent /\ req.pc = "update"
            /\ ~ Tolerates(pod.spec.ns, NewAntigens(pod.spec.parts, req.pod.parts))
        BY <2>1, <2>2, <2>4, <2>6, UpdateDoes
      <3>2. req.pod.ns = pod.spec.ns /\ spaces[pod.spec.ns] # Absent
        BY <2>2, <3>1 DEF Asking
      <3>3. QED
        BY <2>3, <3>1, <3>2 DEF Pod
    <2>7. QED
      BY <2>1, <2>2, <2>5, <2>6, OnlyVerdictsRefuse
  <1>2. Spec => [][Fair]_vars
    BY <1>1, InitIInv, StepIInv, PTL DEF Spec
  <1>3. QED
    BY <1>2 DEF SelfIsNeverRefused

(* No person's request cuts off a running pod nobody talked over, for any order
   of requests and changes: only an eviction let through on an older copy does. *)
THEOREM NoBruteForce == Spec => NobodyCutsOff
  <1> DEFINE Gentle == /\ pod # Absent /\ pod' = Absent
                       /\ pod.state = [life |-> "bound", leaving |-> FALSE, discussed |-> FALSE]
                       /\ req.by # "component"
                       => req.pc = "evicted" /\ req.saw # pod.state
  <1>1. IInv /\ [Next]_vars => Gentle
    <2>1. SUFFICES ASSUME IInv, [Next]_vars, pod # Absent, pod' = Absent,
                          pod.state = [life |-> "bound", leaving |-> FALSE, discussed |-> FALSE],
                          req.by # "component"
                   PROVE  req.pc = "evicted" /\ req.saw # pod.state
      OBVIOUS
    <2>2. Typed /\ Looked /\ pod \in StoredPod /\ pod.state \in State
      BY <2>1 DEF IInv, Typed, StoredPod
    <2>3. CutOff(pod.state)
      BY <2>1 DEF CutOff
    <2>4. CASE EvictNow
      <3>1. req.pc = "evicted"
        BY <2>4 DEF EvictNow
      <3>2. req.saw = Absent \/ ~ CutOff(req.saw)
        BY <2>1, <2>2, <3>1 DEF Looked
      <3>3. QED
        BY <2>2, <2>3, <3>1, <3>2, AbsentIsNothing
    <2>5. ~ ValidateCreate
      <3>1. SUFFICES ASSUME ValidateCreate PROVE FALSE
        OBVIOUS
      <3>2. req \in Request /\ req.pod \in Pod /\ pod' = Stored(req.pod, req.dosed, req.cared)
        BY <2>1, <2>2, <3>1, CreateDoes
      <3>3. Stored(req.pod, req.dosed, req.cared) \in StoredPod
        BY <3>2 DEF Stored, StoredPod, Request, State
      <3>4. QED
        BY <2>1, <3>2, <3>3, AbsentIsNothing
    <2>6. ~ ValidateUpdate
      BY <2>1, <2>2, UpdateDoes, AbsentIsNothing
    <2>7. ~ DeleteNow
      BY <2>1, <2>3 DEF DeleteNow, IsClusterComponent
    <2>8. ~ Lives
      <3>1. ~ pod.state.leaving
        BY <2>1
      <3>2. ASSUME NEW s \in State, pod' = [pod EXCEPT !.state = s] PROVE FALSE
        <4>1. pod' \in StoredPod
          BY <2>2, <3>2 DEF StoredPod
        <4>2. QED
          BY <2>1, <4>1, AbsentIsNothing
      <3>3. /\ [pod.state EXCEPT !.life = "bound"] \in State
            /\ [pod.state EXCEPT !.life = "finished"] \in State
            /\ [pod.state EXCEPT !.leaving = TRUE] \in State
            /\ [pod.state EXCEPT !.discussed = TRUE] \in State
        BY <2>2 DEF State
      <3>4. QED
        BY <3>1, <3>2, <3>3 DEF Lives
    <2>9. QED
      BY <2>1, <2>4, <2>5, <2>6, <2>7, <2>8
      DEF Next, Plugins, vars, world, StartingDose, NewbornCare, Priority, ValidateEviction,
          Create, Update, Kill, Miss, ChangeSpace, ChangeClasses, Follow, GetReady
  <1>2. Spec => [][Gentle]_vars
    BY <1>1, InitIInv, StepIInv, PTL DEF Spec
  <1>3. QED
    BY <1>2 DEF NobodyCutsOff

---------------------------------------------------------------------------
\* Care tiers.

(* The first of a newborn's entries with a care tier has one. *)
LEMMA EntryType ==
    ASSUME NEW care \in CareLists, NEW app, Entry(care, app) # Absent
    PROVE  Entry(care, app) \in CareTiers
  <1> DEFINE mine == {i \in DOMAIN care : care[i].class \in CareTiers /\ care[i].app = app}
  <1>1. mine \subseteq Nat
    BY ListsAreLists
  <1>2. mine # {}
    BY DEF Entry
  <1>3. \E i \in mine : \A j \in mine : i <= j
    <2>1. \E i \in mine : \A j \in mine : <<j, i>> \notin OpToRel(<, Nat)
      BY <1>1, <1>2, NatLessThanWellFounded, WFMin
    <2>2. PICK i \in mine : \A j \in mine : <<j, i>> \notin OpToRel(<, Nat)
      BY <2>1
    <2>3. ASSUME NEW j \in mine PROVE i <= j
      <3>1. <<j, i>> \in Nat \X Nat
        BY <1>1
      <3>2. ~ j < i
        BY <2>2, <3>1 DEF OpToRel
      <3>3. QED
        BY <1>1, <3>2
    <2>4. QED
      BY <2>3
  <1>4. PICK i \in mine : i = CHOOSE k \in mine : \A j \in mine : k <= j
    BY <1>3
  <1>5. Entry(care, app) = care[i].class
    BY <1>2, <1>4 DEF Entry
  <1>6. QED
    BY <1>5

(* What the care step gives is the class of the pod's entry in a version of its
   namespace, it is a care tier, and it is above the global default. *)
LEMMA GivenIsDue ==
    ASSUME Typed, Recorded, NEW p \in Pod, Given(p) # Absent
    PROVE  /\ ~ Chosen(p)
           /\ Look(p.ns) \in past[p.ns] \ {Absent}
           /\ Entry(Look(p.ns).care, p.app) = Given(p) /\ Given(p) \in CareTiers
           /\ Above(Given(p), seenClasses)
  <1>1. ~ Chosen(p) /\ Look(p.ns) # Absent /\ p.ns \in Namespace
    BY DEF Given, Pod
  <1>2. Given(p) = ClassFor(Look(p.ns).care, p.app, seenClasses)
    BY <1>1 DEF Given
  <1>3. Entry(Look(p.ns).care, p.app) = Given(p) /\ Above(Given(p), seenClasses)
    BY <1>2 DEF ClassFor
  <1>4. Look(p.ns) \in past[p.ns] \ {Absent} /\ Look(p.ns).care \in CareLists
    BY <1>1, LookedUp DEF Labels
  <1>5. QED
    BY <1>1, <1>3, <1>4, EntryType

(* A care tier is given only to a pod that chose no class or priority, by an entry that a
   version of its namespace had, and only where it is above the default. *)
THEOREM CareIsForNewborns == Spec => CareIsDue
  <1> DEFINE Due == ~ req.cared /\ req'.cared =>
         /\ req.pod.class = Absent /\ ~ req.pod.priority /\ ~ req.pod.mirror
         /\ \E v \in past[req.pod.ns] \ {Absent} : Entry(v.care, req.pod.app) = req'.pod.class
         /\ seenClasses.default # Absent =>
              Value[seenClasses.default] < Value[req'.pod.class]
  <1>1. IInv /\ [Next]_vars => Due
    <2>1. SUFFICES ASSUME IInv, [Next]_vars, ~ req.cared, req'.cared PROVE Due
      BY DEF Chosen
    <2>2. Typed /\ Recorded /\ req \in Request
      BY <2>1 DEF IInv, Typed
    <2>3. CASE NewbornCare
      <3>1. req.pod \in Pod /\ Given(req.pod) # Absent /\ req'.pod.class = Given(req.pod)
        BY <2>1, <2>2, <2>3, NewbornCareDoes
      <3>2. QED
        BY <2>2, <3>1, GivenIsDue DEF Above, Chosen
    <2>4. req' # req /\ ~ Refused /\ ~ (StartingDose /\ req'.pc = "care")
      BY <2>1, <2>2, StartingDoseDoes DEF Refused
    <2>5. req' # None
      BY <2>1 DEF None
    <2>6. /\ req' # [req EXCEPT !.pc = "validate"]
          /\ req' # [req EXCEPT !.pc = "evicted", !.saw = seenPod]
      BY <2>1, <2>2 DEF Request
    <2>7. ASSUME NEW p \in Asked, Create(p) PROVE FALSE
      BY <2>1, <2>7 DEF Create, None
    <2>8. ASSUME NEW parts \in Changed, Update(parts) PROVE FALSE
      BY <2>1, <2>8 DEF Update, None
    <2>9. ASSUME NEW how \in {"delete", "evict"}, NEW by \in Who, Kill(how, by) PROVE FALSE
      BY <2>1, <2>9 DEF Kill, None
    <2>10. QED
      BY <2>1, <2>2, <2>3, <2>4, <2>5, <2>6, <2>7, <2>8, <2>9, ReqSteps
  <1>2. Spec => [][Due]_vars
    BY <1>1, InitIInv, StepIInv, PTL DEF Spec
  <1>3. QED
    BY <1>2 DEF CareIsDue

---------------------------------------------------------------------------
\* Starting doses, and the types that rest on them.

\* The doses a pod got are of what it states not, and what the versions vs of its
\* namespace asked for.
DoseRight(p, dosed, vs) ==
    /\ dosed \subseteq Resource \ p.has
    /\ (\A v \in vs : v # Absent /\ v.dosing) => LeftAlone(p) \/ Resource = p.has \union dosed
    /\ LeftAlone(p) \/ (\A v \in vs \ {Absent} : ~ v.dosing) => dosed = {}

\* A pod not yet dosed is in a namespace that is there or has been deleted; one
\* that is, is dosed right.
Dosing ==
    /\ req.pc = "dose" => spaces[req.pod.ns] # Absent \/ Absent \in past[req.pod.ns]
    /\ req.pc \in {"care", "priority", "validate"} =>
         DoseRight(req.pod, req.dosed, past[req.pod.ns])
    /\ pod # Absent => DoseRight(pod.spec, pod.dosed, past[pod.spec.ns])

Caring ==
    /\ req.cared => req.pod \in Pod /\ req.pod.class \in CareTiers
    /\ pod # Absent /\ pod.cared => pod.spec.class \in CareTiers

(* What is right of a history is right of a longer one. *)
LEMMA DoseStaysRight ==
    ASSUME NEW p \in Pod, NEW q \in Pod, p.has = q.has, p.mirror = q.mirror,
           p.resources = q.resources, NEW d, NEW vs, NEW ws, vs \subseteq ws, DoseRight(p, d, vs)
    PROVE  DoseRight(q, d, ws)
  BY DEF DoseRight, LeftAlone

(* The dosing step doses right. *)
LEMMA DosesRight ==
    ASSUME Typed, Recorded, Dosing, StartingDose, req'.pc = "care"
    PROVE  DoseRight(req.pod, req'.dosed, past[req.pod.ns])
  <1> DEFINE p == req.pod
             ns == req.pod.ns
  <1>1. /\ req.pc = "dose" /\ p \in Pod /\ ns \in Namespace
        /\ NeedsDose(p) => ready
        /\ req'.dosed = IF NeedsDose(p) /\ OptedIn(ns) THEN Missing(p) ELSE {}
    BY StartingDoseDoes DEF StartingDose, Pod
  <1>2. p.has \in SUBSET Resource
    BY <1>1 DEF Pod
  <1>3. req'.dosed \subseteq Resource \ p.has
    BY <1>1 DEF Missing
  <1>4. ASSUME ~ LeftAlone(p), \A v \in past[ns] : v # Absent /\ v.dosing
        PROVE  Resource = p.has \union req'.dosed
    <2>1. spaces[ns] # Absent
      BY <1>1, <1>4 DEF Dosing
    <2>2. Look(ns) \in past[ns]
      BY <1>1, <2>1, LookedUp DEF Look
    <2>3. OptedIn(ns)
      BY <1>4, <2>2 DEF OptedIn
    <2>4. CASE NeedsDose(p)
      BY <1>1, <1>2, <2>3, <2>4 DEF Missing
    <2>5. CASE ~ NeedsDose(p)
      BY <1>2, <1>4, <2>5, <1>3 DEF NeedsDose, Missing
    <2>6. QED
      BY <2>4, <2>5
  <1>5. ASSUME LeftAlone(p) \/ \A v \in past[ns] \ {Absent} : ~ v.dosing
        PROVE  req'.dosed = {}
    <2>1. CASE LeftAlone(p)
      BY <1>1, <2>1 DEF NeedsDose
    <2>2. CASE \A v \in past[ns] \ {Absent} : ~ v.dosing
      <3>1. ~ OptedIn(ns)
        BY <1>1, <2>2, LookedUp DEF OptedIn
      <3>2. QED
        BY <1>1, <3>1
    <2>3. QED
      BY <1>5, <2>1, <2>2
  <1>6. QED
    BY <1>3, <1>4, <1>5 DEF DoseRight

(* Only where a namespace was deleted does it not become older. *)
LEMMA GoneIsRecorded ==
    ASSUME Typed, Recorded, [Next]_vars, NEW ns \in Namespace,
           spaces[ns] # Absent \/ Absent \in past[ns]
    PROVE  spaces'[ns] # Absent \/ Absent \in past'[ns]
  <1>1. past[ns] \subseteq past'[ns]
    BY StepRecorded
  <1>2. ASSUME NEW m \in Namespace, NEW labels \in Labels \union {Absent},
               ChangeSpace(m, labels)
        PROVE  spaces'[ns] # Absent \/ Absent \in past'[ns]
    BY <1>2 DEF ChangeSpace, Typed
  <1>3. CASE spaces' = spaces
    BY <1>1, <1>3
  <1>4. QED
    BY <1>2, <1>3
    DEF Next, Plugins, vars, world, StartingDose, NewbornCare, Priority, ValidateCreate,
        ValidateUpdate, DeleteNow, ValidateEviction, EvictNow, Create, Update, Kill, Miss,
        Lives, ChangeClasses, Follow, GetReady

DInv == IInv /\ Dosing /\ Caring

(* Nothing is dosed or cared for before the first request. *)
LEMMA InitDInv == Init => DInv
  BY InitIInv DEF DInv, Init, Dosing, Caring, None

(* Every step keeps requests and pods dosed right. *)
LEMMA StepDosing == DInv /\ [Next]_vars => Dosing'
  <1>1. SUFFICES ASSUME DInv, [Next]_vars PROVE Dosing'
    OBVIOUS
  <1>2. Typed /\ Recorded /\ Dosing /\ req \in Request /\ Typed'
    BY <1>1, StepTyped DEF DInv, IInv, Typed
  <1>3. \A ns \in Namespace : past[ns] \subseteq past'[ns]
    BY <1>1, <1>2, StepRecorded
  <1>4. ASSUME req'.pc = "dose"
        PROVE  spaces'[req'.pod.ns] # Absent \/ Absent \in past'[req'.pod.ns]
    <2>1. CASE req' = req
      <3>1. req.pod.ns \in Namespace
        BY <1>2, <1>4, <2>1 DEF Typed, Carrying, Pod
      <3>2. QED
        BY <1>1, <1>2, <1>4, <2>1, <3>1, GoneIsRecorded DEF Dosing
    <2>2. ASSUME NEW p \in Asked, Create(p)
          PROVE  spaces'[req'.pod.ns] # Absent
      BY <2>2 DEF Create, None, world
    <2>3. req' # None /\ ~ Refused
      BY <1>4 DEF None, Refused, Plugin
    <2>4. /\ req' # [req EXCEPT !.pc = "validate"]
          /\ req' # [req EXCEPT !.pc = "evicted", !.saw = seenPod]
      BY <1>2, <1>4 DEF Request
    <2>5. ASSUME NEW parts \in Changed, Update(parts) PROVE FALSE
      BY <1>4, <2>5 DEF Update, None
    <2>6. ASSUME NEW how \in {"delete", "evict"}, NEW by \in Who, Kill(how, by) PROVE FALSE
      BY <1>4, <2>6 DEF Kill, None
    <2>7. QED
      BY <1>1, <1>2, <1>4, <2>1, <2>2, <2>3, <2>4, <2>5, <2>6, ReqSteps
  <1>5. ASSUME req'.pc \in {"care", "priority", "validate"}
        PROVE  DoseRight(req'.pod, req'.dosed, past'[req'.pod.ns])
    <2>1. CASE /\ req.pc \in {"care", "priority", "validate"}
               /\ req'.pod \in Pod /\ req'.pod.ns = req.pod.ns /\ req'.pod.has = req.pod.has
               /\ req'.pod.mirror = req.pod.mirror /\ req'.dosed = req.dosed
               /\ req'.pod.resources = req.pod.resources
      <3>1. req.pod \in Pod /\ req.pod.ns \in Namespace
        BY <1>2, <2>1 DEF Typed, Carrying, Pod
      <3>2. DoseRight(req.pod, req.dosed, past[req.pod.ns])
        BY <1>2, <2>1 DEF Dosing
      <3>3. QED
        BY <1>3, <2>1, <3>1, <3>2, DoseStaysRight
    <2>2. CASE req' = req
      <3>1. req.pod \in Pod
        BY <1>2, <1>5, <2>2 DEF Typed, Carrying
      <3>2. QED
        BY <1>5, <2>1, <2>2, <3>1
    <2>3. CASE StartingDose /\ req'.pc = "care"
      <3>1. req'.pod = req.pod /\ req.pod \in Pod /\ past' = past
        BY <1>2, <2>3, StartingDoseDoes DEF StartingDose
      <3>2. QED
        BY <1>2, <2>3, <3>1, DosesRight
    <2>4. CASE NewbornCare
      BY <1>2, <2>1, <2>4, NewbornCareDoes DEF NewbornCare
    <2>5. CASE Priority /\ req' = [req EXCEPT !.pc = "validate"]
      <3>1. req.pc = "priority" /\ req.pod \in Pod
        BY <1>2, <2>5 DEF Priority, Typed, Carrying
      <3>2. req'.pod = req.pod /\ req'.dosed = req.dosed
        BY <1>2, <2>5 DEF Request
      <3>3. QED
        BY <2>1, <3>1, <3>2
    <2>6. req' # None /\ ~ Refused
      BY <1>5 DEF None, Refused, Plugin
    <2>7. req' # [req EXCEPT !.pc = "evicted", !.saw = seenPod]
      BY <1>2, <1>5 DEF Request
    <2>8. ASSUME NEW p \in Asked, Create(p) PROVE FALSE
      BY <1>5, <2>8 DEF Create, None
    <2>9. ASSUME NEW parts \in Changed, Update(parts) PROVE FALSE
      BY <1>5, <2>9 DEF Update, None
    <2>10. ASSUME NEW how \in {"delete", "evict"}, NEW by \in Who, Kill(how, by) PROVE FALSE
      BY <1>5, <2>10 DEF Kill, None
    <2>11. QED
      BY <1>1, <1>2, <2>2, <2>3, <2>4, <2>5, <2>6, <2>7, <2>8, <2>9, <2>10, ReqSteps
  <1>6. ASSUME pod' # Absent
        PROVE  DoseRight(pod'.spec, pod'.dosed, past'[pod'.spec.ns])
    <2>1. pod' \in StoredPod /\ pod'.spec \in Pod
      BY <1>2, <1>6 DEF Typed, StoredPod
    <2>2. CASE /\ pod # Absent /\ pod'.spec.ns = pod.spec.ns /\ pod'.spec.has = pod.spec.has
               /\ pod'.spec.mirror = pod.spec.mirror /\ pod'.dosed = pod.dosed
               /\ pod'.spec.resources = pod.spec.resources
      <3>1. pod.spec \in Pod /\ pod.spec.ns \in Namespace
        BY <1>2, <2>2 DEF Typed, StoredPod, Pod
      <3>2. DoseRight(pod.spec, pod.dosed, past[pod.spec.ns])
        BY <1>2, <2>2 DEF Dosing
      <3>3. QED
        BY <1>3, <2>1, <2>2, <3>1, <3>2, DoseStaysRight
    <2>3. CASE ValidateCreate /\ pod' = Stored(req.pod, req.dosed, req.cared)
      <3>1. req.pc = "validate" /\ past' = past
        BY <2>3 DEF ValidateCreate
      <3>2. pod'.spec = req.pod /\ pod'.dosed = req.dosed
        BY <2>3 DEF Stored
      <3>3. QED
        BY <1>2, <3>1, <3>2 DEF Dosing
    <2>4. CASE ValidateUpdate /\ pod'.spec = [pod.spec EXCEPT !.parts = req.pod.parts]
                 /\ pod'.dosed = pod.dosed
      <3>1. pod # Absent /\ pod.spec \in Pod
        BY <1>2, <2>4 DEF ValidateUpdate, Typed, StoredPod
      <3>2. QED
        BY <2>2, <2>4, <3>1 DEF Pod
    <2>5. QED
      BY <1>1, <1>2, <1>6, <2>2, <2>3, <2>4, PodSteps
  <1>7. QED
    BY <1>4, <1>5, <1>6 DEF Dosing

(* Every step keeps what is cared for in a care tier. *)
LEMMA StepCaring == DInv /\ [Next]_vars => Caring'
  <1>1. SUFFICES ASSUME DInv, [Next]_vars PROVE Caring'
    OBVIOUS
  <1>2. Typed /\ Recorded /\ Caring /\ req \in Request
    BY <1>1 DEF DInv, IInv, Typed
  <1>3. ASSUME req'.cared PROVE req'.pod \in Pod /\ req'.pod.class \in CareTiers
    <2>1. CASE req'.pod = req.pod /\ req'.cared = req.cared
      BY <1>2, <1>3, <2>1 DEF Caring
    <2>2. CASE NewbornCare
      <3>1. /\ req.pod \in Pod /\ req'.pod \in Pod
            /\ \/ req'.pod = req.pod /\ req'.cared = req.cared
               \/ Given(req.pod) # Absent /\ req'.pod.class = Given(req.pod)
        BY <1>2, <2>2, NewbornCareDoes
      <3>2. QED
        BY <1>2, <2>1, <3>1, GivenIsDue
    <2>3. CASE StartingDose
      BY <1>2, <2>1, <2>3, StartingDoseDoes
    <2>4. CASE \/ req' = req \/ Refused \/ req' = [req EXCEPT !.pc = "validate"]
               \/ req' = [req EXCEPT !.pc = "evicted", !.saw = seenPod]
      BY <1>2, <2>1, <2>4 DEF Refused, Request
    <2>5. req' # None
      BY <1>3 DEF None
    <2>6. ASSUME NEW p \in Asked, Create(p) PROVE FALSE
      BY <1>3, <2>6 DEF Create, None
    <2>7. ASSUME NEW parts \in Changed, Update(parts) PROVE FALSE
      BY <1>3, <2>7 DEF Update, None
    <2>8. ASSUME NEW how \in {"delete", "evict"}, NEW by \in Who, Kill(how, by) PROVE FALSE
      BY <1>3, <2>8 DEF Kill, None
    <2>9. QED
      BY <1>1, <1>2, <2>2, <2>3, <2>4, <2>5, <2>6, <2>7, <2>8, ReqSteps
  <1>4. ASSUME pod' # Absent, pod'.cared PROVE pod'.spec.class \in CareTiers
    <2>1. CASE ValidateCreate /\ pod' = Stored(req.pod, req.dosed, req.cared)
      BY <1>2, <1>4, <2>1 DEF Stored, Caring
    <2>2. CASE ValidateUpdate /\ pod'.spec = [pod.spec EXCEPT !.parts = req.pod.parts]
                 /\ pod'.cared = pod.cared
      <3>1. pod # Absent /\ pod.spec \in Pod
        BY <1>2, <2>2 DEF ValidateUpdate, Typed, StoredPod
      <3>2. QED
        BY <1>2, <1>4, <2>2, <3>1 DEF Pod, Caring
    <2>3. CASE pod # Absent /\ pod'.spec = pod.spec /\ pod'.cared = pod.cared
      BY <1>2, <1>4, <2>3 DEF Caring
    <2>4. QED
      BY <1>1, <1>2, <1>4, <2>1, <2>2, <2>3, PodSteps
  <1>5. QED
    BY <1>3, <1>4 DEF Caring

(* Every step keeps the invariant. *)
LEMMA StepDInv == DInv /\ [Next]_vars => DInv'
  BY StepIInv, StepDosing, StepCaring DEF DInv

(* Every variable has its type in every reachable state; among others a pod is
   dosed only with what its containers do not state, and what is marked as cared
   for is in a care tier. *)
THEOREM TypeCorrect == Spec => []TypeOK
  <1>1. DInv => TypeOK
    <2>1. SUFFICES ASSUME DInv PROVE TypeOK
      OBVIOUS
    <2>2. Typed /\ Dosing /\ Caring
      BY <2>1 DEF DInv, IInv
    <2>3. pod # Absent => /\ pod.spec \in Pod /\ pod.state \in State
                          /\ pod.dosed \subseteq Resource \ pod.spec.has
                          /\ pod.cared => pod.spec.class \in CareTiers
      BY <2>2 DEF Typed, StoredPod, Dosing, DoseRight, Caring
    <2>4. {seenPod, req.saw} \subseteq State \union {Absent} /\ req.pod \in Pod \union {Absent}
      BY <2>2 DEF Typed, Request
    <2>5. QED
      BY <2>2, <2>3, <2>4 DEF Typed, TypeOK
  <1>2. QED
    BY <1>1, InitDInv, StepDInv, PTL DEF Spec

(* Where every version of the namespace asked for starting doses no stored pod
   states less than all resources, unless it is left alone, and where none asked,
   or the pod is left alone, nothing is dosed, for any resources, pods and delays
   of the copies. *)
THEOREM DosesAreAsked == Spec => []DosedWhereAsked
  <1>1. DInv => DosedWhereAsked
    BY DEF DInv, Dosing, DoseRight, LeftAlone, DosedWhereAsked
  <1>2. QED
    BY <1>1, InitDInv, StepDInv, PTL DEF Spec
=============================================================================
