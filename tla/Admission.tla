----------------------------- MODULE Admission -----------------------------
(***************************************************************************)
(* The four admission plugins of the kube-apiserver: StartingDose and      *)
(* NewbornCare change a pod that is being created, Immunity refuses a pod  *)
(* with foreign antigens outside self namespaces, NoBruteForce refuses to  *)
(* cut a running pod off.                                                  *)
(*                                                                         *)
(* One request at a time goes through the plugins in their order, while    *)
(* namespaces, priority classes and pods change and the informers of the   *)
(* apiserver follow late.  The upstream Priority plugin, the stores and    *)
(* the informers are external.                                             *)
(***************************************************************************)
EXTENDS Naturals, Sequences

CONSTANTS
    Namespace, SelfNamespaces,
    App,                  \* pod labels, as far as a newborn's selector tells
    Part,                 \* what a pod's containers and volumes may consist of
    Resource,             \* the keys of Doses (cpu, memory)
    CareTiers,            \* the classes IsNewbornClass accepts
    Value,                \* the value of each priority class
    CareLists,            \* newborn-care annotations a namespace may have
    Asked,                \* the pods that may be asked for
    Changed,              \* the parts an update may leave a pod with
    Absent,
    MaxChanges,           \* bound: changes of namespaces and of classes
    MaxFaults,            \* bound: live reads that fail
    MaxPods               \* bound: pods created

ASSUME SelfKnown == SelfNamespaces \subseteq Namespace
ASSUME TiersValued == CareTiers \subseteq DOMAIN Value /\ Value \in [DOMAIN Value -> Nat]
ASSUME ListsAreLists == <<>> \in CareLists /\
    \A l \in CareLists : l \in Seq([app : App \union {Absent}, class : DOMAIN Value])
ASSUME AskedArePods == Asked \subseteq
    [ns : Namespace, app : App, parts : SUBSET Part, has : SUBSET Resource,
     mirror : BOOLEAN, resources : BOOLEAN, priority : BOOLEAN,
     class : DOMAIN Value \union {Absent}]
ASSUME PartsAreParts == Changed \subseteq SUBSET Part
ASSUME BoundsAreNumbers == {MaxChanges, MaxFaults, MaxPods} \subseteq Nat

VARIABLES
    spaces, seen,            \* the namespaces, live and in the informer
    classes, seenClasses,    \* the priority classes and the global default
    ready,                   \* the informers have synced
    pod, seenPod,            \* a pod, live and in the informer
    req,                     \* the request in the plugins' hands
    past,                    \* history: every version of a namespace, with
                             \* Absent once it was deleted
    spent                    \* what the bounds count

world == <<spaces, classes, pod>>
caches == <<seen, seenClasses, seenPod>>
vars == <<spaces, seen, classes, seenClasses, ready, pod, seenPod, req, past, spent>>

Labels == [self : BOOLEAN, dosing : BOOLEAN, care : CareLists]
ClassState == {c \in [exist : SUBSET DOMAIN Value, default : DOMAIN Value \union {Absent}] :
                  c.default \in c.exist \union {Absent}}

\* What a create asks for: has is what the container states of Resource;
\* resources and priority tell whether the pod itself states its resources, and
\* its priority by number.
Pod == [ns : Namespace, app : App, parts : SUBSET Part, has : SUBSET Resource,
        mirror : BOOLEAN, resources : BOOLEAN, priority : BOOLEAN,
        class : DOMAIN Value \union {Absent}]

\* What NoBruteForce reads of a pod.
State == [life : {"unbound", "bound", "finished"}, leaving : BOOLEAN, discussed : BOOLEAN]

\* A stored pod: dosed and cared are the annotations the plugins leave.
Stored(p, dosed, cared) ==
    [spec |-> p, dosed |-> dosed, cared |-> cared,
     state |-> [life |-> "unbound", leaving |-> FALSE, discussed |-> FALSE]]

StoredPod == [spec : Pod, dosed : SUBSET Resource, cared : BOOLEAN, state : State]

ASSUME AbsentIsNothing == Absent \notin Labels \union Pod \union State \union StoredPod

StateOf(p) == IF p = Absent THEN Absent ELSE p.state

None == [pc |-> "none", by |-> "person", pod |-> Absent, dosed |-> {},
         cared |-> FALSE, saw |-> Absent]

Fault == /\ spent.faults < MaxFaults
         /\ spent' = [spent EXCEPT !.faults = @ + 1]

\* The request ends: refused by a plugin, or answered.
Refuse(plugin) == req' = [req EXCEPT !.pc = plugin]

(***************************************************************************)
(* The namespace of a request: the informer's copy or, for a namespace it  *)
(* does not have (created a moment ago), the apiserver's.                  *)
(***************************************************************************)
\* Wrong form: a namespace the informer does not have is not there.
LookCached(ns) == seen[ns]

Look(ns) == IF seen[ns] # Absent THEN seen[ns] ELSE spaces[ns]

AsksLive(ns) == seen[ns] = Absent

(***************************************************************************)
(* StartingDose.Admit.                                                     *)
(***************************************************************************)
\* Wrong form: only a container that states nothing at all is dosed.
MissingIfBare(p) == IF p.has = {} THEN Resource ELSE {}

Missing(p) == Resource \ p.has

\* A pod with resources of its own, or whose spec the kubelet owns.
LeftAlone(p) == p.resources \/ p.mirror

NeedsDose(p) == ~ LeftAlone(p) /\ Missing(p) # {}

OptedIn(ns) == Look(ns) # Absent /\ Look(ns).dosing

StartingDose ==
    /\ req.pc = "dose"
    /\ LET p == req.pod IN
       \/ /\ NeedsDose(p)
          /\ \/ ~ ready /\ UNCHANGED spent
             \/ ready /\ AsksLive(p.ns) /\ Fault
          /\ Refuse("StartingDose")
       \/ /\ ~ NeedsDose(p) \/ ready
          /\ req' = [req EXCEPT !.pc = "care",
                                !.dosed = IF NeedsDose(p) /\ OptedIn(p.ns)
                                          THEN Missing(p) ELSE {}]
          /\ UNCHANGED spent
    /\ UNCHANGED <<world, caches, ready, past>>

(***************************************************************************)
(* NewbornCare.Admit: the first entry with a care tier that selects the    *)
(* pod decides; without its class, or with a global default as good, the   *)
(* pod is left alone.  Nothing that goes wrong blocks it.                  *)
(***************************************************************************)
Entry(care, app) ==
    LET mine == {i \in DOMAIN care : care[i].class \in CareTiers /\ care[i].app = app}
    IN  IF mine = {} THEN Absent
        ELSE care[CHOOSE i \in mine : \A j \in mine : i <= j].class

\* Wrong form: the global default is not looked at.
BelowAny(class, cs) == class \in cs.exist

\* The class exists and is above the global default.
Above(class, cs) ==
    /\ class \in cs.exist
    /\ cs.default # Absent => Value[cs.default] < Value[class]

ClassFor(care, app, cs) ==
    LET class == Entry(care, app)
    IN  IF class # Absent /\ Above(class, cs) THEN class ELSE Absent

Chosen(p) == p.class # Absent \/ p.priority \/ p.mirror

NewbornCare ==
    /\ req.pc = "care"
    /\ LET p == req.pod
           class == IF Chosen(p) \/ ~ ready \/ Look(p.ns) = Absent THEN Absent
                    ELSE ClassFor(Look(p.ns).care, p.app, seenClasses)
       IN  \/ /\ req' = IF class = Absent THEN [req EXCEPT !.pc = "priority"]
                        ELSE [req EXCEPT !.pc = "priority", !.cared = TRUE,
                                         !.pod.class = class]
              /\ UNCHANGED spent
           \/ /\ ~ Chosen(p) /\ ready /\ AsksLive(p.ns) /\ Fault
              /\ req' = [req EXCEPT !.pc = "priority"]
    /\ UNCHANGED <<world, caches, ready, past>>

\* External: the Priority plugin refuses a class its lister does not have, and a
\* number that is not the one of the pod's class or the default.
Priority ==
    /\ req.pc = "priority"
    /\ LET known == req.pod.class \in seenClasses.exist \union {Absent}
       IN  \/ known /\ req' = [req EXCEPT !.pc = "validate"]
           \/ (~ known \/ req.pod.priority) /\ Refuse("Priority")
    /\ UNCHANGED <<world, caches, ready, past, spent>>

(***************************************************************************)
(* Immunity.Validate, for a create and for a change of a pod's containers  *)
(* (an image, an ephemeral container).  Old is what the pod carried.       *)
(***************************************************************************)
BaselineCapabilities ==
    {"AUDIT_WRITE", "CHOWN", "DAC_OVERRIDE", "FOWNER", "FSETID", "KILL", "MKNOD",
     "NET_BIND_SERVICE", "SETFCAP", "SETGID", "SETPCAP", "SETUID", "SYS_CHROOT"}

\* An image reference can change under the pod unless it has a digest, or a tag
\* other than latest.
FloatingTag(image) == ~ image.digest /\ image.tag \in {Absent, "latest"}

\* A part is what one field of a pod, a volume or a container asks for.
Foreign(part) ==
    \/ part.what \in {"host network", "host PID", "host IPC", "host path", "host port",
                      "seccomp unconfined", "AppArmor unconfined", "Windows host process",
                      "privileged", "privilege escalation", "unmasked proc"}
    \/ part.what = "capability" /\ part.of \notin BaselineCapabilities
    \/ part.what = "image" /\ FloatingTag(part.of)

Antigens(parts) == {part \in parts : Foreign(part)}

\* Wrong form: only a create is looked at.
NewOnCreate(old, new) == IF pod = Absent THEN Antigens(new) ELSE {}

NewAntigens(old, new) == Antigens(new) \ Antigens(old)

IsSelf(ns) == ns \in SelfNamespaces \/ (Look(ns) # Absent /\ Look(ns).self)

Tolerates(ns, antigens) == antigens = {} \/ (ready /\ IsSelf(ns))

\* The verdict on the antigens a request brings: store, or refuse.  Reading
\* the namespace may fail.
Judge(ns, new, store) ==
    \/ Tolerates(ns, new) /\ store /\ req' = None /\ UNCHANGED spent
    \/ /\ ~ Tolerates(ns, new) /\ UNCHANGED spent
       /\ Refuse("Immunity")
       /\ UNCHANGED pod
    \/ /\ new # {} /\ ready /\ ns \notin SelfNamespaces /\ AsksLive(ns)
       /\ Fault
       /\ Refuse("Immunity")
       /\ UNCHANGED pod

ValidateCreate ==
    /\ req.pc = "validate"
    /\ LET p == req.pod
       IN  IF spaces[p.ns] = Absent          \* external: NamespaceLifecycle
           THEN Refuse("NamespaceLifecycle") /\ UNCHANGED <<pod, spent>>
           ELSE Judge(p.ns, NewAntigens({}, p.parts),
                      pod' = Stored(p, req.dosed, req.cared))
    /\ UNCHANGED <<spaces, classes, caches, ready, past>>

\* The check runs on the object that is replaced.
ValidateUpdate ==
    /\ req.pc = "update"
    /\ pod # Absent
    /\ Judge(pod.spec.ns, NewAntigens(pod.spec.parts, req.pod.parts),
             pod' = [pod EXCEPT !.spec.parts = req.pod.parts])
    /\ UNCHANGED <<spaces, classes, caches, ready, past>>

(***************************************************************************)
(* NoBruteForce.Validate, for deletes and evictions with grace period 0.   *)
(* A delete is checked on the object that goes; an eviction on the         *)
(* informer's copy of the pod, before the eviction deletes it.             *)
(***************************************************************************)
\* isRunning: bound to a node and not finished.
CutOff(p) == p.life = "bound" /\ ~ p.leaving /\ ~ p.discussed

\* Wrong form: every service account of kube-system is one of the components.
IsOfKubeSystem == req.by \in {"component", "controller"}

\* Nodes, the pod garbage collector, the control plane's own users.
IsClusterComponent == req.by = "component"

DeleteNow ==
    /\ req.pc = "delete"
    /\ pod # Absent
    /\ IF ~ IsClusterComponent /\ CutOff(pod.state)
       THEN Refuse("NoBruteForce") /\ UNCHANGED pod
       ELSE req' = None /\ pod' = Absent
    /\ UNCHANGED <<spaces, classes, caches, ready, past, spent>>

\* A pod the cache does not know is let through.
ValidateEviction ==
    /\ req.pc = "evict"
    /\ IF ~ IsClusterComponent /\ (~ ready \/ (seenPod # Absent /\ CutOff(seenPod)))
       THEN Refuse("NoBruteForce")
       ELSE req' = [req EXCEPT !.pc = "evicted", !.saw = seenPod]
    /\ UNCHANGED <<world, caches, ready, past, spent>>

\* External: the eviction deletes the pod, with the grace period it was given.
EvictNow ==
    /\ req.pc = "evicted"
    /\ req' = None
    /\ pod' = Absent
    /\ UNCHANGED <<spaces, classes, caches, ready, past, spent>>

(***************************************************************************)
(* Requests and the world.                                                 *)
(***************************************************************************)
Resting == req.pc \notin {"dose", "care", "priority", "validate", "update",
                          "delete", "evict", "evicted"}

\* A create of a pod nobody has yet (one name in this model).
Create(p) ==
    /\ Resting /\ pod = Absent
    /\ spaces[p.ns] # Absent
    /\ spent.pods < MaxPods
    /\ spent' = [spent EXCEPT !.pods = @ + 1]
    /\ req' = [None EXCEPT !.pc = "dose", !.pod = p]
    /\ UNCHANGED <<world, caches, ready, past>>

\* kubectl set image, kubectl debug, or a change of anything else.
Update(parts) ==
    /\ Resting /\ pod # Absent
    /\ req' = [None EXCEPT !.pc = "update", !.pod = [pod.spec EXCEPT !.parts = parts]]
    /\ UNCHANGED <<world, caches, ready, past, spent>>

Kill(how, by) ==
    /\ Resting /\ pod # Absent
    /\ req' = [None EXCEPT !.pc = how, !.by = by]
    /\ UNCHANGED <<world, caches, ready, past, spent>>

\* The pod was gone before the request was: NotFound.
Miss ==
    /\ req.pc \in {"update", "delete"} /\ pod = Absent
    /\ req' = None
    /\ UNCHANGED <<world, caches, ready, past, spent>>

\* The pod is bound, starts, finishes; is asked to leave, is gone; somebody
\* talks it over.
Lives ==
    /\ pod # Absent
    /\ LET now == pod.state
           Become(new) == pod' = [pod EXCEPT !.state = new]
       IN  \/ now.life = "unbound" /\ Become([now EXCEPT !.life = "bound"])
           \/ now.life = "bound" /\ Become([now EXCEPT !.life = "finished"])
           \/ ~ now.leaving /\ Become([now EXCEPT !.leaving = TRUE])
           \/ now.leaving /\ pod' = Absent
           \/ ~ now.discussed /\ Become([now EXCEPT !.discussed = TRUE])
    /\ UNCHANGED <<spaces, classes, caches, ready, req, past, spent>>

Changes == /\ spent.changes < MaxChanges
           /\ spent' = [spent EXCEPT !.changes = @ + 1]

\* A namespace is created, relabelled or, once empty, deleted.
ChangeSpace(ns, labels) ==
    /\ ns \notin SelfNamespaces
    /\ labels # spaces[ns]
    /\ labels = Absent => pod = Absent
    /\ Changes
    /\ spaces' = [spaces EXCEPT ![ns] = labels]
    /\ past' = [past EXCEPT ![ns] = @ \union {labels}]
    /\ UNCHANGED <<classes, caches, ready, pod, req>>

ChangeClasses(cs) ==
    /\ cs # classes
    /\ Changes
    /\ classes' = cs
    /\ UNCHANGED <<spaces, caches, ready, pod, req, past>>

\* The informers follow, once they have synced.
Follow ==
    /\ ready
    /\ \/ /\ \E ns \in Namespace : /\ seen[ns] # spaces[ns]
                                   /\ seen' = [seen EXCEPT ![ns] = spaces[ns]]
          /\ UNCHANGED <<seenClasses, seenPod>>
       \/ /\ seenClasses # classes /\ seenClasses' = classes
          /\ UNCHANGED <<seen, seenPod>>
       \/ /\ seenPod # StateOf(pod) /\ seenPod' = StateOf(pod)
          /\ UNCHANGED <<seen, seenClasses>>
    /\ UNCHANGED <<world, ready, req, past, spent>>

\* The first lists of a new apiserver arrive.
GetReady ==
    /\ ~ ready
    /\ ready' = TRUE
    /\ seen' = spaces /\ seenClasses' = classes /\ seenPod' = StateOf(pod)
    /\ UNCHANGED <<world, req, past, spent>>

Init ==
    /\ spaces \in [Namespace -> Labels \union {Absent}]
    /\ \A ns \in SelfNamespaces : spaces[ns] = [self |-> FALSE, dosing |-> FALSE, care |-> <<>>]
    /\ seen = [ns \in Namespace |-> Absent]
    /\ classes = [exist |-> CareTiers, default |-> Absent]
    /\ seenClasses = [exist |-> {}, default |-> Absent]
    /\ ready = FALSE
    /\ pod = Absent /\ seenPod = Absent
    /\ req = None
    /\ past = [ns \in Namespace |-> {spaces[ns]} \ {Absent}]
    /\ spent = [changes |-> 0, faults |-> 0, pods |-> 0]

Plugins == StartingDose \/ NewbornCare \/ Priority \/ ValidateCreate
             \/ ValidateUpdate \/ DeleteNow \/ ValidateEviction \/ EvictNow

Next ==
    \/ Plugins
    \/ \E p \in Asked : Create(p)
    \/ \E parts \in Changed : Update(parts)
    \/ \E how \in {"delete", "evict"}, by \in {"person", "controller", "component"} : Kill(how, by)
    \/ Miss \/ Lives
    \/ \E ns \in Namespace, labels \in Labels \union {Absent} : ChangeSpace(ns, labels)
    \/ \E cs \in ClassState : ChangeClasses(cs)
    \/ Follow \/ GetReady

Spec == Init /\ [][Next]_vars

(***************************************************************************)
(* Properties.                                                             *)
(***************************************************************************)
\* Every variable has its type; a request has a pod while plugins read it.
TypeOK ==
    /\ spaces \in [Namespace -> Labels \union {Absent}]
    /\ seen \in [Namespace -> Labels \union {Absent}]
    /\ classes \in ClassState /\ seenClasses \in ClassState
    /\ ready \in BOOLEAN
    /\ pod # Absent => /\ pod.spec \in Pod /\ pod.state \in State
                       /\ pod.dosed \subseteq Resource \ pod.spec.has
                       /\ pod.cared => pod.spec.class \in CareTiers
    /\ {seenPod, req.saw} \subseteq State \union {Absent}
    /\ req.pod \in Pod \union {Absent}
    /\ past \in [Namespace -> SUBSET (Labels \union {Absent})]

\* No antigen lives in a namespace that was never self.  Pods are changed step
\* by step, labels come and go and the copies are old: still every antigen a
\* stored pod carries came in under a version of its namespace that was self.
AntigensWereTolerated ==
    pod # Absent /\ Antigens(pod.spec.parts) # {} =>
        pod.spec.ns \in SelfNamespaces \/ \E v \in past[pod.spec.ns] \ {Absent} : v.self

\* No autoimmunity for want of a cache: once the plugin is ready and its read
\* does not fail, a namespace that has been self ever since it was made, one
\* created a moment ago among them, sees nothing refused.  (One deleted and made
\* again may be judged by the copy of the old one.)
SelfIsNeverRefused ==
    [][req.pc # "Immunity" /\ req'.pc = "Immunity" /\ ready /\ spent' = spent =>
         LET ns == req.pod.ns
         IN  ns \notin SelfNamespaces /\ \E v \in past[ns] : v = Absent \/ ~ v.self]_vars

\* No person's request cuts off a pod that runs and was not talked over: a
\* delete never does, and an eviction only where the informer's copy the
\* check was made on was no longer the pod that went.
NobodyCutsOff ==
    [][/\ pod # Absent /\ pod' = Absent
       /\ pod.state = [life |-> "bound", leaving |-> FALSE, discussed |-> FALSE]
       /\ req.by # "component"
       => req.pc = "evicted" /\ req.saw # pod.state]_vars

\* Nothing bare is stored in a namespace that has asked for starting doses ever
\* since it was made; and nothing is dosed where nobody ever asked, nor where the
\* pod states resources of its own or belongs to the kubelet.
DosedWhereAsked ==
    pod # Absent =>
        LET vs == past[pod.spec.ns]
            own == pod.spec.mirror \/ pod.spec.resources
        IN  /\ (\A v \in vs : v # Absent /\ v.dosing) =>
                  own \/ Resource = pod.spec.has \union pod.dosed
            /\ own \/ (\A v \in vs \ {Absent} : ~ v.dosing) => pod.dosed = {}

\* A pod is given a care tier only if it chose neither class nor priority itself
\* and some version of its namespace listed it as a newborn, and only while, as
\* far as the plugin could see, that lifted it above the global default.
CareIsDue ==
    [][~ req.cared /\ req'.cared =>
         /\ req.pod.class = Absent /\ ~ req.pod.priority /\ ~ req.pod.mirror
         /\ \E v \in past[req.pod.ns] \ {Absent} : Entry(v.care, req.pod.app) = req'.pod.class
         /\ seenClasses.default # Absent =>
              Value[seenClasses.default] < Value[req'.pod.class]]_vars

\* nobruteforce/admission.go: a running pod deleted with grace period 0,
\* "directly or through the Eviction API", "is refused until the pod carries
\* the discussed annotation".
RefusedUntilDiscussed ==
    [][pod # Absent /\ pod' = Absent /\ CutOff(pod.state) => IsClusterComponent]_vars
=============================================================================
