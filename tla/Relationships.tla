--------------------------- MODULE Relationships ---------------------------
(***************************************************************************)
(* The relationships controller: every 30 seconds it makes sure that the   *)
(* Relationship API is installed, infers who serves and who talks to whom  *)
(* from its caches of services and workloads, and brings the objects that  *)
(* carry its label in line, one request after the other.                   *)
(***************************************************************************)
EXTENDS Naturals, Sequences

CONSTANTS
    Service, Workload,    \* records with ns and name
    Selectors,            \* sets of labels a service may select
    Templates,            \* records with labels and texts a workload may have
    Absent,
    Edited,               \* the evidence of an object a user wrote
    MaxMoves,             \* bound: what users do
    MaxTrouble            \* bound: requests that fail, restarts

VARIABLES
    services,     \* [Service -> Absent or its uid and selector]
    workloads,    \* [Workload -> Absent or its uid, labels and texts]
    seen,         \* the informers' copies of both
    api,          \* the definition of the Relationship API, or Absent
    objects,      \* the Relationship objects, by name
    pass,         \* what this pass of the controller knows and has left to do
    touched,      \* names written since this pass listed (resourceVersion moved)
    alive,        \* history: parties that did not change since the process began
    spent         \* what the bounds count

vars == <<services, workloads, seen, api, objects, pass, touched, alive, spent>>

Move == spent.moves < MaxMoves /\ spent' = [spent EXCEPT !.moves = @ + 1]

Trouble == spent.trouble < MaxTrouble /\ spent' = [spent EXCEPT !.trouble = @ + 1]

(***************************************************************************)
(* Names.  Name joins kind, name, type and, across namespaces, the         *)
(* namespace of the other party: one name per pair and type.               *)
(***************************************************************************)
Key == [type : {"serves", "talks-to"}, s : Service, w : Workload]

From(k) == IF k.type = "serves" THEN k.s ELSE k.w

(***************************************************************************)
(* Graph: who serves and who talks to whom.                                *)
(***************************************************************************)
\* A service without a selector serves nobody the controller knows of.
Serves(svcs, wls, s, w) ==
    /\ svcs[s] # Absent /\ wls[w] # Absent
    /\ s.ns = w.ns
    /\ svcs[s].selector # {} /\ svcs[s].selector \subseteq wls[w].labels

\* A text says "host" if it is a URL, has a port or a user, or is the value of
\* an address variable; a bare word is weak; a port that is no number is no host.
IsHost(text) == text.form # "host:word"
Strong(text) == text.form \in {"url", "host:port", "user@host", "address variable"}

\* lookup: the qualified forms resolve from anywhere, the short name only in
\* the same namespace and only where the text uses it as a host.
Resolves(text, w, s) ==
    /\ IsHost(text)
    /\ text.name = s.name
    /\ IF text.ns = Absent THEN Strong(text) /\ w.ns = s.ns ELSE text.ns = s.ns

Mentions(svcs, wls, s, w) ==
    IF svcs[s] = Absent \/ wls[w] = Absent THEN {}
    ELSE {i \in DOMAIN wls[w].texts : Resolves(wls[w].texts[i], w, s)}

\* Wrong form: a service calling itself is a relationship too.
TalksToAnyone(svcs, wls, s, w) == Mentions(svcs, wls, s, w) # {}

TalksTo(svcs, wls, s, w) ==
    Mentions(svcs, wls, s, w) # {} /\ ~ Serves(svcs, wls, s, w)

\* The object for a relationship: its owner is the party it starts from, its
\* evidence the selector or the first text that mentions the service.
ToObject(svcs, wls, k) ==
    [owner    |-> IF k.type = "serves" THEN svcs[k.s].uid ELSE wls[k.w].uid,
     evidence |-> IF k.type = "serves" THEN svcs[k.s].selector
                  ELSE wls[k.w].texts[
                         CHOOSE i \in Mentions(svcs, wls, k.s, k.w) :
                             \A j \in Mentions(svcs, wls, k.s, k.w) : i <= j],
     managed  |-> TRUE]

Graph(svcs, wls) ==
    [k \in Key |->
        IF \/ k.type = "serves" /\ Serves(svcs, wls, k.s, k.w)
           \/ k.type = "talks-to" /\ TalksTo(svcs, wls, k.s, k.w)
        THEN ToObject(svcs, wls, k) ELSE Absent]

(***************************************************************************)
(* ensureCRD.                                                              *)
(***************************************************************************)
CRD == "current"

Idle == [phase |-> "idle"]

Served == api # Absent /\ api.spec = CRD /\ api.established

\* Creates the API or brings an older release's in line, and tries again in 30
\* seconds; goes on only once the API is served.
EnsureCRD ==
    /\ pass.phase = "idle"
    /\ api' = IF api = Absent THEN [spec |-> CRD, established |-> FALSE]
              ELSE [api EXCEPT !.spec = CRD]
    /\ pass' = IF Served THEN [phase |-> "ensured"] ELSE Idle
    /\ UNCHANGED <<services, workloads, seen, objects, touched, alive, spent>>

(***************************************************************************)
(* reconcile.                                                              *)
(***************************************************************************)
Managed == {k \in Key : objects[k] # Absent /\ objects[k].managed}

Wanted == {k \in Key : pass.desired[k] # Absent}

\* Reads the caches, then lists the objects that carry the label.
List ==
    /\ pass.phase = "ensured"
    /\ LET desired == Graph(seen.services, seen.workloads)
           todo == Managed \union {k \in Key : desired[k] # Absent}
       IN  pass' = IF api = Absent \/ todo = {} THEN Idle
                   ELSE [phase |-> "writing", desired |-> desired, todo |-> todo,
                         listed |-> [k \in Key |-> IF k \in Managed THEN objects[k]
                                                   ELSE Absent]]
    /\ touched' = {}
    /\ UNCHANGED <<services, workloads, seen, api, objects, alive, spent>>

Listed == {k \in Key : pass.listed[k] # Absent}

\* Wrong form: what is desired is created before the rest is removed.
AnyOrder(k) == TRUE

\* The listed objects come first, then what is desired and was not listed.
InTurn(k) == k \in Listed \/ pass.todo \intersect Listed = {}

\* Wrong form: the update carries no resourceVersion.
UpdateForced(k) == objects[k] # Absent

\* An update carries the resourceVersion of the list.
UpdateTaken(k) == objects[k] # Absent /\ k \notin touched

\* Wrong form: what has the right name is taken to be right.
EqualName(k) == TRUE

EqualSpec(k) == pass.listed[k].evidence = pass.desired[k].evidence

\* Wrong form: the pass does not end.
DoneNever(k) == pass' = [pass EXCEPT !.todo = @ \ {k}]

Done(k) == pass' = IF pass.todo = {k} THEN Idle ELSE [pass EXCEPT !.todo = @ \ {k}]

\* One object: deleted by name, left as it is, updated, or created if the name
\* is free.  A refused write is an error that ends nothing.
Write(k) ==
    /\ pass.phase = "writing"
    /\ k \in pass.todo /\ InTurn(k)
    /\ LET o == IF k \in Listed /\ k \notin Wanted THEN Absent
                ELSE IF api = Absent THEN objects[k]
                ELSE IF k \notin Listed
                     THEN IF objects[k] = Absent THEN pass.desired[k] ELSE objects[k]
                ELSE IF ~ EqualSpec(k) /\ UpdateTaken(k) THEN pass.desired[k]
                ELSE objects[k]
       IN  objects' = [objects EXCEPT ![k] = o]
    /\ touched' = IF objects'[k] = objects[k] THEN touched ELSE touched \union {k}
    /\ Done(k)
    /\ UNCHANGED <<services, workloads, seen, api, alive, spent>>

\* A request fails: a write is skipped, anything else ends the pass.
RequestFails ==
    /\ Trouble
    /\ \/ pass.phase \in {"idle", "ensured"} /\ pass' = Idle
       \/ pass.phase = "writing" /\ \E k \in pass.todo : InTurn(k) /\ Done(k)
    /\ UNCHANGED <<services, workloads, seen, api, objects, touched, alive>>

\* Wrong form: the first pass does not wait for the caches.
EmptyCaches == [services |-> [s \in Service |-> Absent],
                workloads |-> [w \in Workload |-> Absent]]

\* WaitForNamedCacheSync: a process begins with what the apiserver lists.
FilledCaches == [services |-> services, workloads |-> workloads]

Restart ==
    /\ Trouble
    /\ seen' = FilledCaches
    /\ pass' = Idle
    /\ alive' = Service \union Workload
    /\ UNCHANGED <<services, workloads, api, objects, touched>>

(***************************************************************************)
(* The cluster: users, the informers, the garbage collector, the           *)
(* apiserver.  A new party gets a uid that was never used before.          *)
(***************************************************************************)
NewUid == spent.moves + 2

PutService(s, selector) ==
    /\ services[s] # Absent => services[s].selector # selector
    /\ Move
    /\ services' = [services EXCEPT ![s] =
          [uid |-> IF @ = Absent THEN NewUid ELSE @.uid, selector |-> selector]]
    /\ alive' = alive \ {s}
    /\ UNCHANGED <<workloads, seen, api, objects, pass, touched>>

PutWorkload(w, t) ==
    /\ workloads[w] # Absent => workloads[w].labels # t.labels \/ workloads[w].texts # t.texts
    /\ Move
    /\ workloads' = [workloads EXCEPT ![w] =
          [uid |-> IF @ = Absent THEN NewUid ELSE @.uid, labels |-> t.labels, texts |-> t.texts]]
    /\ alive' = alive \ {w}
    /\ UNCHANGED <<services, seen, api, objects, pass, touched>>

RemoveService(s) ==
    /\ services[s] # Absent
    /\ Move
    /\ services' = [services EXCEPT ![s] = Absent]
    /\ alive' = alive \ {s}
    /\ UNCHANGED <<workloads, seen, api, objects, pass, touched>>

RemoveWorkload(w) ==
    /\ workloads[w] # Absent
    /\ Move
    /\ workloads' = [workloads EXCEPT ![w] = Absent]
    /\ alive' = alive \ {w}
    /\ UNCHANGED <<services, seen, api, objects, pass, touched>>

WatchService(s) ==
    /\ seen.services[s] # services[s]
    /\ seen' = [seen EXCEPT !.services[s] = services[s]]
    /\ UNCHANGED <<services, workloads, api, objects, pass, touched, alive, spent>>

WatchWorkload(w) ==
    /\ seen.workloads[w] # workloads[w]
    /\ seen' = [seen EXCEPT !.workloads[w] = workloads[w]]
    /\ UNCHANGED <<services, workloads, api, objects, pass, touched, alive, spent>>

Put(k, o) ==
    /\ objects' = [objects EXCEPT ![k] = o]
    /\ touched' = touched \union {k}
    /\ UNCHANGED <<services, workloads, seen, api, pass, alive>>

\* Users rewrite an object, take the label off it, delete it, or make their own.
EditObject(k) == objects[k] # Absent /\ Move /\ Put(k, [objects[k] EXCEPT !.evidence = Edited])
StripLabel(k) == k \in Managed /\ Move /\ Put(k, [objects[k] EXCEPT !.managed = FALSE])
RemoveObject(k) == objects[k] # Absent /\ Move /\ Put(k, Absent)
MakeOwn(k) ==
    /\ objects[k] = Absent /\ Served /\ Move
    /\ Put(k, [owner |-> 0, evidence |-> Edited, managed |-> FALSE])

OwnerLives(k) ==
    LET party == IF k.type = "serves" THEN services[k.s] ELSE workloads[k.w]
    IN  objects[k].owner = 0 \/ (party # Absent /\ party.uid = objects[k].owner)

Collect(k) ==
    /\ objects[k] # Absent /\ ~ OwnerLives(k)
    /\ Put(k, Absent)
    /\ UNCHANGED spent

Establish ==
    /\ api # Absent /\ ~ api.established
    /\ api' = [api EXCEPT !.established = TRUE]
    /\ UNCHANGED <<services, workloads, seen, objects, pass, touched, alive, spent>>

\* Deleting the definition deletes every object.
RemoveAPI ==
    /\ api # Absent
    /\ Move
    /\ api' = Absent
    /\ objects' = [k \in Key |-> Absent]
    /\ touched' = Key
    /\ UNCHANGED <<services, workloads, seen, pass, alive>>

(***************************************************************************)
(* The specification.                                                      *)
(***************************************************************************)
\* A process begins beside what an earlier one, perhaps of an older release
\* with another definition of the API, left behind.
Init ==
    /\ services \in [Service -> {Absent} \union [uid : {1}, selector : Selectors]]
    /\ workloads \in [Workload -> {Absent} \union
          {[uid |-> 1, labels |-> t.labels, texts |-> t.texts] : t \in Templates}]
    /\ seen = FilledCaches
    /\ \/ api = Absent /\ objects = [k \in Key |-> Absent]
       \/ /\ api \in [spec : {CRD, "older"}, established : {TRUE}]
          /\ objects = Graph(services, workloads)
    /\ pass = Idle
    /\ touched = {}
    /\ alive = Service \union Workload
    /\ spent = [moves |-> 0, trouble |-> 0]

Controller == EnsureCRD \/ List \/ (\E k \in Key : Write(k))

User ==
    \/ \E s \in Service : RemoveService(s) \/ \E x \in Selectors : PutService(s, x)
    \/ \E w \in Workload : RemoveWorkload(w) \/ \E t \in Templates : PutWorkload(w, t)
    \/ \E k \in Key : EditObject(k) \/ StripLabel(k) \/ RemoveObject(k) \/ MakeOwn(k)
    \/ RemoveAPI

Watch == (\E s \in Service : WatchService(s)) \/ (\E w \in Workload : WatchWorkload(w))

Next ==
    \/ Controller \/ RequestFails \/ Restart
    \/ User
    \/ Watch
    \/ \E k \in Key : Collect(k)
    \/ Establish

\* The loop runs every 30 seconds, watches deliver, garbage is collected and a
\* definition gets established.
Fairness ==
    /\ WF_vars(Controller) /\ WF_vars(Establish)
    /\ \A s \in Service : WF_vars(WatchService(s))
    /\ \A w \in Workload : WF_vars(WatchWorkload(w))
    /\ \A k \in Key : WF_vars(Collect(k))

Spec == Init /\ [][Next]_vars /\ Fairness

(***************************************************************************)
(* Properties.                                                             *)
(***************************************************************************)
\* Every variable has its type.
TypeOK ==
    /\ \A s \in Service : services[s] = Absent \/ services[s].selector \in Selectors
    /\ DOMAIN workloads = Workload /\ DOMAIN objects = Key
    /\ \A k \in Key : objects[k] = Absent \/ objects[k].managed \in BOOLEAN
    /\ pass.phase \in {"idle", "ensured", "writing"}
    /\ pass.phase = "writing" => pass.todo \subseteq Key /\ pass.todo # {}
    /\ touched \subseteq Key
    /\ alive \subseteq Service \union Workload

\* A service calling itself is not a relationship: as long as no request fails
\* and no process dies, a pair is never in both relationships, also not while a
\* pass is half done after the selector or the texts changed.
OneTieEach ==
    spent.trouble = 0 =>
        ~ \E j, k \in Managed : j.type # k.type /\ j.s = k.s /\ j.w = k.w

\* What users wrote to a relationship after the pass listed it is not
\* overwritten by what the pass had in mind: an update of it conflicts, a create
\* finds the name taken; only a relationship that is gone is deleted regardless.
EditsSurvive ==
    [][pass.phase = "writing" /\ pass # pass' =>
         \A k \in pass.todo \intersect touched :
            objects[k] # Absent /\ objects'[k] # Absent => objects'[k] = objects[k]]_vars

\* A restarted controller does not purge relationships it has not seen yet: one
\* whose parties have not changed since the process began is never deleted by it.
UnmovedKept ==
    [][pass.phase = "writing" /\ pass # pass' =>
         \A k \in Managed : {k.s, k.w} \subseteq alive /\ Graph(services, workloads)[k] # Absent
                             => objects'[k] # Absent]_vars

\* Whatever failed, conflicted, was collected or removed, and whatever users
\* edited of an object's spec or label: in the end the API is served and every
\* relationship of the cluster, no other, has its object, owned by the party
\* that exists now; only names a user holds (an object without the label) are
\* left alone.  Nobody edits owner references: equalSpec would not put them back.
EventuallyGraph ==
    <>[](/\ Served
         /\ \A k \in Key : \/ objects[k] = Graph(services, workloads)[k]
                           \/ objects[k] # Absent /\ ~ objects[k].managed)
=============================================================================
