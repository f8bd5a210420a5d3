---------------------------- MODULE PlaceMemory ----------------------------
(***************************************************************************)
(* Object-location memory: the kube-controller-manager writes on a         *)
(* long-lived workload (the holder) the nodes its replicas live on, and    *)
(* the scheduler draws a replacement back to one of them.                  *)
(*                                                                         *)
(* One holder, of one of three kinds.  The controller works from informer  *)
(* caches that lag behind the API server, a queue with one worker for the  *)
(* holder's key, and a merge patch that names the resourceVersion it was   *)
(* computed from.  Replicas, users and the deployment controller change    *)
(* the objects meanwhile.                                                  *)
(***************************************************************************)
EXTENDS Naturals, FiniteSets, Sequences, Functions

CONSTANTS
    Node,                 \* node names, numbers so that they sort
    Replica,              \* ordinals of a StatefulSet, slots of the others
    Limits,               \* the values of MaxRememberedNodes (16) a run considers
    MaxAttempts,          \* writes of one sync before it gives up (5)
    Kinds,                \* the kinds of holder a run considers
    MaxMoves,             \* bound: replicas started
    MaxTrouble            \* bound: changes others make to the holder, failed API
                          \* calls and new controller processes, together

ASSUME NamesSort == Node \subseteq Nat \ {0} /\ Replica \subseteq Nat \ {0}
ASSUME ClusterIsFinite == IsFiniteSet(Node) /\ IsFiniteSet(Replica)
ASSUME BoundsAreNumbers ==
    /\ Limits \subseteq Nat \ {0} /\ MaxAttempts \in Nat \ {0}
    /\ MaxMoves \in Nat /\ MaxTrouble \in Nat
ASSUME KindsKnown == Kinds \subseteq {"Deployment", "ReplicaSet", "StatefulSet"}

VARIABLES
    kind,         \* the holder's kind
    limit,        \* MaxRememberedNodes
    tie,          \* every other scheduler plugin scores the nodes alike
    at,           \* where each replica runs; None: not running, or leaving
    holder,       \* the holder in the API server
    seenPods,     \* the controller's pod cache, read as at is
    seenHolder,   \* the controller's copy of the holder
    behind,       \* that copy has another resourceVersion than the holder
    synced,       \* the informers, "pods" and "replicaSets", that filled their cache
    queued,       \* the holder's key waits in the queue
    worker,       \* the sync in progress
    spent         \* what the bounds count

api == <<at, holder>>
cache == <<seenPods, seenHolder, behind, synced>>
vars == <<kind, limit, tie, at, holder, seenPods, seenHolder, behind, synced,
          queued, worker, spent>>

None == 0
Informers == {"pods", "replicaSets"}
Nothing == <<>>           \* the annotation is absent: no list, no pairs

(***************************************************************************)
(* placement.Recall.  A running map is [replica |-> node] over the running *)
(* replicas; a memory is a sequence of nodes, the newest found first, or,  *)
(* for a StatefulSet, a function from ordinals to nodes.                   *)
(***************************************************************************)
Running(where) == [r \in {q \in Replica : where[q] # None} |-> where[r]]

\* What a memory remembers: ordinals of a StatefulSet, nodes of the others.
Entries(memory) == IF kind = "StatefulSet" THEN DOMAIN memory ELSE Range(memory)

\* How many entries are too many.
\* Wrong form: the bound is one too high.
ExcessLate(n) == IF n > limit + 1 THEN n - limit - 1 ELSE 0

Excess(n) == IF n > limit THEN n - limit ELSE 0

\* A set of numbers as a sequence, smallest first.
InOrder[S \in SUBSET Nat] ==
    [i \in 1..Cardinality(S) |-> CHOOSE n \in S : Cardinality({m \in S : m <= n}) = i]

\* The largest k of a set of numbers, all of it when it has no more.
Largest(k, S) == {n \in S : Cardinality({m \in S : m > n}) < k}

\* New homes go first, sorted; the oldest of the homes left fade, never a
\* current one.
RecallNodes(previous, current) ==
    LET nodes == InOrder[current \ Range(previous)] \o previous
        idle == {i \in DOMAIN nodes : nodes[i] \notin current}
        kept == InOrder[DOMAIN nodes \ Largest(Excess(Len(nodes)), idle)]
    IN  [i \in DOMAIN kept |-> nodes[kept[i]]]

\* The running ordinals take their node; the highest of the ordinals that do
\* not run are dropped.
RecallOrdinals(previous, running) ==
    LET ords == DOMAIN previous \union DOMAIN running
        gone == Largest(Excess(Cardinality(ords)), ords \ DOMAIN running)
    IN  [o \in ords \ gone |-> IF o \in DOMAIN running THEN running[o] ELSE previous[o]]

\* Wrong form: part of a workload that is too spread is remembered.
RecallAlways(previous, running) ==
    IF kind = "StatefulSet" THEN RecallOrdinals(previous, running)
    ELSE RecallNodes(previous, Range(running))

Recall(previous, running) ==
    IF Cardinality(Range(running)) > limit THEN Nothing
    ELSE IF kind = "StatefulSet" THEN RecallOrdinals(previous, running)
    ELSE RecallNodes(previous, Range(running))

\* The cached holder's memory already has this pod where it runs.
Remembers(memory, r, n) ==
    IF kind = "StatefulSet" THEN r \in DOMAIN memory /\ memory[r] = n
    ELSE n \in Range(memory)

(***************************************************************************)
(* The controller.                                                         *)
(***************************************************************************)
Trouble == /\ spent.trouble < MaxTrouble
           /\ spent' = [spent EXCEPT !.trouble = @ + 1]

Idle == [pc |-> "idle", pods |-> Nothing, want |-> Nothing, old |-> FALSE, attempt |-> 0]

\* One turn of the attempt loop: nothing to write, or a write to send.  old:
\* the holder has changed since the version the write names.
Attempt(previous, old, pods, n) ==
    LET want == Recall(previous, pods)
    IN  IF want = previous THEN Idle
        ELSE [pc |-> "write", pods |-> pods, want |-> want, old |-> old, attempt |-> n]

\* The holder changes: copies and writes of an earlier version are old.
Put(new, w) ==
    /\ holder' = new
    /\ behind' = TRUE
    /\ worker' = [w EXCEPT !.old = (w.pc # "idle")]

\* HolderFor: a Deployment's pod leads to it through its ReplicaSet; before that
\* cache is filled the pod is taken for one of a bare ReplicaSet, whose sync
\* finds nothing to do.
HolderKnown == kind = "Deployment" => "replicaSets" \in synced

\* enqueuePod: a pod remembered where it runs costs nothing.
EnqueuePod(r, node) ==
    queued' = \/ queued
              \/ /\ node # None
                 /\ HolderKnown
                 /\ ~ (seenHolder.exists /\ Remembers(seenHolder.memory, r, node))

\* The watch delivers a pod's present state to the cache and to the handler,
\* which leaves a pod alone that does not run.
Watch(r) ==
    /\ seenPods[r] # at[r]
    /\ seenPods' = [seenPods EXCEPT ![r] = at[r]]
    /\ EnqueuePod(r, at[r])
    /\ UNCHANGED <<kind, limit, tie, api, seenHolder, behind, synced, worker, spent>>

\* The informer hands a cached pod to the handler again.
Resync(r) ==
    /\ EnqueuePod(r, seenPods[r])
    /\ UNCHANGED <<kind, limit, tie, api, cache, worker, spent>>

\* The holder's update arrives; the handler acts on a changed replica count
\* (none is installed for a bare ReplicaSet).
WatchHolder ==
    /\ behind
    /\ behind' = FALSE
    /\ seenHolder' = holder
    /\ queued' = \/ queued
                 \/ /\ kind # "ReplicaSet" /\ seenHolder.exists /\ holder.exists
                    /\ seenHolder.replicas # holder.replicas
    /\ UNCHANGED <<kind, limit, tie, api, seenPods, synced, worker, spent>>

\* A new process's informers finish their first lists, in any order.
FillCache(informer) ==
    /\ informer \notin synced
    /\ informer = "pods" => seenPods = at
    /\ synced' = synced \union {informer}
    /\ UNCHANGED <<kind, limit, tie, api, seenPods, seenHolder, behind, queued, worker, spent>>

\* sync, up to its first write: the pods are read once, from the cache.
Sync ==
    /\ queued /\ synced = Informers /\ worker.pc = "idle"
    /\ queued' = FALSE
    /\ worker' = IF seenHolder.exists
                 THEN Attempt(seenHolder.memory, behind, Running(seenPods), 1) ELSE Idle
    /\ UNCHANGED <<kind, limit, tie, api, cache, spent>>

Return(retry) == /\ worker' = Idle
                 /\ queued' = (queued \/ retry)

\* The API server takes the patch only at the version it was computed from.
\* Wrong form: the patch names no resourceVersion.
AcceptedAlways == holder.exists

Accepted == holder.exists /\ ~ worker.old

Store == Put([holder EXCEPT !.memory = worker.want], Idle)

Write ==
    /\ worker.pc = "write"
    /\ \/ Accepted /\ Store /\ UNCHANGED queued
       \/ /\ holder.exists /\ ~ Accepted        \* Conflict
          /\ worker' = [worker EXCEPT !.pc = "get"]
          /\ UNCHANGED <<holder, behind, queued>>
       \/ /\ ~ holder.exists                    \* NotFound
          /\ Return(TRUE)
          /\ UNCHANGED <<holder, behind>>
    /\ UNCHANGED <<kind, limit, tie, at, seenPods, seenHolder, synced, spent>>

\* The call fails; the server may have stored the patch all the same.
WriteFails ==
    /\ worker.pc = "write"
    /\ Trouble
    /\ queued' = TRUE
    /\ \/ worker' = Idle /\ UNCHANGED <<holder, behind>>
       \/ Accepted /\ Store
    /\ UNCHANGED <<kind, limit, tie, at, seenPods, seenHolder, synced>>

TriesLeft == worker.attempt < MaxAttempts

\* After a conflict: start again from the live object, with the same pods.
Get ==
    /\ worker.pc = "get"
    /\ \/ /\ holder.exists /\ TriesLeft
          /\ worker' = Attempt(holder.memory, FALSE, worker.pods, worker.attempt + 1)
          /\ UNCHANGED queued
       \/ /\ holder.exists /\ ~ TriesLeft        \* kept changing
          /\ Return(TRUE)
       \/ ~ holder.exists /\ Return(FALSE)
    /\ UNCHANGED <<kind, limit, tie, api, cache, spent>>

GetFails ==
    /\ worker.pc = "get"
    /\ Trouble
    /\ Return(TRUE)
    /\ UNCHANGED <<kind, limit, tie, api, cache>>

\* A new process: an empty queue and empty caches, every listed pod an event.
\* Workers wait for the caches; the handlers do not.
Restart ==
    /\ Trouble
    /\ worker' = Idle
    /\ queued' = FALSE
    /\ seenPods' = [r \in Replica |-> None]
    /\ seenHolder' = holder
    /\ behind' = FALSE
    /\ synced' = {}
    /\ UNCHANGED <<kind, limit, tie, api>>

(***************************************************************************)
(* The scheduler: 100 for the first of the memory, fading by 5 and never   *)
(* below 50; no points where a replica of the same workload runs now, save *)
(* that a StatefulSet's pod is drawn to its own ordinal's node only.  The   *)
(* scheduler's copy of the holder is taken to be up to date.               *)
(***************************************************************************)
ScoreAt(i) == IF i > 10 THEN 50 ELSE 105 - 5 * i

\* Wrong form: a home is a home, whoever lives there now.
NeverBusy(n) == FALSE

Busy(n) == \E q \in Replica : at[q] = n

Points(memory, r, n) ==
    IF kind = "StatefulSet"
    THEN IF r \in DOMAIN memory /\ memory[r] = n THEN 100 ELSE 0
    ELSE LET ranks == {i \in DOMAIN memory : memory[i] = n}
         IN  IF Busy(n) \/ ranks = {} THEN 0 ELSE ScoreAt(CHOOSE i \in ranks : TRUE)

Best(memory, r) ==
    {n \in Node : \A m \in Node : Points(memory, r, m) <= Points(memory, r, n)}

(***************************************************************************)
(* The cluster.                                                            *)
(***************************************************************************)
\* A replica is created, bound and starts to run.  Where the other plugins
\* tell the nodes apart they decide.
Start(r, n) ==
    /\ at[r] = None
    /\ spent.moves < MaxMoves
    /\ spent' = [spent EXCEPT !.moves = @ + 1]
    /\ IF kind = "StatefulSet" THEN r <= holder.replicas
       ELSE Cardinality(DOMAIN Running(at)) < holder.replicas
    /\ tie => n \in Best(holder.memory, r)
    /\ at' = [at EXCEPT ![r] = n]
    /\ UNCHANGED <<kind, limit, tie, holder, cache, queued, worker>>

\* A replica stops counting as running: deleted, evicted or failed.
Stop(r) ==
    /\ at[r] # None
    /\ at' = [at EXCEPT ![r] = None]
    /\ UNCHANGED <<kind, limit, tie, holder, cache, queued, worker, spent>>

Change(new) ==
    /\ Put(new, worker)
    /\ UNCHANGED <<kind, limit, tie, at, seenPods, seenHolder, synced, queued>>

Scale(k) ==
    /\ holder.exists /\ k # holder.replicas
    /\ Trouble
    /\ Change([holder EXCEPT !.replicas = k])

\* Anything else of the holder: its status, other annotations.
Touch == holder.exists /\ Trouble /\ Change(holder)

Delete ==
    /\ holder.exists
    /\ Trouble
    /\ Change([holder EXCEPT !.exists = FALSE, !.memory = Nothing])

\* Created again under the same name; its orphaned replicas may still run.
Recreate ==
    /\ ~ holder.exists
    /\ Change([holder EXCEPT !.exists = TRUE])
    /\ UNCHANGED spent

Init ==
    /\ kind \in Kinds
    /\ limit \in Limits
    /\ tie \in BOOLEAN
    /\ at = [r \in Replica |-> None]
    /\ holder = [exists |-> TRUE, memory |-> Nothing, replicas |-> Cardinality(Replica)]
    /\ seenPods = at
    /\ seenHolder = holder
    /\ behind = FALSE
    /\ synced = Informers
    /\ queued = FALSE
    /\ worker = Idle
    /\ spent = [moves |-> 0, trouble |-> 0]

Controller ==
    \/ \E r \in Replica : Watch(r) \/ Resync(r)
    \/ WatchHolder \/ \E i \in Informers : FillCache(i)
    \/ Sync \/ Write \/ WriteFails \/ Get \/ GetFails \/ Restart

Cluster ==
    \/ \E r \in Replica : Stop(r) \/ \E n \in Node : Start(r, n)
    \/ \E k \in 0..Cardinality(Replica) : Scale(k)
    \/ Touch \/ Delete \/ Recreate

Next == Controller \/ Cluster

Spec == Init /\ [][Next]_vars

\* Watches deliver, handlers and the worker run, and the shared informers
\* resync: what the process does on its own while it lives.
Fairness ==
    /\ \A r \in Replica : WF_vars(Watch(r)) /\ WF_vars(Resync(r))
    /\ WF_vars(WatchHolder) /\ \A i \in Informers : WF_vars(FillCache(i))
    /\ WF_vars(Sync) /\ WF_vars(Write \/ WriteFails) /\ WF_vars(Get \/ GetFails)

FairSpec == Spec /\ Fairness

(***************************************************************************)
(* Properties.                                                             *)
(***************************************************************************)
Placed == UNION {[R -> Node] : R \in SUBSET Replica}

Memory == IF kind = "StatefulSet" THEN Placed
          ELSE UNION {[1..k -> Node] : k \in 0..Cardinality(Node)}

HolderObject == [exists : BOOLEAN, memory : Memory, replicas : 0..Cardinality(Replica)]

Work == [pc : {"idle", "write", "get"}, pods : Placed, want : Memory, old : BOOLEAN,
         attempt : 0..MaxAttempts]

\* Every variable has the type its comment gives it, the memory among them.
TypeOK ==
    /\ kind \in Kinds /\ limit \in Limits /\ {tie, behind, queued} \subseteq BOOLEAN
    /\ at \in [Replica -> Node \union {None}]
    /\ seenPods \in [Replica -> Node \union {None}]
    /\ holder \in HolderObject /\ seenHolder \in HolderObject
    /\ synced \subseteq Informers
    /\ worker \in Work
    /\ spent \in [moves : 0..MaxMoves, trouble : 0..MaxTrouble]

\* A list of homes never outgrows its bound and never names a node twice
\* (Score takes the first mention, Scores the last).  A StatefulSet's pairs may
\* outgrow it: ordinals that run are never dropped.
MemoryBounded ==
    kind # "StatefulSet" =>
        /\ Len(holder.memory) <= limit
        /\ IsInjective(holder.memory)

\* What a write may make of a memory, given the pods it was computed from: it
\* keeps every home the worker saw a replica in and drops another one only when
\* the memory is full; it clears the memory only for a workload seen on more
\* nodes than fit; it may replace the node of a StatefulSet's ordinal, by the
\* node that ordinal was seen on.
MakesRoom(old, new, pods) ==
    \/ new = Nothing /\ Cardinality(Range(pods)) > limit
    \/ /\ (IF kind = "StatefulSet" THEN DOMAIN pods ELSE Range(pods)) \subseteq Entries(new)
       /\ Entries(old) \subseteq Entries(new) \/ Cardinality(Entries(new)) >= limit
       /\ kind = "StatefulSet" =>
            \A o \in DOMAIN new : \/ o \in DOMAIN pods /\ new[o] = pods[o]
                                  \/ o \in DOMAIN old /\ new[o] = old[o]

\* A home leaves the memory only to make room, whatever is stale when a write is
\* computed: the cached holder, the pods read before a conflict.
HomesFadeOnlyWhenFull ==
    [][holder.exists /\ holder'.exists /\ holder'.memory # holder.memory
       => MakesRoom(holder.memory, holder'.memory, worker.pods)]_vars

\* Where the workload runs is what it remembers.
Remembered ==
    LET running == Running(at)
    IN  IF Cardinality(Range(running)) > limit
        THEN holder.memory = Nothing
        ELSE \A r \in DOMAIN running : Remembers(holder.memory, r, running[r])

\* Once replicas stop moving and nobody edits the holder, the memory comes to
\* agree with where the replicas run and stays so: whatever the handlers
\* skipped on a stale copy, a resync brings back.
EventuallyRemembered == <>[](holder.exists => Remembered)

\* When nothing else tells the nodes apart, a replacement goes home: to a
\* remembered node without a sibling, and not to one with a sibling, while there
\* is such a node (a StatefulSet's pod to its own ordinal's).
GoesHome ==
    [][\A r \in Replica : tie /\ at[r] = None /\ at'[r] # None =>
         IF kind = "StatefulSet"
         THEN r \in DOMAIN holder.memory => at'[r] = holder.memory[r]
         ELSE LET free == Range(holder.memory) \ {at[q] : q \in Replica}
              IN  free # {} => at'[r] \in free]_vars

\* Nothing is under way: the caches are up to date and the worker rests.
Settled ==
    /\ seenPods = at /\ ~ behind
    /\ synced = Informers /\ ~ queued /\ worker.pc = "idle"

\* controller.go installs the replica count handlers because "a workload that
\* was too spread to remember may shrink back": once a workload that was scaled
\* down runs its fewer replicas and all is settled, it is remembered again.
ShrunkIsRemembered ==
    /\ Settled /\ holder.exists
    /\ holder.replicas < Cardinality(Replica)
    /\ Cardinality(DOMAIN Running(at)) = holder.replicas
    => Remembered
=============================================================================
