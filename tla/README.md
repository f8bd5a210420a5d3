# Kyvernetria: a verification development

TLA+ models of kyvernetria's own programs, the TLC configurations that check
them on small clusters, and TLAPS proofs of what holds for every cluster. The
modules are translated from the Go source (`src/` below is the repository), not
from its documentation; where the two disagree, a configuration shows it.

## 1. The system

Kyvernetria is a Kubernetes distribution. It adds a process wrapper to the
control plane and, as an overlay compiled into kube-controller-manager,
kube-apiserver, kube-scheduler and kubectl (`kyvctl`), a handful of controllers,
admission plugins and commands.

| component | state it keeps | what it does | talks to |
|---|---|---|---|
| **x-inactivation wrapper** (`src/x-inactivation`) | per node, a state directory: the choice of allele, a crash history per component (only kube-apiserver records), `last-escape`, a lock, the operator's `upgrading` flag | starts a control-plane component as one of two builds, supervises it, restarts it when the node's choice changes, records crashes, switches the node ("escape") after enough of them | other wrappers on the node through the files and a flock; kubelet by signals; the kernel's boot id |
| **gestation controller** (`controller/gestation`) | the status of every Gestation, a ConfigMap of born services, annotations and labels on what it touches; nothing in memory between passes | every 15 s: placeholders before a launch, the launch, Apgar scores, rollback, 72 h of newborn care, discharge, the record of what left | API server; users, the deployment controller and the garbage collector change the same objects |
| **gestation rules** (`gestation`) | none | trimesters, reserved share, score, tiers, growth percentiles, encodings, pruning of records | called by the controller, the admission plugin and kyvctl |
| **prenatal screening** (`gestation/screening.go`, `controller/gestation/lookup.go`) | none | read-only checks of a planned launch; findings are reported and nothing acts on them | API server, image registries |
| **NewbornCare admission** | informer of namespaces | gives pods of newborns a priority class | the annotation the gestation controller writes |
| **NoBruteForce, Immunity, StartingDose admission** | informers | refuse deletions, refuse or default what a pod may be | apiserver's plugin order |
| **place memory** (`controller/placememory`, `placement`, `scheduler/placememory`) | an annotation on a Deployment or StatefulSet, at most 16 nodes; a work queue | remembers where pods ran, fades nodes, scores them for the next pod | pod and ReplicaSet informers, updates with resourceVersion |
| **worry** (`controller/worry`) | a level per node and resource, in memory and in an annotation | hysteresis over node pressure | node informer |
| **relationships** (`controller/relationships`) | Relationship objects | infers which services call which and reconciles the objects | several informers |
| **kyvctl** | a history file of failures; otherwise none | conceive, deliver, screen, and queries | API server; other kyvctl processes through the file |
| humanize, wiring, patches, `deploy/`, `hack/` | none | wording, registration, roles, scripts | |

What is hard here, and what makes each component right:

- **Wrapper.** Several containers of one node race on the same files and may be
  killed between any two system calls; a power loss keeps only what was synced;
  the clock moves. Right means: the first choice is made once; it moves only by an
  escape; all apiservers start on it; an escape rests on enough fresh crashes of the node, at most one per boot
  and one per 24 h; a recorded crash is not lost; the operator's flag holds escapes
  back; every apiserver follows the node.
- **Gestation controller.** A pass reads once and then makes up to a dozen
  separate API calls on objects that others change; every call may fail, conflict
  or succeed unheard, and the next pass starts again from what it finds. Right
  means: the room is free and the priority in place before the launch; one birth
  adds one replica and its end takes back that one; care ends only for who has
  caregivers; status, budget, entry and record tell what happened; nothing is left
  undone for ever.
- **The memory of births.** One ConfigMap of 256 records that every pass reads
  first, changes for each Gestation in turn and writes back last. Right means: what
  it says of a birth and of a departure is final, what left goes first, and it comes
  to hold every service that fits.
- **Place memory.** Read-modify-write of an annotation over caches that lag behind
  each other, a queue and conflict retries. Right means: homes fade only to make
  room, whatever a handler skipped on a stale copy comes back, and a replacement
  goes home without joining a sibling.
- **Admission.** Four plugins judge by informers' copies of namespaces, priority
  classes and pods. Right means: no foreign antigen lives where none was tolerated,
  nothing of the control plane's own is refused for want of a cache, nobody is cut
  off undiscussed, and care and doses go only to whom they are due.
- **Worry.** A level kept twice, in a process and in an annotation patched without
  a version. Right means: a node at the threshold does not flap, and in the end it
  says what is so.
- **Relationships.** Objects rewritten one request at a time from what caches and an
  earlier list showed. Right means: nobody's edits are overwritten, a restart purges
  nothing, and in the end the objects are the cluster's graph.

`PROJECT.json` lists these hazards with their lines and the properties that
watch over them.

## 2. Modules

| module | models | of |
|---|---|---|
| `XInactivation` | one node: all its wrappers, the state directory, kills, power losses, I/O errors, the clock, the operator | `x-inactivation/cell.go`, `main.go` |
| `NodeAllele` | abstract: what a node promises about its allele | refined by `XInactivation` |
| `Gestation` | one service name: the controller's passes, users, deployment controller, garbage collector, informers, time | `controller/gestation/*`, parts of `gestation/*` and `kyvctl/gestation.go` |
| `ServiceLife` | abstract: what newborn care promises the owners of a Deployment | refined by `Gestation` |
| `Microchimerism` | several services and the memory of births their passes share | `controller/gestation/memory.go`, `controller.go`, `gestation/memory.go` |
| `PlaceMemory` | one workload: handlers, queue, worker, retries, restarts, and the scheduler's scores | `controller/placememory`, `placement`, `scheduler/placememory` |
| `Admission` | requests for one pod through the four plugins, beside stale informers | `admission/*` |
| `Worry` | the loop over every node and resource, its annotation, restarts | `controller/worry` |
| `Relationships` | the loop over the Relationship objects, users, garbage collector, the API's definition | `controller/relationships` |
| `XInactivationProofs`, `XInactivationHistory`, `GestationProofs`, `MicrochimerismProofs`, `PlaceMemoryProofs`, `AdmissionProofs`, `WorryProofs`, `RelationshipsProofs` | theorems about the module they are named after | |
| `MC...` | the instances TLC checks | |

A definition marked "Wrong form" is not part of a model: it is a plausible mistake
in the definition after it, kept to see that a property notices.

### XInactivation

`disk` is the state directory as processes see it (`choice`, `history`, `last`
for `last-escape`), `kept` the contents each file may have after a power loss:
link, rename and unlink are visible at once and durable only after `syncDir`.
`proc[w]` is a wrapper's program counter and locals. A step is one system call
another process can observe, so `RecordCrash` is eleven actions from `LockAndCount`
to `ClearHistories`, and `Expressed` is `StartFirst`, `LinkChoice`, `SyncLink` and
`ReadWinner`; the select loop of `supervise` is `Signal`, `FollowTick`, `KillTimer`,
`Exit`, `Crash`, with `GraceEnds` for kubelet, which kills only what it asked to stop
(`asked`): a stop the wrapper decided on, to follow a switch, ends by `Exit` or by the
wrapper's own `KillTimer`. A call that can fail may do so where `Fault` has `io`; what
the code makes of the failure is in the action, such as a flag that cannot be read and
is taken for none (`CheckBlocked`).

`switches`, `counted`, `lineage` and, in a wrapper, `since` and `sawFlag` are observed: no
guard reads them. An era (`Era`) lasts from one escape or operator's edit to the next;
`lineage` has the allele of every apiserver that started unpinned, whatever the choice
was by then, with the era of what it went by: the present one for a starter that read
the choice, for one that made it the era in which it did (`since`). A starter that
stalls between its link and its sync over a whole escape starts on the abandoned
allele, belongs to the era it published in, and follows at its next tick.

Abstracted: the code keeps a history file per component, and as only kube-apiserver
records crashes there is one (its entries carry the allele only for the properties);
names, paths, modes and log lines; every forwarded signal is kubelet's stop (a SIGHUP
from anybody else is taken for one by the wrapper, which then follows no switch until
it restarts, main.go:241-252; nothing on the node sends it); an unreadable choice refuses the start (no step) and keeps a running allele.
Boot ids count from 1; 0 stands for a kernel without one.

### Gestation

One Gestation, Deployment and namespace of one name. A pass walks `pass.at` from
`look` to `memory`; each action is one API call, with its answers: it works, it
fails (`error`), it succeeds unheard (`lost`), or the object has moved since the
pass read it (`gMoved`, `dMoved` stand for the resourceVersion). `pass.g` and
`pass.d` are the copies read, `pass.status` the status about to be written. `Look`
is reconcile's dispatch; `EnsurePlacenta` the pregnancy; `ReleasePlacenta`,
`SetNewborn`, `Plan`, `CreatePDB`, `Bear` are deliver; `AfterBirth`, `Apgar`,
`RollBack`, `RollBackPDB`, `Discharge`, `DischargePDB`, `Depart` are what follows a
birth; `UpdateStatus`, `SyncNewborns`, `SaveMemory` end the pass.

Abstracted: the score is low or not (five signs and the weights are not modelled);
ages are the thresholds the code compares with, not minutes; trimester is 1, 2, 3
or due; screening findings, growth samples, events, messages, nags, the `born`
annotation and the dependencies of a record are left out, as nothing the code does
depends on them. Time passes between passes only, as a pass reads the clock once.
The pods lister is exact. A manifest names its caregivers from the start only where
`User` has `prenamed`, as `live` does. A user never edits the due date after conceiving,
nor the Deployment's selector. Rollback chooses among `Template`, one revision each.

`extra` and `scoredLow` are observed: how many replicas newborn care added and has
not taken back, and the revisions that were rolled back from, in order.

`ServiceLife` is what an owner sees: a birth with at most one more replica, then
home (caregivers named, the replica gone) or back (to a revision older than the one
rejected). `Gestation` refines it with `newborn` as the care label.

### Microchimerism

`Gestation` follows one name through every call of a pass. Here a pass over several
names is `Begin` (the list and `loadMemory`), one step per Gestation in the order of
names (`Wait`, `Bear`, `Remember`, `Depart`, `ReconcileFails`) and `Save`
(`closeDeparted`, `saveMemory`); `pass.data` is the memory being changed, `memory`
the ConfigMap. Statuses are refused when the Gestation has moved since the list; the
ConfigMap may be deleted at any time; a write may fail or succeed unheard; a new
process starts over. `seen` is the informer of Deployments, which alone
`closeDeparted` asks. `mistaken` is observed: lives whose record `Save` closed while
they were here.

Abstracted: a birth that succeeds is one step, its calls are `Gestation`'s; a record
is its two stamps, without owners, dependencies and digest, so a rewrite that only
updates these is not a step; records that do not parse; a second delivery of the
same Deployment, which finds its record and changes nothing of it; another writer of
the ConfigMap.

### PlaceMemory

One holder, of one of the three kinds. `at` is where its replicas run, `holder` the
object with its annotation; `seenPods`, `seenHolder`, `behind` and `synced` what the informers show;
`queued` the key in the queue;
`worker` the sync of the holder's key between its calls. `Watch`, `Resync`,
`WatchHolder` and `FillCache` are the handlers, `Sync`, `Write`, `WriteFails`, `Get`,
`GetFails` the worker with its attempts after conflicts, `Restart` a new process
whose handlers run before its caches are full. `Recall` is `placement.Recall`, for a
list of nodes and for a StatefulSet's ordinals; `Points` and `Best` are the plugin's
scores.

Abstracted: `limit` stands for 16; the kube-scheduler reads the holder's present
memory and takes the best node where nothing else tells nodes apart; names,
encodings and backoff.

### Admission

One request at a time: `StartingDose`, `NewbornCare`, the upstream `Priority`
(external), `ValidateCreate`; `ValidateUpdate`; `DeleteNow`; `ValidateEviction` and,
later, `EvictNow`. `spaces`, `classes` and `pod` are the cluster, `seen`,
`seenClasses` and `seenPod` the informers' copies, which `Follow` brings up to date;
a namespace the informer lacks is asked of the apiserver (`Look`). `past` is
observed: every version a namespace has had.

A pod may state its resources (`resources`) or its priority (`priority`) as a whole, and
is then left alone by StartingDose or NewbornCare, as a mirror pod is by both.

Abstracted: what one field of a pod, a volume or a container asks for is a part, and
`Foreign` is Immunity's table of parts; a namespace's annotation is a list of
entries by application; amounts of a dose; the containers of a pod are one.

### Worry

`Begin` lists nodes and pods from the caches, `Feel` decides one node and announces
what changed, `Persist` and `PersistFails` are the patch of its annotation. `worried`
is the process's memory, `note` the annotation, `told` (observed) what was last
announced of each resource, and `unsaved` (observed) whether a process died, or a
node was replaced, with something announced that the annotation did not say.
Requests are percentages of what a node can allocate.

### Relationships

`EnsureCRD`, `List` (caches first, then the labelled objects), one `Write` per object
and `RequestFails` are the loop; `Graph` is the inference, where a text is a mention
of a service in one of the forms the code tells apart (URL, host and port, qualified
name, bare word, ...). Users edit, unlabel, delete and make objects and delete the
API's definition, the garbage collector follows owners, informers lag, a new process
begins with full caches. `touched` and `alive` are observed: what was written since
the list, and which parties have not changed since the process began.

Abstracted: splitting strings into texts, ports, paths and labels of the objects.

## 3. What the runs show

Every listed run is exhaustive over its bounds and passes. Deadlock is checked in
all but `place` and `admission`, where users may simply be done.

| run | question | bounds | states |
|---|---|---|---|
| `node` | Does a node keep all its promises, and refine `NodeAllele`, while disk and processes do not fail? | two apiserver containers, threshold 2, window 1, cooldown 2, clock 0..3, two boots, four crashes: room for two escapes, a reboot between them, a third that must wait; symmetric containers | 1.5 M |
| `durable` | With kills and power losses at any system call: are recorded crashes kept, does the flag hold escapes back, and is every apiserver on the abandoned allele stopped, even one that ignores SIGTERM and that kubelet never asks? | two containers, two crashes, two boots | 0.11 M |
| `node_faults` | Who moves the choice, with I/O errors, kills, power losses, a clock set back and an operator's edits, pinned manifests and an older component at once? | one apiserver, of an image that does not tell which minor to emulate, so that it runs on Xp alone, and one controller manager, two crashes, two boots, one edit | 1.6 M |
| `life` | Do status, replica, budget and record agree with what happened, and do owners get `ServiceLife`, when users act between passes? | two Deployments of one name, three templates, six moves, an autoscaler and a budget that come and go | 7.8 M |
| `race` | Is a launch protected, and care ended only for whom it should, when others act and the controller restarts between any two calls? | one Gestation and Deployment from the third trimester, five moves | 6.1 M |
| `live` | Is a delivery that was asked for made, and does a newborn with caregivers go home? | one Deployment, applied with or without its caregivers, four moves (so a scale to zero meets a discharge where it came with them), one fault | 0.47 M |
| `gone` | Is the record of what left closed, and the entry of a deleted Gestation removed? | two Deployments, five moves, a screening among them, one fault, lagging informers, age cut at one minute (`MaxAge`) | 0.26 M |
| `memory` | Does the memory of several services keep what it wrote, let go of what left first, and come to hold all that fits? | three names of two lives each, room for two records, two moves, one trouble (a call, a lost answer, a restart) | 0.91 M |
| `place` | Do homes fade only to make room, does the memory come to agree with where replicas run, does the scheduler bring replacements home? | two nodes, two replicas, room for one or two homes, two attempts, three moves, one trouble; each of the three kinds | 2.0 M |
| `admission` | Is a pod judged, dosed and cared for as some true state of its namespace asks, over create, update, delete and eviction? | a self and another namespace, one pod, one change of namespace or classes, one failing read | 4.5 M |
| `worry` | Does a node not flap, and does it say in the end what is so? | two resources, requests at 0, 64, 65, 69 and 70 %, five moves, two troubles | 0.49 M |
| `relationships` | Are edits, restarts and the middle of a pass safe, and do the objects come to be the graph? | one service, two workloads, two moves, one trouble, any objects an earlier release may have left | 0.50 M |

Bounds, all named constants: `MaxClock`, `MaxBoot`, `MaxCrashes`, `MaxEdits` for a
node; `MaxReplicas`, `MaxGest`, `MaxUid`, `MaxScreens`, `MaxFaults`, `MaxMoves`,
`MaxAge` for a service; `MaxRecords` for 256, `Limits` for 16 and `MaxAttempts` for
5; `MaxMoves`, `MaxTrouble`, `MaxChanges` for what users and failures do elsewhere.
One fault is enough to reach every error path because a pass keeps nothing in
memory: what a second fault meets is a state that a first one, or a user, can leave.
A two-crash threshold stands for five (`newWrapper` accepts nothing below 2), one
unit of window and two of cooldown keep their order. A service is scaled to any size
up to `MaxReplicas`, which is zero in `live`. Three services over two records fill
the memory with one to spare, so that a put evicts closed and open records; two
nodes over a limit of one make a home fade and a workload too spread. 64, 65, 69 and
70 are the values around both thresholds of worry.

Every property has a mutant, a plausible mistake in one mapped definition, under
which the run finds the property violated.

**Fairness.** `XInactivation!FairSpec`: a wrapper's own steps go on (it is a running
process), its ticker and its kill timer fire, and kubelet enforces its grace period on
the containers it asked to stop. Kubelet need never ask, components may ignore SIGTERM,
and nothing makes them crash or stay up: `FollowsSwitch` rests on the ticker and the
kill timer.
`Gestation!FairSpec`: the controller goes on (weak fairness; `Run` calls `Sync`
again whenever the last pass is over). Time, watch events and the deployment
controller act strongly fairly: they are disabled only during a pass, which is
short beside the 15 seconds between passes. Users, placeholder pods and faults
promise nothing; `AskedIsBorn` must hold with placeholders that never go.
`Microchimerism!FairSpec`: the same loop and the watch of Deployments.
`PlaceMemory!FairSpec`: handlers, the worker, watches and the shared informers'
resync go on while the process lives. `Worry!Spec`: the loop of a minute and the
watch of nodes. `Relationships!Spec`: the loop of 30 seconds, watches, the garbage
collector, and the apiserver establishing a definition it has accepted. In every
case users and failures, which are bounded, come to rest by themselves.

Beside the listed runs the directory has configurations for narrower questions.
`MCXInactivation_clock`
(a clock set back: once per boot holds, and with one container every crash behind an
escape is of the allele left), `MCXInactivation_firstboot` (with one container the
first choice survives power losses), `MCXInactivation_nobootid` (without a boot id
the cooldown alone holds) and `MCGestation_faults` (a launch with failing calls,
lost answers, restarts and lagging informers) pass; the others are the
disagreements of section 5.

## 4. What is proved

TLAPS checks these for every value of the constants: any number of containers,
services, lives, nodes, pods, moves and faults. Proofs rest on the named ASSUMEs of
the modules and on nothing else; what a theorem needs beyond them is in its
statement.

| theorem | property | argument |
|---|---|---|
| `XInactivationProofs!TypeCorrect` | types | every action, with lemmas for the record of a wrapper and the directory |
| `Exclusion` | `OneRecorder` | inductive with the types: only `LockAndCount` enters `Recording`, and only when the lock is free |
| `EscapesOncePerBoot` | `OncePerBoot` | `BootStamped` is inductive together with `OneRecorder`: the stamp on disk names the last escape's boot except between the lock holder's switch and its stamp, and whoever is about to switch found no escape in this boot. Needs a boot id and that no I/O error, kill or power loss interrupts an escape; `MCXInactivation_killed` shows why |
| `XInactivationProofs!NodeKeepsItsPromise` | `ImplementsNodeAllele` | `Sound`: the types, `OneRecorder`, `BootStamped`, `TimeStamped` (the stamp's time, likewise) and `Agreed` (a crash is judged only while the node expresses its allele). Every action is a step of `NodeAllele` or leaves its variables. Where `Undisturbed`: nothing interrupts an escape, sets the clock back or edits the choice |
| `XInactivationHistory!OnlyRecordersSwitch` | `OnlyEscapesSwitch` | with every fault: who writes the choice |
| `UpgradesHoldBack` | `UpgradeBlocksEscape` | where the state directory can be read (no I/O error), with every other fault; `FlagSeen`: a wrapper that has seen the flag and not yet finished still finds it there, as removing the flag withdraws what was seen of it |
| `NoCrashIsLost` | `HistoryComplete` | `Remembered`: what the lock holder read holds every recorded crash of the window and its own, and what it noted is in the history when it syncs. Where files can be read and written and the clock does not go back |
| `ChosenOnce` | `OneLineage` | `Coherent`: a start of the present era is on the choice the node has; a starter between its link and its sync has published the allele of its own era, against which no start of that era speaks; no start is of an era to come; and in an earlier era nobody disagrees. The property alone says nothing of the choice, so it does not survive a start. Where no power is lost; `MCXInactivation_unsynced` shows why |
| `EscapesHaveEvidence` | `EscapeEvidence` | `Apart` (crashes are told apart, and what the histories hold served no escape, but for the holder who has not cleared them yet) and `Evident` (what the holder judges are noted crashes of the window and its own). Where no I/O error, kill or power loss interrupts an escape |
| `GestationProofs!TypeCorrect` | `TypeOK` | every action; among others no service is scaled below zero and no score leaves its schedule |
| `OnlyNamedGoHome` | `GoesHomeNamed` | `Faithful`: a copy of the Deployment nothing marked as moved is the Deployment, and a discharge is under way only for a copy that names caregivers, past the last tier. The property alone is not inductive: it says nothing of the copy a pass discharges with |
| `RoomStaysReleased` | `RoomReleased` | `RoomInv` = `Current` (uids are never reused; what a pass read is the Gestation unless marked) /\ `Phased` (a delivery under way has no birth on record) /\ `Roomy` (past a release, or about to write a birth, the placeholders are not the Gestation's) /\ `Bumped` |
| `ProtectedAtBirth` | `BornProtected` | the same invariant; only `Bear` puts a Deployment in care |
| `StatusTellsTheTruth` | `StatusTells` | `Telling`: the status on the Gestation and the one a pass is writing are both `Coherent`, a pass that scores, discharges or rolls back carries a status in care, and between a rollback and its status the status carried says so already. Where `NoError`: no call fails and no answer is lost. `MCGestation_halfback` shows why: the care is gone and the status still without the rollback |
| `OnlyTheDepartedAreClosed` | `RecordOfTheLiving` | `Recorded`: no status, copy or record is of a Deployment that was not made yet, the record of the one that is there is closed neither in the ConfigMap nor in what a pass makes of it, and a pass that closes one carries the birth of another. With every fault but lagging informers (`NoLag`); `MCGestation_lagging` shows why |
| `ReplicaIsTakenBack`, `BudgetGoesWithCare` | `OneExtra`, `BudgetInCare` | `Kept` = `TypeOK` /\ `RoomInv` /\ `Faithful` /\ `Telling` /\ `Harmony`: between calls, replica, care label and budget agree with the status that is on the Gestation; at the pass's last call, with the one about to be written; between the undoing of a care and its status, with neither care nor replica. Where `Quiet`: no call fails, nobody acts within a pass, ends a Gestation or scales the service by hand; informers may lag. `MCGestation_twice`, `_takentwice` and `_budget` show why |
| `PromiseKept` | `ImplementsServiceLife` | `Kept` with `Numbered` (some template has the newest revision, so a rollout is above all others): each action is a step of `ServiceLife` or leaves what an owner sees. A rollback is `GoBack` as `Telling` keeps the birth's previous revision below the rejected one. Where `Quiet` |
| `MicrochimerismProofs!MemoryKeepsItsBound` | `MemoryBounded` | `PruneDoes`: the order of `prune` is strict and total on keys, so one record too many makes exactly one go, the first. `PutDoes` and the invariant `Good` carry the bound through any number of puts |
| `RecordsAreFinal` | `RecordsLast` | `Known`: as long as the ConfigMap a pass loaded is the one that is there, what the pass has made of it `Follows` from it: `Outlives` (all is kept or the memory is full), `Stands` (what was rightly closed is as it was, or gone), `Spared` (below). A full memory stays full over puts, so a record that went and came again in one pass never shows as a redated one in a memory with room |
| `WhatLeftGoesFirst` | `ClosedGoFirst` | `Spared`: a service that is here is gone from `pass.data` only if that is full and nothing closed before is left in it. It needs `Stands`, and that the lives of a name never come back (`Good`): otherwise a departed record could be put anew after an open one went |
| `PlaceMemoryProofs!TypeCorrect`, `MemoryStaysBounded` | types, `MemoryBounded` | `Homes`: the stored list, the cached one and the one about to be written name no node twice and no more than the limit. `RecallSound` shows that `Recall` makes such a list of any such list |
| `HomesFadeToMakeRoom` | `HomesFadeOnlyWhenFull` | `Kept`: beside `Homes`, `Current` (a copy that is not `behind` is the holder) and `Fitting` (a write that will be accepted makes room in the very memory it replaces). The property alone is not inductive: it says nothing of a write until it happens. With every conflict, failure and restart |
| `ReplacementGoesHome` | `GoesHome` | `PointsOfHomes` and `BestIsHome`: a home without a sibling scores above every node that is not one, however long the list; on `Homes` |
| `AdmissionProofs!TypeCorrect` | types | on `DInv`, below: the stored pod is dosed only with what it does not state |
| `NoStrangeAntigens`, `NoAutoimmunity`, `NoBruteForce`, `CareIsForNewborns` | `AntigensWereTolerated`, `SelfIsNeverRefused`, `NobodyCutsOff`, `CareIsDue` | `IInv`, beside the types and the first property: `Recorded` (both copies of a namespace are among its past versions), `Asking` (a change is of a pod in its own namespace, which is there) and `Looked` (a person's eviction under way was let through on a copy of the pod it does not cut off) |
| `DosesAreAsked` | `DosedWhereAsked` | `DInv` = `IInv` with `Dosing` (what a request or the stored pod was dosed with is right by the past of its namespace) and `Caring` (who is cared for has a class of care) |
| `WorryProofs!NeverFlaps`, `TypeCorrect` | `NoFlapping` | `Steady`: for every node that is not `unsaved`, what was announced is what the process remembers or, if it has not looked at the node yet, what the annotation, its copy and the pass under way say (`Saved`) |
| `RelationshipsProofs!EditsAreKept`, `NeverBothTies`, `NothingPurged` | `EditsSurvive`, `OneTieEach`, `UnmovedKept` | `Shaped` (the types) with `WriteDoes`: a write changes one object, and an update only one nobody touched since the list; `Tidy`: while nothing fails, what a pass leaves is what it wants or has yet to remove; `Known` (what has not changed since the process began is as its caches show it) with the lemma `GraphIsLocal`: what the graph says of a pair depends on its two parties alone |

`Recall` sorts lists and lets entries go, which one would prove by induction over
them; no induction is needed, as the model states both by rank: `InOrder[S]` puts at
`i` the number with `i` of `S` up to it, and `Largest(k, S)` is the numbers with fewer
than `k` above. `RankBijection`, `InOrderType` and `LargestType` say what they return
by counting, and what is proved of `Recall` cites nothing else of them.

Only model-checked: liveness (`FollowsSwitch`, `AskedIsBorn`, `NamedGoesHome`,
`GoneIsClosed`, `EntryGoes`, `MemorySettles`, `EventuallyRemembered`, `EventuallySaid`,
`EventuallyGraph`), which needs fairness and ENABLED. Every invariant, every action
property and both refinements of the runs are proved, under the hypotheses above.
`CoolsDown` is in no run: the refinement of `NodeAllele` implies it.

## 5. Where code and documents disagree

Each has a configuration, kept beside the listed runs, whose single property is the
document's sentence and which TLC finds violated.

| configuration | what the document says | what happens |
|---|---|---|
| `MCXInactivation_killed` | README.md:81-82, at most one escape per boot | the choice is renamed (cell.go:195) before `last-escape` is written (cell.go:205); a wrapper killed in between leaves an escape nobody remembers |
| `MCGestation_twice` | OPERATIONS.md:266, "the planned replicas (if at 0) plus one" | the birth is committed before the status that remembers it; a conflict there (a `kyvctl screen` in between) makes the next pass deliver again and add a second replica |
| `MCGestation_halfback` | OPERATIONS.md:336-338 and birth.go:293, a low score ends care and sets RolledBack, or is scored again | `rollback` clears care, then returns the error of the budget's deletion; with care nil no later pass scores again or says RolledBack |
| `MCXInactivation_syncfail` | README.md:81-82, at most one escape in 24 hours | a failing directory sync returns after the rename and before the stamp (cell.go:195-197) |
| `MCXInactivation_unreadflag` | OPERATIONS.md:59-62, the node switches "unless ... `/var/lib/kyvernetria/upgrading` exists"; cell.go:47-48, the file "blocks escapes" | `Upgrading` (cell.go:141-145) takes every error of `os.Stat` for an absent flag: one failing read lets an escape through in the middle of an upgrade |
| `MCXInactivation_unsynced` | cell.go:88-89, the choice is made once and inherited | a second starter trusts a choice that the first has not synced; a power loss takes it away |
| `MCGestation_budget` | OPERATIONS.md:271-272, the end of care undoes the budget | a birth refused after `createPDB` is retried; `CoveringPDB` (birth.go:100) then finds the newborn's own budget, so the birth does not remember having made it |
| `MCGestation_lagging` | memory.go:94-95, records of services that left are closed | a Deployment the informer has not seen yet is recorded as departed at birth, for good (memory.go:101) |
| `MCGestation_latent` | OPERATIONS.md:341, `--again` starts a new delivery after a rollback | two `kyvctl deliver` of one status leave `spec.delivery` above `status.delivery`; the rollback itself starts the next delivery (kyvctl/gestation.go:287) |
| `MCGestation_newer` | OPERATIONS.md:336-337, like `kubectl rollout undo` | a fix rolled out since the birth is undone by two revisions (birth.go:332) |
| `MCGestation_wasbad` | birth.go:301-302, back to a revision "where it was well" | after a second delivery of the same template the newest older revision is the one rolled back from (birth.go:228) |
| `MCGestation_takentwice` | OPERATIONS.md:271-272, the extra replica goes | a discharge whose status write failed is repeated and takes one of the service's own replicas (care.go:109) |
| `MCMicrochimerism_leftfirst` | gestation/memory.go:37-38, "the record of the service that left longest ago is let go first"; OPERATIONS.md:378 | a pass puts the living before it closes the departed (controller.go:187-200): with the memory full, a service that is here is let go while one that has left, and was not closed yet, stays |
| `MCMicrochimerism_rests` | none: an observation | with more than 256 living services the passes let go of and put back each other's records for ever, and rewrite the ConfigMap every 15 seconds |
| `MCPlaceMemory_shrunk` | placememory/controller.go:92, "a workload that was too spread to remember may shrink back" | the handler acts on the replica count, at once, when the pods are still there; when they go nothing enqueues the workload, until the informer's resync |
| `MCAdmission_evicted` | nobruteforce/admission.go:21-24, an eviction with grace period 0 "is refused until the pod carries" the annotation | the informer's copy is judged (admission.go:153): a pod it does not have yet, or has as unbound or discussed, is evicted |
| `MCWorry_twice` | worry.go:73-75, the annotation is there so that "a restart or a new leader doesn't announce the same worry twice" | the event is sent before the patch; a process that dies in between announces it again |

Smaller things met while modelling, which no document speaks against: a home that is
lived in again does not move to the front of the list, so a workload that returned
to an older home is drawn to the newer one; a StatefulSet's memory may hold more than
16 ordinals, as running ones are never dropped; pods seen before the ReplicaSet
cache is filled enqueue a key nobody holds, and the pods of a workload created again
under its name wait for a resync; a Relationship whose owner references a user has
edited keeps them, as `equalSpec` (controller.go:220) looks at the spec alone; a
Relationship is deleted by name without a precondition, and a user's object without the label keeps its name for good; a
newborn rolled out to another template and back within five minutes has its
ReplicaSet numbered anew, so that none has the revision its birth remembers: `signs`
(birth.go:356) then counts nothing, the score is low, and it is rolled back however
well it runs.

## 6. Not modelled

- `kyvctl` beyond conceive, screen and deliver: the other commands read and render;
  `exclude` sets one annotation. The history of failures (`errors.go`) is a file two
  processes may rewrite at once; a lost line only makes the wording of an error less
  patient, and no document promises otherwise.
- Growth (`growth.go`): percentiles of samples that are only shown. The ten-point
  Apgar score, the annotation's codec, the reading of images and quantities: pure
  functions of one input with unit tests; the models keep what is decided by them.
- Prenatal screening: read-only, and nothing acts on what it finds.
- Wording (`humanize`), wiring, roles, constants; the patches, which hook the parts
  above into upstream code that is not in the repository; build and install scripts.
- `Gestation` and `Admission` in one state space: the annotation on the namespace is
  a variable of the one and an input of the other, both with lagging copies; together
  they are beyond TLC.
