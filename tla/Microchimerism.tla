--------------------------- MODULE Microchimerism ---------------------------
(***************************************************************************)
(* The cluster's memory of the services it gave birth to: one ConfigMap of *)
(* at most MaxRecords records, which every pass of the gestation controller *)
(* reads, brings up to date for each Gestation in turn, closes for what    *)
(* left, and writes back whole.                                            *)
(*                                                                         *)
(* Gestation follows one service through all the calls of a pass; here     *)
(* there are several services, each of whose reconciliations is one step,  *)
(* and what they share is the memory.  A birth that succeeds is one that   *)
(* Gestation tells; of a record its two stamps are kept, and not the       *)
(* owners, dependencies and digest, which every pass may rewrite.  The     *)
(* ConfigMap is edited by nobody else, only deleted.                       *)
(***************************************************************************)
EXTENDS Naturals, FiniteSets

CONSTANTS
    Service,              \* names, numbers so that they sort
    MaxRecords,           \* 256
    MaxUid,               \* bound: Deployments made per name
    MaxClock,             \* bound: seconds that pass
    MaxMoves,             \* bound: changes users make
    MaxTrouble            \* bound: calls that fail, restarts

ASSUME NamesSort == Service \subseteq Nat \ {0} /\ IsFiniteSet(Service)
ASSUME BoundsAreNumbers ==
    {MaxRecords, MaxUid, MaxClock} \subseteq Nat \ {0} /\ {MaxMoves, MaxTrouble} \subseteq Nat

VARIABLES
    now,          \* the clock, in the seconds a stamp shows
    deploy,       \* uid of the Deployment of each name, 0 for none
    seen,         \* the same in the informer cache
    made,         \* how many Deployments of each name there were
    gest,         \* the Gestation of each name
    there,        \* the ConfigMap exists
    memory,       \* its records, by the life they are of
    pass,         \* the controller's pass
    mistaken,     \* history: lives whose record was closed while they were here
    spent         \* what the bounds count

cluster == <<deploy, made>>
vars == <<now, deploy, seen, made, gest, there, memory, pass, mistaken, spent>>

\* Record.Key: a Deployment that comes back under its name is a new life.
Life == Service \X (1 .. MaxUid)
StillHere == 0                                  \* Left is empty
Record == [born : 1 .. MaxClock, left : StillHere .. MaxClock]
Departed(r) == r.left # StillHere
Memories == UNION {[S -> Record] : S \in SUBSET Life}
Empty == [l \in {} |-> [born |-> 1, left |-> StillHere]]

\* birth: uid of the Deployment that was born, 0 before.
Gest == [is : BOOLEAN, birth : 0 .. MaxUid, at : 0 .. MaxClock, departed : BOOLEAN]
NoGest == [is |-> FALSE, birth |-> 0, at |-> 0, departed |-> FALSE]

Idle == [pc |-> "idle", todo |-> {}, g |-> [s \in Service |-> NoGest], moved |-> {},
         known |-> FALSE, found |-> FALSE, data |-> Empty, changed |-> FALSE]

Trouble == /\ spent.trouble < MaxTrouble
           /\ spent' = [spent EXCEPT !.trouble = @ + 1]
Move == /\ spent.moves < MaxMoves
        /\ spent' = [spent EXCEPT !.moves = @ + 1]

(***************************************************************************)
(* Records, Put and prune.                                                 *)
(***************************************************************************)
\* Wrong form: the oldest births go first, departed or not.
RankByBirth(data, l) == <<data[l].born, l[1], l[2]>>

\* The oldest departures, then the oldest births; ties by key.
Rank(data, l) == <<IF Departed(data[l]) THEN 0 ELSE 1, data[l].left, data[l].born, l[1], l[2]>>

Sooner(p, q) == \E i \in DOMAIN p : p[i] < q[i] /\ \A j \in 1 .. i - 1 : p[j] = q[j]

\* prune lets go of as many records as are too many, never of the one just written.
Prune(data, keep) ==
    LET spare == DOMAIN data \ {keep}
        Ahead(l) == {k \in spare : Sooner(Rank(data, k), Rank(data, l))}
        gone == {l \in spare :
                    MaxRecords + Cardinality(Ahead(l)) < Cardinality(DOMAIN data)}
    IN  [l \in DOMAIN data \ gone |-> data[l]]

With(data, l, r) == [k \in DOMAIN data \union {l} |-> IF k = l THEN r ELSE data[k]]

Put(data, l, r) ==
    IF l \in DOMAIN data /\ data[l] = r THEN data ELSE Prune(With(data, l, r), l)

\* Wrong form: a second birth overwrites the first.
KeptNot(data, l, born) == [born |-> born, left |-> StillHere]

\* memory.put: birth and departure of an existing record are kept.
Kept(data, l, born) ==
    IF l \in DOMAIN data THEN data[l] ELSE [born |-> born, left |-> StillHere]

(***************************************************************************)
(* Sync.                                                                   *)
(***************************************************************************)
\* The Gestations are listed and the memory is loaded, or is not: known.
Begin ==
    /\ pass.pc = "idle"
    /\ LET Load(known) ==
               pass' = [pc |-> "reconcile", todo |-> {s \in Service : gest[s].is}, g |-> gest,
                        moved |-> {}, known |-> known, found |-> known /\ there,
                        data |-> IF known THEN memory ELSE Empty, changed |-> FALSE]
       IN  \/ Load(TRUE) /\ UNCHANGED spent
           \/ Load(FALSE) /\ Trouble
    /\ UNCHANGED <<now, cluster, seen, gest, there, memory, mistaken>>

\* The list is in the order of names.
Turn(s) == s \in pass.todo /\ \A k \in pass.todo : s <= k

\* The pass goes on with the next Gestation.
Recall(s, l, r) ==
    LET data == Put(pass.data, l, r)
    IN  pass' = [pass EXCEPT !.todo = @ \ {s}, !.data = data,
                             !.changed = @ \/ (l \notin DOMAIN pass.data \/ pass.data[l] # r)]
Skip(s) == pass' = [pass EXCEPT !.todo = @ \ {s}]
Note(s, l, r) == IF pass.known THEN Recall(s, l, r) ELSE Skip(s)

\* updateStatus is refused if the Gestation moved since the list, and may fail.
SetStatus(s, g) ==
    \/ s \notin pass.moved /\ gest' = [gest EXCEPT ![s] = g] /\ UNCHANGED spent
    \/ s \in pass.moved /\ UNCHANGED <<gest, spent>>
    \/ Trouble /\ (UNCHANGED gest \/ (s \notin pass.moved /\ gest' = [gest EXCEPT ![s] = g]))

\* Not asked to deliver yet, or the birth does not succeed.
Wait(s) ==
    /\ pass.pc = "reconcile" /\ Turn(s)
    /\ pass.g[s].birth = 0
    /\ Skip(s)
    /\ UNCHANGED <<now, cluster, seen, gest, there, memory, spent, mistaken>>

\* deliver: the birth is recorded in the pass's memory whether or not the
\* status that remembers it can be written.
Bear(s) ==
    /\ pass.pc = "reconcile" /\ Turn(s)
    /\ pass.g[s].birth = 0 /\ deploy[s] # 0
    /\ LET l == <<s, deploy[s]>>
       IN  Note(s, l, Kept(pass.data, l, now))
    /\ SetStatus(s, [pass.g[s] EXCEPT !.birth = deploy[s], !.at = now])
    /\ UNCHANGED <<now, cluster, seen, there, memory, mistaken>>

\* afterBirth, remember: the record of a living service is kept current.
Remember(s) ==
    /\ pass.pc = "reconcile" /\ Turn(s)
    /\ pass.g[s].birth # 0 /\ pass.g[s].birth = deploy[s]
    /\ LET l == <<s, deploy[s]>>
       IN  Note(s, l, Kept(pass.data, l, pass.g[s].at))
    /\ UNCHANGED <<now, cluster, seen, gest, there, memory, spent, mistaken>>

Closed(r) == [r EXCEPT !.left = now]

\* depart, once: the Deployment is gone or another one.
Depart(s) ==
    /\ pass.pc = "reconcile" /\ Turn(s)
    /\ pass.g[s].birth # 0 /\ pass.g[s].birth # deploy[s]
    /\ IF pass.g[s].departed THEN Skip(s) /\ UNCHANGED <<gest, spent>>
       ELSE /\ LET l == <<s, pass.g[s].birth>>
               IN  IF l \in DOMAIN pass.data /\ ~ Departed(pass.data[l])
                   THEN Note(s, l, Closed(pass.data[l])) ELSE Skip(s)
            /\ SetStatus(s, [pass.g[s] EXCEPT !.departed = TRUE])
    /\ UNCHANGED <<now, cluster, seen, there, memory, mistaken>>

\* reconcile fails before it has done anything.
ReconcileFails(s) ==
    /\ pass.pc = "reconcile" /\ Turn(s)
    /\ Trouble
    /\ Skip(s)
    /\ UNCHANGED <<now, cluster, seen, gest, there, memory, mistaken>>

\* Wrong form: only a name that is gone has left.
LeftByName(l) == seen[l[1]] = 0

\* By the informer the Deployment is gone, or another one has its name.
Left(l) == seen[l[1]] # l[2]

\* closeDeparted: for services whose Gestation is gone too.
CloseDeparted(data) ==
    [l \in DOMAIN data |-> IF ~ Departed(data[l]) /\ Left(l) THEN Closed(data[l]) ELSE data[l]]

\* Made anew where it was not found, updated where it was: a ConfigMap deleted
\* meanwhile stays deleted.
Accepted == pass.found = there

\* closeDeparted and saveMemory end a pass.
Save ==
    /\ pass.pc = "reconcile" /\ pass.todo = {}
    /\ pass' = Idle
    /\ LET data == CloseDeparted(pass.data)
           write == pass.known /\ (pass.changed \/ data # pass.data)
       IN  \/ /\ write /\ Accepted
              /\ memory' = data /\ there' = TRUE
              /\ mistaken' = mistaken \union
                    {l \in DOMAIN data : data[l] # pass.data[l] /\ deploy[l[1]] = l[2]}
              /\ UNCHANGED spent \/ Trouble          \* the answer is lost
           \/ /\ ~ (write /\ Accepted)
              /\ UNCHANGED <<there, memory, mistaken, spent>>
           \/ /\ write /\ Trouble
              /\ UNCHANGED <<there, memory, mistaken>>
    /\ UNCHANGED <<now, cluster, seen, gest>>

\* Another process takes over, with caches filled afresh.
Restart ==
    /\ Trouble
    /\ pass' = Idle
    /\ seen' = deploy
    /\ UNCHANGED <<now, cluster, gest, there, memory, mistaken>>

(***************************************************************************)
(* The cluster.                                                            *)
(***************************************************************************)
Apply(s) ==
    /\ deploy[s] = 0 /\ made[s] < MaxUid
    /\ Move
    /\ made' = [made EXCEPT ![s] = @ + 1]
    /\ deploy' = [deploy EXCEPT ![s] = made'[s]]
    /\ UNCHANGED <<now, seen, gest, there, memory, pass, mistaken>>

Remove(s) ==
    /\ deploy[s] # 0
    /\ Move
    /\ deploy' = [deploy EXCEPT ![s] = 0]
    /\ UNCHANGED <<now, seen, made, gest, there, memory, pass, mistaken>>

Moved(s) == pass' = [pass EXCEPT !.moved = IF pass.pc = "idle" THEN @ ELSE @ \union {s}]

\* kyvctl conceive; a Gestation is deleted, or changed in its spec.
Conceive(s) ==
    /\ ~ gest[s].is
    /\ Move
    /\ gest' = [gest EXCEPT ![s] = [NoGest EXCEPT !.is = TRUE]]
    /\ Moved(s)
    /\ UNCHANGED <<now, cluster, seen, there, memory, mistaken>>

End(s) ==
    /\ gest[s].is
    /\ Move
    /\ gest' = [gest EXCEPT ![s] = NoGest]
    /\ Moved(s)
    /\ UNCHANGED <<now, cluster, seen, there, memory, mistaken>>

Edit(s) ==
    /\ gest[s].is /\ pass.pc # "idle" /\ s \notin pass.moved
    /\ Move
    /\ Moved(s)
    /\ UNCHANGED <<now, cluster, seen, gest, there, memory, mistaken>>

\* "To forget everything, delete the ConfigMap."
Forget ==
    /\ there
    /\ Move
    /\ there' = FALSE /\ memory' = Empty
    /\ UNCHANGED <<now, cluster, seen, gest, pass, mistaken>>

CatchUp(s) ==
    /\ seen[s] # deploy[s]
    /\ seen' = [seen EXCEPT ![s] = deploy[s]]
    /\ UNCHANGED <<now, cluster, gest, there, memory, pass, spent, mistaken>>

Tick ==
    /\ pass.pc = "idle" /\ now < MaxClock
    /\ now' = now + 1
    /\ UNCHANGED <<cluster, seen, gest, there, memory, pass, mistaken, spent>>

Init ==
    /\ now = 1
    /\ made = [s \in Service |-> 1]
    /\ deploy = made /\ seen = made
    /\ gest \in [Service -> {NoGest, [NoGest EXCEPT !.is = TRUE]}]
    /\ there = FALSE /\ memory = Empty
    /\ pass = Idle
    /\ mistaken = {}
    /\ spent = [moves |-> 0, trouble |-> 0]

Reconcile(s) == Wait(s) \/ Bear(s) \/ Remember(s) \/ Depart(s) \/ ReconcileFails(s)
Sync == Begin \/ Save \/ \E s \in Service : Reconcile(s)

Next ==
    \/ Sync \/ Restart
    \/ \E s \in Service : \/ Apply(s) \/ Remove(s) \/ Conceive(s) \/ End(s) \/ Edit(s)
                          \/ CatchUp(s)
    \/ Forget \/ Tick

Spec == Init /\ [][Next]_vars

\* The loop runs every 15 seconds, and watches deliver.
FairSpec == Spec /\ WF_vars(Sync) /\ \A s \in Service : WF_vars(CatchUp(s))

(***************************************************************************)
(* Properties.                                                             *)
(***************************************************************************)
\* Every variable has its type.
Pass == [pc : {"idle", "reconcile"}, todo : SUBSET Service, g : [Service -> Gest],
         moved : SUBSET Service, known : BOOLEAN, found : BOOLEAN, data : Memories,
         changed : BOOLEAN]
TypeOK ==
    /\ now \in 1 .. MaxClock
    /\ deploy \in [Service -> 0 .. MaxUid] /\ seen \in [Service -> 0 .. MaxUid]
    /\ made \in [Service -> 0 .. MaxUid]
    /\ gest \in [Service -> Gest]
    /\ there \in BOOLEAN /\ memory \in Memories /\ mistaken \subseteq Life
    /\ pass \in Pass
    /\ spent \in [moves : 0 .. MaxMoves, trouble : 0 .. MaxTrouble]

\* The memory never holds more than MaxRecords records.
MemoryBounded == Cardinality(DOMAIN memory) <= MaxRecords

\* As long as there is room nothing is let go and what a record says of a birth
\* and of a departure is final: a birth repeated because its status was refused
\* is not dated anew, a late reader does not reopen what was closed, a pass that
\* began long ago undoes nothing.
RecordsLast ==
    [][there' /\ Cardinality(DOMAIN memory') < MaxRecords =>
         \A l \in DOMAIN memory :
            /\ l \in DOMAIN memory' /\ memory'[l].born = memory[l].born
            /\ Departed(memory[l]) => memory'[l] = memory[l]]_vars

\* Without room the record of a service that is here is let go only when no
\* record that was closed before is left, however many a pass writes.  (One that
\* was closed by mistake may be let go and written again in one pass.)
ClosedGoFirst ==
    [][there' =>
         \A l \in DOMAIN memory \ (DOMAIN memory' \union mistaken) :
            deploy[l[1]] = l[2] =>
                /\ Cardinality(DOMAIN memory') = MaxRecords
                /\ \A k \in (DOMAIN memory' \intersect DOMAIN memory) \ mistaken :
                      ~ Departed(memory[k])]_vars

\* Once users and failures rest, every record that is open is of a Deployment
\* that is there, and, if they all fit, every service that is watched has its
\* record.
Watched == {l \in Life : gest[l[1]].is /\ gest[l[1]].birth = l[2] /\ deploy[l[1]] = l[2]}
Open == {l \in DOMAIN memory : ~ Departed(memory[l])}
MemorySettles ==
    <>[](/\ \A l \in Open : deploy[l[1]] = l[2]
         /\ Cardinality(Watched \union Open) <= MaxRecords => Watched \subseteq DOMAIN memory)

\* memory.go: when the memory is full, "the record of the service that left
\* longest ago is let go first": none of a service that is here, while one stays
\* that the controller itself wrote, rightly, has left.
LeftGoFirst ==
    [][there' =>
         \A l \in DOMAIN memory \ DOMAIN memory' :
            deploy[l[1]] = l[2] =>
                \A k \in DOMAIN memory' : Departed(memory'[k]) => deploy[k[1]] = k[2]]_vars

\* A memory that nobody has reason to change comes to rest.
MemoryRests == <>[](~ pass.changed)
=============================================================================
