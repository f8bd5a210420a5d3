------------------------ MODULE RelationshipsProofs ------------------------
(***************************************************************************)
(* What is proved of Relationships for every value of its constants: any   *)
(* services, workloads, selectors and texts, any number of edits by users, *)
(* of requests that fail and of restarts.                                  *)
(***************************************************************************)
EXTENDS Relationships, TLAPS

---------------------------------------------------------------------------
\* Shapes.

Total(f, S) == f = [x \in S |-> f[x]]

\* An object has all its fields.
Whole(o) == o = Absent \/ o = [owner |-> o.owner, evidence |-> o.evidence, managed |-> o.managed]

Writing == /\ pass = [phase |-> "writing", desired |-> pass.desired, todo |-> pass.todo,
                      listed |-> pass.listed]
           /\ pass.todo \subseteq Key
           /\ \A k \in Key : Whole(pass.desired[k])

Shaped ==
    /\ Total(services, Service) /\ Total(workloads, Workload)
    /\ seen = [services |-> seen.services, workloads |-> seen.workloads]
    /\ Total(seen.services, Service) /\ Total(seen.workloads, Workload)
    /\ Total(objects, Key) /\ \A k \in Key : Whole(objects[k])
    /\ spent \in [moves : Nat, trouble : Nat]
    /\ pass = Idle \/ pass = [phase |-> "ensured"] \/ Writing

(* A total function with one value changed is total. *)
LEMMA TotalExcept ==
    ASSUME NEW S, NEW f, Total(f, S), NEW a \in S, NEW v
    PROVE  /\ Total([f EXCEPT ![a] = v], S)
           /\ [f EXCEPT ![a] = v][a] = v
           /\ \A x \in S \ {a} : [f EXCEPT ![a] = v][x] = f[x]
  BY DEF Total

(* What ends one object's turn leaves a pass under way, or none. *)
LEMMA DoneShape ==
    ASSUME Writing, NEW k, Done(k)
    PROVE  \/ pass' = Idle /\ pass.todo = {k}
           \/ /\ Writing' /\ pass'.desired = pass.desired /\ pass'.listed = pass.listed
              /\ pass'.todo = pass.todo \ {k}
  <1>1. CASE pass.todo = {k}
    BY <1>1 DEF Done
  <1>2. CASE pass.todo # {k}
    <2>1. pass' = [pass EXCEPT !.todo = pass.todo \ {k}]
      BY <1>2 DEF Done
    <2>2. pass' = [phase |-> "writing", desired |-> pass.desired, todo |-> pass.todo \ {k},
                   listed |-> pass.listed]
      BY <2>1 DEF Writing
    <2>3. QED
      BY <2>2 DEF Writing
  <1>3. QED
    BY <1>1, <1>2

(* An object with another evidence, or without its label, has all its fields. *)
LEMMA WholeExcept ==
    ASSUME NEW o, NEW e, o # Absent, Whole(o)
    PROVE  /\ [o EXCEPT !.evidence = e] = [owner |-> o.owner, evidence |-> e, managed |-> o.managed]
           /\ [o EXCEPT !.managed = e] = [owner |-> o.owner, evidence |-> o.evidence, managed |-> e]
  <1>1. o = [owner |-> o.owner, evidence |-> o.evidence, managed |-> o.managed]
    BY DEF Whole
  <1>2. DOMAIN o = {"owner", "evidence", "managed"}
    BY <1>1
  <1>3. [o EXCEPT !.evidence = e] = [owner |-> o.owner, evidence |-> e, managed |-> o.managed]
    BY <1>2
  <1>4. [o EXCEPT !.managed = e] = [owner |-> o.owner, evidence |-> o.evidence, managed |-> e]
    BY <1>2
  <1>5. QED
    BY <1>3, <1>4

(* Records with the three fields have all of them. *)
LEMMA RecordIsWhole ==
    ASSUME NEW a, NEW e, NEW m
    PROVE  Whole([owner |-> a, evidence |-> e, managed |-> m])
  BY DEF Whole

(* Objects stay whole where a whole one takes a place. *)
LEMMA WholeStays ==
    ASSUME Total(objects, Key), \A j \in Key : Whole(objects[j]), NEW k \in Key, NEW o, Whole(o)
    PROVE  /\ Total([objects EXCEPT ![k] = o], Key)
           /\ \A j \in Key : Whole([objects EXCEPT ![k] = o][j])
  <1>1. \A j \in Key : [objects EXCEPT ![k] = o][j] = IF j = k THEN o ELSE objects[j]
    <2>1. TAKE j \in Key
    <2>2. [objects EXCEPT ![k] = o][k] = o
      BY DEF Total
    <2>3. j # k => [objects EXCEPT ![k] = o][j] = objects[j]
      BY <2>1, TotalExcept
    <2>4. QED
      BY <2>2, <2>3
  <1>2. Total([objects EXCEPT ![k] = o], Key)
    BY TotalExcept
  <1>3. QED
    BY <1>1, <1>2

(* Every object of a graph has all its fields. *)
LEMMA GraphIsWhole ==
    ASSUME NEW svcs, NEW wls, NEW k \in Key
    PROVE  Whole(Graph(svcs, wls)[k])
  BY DEF Graph, ToObject, Whole

(* The initial state has its shape. *)
LEMMA InitShaped == Init => Shaped
  <1>1. SUFFICES ASSUME Init PROVE Shaped
    OBVIOUS
  <1>2. Total(services, Service) /\ Total(workloads, Workload)
    BY <1>1 DEF Init, Total
  <1>3. Total(objects, Key)
    BY <1>1 DEF Init, Total, Graph
  <1>4. \A k \in Key : Whole(objects[k])
    <2>1. CASE objects = Graph(services, workloads)
      BY <2>1, GraphIsWhole
    <2>2. CASE objects = [k \in Key |-> Absent]
      BY <2>2 DEF Whole
    <2>3. QED
      BY <1>1, <2>1, <2>2 DEF Init
  <1>5. QED
    BY <1>1, <1>2, <1>3, <1>4 DEF Init, Shaped, FilledCaches, Total

(* Every step keeps the shapes. *)
LEMMA StepShaped == Shaped /\ [Next]_vars => Shaped'
  <1>1. SUFFICES ASSUME Shaped, [Next]_vars PROVE Shaped'
    OBVIOUS
  <1> USE <1>1
  <1>2. CASE EnsureCRD
    BY <1>2 DEF EnsureCRD, Shaped, Total, Writing
  <1>3. CASE List
    <2>1. pass' = Idle \/ Writing'
      BY <1>3, GraphIsWhole DEF List, Writing, Managed
    <2>2. QED
      BY <1>3, <2>1 DEF List, Shaped, Total
  <1>4. ASSUME NEW k \in Key, Write(k) PROVE Shaped'
    <2>1. Writing
      BY <1>4 DEF Write, Shaped, Idle
    <2>2. pass' = Idle \/ Writing'
      BY <1>4, <2>1, DoneShape DEF Write
    <2>3. Total(objects', Key) /\ \A j \in Key : Whole(objects'[j])
      <3>1. PICK o \in {Absent, objects[k], pass.desired[k]} : objects' = [objects EXCEPT ![k] = o]
        BY <1>4 DEF Write
      <3>2. Whole(o)
        BY <2>1, <3>1 DEF Shaped, Writing, Whole
      <3>3. QED
        BY <3>1, <3>2, WholeStays DEF Shaped
    <2>4. QED
      BY <1>4, <2>2, <2>3 DEF Write, Shaped, Total
  <1>5. CASE RequestFails
    <2>1. spent' \in [moves : Nat, trouble : Nat]
      BY <1>5 DEF RequestFails, Trouble, Shaped
    <2>2. pass' = Idle \/ Writing'
      <3>1. CASE pass.phase = "writing" /\ \E k \in pass.todo : InTurn(k) /\ Done(k)
        <4>1. Writing
          BY <3>1 DEF Shaped, Idle
        <4>2. QED
          BY <3>1, <4>1, DoneShape
      <3>2. QED
        BY <1>5, <3>1 DEF RequestFails
    <2>3. QED
      BY <1>5, <2>1, <2>2 DEF RequestFails, Shaped, Total
  <1>6. CASE Restart
    <2>1. spent' \in [moves : Nat, trouble : Nat]
      BY <1>6 DEF Restart, Trouble, Shaped
    <2>2. QED
      BY <1>6, <2>1 DEF Restart, Shaped, Total, FilledCaches
  <1>7. ASSUME NEW s \in Service, NEW v, services' = [services EXCEPT ![s] = v],
               UNCHANGED <<workloads, seen, objects, pass>>, Move
        PROVE  Shaped'
    <2>1. Total(services', Service)
      BY <1>7, TotalExcept DEF Shaped
    <2>2. spent' \in [moves : Nat, trouble : Nat]
      BY <1>7 DEF Move, Shaped
    <2>3. QED
      BY <1>7, <2>1, <2>2 DEF Shaped, Total, Writing
  <1>8. ASSUME NEW w \in Workload, NEW v, workloads' = [workloads EXCEPT ![w] = v],
               UNCHANGED <<services, seen, objects, pass>>, Move
        PROVE  Shaped'
    <2>1. Total(workloads', Workload)
      BY <1>8, TotalExcept DEF Shaped
    <2>2. spent' \in [moves : Nat, trouble : Nat]
      BY <1>8 DEF Move, Shaped
    <2>3. QED
      BY <1>8, <2>1, <2>2 DEF Shaped, Total, Writing
  <1>9. ASSUME NEW k \in Key, NEW o, Put(k, o), Whole(o), spent' = spent \/ Move
        PROVE  Shaped'
    <2>1. Total(objects', Key) /\ \A j \in Key : Whole(objects'[j])
      BY <1>9, WholeStays DEF Put, Shaped
    <2>2. spent' \in [moves : Nat, trouble : Nat]
      BY <1>9 DEF Move, Shaped
    <2>3. QED
      BY <1>9, <2>1, <2>2 DEF Put, Shaped, Total, Writing
  <1>10. CASE RemoveAPI
    <2>1. spent' \in [moves : Nat, trouble : Nat]
      BY <1>10 DEF RemoveAPI, Move, Shaped
    <2>2. QED
      BY <1>10, <2>1 DEF RemoveAPI, Shaped, Total, Writing, Whole
  <1>11. ASSUME NEW s \in Service, WatchService(s) PROVE Shaped'
    <2>1. /\ seen'.services = [seen.services EXCEPT ![s] = services[s]]
          /\ seen'.workloads = seen.workloads
          /\ seen' = [services |-> seen'.services, workloads |-> seen'.workloads]
      BY <1>11 DEF WatchService, Shaped
    <2>2. Total(seen'.services, Service)
      BY <2>1, TotalExcept DEF Shaped
    <2>3. QED
      BY <1>11, <2>1, <2>2 DEF WatchService, Shaped, Total, Writing
  <1>12. ASSUME NEW w \in Workload, WatchWorkload(w) PROVE Shaped'
    <2>1. /\ seen'.workloads = [seen.workloads EXCEPT ![w] = workloads[w]]
          /\ seen'.services = seen.services
          /\ seen' = [services |-> seen'.services, workloads |-> seen'.workloads]
      BY <1>12 DEF WatchWorkload, Shaped
    <2>2. Total(seen'.workloads, Workload)
      BY <2>1, TotalExcept DEF Shaped
    <2>3. QED
      BY <1>12, <2>1, <2>2 DEF WatchWorkload, Shaped, Total, Writing
  <1>13. CASE Establish \/ UNCHANGED vars
    BY <1>13 DEF Establish, vars, Shaped, Total, Writing
  <1>14. ASSUME NEW k \in Key, EditObject(k) \/ StripLabel(k) \/ RemoveObject(k) \/ MakeOwn(k)
         PROVE  Shaped'
    <2>1. ASSUME EditObject(k) PROVE Whole([objects[k] EXCEPT !.evidence = Edited])
      <3>1. objects[k] # Absent /\ Whole(objects[k])
        BY <2>1 DEF EditObject, Shaped
      <3>2. [objects[k] EXCEPT !.evidence = Edited] =
              [owner |-> objects[k].owner, evidence |-> Edited, managed |-> objects[k].managed]
        BY <3>1, WholeExcept
      <3>3. QED
        BY <3>2, RecordIsWhole
    <2>2. ASSUME StripLabel(k) PROVE Whole([objects[k] EXCEPT !.managed = FALSE])
      <3>1. objects[k] # Absent /\ Whole(objects[k])
        BY <2>2 DEF StripLabel, Managed, Shaped
      <3>2. [objects[k] EXCEPT !.managed = FALSE] =
              [owner |-> objects[k].owner, evidence |-> objects[k].evidence, managed |-> FALSE]
        BY <3>1, WholeExcept
      <3>3. QED
        BY <3>2, RecordIsWhole
    <2>3. Whole(Absent) /\ Whole([owner |-> 0, evidence |-> Edited, managed |-> FALSE])
      BY DEF Whole
    <2>4. QED
      BY <1>9, <1>14, <2>1, <2>2, <2>3 DEF EditObject, StripLabel, RemoveObject, MakeOwn
  <1>15. CASE User
    BY <1>7, <1>8, <1>10, <1>14, <1>15
    DEF User, RemoveService, PutService, RemoveWorkload, PutWorkload
  <1>16. ASSUME NEW k \in Key, Collect(k) PROVE Shaped'
    BY <1>9, <1>16 DEF Collect, Whole
  <1>17. QED
    BY <1>2, <1>3, <1>4, <1>5, <1>6, <1>11, <1>12, <1>13, <1>15, <1>16
    DEF Next, Controller, Watch

---------------------------------------------------------------------------
\* Edits.

(* Of the steps that change what a pass knows only a write changes objects. *)
LEMMA OnlyWritesChange ==
    ASSUME Shaped, [Next]_vars, pass.phase = "writing", pass # pass'
    PROVE  (\E k \in Key : Write(k)) \/ objects' = objects
  BY DEF Next, Controller, EnsureCRD, List, RequestFails, Restart, User, RemoveService,
         PutService, RemoveWorkload, PutWorkload, EditObject, StripLabel, RemoveObject,
         MakeOwn, RemoveAPI, Put, Watch, WatchService, WatchWorkload, Collect, Establish, vars

(* What a write leaves under the name k. *)
LEMMA WriteDoes ==
    ASSUME Shaped, NEW k \in Key, Write(k)
    PROVE  /\ \A j \in Key \ {k} : objects'[j] = objects[j]
           /\ k \in Listed \ Wanted => objects'[k] = Absent
           /\ \/ objects'[k] = objects[k]
              \/ objects'[k] = Absent /\ k \in Listed /\ k \notin Wanted
              \/ /\ objects'[k] = pass.desired[k] /\ k \in Wanted
                 /\ k \notin Listed => objects[k] = Absent
                 /\ k \in Listed => UpdateTaken(k)
  <1> DEFINE o == IF k \in Listed /\ k \notin Wanted THEN Absent
                  ELSE IF api = Absent THEN objects[k]
                  ELSE IF k \notin Listed
                       THEN IF objects[k] = Absent THEN pass.desired[k] ELSE objects[k]
                  ELSE IF ~ EqualSpec(k) /\ UpdateTaken(k) THEN pass.desired[k]
                  ELSE objects[k]
  <1>1. objects' = [objects EXCEPT ![k] = o]
    BY DEF Write
  <1>2. objects'[k] = o /\ \A j \in Key \ {k} : objects'[j] = objects[j]
    BY <1>1, TotalExcept DEF Shaped
  <1>3. \/ o = objects[k]
        \/ o = Absent /\ k \in Listed /\ k \notin Wanted
        \/ o = pass.desired[k] /\ k \notin Listed /\ objects[k] = Absent
        \/ o = pass.desired[k] /\ k \in Listed /\ k \in Wanted /\ UpdateTaken(k)
    OBVIOUS
  <1>4. pass.desired[k] # Absent => k \in Wanted
    BY DEF Wanted
  <1>5. k \in Listed \ Wanted => o = Absent
    OBVIOUS
  <1> HIDE DEF o
  <1>6. QED
    BY <1>2, <1>3, <1>4, <1>5

(* What somebody wrote after a pass had listed is not overwritten by the pass,
   for any objects, in any order of its writes and theirs. *)
THEOREM EditsAreKept == Spec => EditsSurvive
  <1> DEFINE Kept == pass.phase = "writing" /\ pass # pass' =>
         \A k \in pass.todo \intersect touched :
            objects[k] # Absent /\ objects'[k] # Absent => objects'[k] = objects[k]
  <1>1. Shaped /\ [Next]_vars => Kept
    <2>1. SUFFICES ASSUME Shaped, [Next]_vars, pass.phase = "writing", pass # pass',
                          NEW k \in pass.todo, k \in touched,
                          objects[k] # Absent, objects'[k] # Absent
                   PROVE  objects'[k] = objects[k]
      OBVIOUS
    <2>2. k \in Key
      BY <2>1 DEF Shaped, Idle, Writing
    <2>3. ASSUME NEW j \in Key, Write(j) PROVE objects'[k] = objects[k]
      BY <2>1, <2>2, <2>3, WriteDoes DEF UpdateTaken
    <2>4. QED
      BY <2>1, <2>3, OnlyWritesChange
  <1>2. Spec => [][Kept]_vars
    BY <1>1, InitShaped, StepShaped, PTL DEF Spec
  <1>3. QED
    BY <1>2 DEF EditsSurvive

---------------------------------------------------------------------------
\* Nobody is in both relationships with the same service.

OneTie(keys) == ~ \E j, k \in keys : j.type # k.type /\ j.s = k.s /\ j.w = k.w

\* While nothing fails, what a pass leaves is what it wants or has yet to remove;
\* what it listed and nobody touched is still labelled.
Tidy ==
    /\ pass.phase = "writing" =>
         /\ OneTie(Wanted)
         /\ \A k \in Listed \ touched : k \in Managed
    /\ spent.trouble = 0 =>
         /\ OneTie(Managed)
         /\ pass.phase = "writing" => Managed \subseteq Wanted \union (pass.todo \intersect Listed)

(* A graph never has both relationships of a pair. *)
LEMMA GraphHasOneTie ==
    ASSUME NEW svcs, NEW wls
    PROVE  OneTie({k \in Key : Graph(svcs, wls)[k] # Absent})
  <1>1. SUFFICES ASSUME NEW j \in Key, NEW k \in Key, Graph(svcs, wls)[j] # Absent,
                        Graph(svcs, wls)[k] # Absent, j.type # k.type, j.s = k.s, j.w = k.w
                 PROVE  FALSE
    BY DEF OneTie
  <1>2. ASSUME NEW i \in Key, Graph(svcs, wls)[i] # Absent
        PROVE  \/ i.type = "serves" /\ Serves(svcs, wls, i.s, i.w)
               \/ i.type = "talks-to" /\ ~ Serves(svcs, wls, i.s, i.w)
    BY <1>2 DEF Graph, TalksTo
  <1>3. QED
    BY <1>1, <1>2

(* Fewer keys have no more ties. *)
LEMMA FewerTies == ASSUME NEW K, NEW J, J \subseteq K, OneTie(K) PROVE OneTie(J)
  BY DEF OneTie

(* What a process finds at its start is tidy. *)
LEMMA InitTidy == Init => Tidy
  <1>1. SUFFICES ASSUME Init PROVE Tidy
    OBVIOUS
  <1>2. pass.phase # "writing"
    BY <1>1 DEF Init, Idle
  <1>3. Managed \subseteq {k \in Key : Graph(services, workloads)[k] # Absent}
    BY <1>1 DEF Init, Managed
  <1>4. OneTie(Managed)
    <2>1. OneTie({k \in Key : Graph(services, workloads)[k] # Absent})
      BY GraphHasOneTie
    <2>2. QED
      BY <1>3, <2>1, FewerTies
  <1>5. QED
    BY <1>2, <1>4 DEF Tidy

(* Where a step takes labelled objects away only, and touches those, all is as
   tidy as before. *)
LEMMA LessIsTidy ==
    ASSUME Shaped, Tidy, pass' = pass, Managed' \subseteq Managed, touched \intersect Key \subseteq touched',
           \A k \in Managed \ Managed' : k \in touched', spent'.trouble = spent.trouble
    PROVE  Tidy'
  <1>1. Wanted' = Wanted /\ Listed' = Listed
    BY DEF Wanted, Listed
  <1>2. OneTie(Managed) => OneTie(Managed')
    BY FewerTies
  <1>3. OneTie(Wanted) => OneTie(Wanted')
    BY <1>1
  <1>4. pass.phase = "writing" => \A k \in Listed' \ touched' : k \in Managed'
    BY <1>1 DEF Tidy, Listed
  <1>5. QED
    BY <1>1, <1>2, <1>3, <1>4 DEF Tidy

(* No user, informer or garbage collector labels an object. *)
LEMMA PutIsTidy ==
    ASSUME Shaped, Tidy, NEW k \in Key, NEW o, Put(k, o), spent' = spent \/ Move,
           o # Absent /\ o.managed => k \in Managed
    PROVE  Tidy'
  <1>1. \A j \in Key \ {k} : objects'[j] = objects[j]
    BY TotalExcept DEF Put, Shaped
  <1>2. objects'[k] = o
    BY TotalExcept DEF Put, Shaped
  <1>3. Managed' \subseteq Managed /\ Managed \ Managed' \subseteq {k}
    BY <1>1, <1>2 DEF Managed
  <1>4. spent'.trouble = spent.trouble
    BY DEF Move, Shaped
  <1>5. QED
    BY <1>3, <1>4, LessIsTidy DEF Put

(* A write keeps things tidy: what is new comes after what had to go. *)
LEMMA WriteIsTidy == ASSUME Shaped, Tidy, NEW k \in Key, Write(k) PROVE Tidy'
  <1>1. /\ pass.phase = "writing" /\ k \in pass.todo /\ InTurn(k) /\ Writing
        /\ spent' = spent
    BY DEF Write, Shaped, Idle
  <1>2. /\ \A j \in Key \ {k} : objects'[j] = objects[j]
        /\ k \in Listed \ Wanted => objects'[k] = Absent
        /\ \/ objects'[k] = objects[k]
           \/ objects'[k] = Absent /\ k \in Listed /\ k \notin Wanted
           \/ /\ objects'[k] = pass.desired[k] /\ k \in Wanted
              /\ k \notin Listed => objects[k] = Absent
              /\ k \in Listed => UpdateTaken(k)
    BY WriteDoes
  <1>3. OneTie(Wanted) /\ \A j \in Listed \ touched : j \in Managed
    BY <1>1 DEF Tidy
  <1>4. \A j \in Key \ {k} : j \in Managed' <=> j \in Managed
    BY <1>2 DEF Managed
  <1>5. k \in Managed' => k \in Managed \/ (k \in Wanted /\ k \notin Listed)
    BY <1>2, <1>3 DEF Managed, UpdateTaken
  <1>6. touched' = IF objects'[k] = objects[k] THEN touched ELSE touched \union {k}
    BY DEF Write
  <1>7. \A j \in Listed \ touched' : j \in Managed'
    <2>1. TAKE j \in Listed \ touched'
    <2>2. j \in Key /\ j \in Managed
      BY <1>3, <1>6, <2>1 DEF Listed
    <2>3. CASE j = k
      BY <1>6, <2>1, <2>2, <2>3 DEF Managed
    <2>4. QED
      BY <1>4, <2>2, <2>3
  <1>8. ASSUME spent.trouble = 0
        PROVE  /\ OneTie(Managed')
               /\ Managed' \subseteq Wanted \union ((pass.todo \ {k}) \intersect Listed)
    <2>1. OneTie(Managed) /\ Managed \subseteq Wanted \union (pass.todo \intersect Listed)
      BY <1>1, <1>8 DEF Tidy
    <2>2. \A j \in Managed' : j \in Key
      BY DEF Managed
    <2>3. CASE k \in Listed
      <3>1. Managed' \subseteq Managed
        BY <1>4, <1>5, <2>2, <2>3
      <3>2. k \in Managed' => k \in Wanted
        BY <1>2, <2>3 DEF Managed
      <3>3. QED
        BY <2>1, <3>1, <3>2, FewerTies
    <2>4. CASE k \notin Listed
      <3>1. pass.todo \intersect Listed = {}
        BY <1>1, <2>4 DEF InTurn
      <3>2. Managed' \subseteq Wanted
        BY <1>4, <1>5, <2>1, <2>2, <3>1
      <3>3. QED
        BY <1>3, <3>2, FewerTies
    <2>5. QED
      BY <2>3, <2>4
  <1>9. CASE pass' = Idle
    <2>1. pass'.phase # "writing"
      BY <1>9 DEF Idle
    <2>2. QED
      BY <1>1, <1>8, <2>1 DEF Tidy
  <1>10. CASE /\ Writing' /\ pass'.desired = pass.desired /\ pass'.listed = pass.listed
              /\ pass'.todo = pass.todo \ {k}
    <2>1. Wanted' = Wanted /\ Listed' = Listed
      BY <1>10 DEF Wanted, Listed
    <2>2. OneTie(Wanted')
      BY <1>3, <2>1
    <2>3. QED
      BY <1>1, <1>7, <1>8, <1>10, <2>1, <2>2 DEF Tidy
  <1>11. QED
    BY <1>1, <1>9, <1>10, DoneShape DEF Write

(* Trouble is not forgotten. *)
LEMMA TroubleStays == ASSUME Shaped, Trouble PROVE spent'.trouble # 0
  BY DEF Trouble, Shaped

(* Every step keeps things tidy. *)
LEMMA StepTidy == Shaped /\ Tidy /\ [Next]_vars => Tidy'
  <1>1. SUFFICES ASSUME Shaped, Tidy, [Next]_vars PROVE Tidy'
    OBVIOUS
  <1> USE <1>1
  <1>2. CASE EnsureCRD
    <2>1. pass'.phase # "writing" /\ Managed' = Managed /\ spent' = spent
      BY <1>2 DEF EnsureCRD, Idle, Managed
    <2>2. QED
      BY <2>1 DEF Tidy
  <1>3. CASE List
    <2>1. Managed' = Managed /\ spent' = spent
      BY <1>3 DEF List, Managed
    <2>2. CASE pass' = Idle
      <3>1. pass'.phase # "writing"
        BY <2>2 DEF Idle
      <3>2. QED
        BY <2>1, <3>1 DEF Tidy
    <2>3. CASE pass' # Idle
      <3> DEFINE desired == Graph(seen.services, seen.workloads)
                 todo == Managed \union {k \in Key : desired[k] # Absent}
                 listed == [k \in Key |-> IF k \in Managed THEN objects[k] ELSE Absent]
      <3>1. pass' = [phase |-> "writing", desired |-> desired, todo |-> todo, listed |-> listed]
        BY <1>3, <2>3 DEF List
      <3>2. Wanted' = {k \in Key : desired[k] # Absent}
        BY <3>1 DEF Wanted
      <3>3. Listed' = Managed
        BY <3>1 DEF Listed, Managed
      <3>4. OneTie(Wanted')
        BY <3>2, GraphHasOneTie
      <3>5. pass'.todo = todo
        BY <3>1
      <3>6. Managed' \subseteq Wanted' \union (pass'.todo \intersect Listed')
        BY <2>1, <3>3, <3>5
      <3>7. QED
        BY <2>1, <3>3, <3>4, <3>6 DEF Tidy
    <2>4. QED
      BY <2>2, <2>3
  <1>4. ASSUME NEW k \in Key, Write(k) PROVE Tidy'
    BY <1>4, WriteIsTidy
  <1>5. CASE RequestFails
    <2>1. spent'.trouble # 0
      BY <1>5, TroubleStays DEF RequestFails
    <2>2. CASE pass' = Idle
      <3>1. pass'.phase # "writing"
        BY <2>2 DEF Idle
      <3>2. QED
        BY <2>1, <3>1 DEF Tidy
    <2>3. CASE pass' # Idle
      <3>1. PICK k \in pass.todo : Done(k)
        BY <1>5, <2>3 DEF RequestFails
      <3>2. pass.phase = "writing" /\ Writing
        BY <1>5, <2>3 DEF RequestFails, Shaped, Idle
      <3>3. pass'.desired = pass.desired /\ pass'.listed = pass.listed
        BY <2>3, <3>1, <3>2, DoneShape
      <3>4. Wanted' = Wanted /\ Listed' = Listed /\ Managed' = Managed /\ touched' = touched
        BY <1>5, <3>3 DEF RequestFails, Wanted, Listed, Managed
      <3>5. OneTie(Wanted')
        BY <3>2, <3>4 DEF Tidy
      <3>6. QED
        BY <2>1, <3>2, <3>4, <3>5 DEF Tidy
    <2>4. QED
      BY <2>2, <2>3
  <1>6. CASE Restart
    <2>1. spent'.trouble # 0 /\ pass'.phase # "writing"
      BY <1>6, TroubleStays DEF Restart, Idle
    <2>2. QED
      BY <2>1 DEF Tidy
  <1>7. ASSUME UNCHANGED <<objects, pass, touched>>, spent' = spent \/ Move PROVE Tidy'
    <2>1. Managed' = Managed
      BY <1>7 DEF Managed
    <2>2. spent'.trouble = spent.trouble
      BY <1>7 DEF Move, Shaped
    <2>3. QED
      BY <1>7, <2>1, <2>2, LessIsTidy
  <1>8. ASSUME NEW k \in Key, EditObject(k) \/ StripLabel(k) \/ RemoveObject(k) \/ MakeOwn(k)
        PROVE  Tidy'
    <2>1. CASE EditObject(k)
      <3>1. objects[k] # Absent /\ [objects[k] EXCEPT !.evidence = Edited].managed = objects[k].managed
        BY <2>1 DEF EditObject, Shaped, Whole
      <3>2. QED
        BY <2>1, <3>1, PutIsTidy DEF EditObject, Managed
    <2>2. CASE StripLabel(k)
      BY <2>2, PutIsTidy DEF StripLabel, Managed
    <2>3. CASE RemoveObject(k)
      BY <2>3, PutIsTidy DEF RemoveObject
    <2>4. CASE MakeOwn(k)
      BY <2>4, PutIsTidy DEF MakeOwn
    <2>5. QED
      BY <1>8, <2>1, <2>2, <2>3, <2>4
  <1>9. CASE RemoveAPI
    <2>1. Managed' = {}
      BY <1>9 DEF RemoveAPI, Managed
    <2>2. spent'.trouble = spent.trouble
      BY <1>9 DEF RemoveAPI, Move, Shaped
    <2>3. QED
      BY <1>9, <2>1, <2>2, LessIsTidy DEF RemoveAPI, Managed
  <1>10. ASSUME NEW k \in Key, Collect(k) PROVE Tidy'
    BY <1>10, PutIsTidy DEF Collect
  <1>11. QED
    BY <1>2, <1>3, <1>4, <1>5, <1>6, <1>7, <1>8, <1>9, <1>10
    DEF Next, Controller, User, RemoveService, PutService, RemoveWorkload, PutWorkload, Watch,
        WatchService, WatchWorkload, Establish, vars

(* As long as no request fails and no process dies no pair is in both
   relationships, in the middle of a pass either, whatever users do. *)
THEOREM NeverBothTies == Spec => []OneTieEach
  <1>1. Tidy => OneTieEach
    BY DEF Tidy, OneTieEach, OneTie
  <1>2. QED
    BY <1>1, InitShaped, StepShaped, InitTidy, StepTidy, PTL DEF Spec

---------------------------------------------------------------------------
\* Nothing is purged for want of knowledge.

\* What has not changed since the process began is as its caches show it, and a
\* pass under way wants of it what there is.
Known ==
    /\ \A s \in Service : s \in alive => seen.services[s] = services[s]
    /\ \A w \in Workload : w \in alive => seen.workloads[w] = workloads[w]
    /\ pass.phase = "writing" =>
         \A k \in Key : {k.s, k.w} \subseteq alive =>
            (k \in Wanted <=> Graph(services, workloads)[k] # Absent)

(* Whether two parties are related depends on these two alone. *)
LEMMA GraphIsLocal ==
    ASSUME NEW svcs, NEW wls, NEW others, NEW jobs, NEW k \in Key,
           svcs[k.s] = others[k.s], wls[k.w] = jobs[k.w]
    PROVE  Graph(svcs, wls)[k] = Graph(others, jobs)[k]
  <1>1. Serves(svcs, wls, k.s, k.w) <=> Serves(others, jobs, k.s, k.w)
    BY DEF Serves
  <1>2. Mentions(svcs, wls, k.s, k.w) = Mentions(others, jobs, k.s, k.w)
    BY DEF Mentions
  <1>3. TalksTo(svcs, wls, k.s, k.w) <=> TalksTo(others, jobs, k.s, k.w)
    BY <1>1, <1>2 DEF TalksTo
  <1>4. ToObject(svcs, wls, k) = ToObject(others, jobs, k)
    BY <1>2 DEF ToObject
  <1>5. QED
    BY <1>1, <1>3, <1>4 DEF Graph

(* A process begins with what there is. *)
LEMMA InitKnown == Init => Known
  BY DEF Init, Known, FilledCaches, Idle

(* Where a party changes it is no longer one that has not. *)
LEMMA KnownStays ==
    ASSUME Shaped, Known, alive' \subseteq alive,
           \A s \in Service : s \in alive' =>
              services'[s] = services[s] /\ seen'.services[s] \in {seen.services[s], services[s]},
           \A w \in Workload : w \in alive' =>
              workloads'[w] = workloads[w] /\ seen'.workloads[w] \in {seen.workloads[w], workloads[w]},
           pass'.phase = "writing" => pass.phase = "writing" /\ pass'.desired = pass.desired
    PROVE  Known'
  <1>1. \A s \in Service : s \in alive' => seen'.services[s] = services'[s]
    BY DEF Known
  <1>2. \A w \in Workload : w \in alive' => seen'.workloads[w] = workloads'[w]
    BY DEF Known
  <1>3. ASSUME pass'.phase = "writing", NEW k \in Key, {k.s, k.w} \subseteq alive'
        PROVE  k \in Wanted' <=> Graph(services', workloads')[k] # Absent
    <2>1. k.s \in Service /\ k.w \in Workload
      BY DEF Key
    <2>2. services'[k.s] = services[k.s] /\ workloads'[k.w] = workloads[k.w]
      BY <1>3, <2>1
    <2>3. Graph(services', workloads')[k] = Graph(services, workloads)[k]
      BY <2>2, GraphIsLocal
    <2>4. Wanted' = Wanted
      BY <1>3 DEF Wanted
    <2>5. QED
      BY <1>3, <2>3, <2>4 DEF Known
  <1>4. QED
    BY <1>1, <1>2, <1>3 DEF Known

(* Every step keeps what the process knows. *)
LEMMA StepKnown == Shaped /\ Known /\ [Next]_vars => Known'
  <1>1. SUFFICES ASSUME Shaped, Known, [Next]_vars PROVE Known'
    OBVIOUS
  <1> USE <1>1
  <1>2. CASE List
    <2>1. UNCHANGED <<services, workloads, seen, alive>>
      BY <1>2 DEF List
    <2>2. CASE pass' = Idle
      <3>1. pass'.phase # "writing"
        BY <2>2 DEF Idle
      <3>2. QED
        BY <2>1, <3>1 DEF Known
    <2>3. CASE pass' # Idle
      <3>1. pass'.desired = Graph(seen.services, seen.workloads)
        BY <1>2, <2>3 DEF List
      <3>2. ASSUME NEW k \in Key, {k.s, k.w} \subseteq alive
            PROVE  k \in Wanted' <=> Graph(services, workloads)[k] # Absent
        <4>1. seen.services[k.s] = services[k.s] /\ seen.workloads[k.w] = workloads[k.w]
          BY <3>2 DEF Known, Key
        <4>2. Graph(seen.services, seen.workloads)[k] = Graph(services, workloads)[k]
          BY <4>1, GraphIsLocal
        <4>3. QED
          BY <3>1, <4>2 DEF Wanted
      <3>3. QED
        BY <2>1, <3>2 DEF Known
    <2>4. QED
      BY <2>2, <2>3
  <1>3. CASE Restart
    BY <1>3 DEF Restart, Known, FilledCaches, Idle
  <1>4. ASSUME NEW k \in Key, Write(k) PROVE Known'
    <2>1. Writing /\ pass.phase = "writing"
      BY <1>4 DEF Write, Shaped, Idle
    <2>2. pass'.phase = "writing" => pass'.desired = pass.desired
      BY <1>4, <2>1, DoneShape DEF Write, Idle
    <2>3. UNCHANGED <<services, workloads, seen, alive>>
      BY <1>4 DEF Write
    <2>4. QED
      BY <2>1, <2>2, <2>3, KnownStays
  <1>5. CASE RequestFails
    <2>1. pass'.phase = "writing" => pass.phase = "writing" /\ pass'.desired = pass.desired
      <3>1. CASE pass' = Idle
        BY <3>1 DEF Idle
      <3>2. CASE pass.phase = "writing" /\ \E k \in pass.todo : Done(k)
        <4>1. Writing
          BY <3>2 DEF Shaped, Idle
        <4>2. QED
          BY <3>2, <4>1, DoneShape DEF Idle
      <3>3. QED
        BY <1>5, <3>1, <3>2 DEF RequestFails
    <2>2. UNCHANGED <<services, workloads, seen, alive>>
      BY <1>5 DEF RequestFails
    <2>3. QED
      BY <2>1, <2>2, KnownStays
  <1>6. CASE EnsureCRD
    <2>1. pass'.phase # "writing"
      BY <1>6 DEF EnsureCRD, Idle
    <2>2. UNCHANGED <<services, workloads, seen, alive>>
      BY <1>6 DEF EnsureCRD
    <2>3. QED
      BY <2>1, <2>2, KnownStays
  <1>7. ASSUME NEW s \in Service, NEW v, services' = [services EXCEPT ![s] = v],
               alive' = alive \ {s}, UNCHANGED <<workloads, seen, pass>>
        PROVE  Known'
    <2>1. \A t \in Service \ {s} : services'[t] = services[t]
      BY <1>7, TotalExcept DEF Shaped
    <2>2. QED
      BY <1>7, <2>1, KnownStays
  <1>8. ASSUME NEW w \in Workload, NEW v, workloads' = [workloads EXCEPT ![w] = v],
               alive' = alive \ {w}, UNCHANGED <<services, seen, pass>>
        PROVE  Known'
    <2>1. \A t \in Workload \ {w} : workloads'[t] = workloads[t]
      BY <1>8, TotalExcept DEF Shaped
    <2>2. QED
      BY <1>8, <2>1, KnownStays
  <1>9. ASSUME NEW s \in Service, WatchService(s) PROVE Known'
    <2>1. /\ seen'.services = [seen.services EXCEPT ![s] = services[s]]
          /\ seen'.workloads = seen.workloads
      BY <1>9 DEF WatchService, Shaped
    <2>2. \A t \in Service : seen'.services[t] \in {seen.services[t], services[t]}
      BY <2>1, TotalExcept DEF Shaped
    <2>3. QED
      BY <1>9, <2>1, <2>2, KnownStays DEF WatchService
  <1>10. ASSUME NEW w \in Workload, WatchWorkload(w) PROVE Known'
    <2>1. /\ seen'.workloads = [seen.workloads EXCEPT ![w] = workloads[w]]
          /\ seen'.services = seen.services
      BY <1>10 DEF WatchWorkload, Shaped
    <2>2. \A t \in Workload : seen'.workloads[t] \in {seen.workloads[t], workloads[t]}
      BY <2>1, TotalExcept DEF Shaped
    <2>3. QED
      BY <1>10, <2>1, <2>2, KnownStays DEF WatchWorkload
  <1>11. ASSUME UNCHANGED <<services, workloads, seen, pass, alive>> PROVE Known'
    BY <1>11, KnownStays
  <1>12. QED
    BY <1>2, <1>3, <1>4, <1>5, <1>6, <1>7, <1>8, <1>9, <1>10, <1>11
    DEF Next, Controller, User, RemoveService, PutService, RemoveWorkload, PutWorkload,
        EditObject, StripLabel, RemoveObject, MakeOwn, Put, RemoveAPI, Watch, Collect,
        Establish, vars

(* A controller, also one that has just started, deletes no relationship whose
   parties have not changed since it began, for any services, workloads, texts and
   edits, whatever failed before. *)
THEOREM NothingPurged == Spec => UnmovedKept
  <1> DEFINE Kept == pass.phase = "writing" /\ pass # pass' =>
         \A k \in Managed : {k.s, k.w} \subseteq alive /\ Graph(services, workloads)[k] # Absent
                             => objects'[k] # Absent
  <1>1. Shaped /\ Known /\ [Next]_vars => Kept
    <2>1. SUFFICES ASSUME Shaped, Known, [Next]_vars, pass.phase = "writing", pass # pass',
                          NEW k \in Managed, {k.s, k.w} \subseteq alive,
                          Graph(services, workloads)[k] # Absent
                   PROVE  objects'[k] # Absent
      OBVIOUS
    <2>2. k \in Key /\ objects[k] # Absent
      BY DEF Managed
    <2>3. k \in Wanted
      BY <2>1, <2>2 DEF Known
    <2>4. ASSUME NEW j \in Key, Write(j) PROVE objects'[k] # Absent
      <3>1. CASE j # k
        BY <2>1, <2>2, <2>4, <3>1, WriteDoes
      <3>2. CASE j = k
        <4>1. objects'[k] = objects[k] \/ objects'[k] = pass.desired[k]
          BY <2>1, <2>3, <2>4, <3>2, WriteDoes
        <4>2. QED
          BY <2>2, <2>3, <4>1 DEF Wanted
      <3>3. QED
        BY <3>1, <3>2
    <2>5. QED
      BY <2>1, <2>2, <2>4, OnlyWritesChange
  <1>2. Spec => [][Kept]_vars
    BY <1>1, InitShaped, StepShaped, InitKnown, StepKnown, PTL DEF Spec
  <1>3. QED
    BY <1>2 DEF UnmovedKept
=============================================================================
