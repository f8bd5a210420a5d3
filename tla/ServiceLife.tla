---------------------------- MODULE ServiceLife ----------------------------
(***************************************************************************)
(* What the owners of a Deployment are promised about newborn care.  Care  *)
(* begins with a birth and brings one extra replica at most; it ends with  *)
(* the replica taken back, by a discharge that two caregivers were named   *)
(* for or by a rollback to a revision older than the one that is rejected, *)
(* or with the Deployment.  Gestation implements it.                       *)
(***************************************************************************)
EXTENDS Naturals, Sequences

CONSTANT Template

VARIABLES uid,          \* the Deployment, 0 for none
          newborn,      \* it is in newborn care
          extra,        \* replicas it has because of that
          named,        \* two caregivers are named
          template,     \* its pod template
          revisions,    \* the revision of each template, 0 for none
          rejected      \* the revisions it was sent back from, in order

vars == <<uid, newborn, extra, named, template, revisions, rejected>>

\* As a Deployment is applied, and where there is none.
Fresh == /\ ~newborn /\ extra = 0 /\ template \in Template
         /\ revisions = [t \in Template |-> 0] /\ rejected = <<>>

Init == uid = 0 /\ ~named /\ Fresh

Arrive == uid = 0 /\ uid' \in Nat \ {0} /\ named' \in BOOLEAN /\ Fresh'

Leave == uid # 0 /\ uid' = 0 /\ ~named' /\ Fresh'

Birth == /\ uid # 0 /\ ~newborn
         /\ newborn' /\ extra' \in {0, 1}
         /\ UNCHANGED <<uid, named, template, revisions, rejected>>

GoHome == /\ newborn /\ named
          /\ ~newborn' /\ extra' = 0
          /\ UNCHANGED <<uid, named, template, revisions, rejected>>

GoBack == /\ newborn
          /\ ~newborn' /\ extra' = 0
          /\ template' \in Template
          /\ \E i \in DOMAIN rejected' :
               /\ rejected' = Append(rejected, rejected'[i])
               /\ revisions[template'] \in 1 .. rejected'[i] - 1
          /\ UNCHANGED <<uid, named, revisions>>

Name == /\ uid # 0 /\ named' = ~named
        /\ UNCHANGED <<uid, newborn, extra, template, revisions, rejected>>

Rollout == /\ uid # 0 /\ template' \in Template \ {template}
           /\ UNCHANGED <<uid, newborn, extra, named, revisions, rejected>>

\* The template that runs gets a revision above all others.
Number == /\ uid # 0
          /\ LET n == revisions'[template]
             IN  /\ n \in Nat /\ \A t \in Template : revisions[t] < n
                 /\ revisions' = [revisions EXCEPT ![template] = n]
          /\ UNCHANGED <<uid, newborn, extra, named, template, rejected>>

Next == Arrive \/ Leave \/ Birth \/ GoHome \/ GoBack \/ Name \/ Rollout \/ Number

Spec == Init /\ [][Next]_vars
=============================================================================
