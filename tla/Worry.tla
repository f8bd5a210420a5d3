------------------------------- MODULE Worry -------------------------------
(***************************************************************************)
(* The worry controller: once a minute it looks at every node's requests,  *)
(* announces that a resource got full before it is full (Worried) and that *)
(* it relaxed (Relieved), and mirrors what it is worried about to an       *)
(* annotation of the node, for the next process.                           *)
(***************************************************************************)
EXTENDS Naturals, FiniteSets

CONSTANTS
    Node, Res,
    Levels,          \* percentages of allocatable the requests may take
    Absent,
    MaxMoves,        \* bound: changes of load, of nodes
    MaxTrouble       \* bound: patches that fail, restarts

WorryThresholdPercent == 70
hysteresis == 5

ASSUME LevelsArePercent == Levels \subseteq Nat /\ 0 \in Levels
ASSUME BoundsAreNumbers == MaxMoves \in Nat /\ MaxTrouble \in Nat
ASSUME AbsentIsNoNote == (\A s \in SUBSET Res : Absent # s) /\ Absent \notin Node

VARIABLES
    load,       \* requests per node and resource, in percent, as the caches show
    note,       \* the annotation of each node; Absent: there is no such node
    seenNote,   \* the controller's copy of the node, likewise
    worried,    \* the process's memory; Absent: nothing remembered of the node
    turn,       \* this pass: nodes to look at, the one to persist, what it listed
    told,       \* history: the last event for each node and resource
    unsaved,    \* history: a process died, or a node was replaced, and what had
                \* been announced was not in the node's annotation
    spent       \* what the bounds count

vars == <<load, note, seenNote, worried, turn, told, unsaved, spent>>

Rest == [todo |-> {}, at |-> Absent, note |-> Absent, load |-> Absent]

Trouble == /\ spent.trouble < MaxTrouble
           /\ spent' = [spent EXCEPT !.trouble = @ + 1]

Move == /\ spent.moves < MaxMoves
        /\ spent' = [spent EXCEPT !.moves = @ + 1]

(***************************************************************************)
(* feel: at most one event per change of state.                            *)
(***************************************************************************)
Worries(pct) == pct >= WorryThresholdPercent

\* Wrong form: relieved as soon as the requests are below the threshold.
RelievedAtOnce(pct) == pct < WorryThresholdPercent

Relieved(pct) == pct < WorryThresholdPercent - hysteresis

Feels(state, pct) ==
    (state \ {r \in Res : Relieved(pct[r])}) \union {r \in Res : Worries(pct[r])}

(***************************************************************************)
(* check.                                                                  *)
(***************************************************************************)
\* A pass starts: it lists nodes and pods from the caches.  The memory of nodes
\* that are gone goes at its end, which no node of the pass can tell from this.
Begin ==
    /\ turn = Rest
    /\ LET present == {n \in Node : seenNote[n] # Absent}
       IN  turn' = IF present = {} THEN Rest
                   ELSE [todo |-> present, at |-> Absent, note |-> seenNote, load |-> load]
    /\ worried' = [n \in Node |-> IF seenNote[n] = Absent THEN Absent ELSE worried[n]]
    /\ UNCHANGED <<load, note, seenNote, told, unsaved, spent>>

\* Wrong form: a new process starts calm.
ForgetsNote(n) == {}

\* Wrong form: no annotation splits into one empty name.
DecodeRaw(n) == IF turn.note[n] = {} THEN {""} ELSE turn.note[n]

\* decodeWorried, for a node this process has not looked at yet.
Decode(n) == turn.note[n]

\* What the process takes a node's worries to be.
Before(n) == IF worried[n] = Absent THEN Decode(n) ELSE worried[n]

\* One node: its state, and the events for what changed.
Feel(n) ==
    /\ turn.at = Absent /\ n \in turn.todo
    /\ LET state == Before(n)
           new == Feels(state, turn.load[n])
       IN  /\ worried' = [worried EXCEPT ![n] = new]
           /\ told' = [told EXCEPT ![n] =
                 [r \in Res |-> IF (r \in new) # (r \in state)
                                THEN (IF r \in new THEN "Worried" ELSE "Relieved")
                                ELSE told[n][r]]]
    /\ turn' = [turn EXCEPT !.todo = @ \ {n}, !.at = n]
    /\ UNCHANGED <<load, note, seenNote, unsaved, spent>>

\* Wrong form: the annotation is written when a worry begins, not when it ends.
NewsOnly(n) == worried[n] \subseteq Decode(n)

Same(n) == turn.note[n] = worried[n]

Persisted == IF turn.todo = {} THEN Rest ELSE [turn EXCEPT !.at = Absent]

\* persist: a merge patch without resourceVersion if the copy differs; a node
\* that is gone meanwhile is no error.
Persist ==
    /\ turn.at # Absent
    /\ LET n == turn.at
       IN  note' = IF note[n] = Absent \/ Same(n) THEN note
                   ELSE [note EXCEPT ![n] = worried[n]]
    /\ turn' = Persisted
    /\ UNCHANGED <<load, seenNote, worried, told, unsaved, spent>>

\* The patch fails: the state is kept, and the next pass tries again.
PersistFails ==
    /\ turn.at # Absent
    /\ ~ Same(turn.at)
    /\ Trouble
    /\ turn' = Persisted
    /\ UNCHANGED <<load, note, seenNote, worried, told, unsaved>>

(***************************************************************************)
(* The cluster, the informer, a new process or leader.                     *)
(***************************************************************************)
Watch(n) ==
    /\ seenNote[n] # note[n]
    /\ seenNote' = [seenNote EXCEPT ![n] = note[n]]
    /\ UNCHANGED <<load, note, worried, turn, told, unsaved, spent>>

ChangeLoad(n, r, pct) ==
    /\ load[n][r] # pct
    /\ Move
    /\ load' = [load EXCEPT ![n][r] = pct]
    /\ UNCHANGED <<note, seenNote, worried, turn, told, unsaved>>

Told(n) == {r \in Res : told[n][r] = "Worried"}

\* A node leaves, or joins (again) without annotations.
Leave(n) ==
    /\ note[n] # Absent
    /\ Move
    /\ note' = [note EXCEPT ![n] = Absent]
    /\ unsaved' = unsaved \union {n}
    /\ UNCHANGED <<load, seenNote, worried, turn, told>>

Join(n) ==
    /\ note[n] = Absent
    /\ note' = [note EXCEPT ![n] = {}]
    /\ UNCHANGED <<load, seenNote, worried, turn, told, unsaved, spent>>

\* The new process lists the nodes afresh and remembers nothing.
Restart ==
    /\ Trouble
    /\ worried' = [n \in Node |-> Absent]
    /\ turn' = Rest
    /\ seenNote' = note
    /\ unsaved' = unsaved \union {n \in Node : note[n] # Told(n)}
    /\ UNCHANGED <<load, note, told>>

Init ==
    /\ load = [n \in Node |-> [r \in Res |-> 0]]
    /\ note = [n \in Node |-> {}]
    /\ seenNote = note
    /\ worried = [n \in Node |-> Absent]
    /\ turn = Rest
    /\ told = [n \in Node |-> [r \in Res |-> "Relieved"]]
    /\ unsaved = {}
    /\ spent = [moves |-> 0, trouble |-> 0]

Check == Begin \/ (\E n \in Node : Feel(n)) \/ Persist \/ PersistFails

Next ==
    \/ Check
    \/ \E n \in Node : \/ Watch(n) \/ Leave(n) \/ Join(n)
                       \/ \E r \in Res, pct \in Levels : ChangeLoad(n, r, pct)
    \/ Restart

\* The loop runs every minute and the watch delivers.
Fairness == WF_vars(Check) /\ \A n \in Node : WF_vars(Watch(n))

Spec == Init /\ [][Next]_vars /\ Fairness

(***************************************************************************)
(* Properties.                                                             *)
(***************************************************************************)
\* Every variable has its type.
TypeOK ==
    /\ load \in [Node -> [Res -> Levels]]
    /\ note \in [Node -> (SUBSET Res) \union {Absent}]
    /\ seenNote \in [Node -> (SUBSET Res) \union {Absent}]
    /\ worried \in [Node -> (SUBSET Res) \union {Absent}]
    /\ turn.todo \subseteq Node /\ turn.at \in Node \union {Absent}
    /\ told \in [Node -> [Res -> {"Worried", "Relieved"}]]
    /\ unsaved \subseteq Node

\* A node hovering at the threshold does not flap, and a new leader does not
\* announce the same worry twice: over restarts, failed patches and stale
\* copies of the node, a worry is announced at 70 % or more after the node was
\* said to be calm, and relief below 65 % after it was said to be worried.
\* Only what a process had announced and not saved when it died may be lost.
NoFlapping ==
    [][\A n \in Node \ unsaved, r \in Res :
         turn.at = Absent /\ turn'.at = n =>
           /\ r \in worried'[n] \ Before(n) => told[n][r] = "Relieved" /\ turn.load[n][r] >= 70
           /\ r \in Before(n) \ worried'[n] => told[n][r] = "Worried" /\ turn.load[n][r] < 65]_vars

\* Once the requests stay put, every node says in its annotation what is full
\* and nothing of what is well below the threshold, whatever failed before.
EventuallySaid ==
    <>[](\A n \in Node : note[n] # Absent =>
           \A r \in Res : /\ load[n][r] >= 70 => r \in note[n]
                          /\ load[n][r] < 65 => r \notin note[n])

\* worry.go: the annotation exists "so that a restart or a new leader doesn't
\* announce the same worry twice".
NeverToldTwice ==
    [][\A n \in Node, r \in Res :
         turn.at = Absent /\ turn'.at = n /\ r \in worried'[n] \ Before(n)
           => told[n][r] = "Relieved"]_vars
=============================================================================
