---------------------------- MODULE WorryProofs ----------------------------
(***************************************************************************)
(* What is proved of Worry for every value of its constants: any number of *)
(* nodes and resources, any load, any failed patches and restarts.         *)
(***************************************************************************)
EXTENDS Worry, TLAPS

USE LevelsArePercent, AbsentIsNoNote

---------------------------------------------------------------------------
\* Types.

Notes == (SUBSET Res) \union {Absent}

Turn == [todo : SUBSET Node, at : Node \union {Absent},
         note : [Node -> Notes], load : [Node -> [Res -> Levels]]]

\* A pass under way works on nodes that its list had.
TurnTyped == turn = Rest \/ (turn \in Turn /\ \A n \in turn.todo : turn.note[n] # Absent)

Typed == TypeOK /\ TurnTyped

(* What a process takes a node's worries to be is a set of resources. *)
LEMMA BeforeType ==
    ASSUME Typed, NEW n \in Node, n \in turn.todo
    PROVE  Before(n) \in SUBSET Res /\ Feels(Before(n), turn.load[n]) \in SUBSET Res
  <1>1. turn \in Turn /\ turn.note[n] # Absent
    BY DEF Typed, TurnTyped, Rest
  <1>2. turn.note[n] \in SUBSET Res
    BY <1>1 DEF Turn, Notes
  <1>3. worried[n] \in (SUBSET Res) \union {Absent}
    BY DEF Typed, TypeOK
  <1>4. Before(n) \in SUBSET Res
    BY <1>2, <1>3 DEF Before, Decode
  <1>5. QED
    BY <1>4 DEF Feels

(* Ending the turn of a node keeps the pass well formed. *)
LEMMA PersistedType ==
    ASSUME Typed, turn.at # Absent, turn' = Persisted
    PROVE  TurnTyped' /\ turn'.todo \subseteq Node /\ turn'.at = Absent
  <1>1. turn \in Turn /\ \A n \in turn.todo : turn.note[n] # Absent
    BY DEF Typed, TurnTyped, Rest
  <1>2. CASE turn.todo = {}
    BY <1>2 DEF Persisted, TurnTyped, Rest
  <1>3. CASE turn.todo # {}
    <2>1. turn' = [turn EXCEPT !.at = Absent]
      BY <1>3 DEF Persisted
    <2>2. turn' \in Turn /\ turn'.todo = turn.todo /\ turn'.note = turn.note
          /\ turn'.at = Absent
      BY <1>1, <2>1 DEF Turn
    <2>3. QED
      BY <1>1, <2>2 DEF TurnTyped, Turn
  <1>4. QED
    BY <1>2, <1>3

(* The initial state is well typed. *)
LEMMA InitTyped == Init => Typed
  <1>1. SUFFICES ASSUME Init PROVE Typed
    OBVIOUS
  <1>2. TypeOK
    BY <1>1 DEF Init, TypeOK, Rest
  <1>3. QED
    BY <1>1, <1>2 DEF Init, Typed, TurnTyped

(* Every step keeps the types. *)
LEMMA StepTyped == Typed /\ [Next]_vars => Typed'
  <1>1. SUFFICES ASSUME Typed, [Next]_vars PROVE Typed'
    OBVIOUS
  <1> USE <1>1 DEF Typed
  <1>2. CASE Begin
    <2>1. worried' \in [Node -> Notes]
      BY <1>2 DEF Begin, TypeOK, Notes
    <2>2. TurnTyped' /\ turn'.todo \subseteq Node /\ turn'.at = Absent
      <3>1. CASE turn' = Rest
        BY <3>1 DEF TurnTyped, Rest
      <3>2. CASE turn' = [todo |-> {n \in Node : seenNote[n] # Absent}, at |-> Absent,
                          note |-> seenNote, load |-> load]
        <4>1. turn' \in Turn
          BY <3>2 DEF Turn, TypeOK, Notes
        <4>2. QED
          BY <3>2, <4>1 DEF TurnTyped
      <3>3. QED
        BY <1>2, <3>1, <3>2 DEF Begin
    <2>3. QED
      BY <1>2, <2>1, <2>2 DEF Begin, TypeOK, Notes
  <1>3. ASSUME NEW n \in Node, Feel(n) PROVE Typed'
    <2>1. /\ turn \in Turn /\ \A m \in turn.todo : turn.note[m] # Absent
          /\ n \in turn.todo
      BY <1>3 DEF Feel, TurnTyped, Rest
    <2>2. Feels(Before(n), turn.load[n]) \in SUBSET Res
      BY <2>1, BeforeType
    <2>3. worried' \in [Node -> Notes]
      BY <1>3, <2>2 DEF Feel, TypeOK, Notes
    <2>4. told' \in [Node -> [Res -> {"Worried", "Relieved"}]]
      <3>1. told' = [told EXCEPT ![n] =
              [r \in Res |-> IF (r \in Feels(Before(n), turn.load[n])) # (r \in Before(n))
                             THEN (IF r \in Feels(Before(n), turn.load[n])
                                   THEN "Worried" ELSE "Relieved")
                             ELSE told[n][r]]]
        BY <1>3 DEF Feel
      <3>2. \A r \in Res : told[n][r] \in {"Worried", "Relieved"}
        BY DEF TypeOK
      <3>3. QED
        BY <3>1, <3>2 DEF TypeOK
    <2>5. TurnTyped' /\ turn'.todo \subseteq Node /\ turn'.at \in Node \union {Absent}
      <3>1. turn' = [turn EXCEPT !.todo = @ \ {n}, !.at = n]
        BY <1>3 DEF Feel
      <3>2. turn' \in Turn /\ turn'.todo = turn.todo \ {n} /\ turn'.note = turn.note
            /\ turn'.at = n
        BY <2>1, <3>1 DEF Turn
      <3>3. QED
        BY <2>1, <3>2 DEF TurnTyped, Turn
    <2>6. QED
      BY <1>3, <2>3, <2>4, <2>5 DEF Feel, TypeOK, Notes
  <1>4. CASE Persist
    <2>1. TurnTyped' /\ turn'.todo \subseteq Node /\ turn'.at = Absent
      BY <1>4, PersistedType DEF Persist
    <2>2. note' \in [Node -> Notes]
      BY <1>4 DEF Persist, TypeOK, Notes
    <2>3. QED
      BY <1>4, <2>1, <2>2 DEF Persist, TypeOK, Notes
  <1>5. CASE PersistFails
    <2>1. TurnTyped' /\ turn'.todo \subseteq Node /\ turn'.at = Absent
      BY <1>5, PersistedType DEF PersistFails
    <2>2. QED
      BY <1>5, <2>1 DEF PersistFails, TypeOK
  <1>6. ASSUME NEW n \in Node, Watch(n) PROVE Typed'
    BY <1>6 DEF Watch, TypeOK, TurnTyped
  <1>7. ASSUME NEW n \in Node, Leave(n) PROVE Typed'
    BY <1>7 DEF Leave, TypeOK, TurnTyped
  <1>8. ASSUME NEW n \in Node, Join(n) PROVE Typed'
    BY <1>8 DEF Join, TypeOK, TurnTyped
  <1>9. ASSUME NEW n \in Node, NEW r \in Res, NEW pct \in Levels, ChangeLoad(n, r, pct)
        PROVE Typed'
    <2>1. [load[n] EXCEPT ![r] = pct] \in [Res -> Levels]
      BY DEF TypeOK
    <2>2. load' \in [Node -> [Res -> Levels]]
      BY <1>9, <2>1 DEF ChangeLoad, TypeOK
    <2>3. QED
      BY <1>9, <2>2 DEF ChangeLoad, TypeOK, TurnTyped
  <1>10. CASE Restart
    BY <1>10 DEF Restart, TypeOK, TurnTyped, Rest
  <1>11. CASE UNCHANGED vars
    BY <1>11 DEF vars, TypeOK, TurnTyped
  <1>12. QED
    BY <1>2, <1>3, <1>4, <1>5, <1>6, <1>7, <1>8, <1>9, <1>10, <1>11 DEF Next, Check

(* Every variable has its type in every reachable state, for any number of
   nodes, resources and moves: what a process remembers of a node is always a
   set of resources, also after it decoded an annotation another one wrote. *)
THEOREM TypeCorrect == Spec => []TypeOK
  <1>1. Init => Typed
    BY InitTyped
  <1>2. Typed /\ [Next]_vars => Typed'
    BY StepTyped
  <1>3. Typed => TypeOK
    BY DEF Typed
  <1>4. QED
    BY <1>1, <1>2, <1>3, PTL DEF Spec

---------------------------------------------------------------------------
\* No flapping.

\* A node of which nothing announced was lost: what was announced is what the
\* process remembers or, if it has not looked at the node yet, what the node's
\* annotation, its copy and the pass under way say.
Saved(n) ==
    /\ note[n] # Absent /\ seenNote[n] # Absent
    /\ worried[n] # Absent => worried[n] = Told(n)
    /\ worried[n] = Absent => /\ note[n] = Told(n) /\ seenNote[n] = note[n]
                              /\ turn.at # n
                              /\ n \in turn.todo => turn.note[n] = note[n]

Steady == Typed /\ \A n \in Node \ unsaved : Saved(n)

(* What a process takes a saved node's worries to be is what was announced. *)
LEMMA BeforeIsTold ==
    ASSUME Steady, NEW n \in Node \ unsaved, n \in turn.todo
    PROVE  Before(n) = Told(n)
  BY DEF Steady, Saved, Before, Decode

(* Nothing has been announced when a node's first process begins. *)
LEMMA InitSteady == Init => Steady
  <1>1. SUFFICES ASSUME Init PROVE Steady
    OBVIOUS
  <1>2. \A n \in Node : Saved(n)
    BY <1>1 DEF Init, Saved, Told, Rest
  <1>3. QED
    BY <1>1, <1>2, InitTyped DEF Steady

(* Every step keeps saved nodes saved. *)
LEMMA StepSteady == Steady /\ [Next]_vars => Steady'
  <1>1. SUFFICES ASSUME Steady, [Next]_vars PROVE Steady'
    OBVIOUS
  <1> USE <1>1
  <1>2. Typed /\ Typed'
    BY StepTyped DEF Steady
  <1>3. SUFFICES ASSUME NEW n \in Node, n \notin unsaved' PROVE Saved(n)'
    BY <1>2 DEF Steady
  <1>4. CASE Begin
    <2>1. n \notin unsaved /\ Saved(n)
      BY <1>3, <1>4 DEF Begin, Steady
    <2>2. worried'[n] = worried[n] /\ note' = note /\ seenNote' = seenNote /\ told' = told
      BY <1>2, <1>4, <2>1 DEF Begin, Saved, Typed, TypeOK
    <2>3. turn'.at = Absent /\ (n \in turn'.todo => turn'.note = seenNote)
      BY <1>4 DEF Begin, Rest
    <2>4. QED
      BY <2>1, <2>2, <2>3 DEF Saved, Told
  <1>5. ASSUME NEW m \in Node, Feel(m) PROVE Saved(n)'
    <2>1. n \notin unsaved /\ Saved(n) /\ m \in turn.todo /\ turn \in Turn
      BY <1>2, <1>3, <1>5 DEF Feel, Steady, Typed, TurnTyped, Rest
    <2>2. turn' = [turn EXCEPT !.todo = @ \ {m}, !.at = m]
      BY <1>5 DEF Feel
    <2>3. turn'.at = m /\ turn'.todo = turn.todo \ {m} /\ turn'.note = turn.note
      BY <2>1, <2>2 DEF Turn
    <2>4. note' = note /\ seenNote' = seenNote
      BY <1>5 DEF Feel
    <2>5. CASE n # m
      <3>1. worried'[n] = worried[n] /\ told'[n] = told[n]
        BY <1>2, <1>5, <2>5 DEF Feel, Typed, TypeOK
      <3>2. QED
        BY <2>1, <2>3, <2>4, <2>5, <3>1 DEF Saved, Told
    <2>6. CASE n = m
      <3> DEFINE state == Before(n)
                 new == Feels(state, turn.load[n])
      <3>1. state = Told(n)
        BY <1>3, <2>1, <2>6, BeforeIsTold
      <3>2. new \in SUBSET Res
        BY <1>2, <2>1, <2>6, BeforeType
      <3>3. worried'[n] = new
        BY <1>2, <1>5, <2>6 DEF Feel, Typed, TypeOK
      <3>4. told'[n] = [r \in Res |-> IF (r \in new) # (r \in state)
                                      THEN (IF r \in new THEN "Worried" ELSE "Relieved")
                                      ELSE told[n][r]]
        BY <1>2, <1>5, <2>6 DEF Feel, Typed, TypeOK
      <3> HIDE DEF state, new
      <3>5. Told(n)' = {r \in Res : told'[n][r] = "Worried"}
        BY DEF Told
      <3>6. \A r \in Res : told'[n][r] = "Worried" <=> r \in new
        <4>1. TAKE r \in Res
        <4>2. CASE (r \in new) # (r \in state)
          BY <3>4, <4>1, <4>2
        <4>3. CASE (r \in new) = (r \in state)
          BY <3>1, <3>4, <4>1, <4>3 DEF Told
        <4>4. QED
          BY <4>2, <4>3
      <3>7. Told(n)' = new
        BY <3>2, <3>5, <3>6
      <3>8. worried'[n] # Absent
        BY <3>2, <3>3
      <3>9. QED
        BY <2>1, <2>4, <3>3, <3>7, <3>8 DEF Saved
    <2>7. QED
      BY <2>5, <2>6
  <1>6. CASE Persist
    <2>1. n \notin unsaved /\ Saved(n)
      BY <1>3, <1>6 DEF Persist, Steady
    <2>2. /\ turn'.at = Absent
          /\ n \in turn'.todo => n \in turn.todo /\ turn'.note = turn.note
      BY <1>2, <1>6 DEF Persist, Persisted, Typed, TurnTyped, Turn, Rest
    <2>3. /\ worried' = worried /\ told' = told /\ seenNote' = seenNote
      BY <1>6 DEF Persist
    <2>4. CASE n = turn.at
      <3>1. worried[n] # Absent
        BY <2>1, <2>4 DEF Saved
      <3>2. note'[n] # Absent
        BY <1>2, <1>6, <2>1, <2>4, <3>1 DEF Persist, Saved, Typed, TypeOK
      <3>3. QED
        BY <2>1, <2>3, <3>1, <3>2 DEF Saved, Told
    <2>5. CASE n # turn.at
      <3>1. note'[n] = note[n]
        BY <1>2, <1>6, <2>5 DEF Persist, Typed, TypeOK
      <3>2. QED
        BY <2>1, <2>2, <2>3, <3>1 DEF Saved, Told
    <2>6. QED
      BY <2>4, <2>5
  <1>7. CASE PersistFails
    <2>1. n \notin unsaved /\ Saved(n)
      BY <1>3, <1>7 DEF PersistFails, Steady
    <2>2. /\ turn'.at = Absent
          /\ n \in turn'.todo => n \in turn.todo /\ turn'.note = turn.note
      BY <1>2, <1>7 DEF PersistFails, Persisted, Typed, TurnTyped, Turn, Rest
    <2>3. QED
      BY <1>7, <2>1, <2>2 DEF PersistFails, Saved, Told
  <1>8. ASSUME NEW m \in Node, Watch(m) PROVE Saved(n)'
    <2>1. n \notin unsaved /\ Saved(n)
      BY <1>3, <1>8 DEF Watch, Steady
    <2>2. seenNote'[n] \in {seenNote[n], note[n]}
      BY <1>2, <1>8 DEF Watch, Typed, TypeOK
    <2>3. QED
      BY <1>8, <2>1, <2>2 DEF Watch, Saved, Told
  <1>9. ASSUME NEW m \in Node, Leave(m) PROVE Saved(n)'
    <2>1. n \notin unsaved /\ Saved(n) /\ n # m
      BY <1>3, <1>9 DEF Leave, Steady
    <2>2. note'[n] = note[n]
      BY <1>2, <1>9, <2>1 DEF Leave, Typed, TypeOK
    <2>3. QED
      BY <1>9, <2>1, <2>2 DEF Leave, Saved, Told
  <1>10. ASSUME NEW m \in Node, Join(m) PROVE Saved(n)'
    <2>1. n \notin unsaved /\ Saved(n)
      BY <1>3, <1>10 DEF Join, Steady
    <2>2. n # m
      BY <1>10, <2>1 DEF Join, Saved
    <2>3. note'[n] = note[n]
      BY <1>2, <1>10, <2>2 DEF Join, Typed, TypeOK
    <2>4. QED
      BY <1>10, <2>1, <2>3 DEF Join, Saved, Told
  <1>11. ASSUME NEW m \in Node, NEW r \in Res, NEW pct \in Levels, ChangeLoad(m, r, pct)
         PROVE Saved(n)'
    <2>1. n \notin unsaved /\ Saved(n)
      BY <1>3, <1>11 DEF ChangeLoad, Steady
    <2>2. QED
      BY <1>11, <2>1 DEF ChangeLoad, Saved, Told
  <1>12. CASE Restart
    <2>1. n \notin unsaved /\ note[n] = Told(n)
      BY <1>3, <1>12 DEF Restart
    <2>2. Saved(n)
      BY <1>3, <2>1 DEF Steady
    <2>3. worried'[n] = Absent /\ seenNote' = note /\ note' = note /\ told' = told /\ turn' = Rest
      BY <1>12 DEF Restart
    <2>4. QED
      BY <2>1, <2>2, <2>3 DEF Saved, Told, Rest
  <1>13. CASE UNCHANGED vars
    <2>1. n \notin unsaved /\ Saved(n)
      BY <1>3, <1>13 DEF vars, Steady
    <2>2. QED
      BY <1>13, <2>1 DEF vars, Saved, Told
  <1>14. QED
    BY <1>4, <1>5, <1>6, <1>7, <1>8, <1>9, <1>10, <1>11, <1>12, <1>13 DEF Next, Check

(* Only looking at a node starts its turn. *)
LEMMA OnlyFeelTurns ==
    ASSUME Typed, [Next]_vars, NEW n \in Node, turn.at = Absent, turn'.at = n
    PROVE  Feel(n)
  <1>1. ASSUME Begin PROVE FALSE
    BY <1>1 DEF Begin, Rest
  <1>2. ASSUME NEW m \in Node, Feel(m) PROVE Feel(n)
    <2>1. turn \in Turn
      BY <1>2 DEF Typed, TurnTyped, Feel, Rest
    <2>2. turn'.at = m
      BY <1>2, <2>1 DEF Feel, Turn
    <2>3. QED
      BY <1>2, <2>2
  <1>3. ~ Persist /\ ~ PersistFails
    BY DEF Persist, PersistFails
  <1>4. ASSUME turn' = turn PROVE FALSE
    BY <1>4
  <1>5. ASSUME Restart PROVE FALSE
    BY <1>5 DEF Restart, Rest
  <1>6. QED
    BY <1>1, <1>2, <1>3, <1>4, <1>5
    DEF Next, Check, Watch, Leave, Join, ChangeLoad, vars

(* A node hovering at the threshold does not flap and a new leader repeats
   nothing that was saved, for any number of nodes and resources: a worry is
   announced at 70 % or more of a node last said to be calm, relief below 65 %
   of one last said to be worried, whatever patches failed and however stale
   the copies were. *)
THEOREM NeverFlaps == Spec => NoFlapping
  <1> DEFINE Calm == \A n \in Node \ unsaved, r \in Res :
         turn.at = Absent /\ turn'.at = n =>
           /\ r \in worried'[n] \ Before(n) => told[n][r] = "Relieved" /\ turn.load[n][r] >= 70
           /\ r \in Before(n) \ worried'[n] => told[n][r] = "Worried" /\ turn.load[n][r] < 65
  <1>1. Steady /\ [Next]_vars => Calm
    <2>1. SUFFICES ASSUME Steady, [Next]_vars, NEW n \in Node \ unsaved, NEW r \in Res,
                          turn.at = Absent, turn'.at = n
                   PROVE  /\ r \in worried'[n] \ Before(n) =>
                                told[n][r] = "Relieved" /\ turn.load[n][r] >= 70
                          /\ r \in Before(n) \ worried'[n] =>
                                told[n][r] = "Worried" /\ turn.load[n][r] < 65
      OBVIOUS
    <2>2. Feel(n)
      BY <2>1, OnlyFeelTurns DEF Steady
    <2>3. turn \in Turn /\ n \in turn.todo
      BY <2>1, <2>2 DEF Feel, Steady, Typed, TurnTyped, Rest
    <2>4. Before(n) = Told(n)
      BY <2>1, <2>3, BeforeIsTold
    <2>5. worried'[n] = Feels(Before(n), turn.load[n])
      BY <2>1, <2>2 DEF Feel, Steady, Typed, TypeOK
    <2>6. told[n][r] \in {"Worried", "Relieved"} /\ turn.load[n][r] \in Nat
      <3>1. told \in [Node -> [Res -> {"Worried", "Relieved"}]]
        BY <2>1 DEF Steady, Typed, TypeOK
      <3>2. turn.load \in [Node -> [Res -> Levels]]
        BY <2>3 DEF Turn
      <3>3. told[n] \in [Res -> {"Worried", "Relieved"}] /\ turn.load[n] \in [Res -> Levels]
        BY <2>1, <3>1, <3>2
      <3>4. turn.load[n][r] \in Levels
        BY <2>1, <3>3
      <3>5. QED
        BY <2>1, <3>3, <3>4
    <2>7. ASSUME r \in worried'[n] \ Before(n)
          PROVE  told[n][r] = "Relieved" /\ turn.load[n][r] >= 70
      <3>1. Worries(turn.load[n][r])
        BY <2>5, <2>7 DEF Feels
      <3>2. r \notin Told(n)
        BY <2>4, <2>7
      <3>3. QED
        BY <2>6, <3>1, <3>2 DEF Worries, WorryThresholdPercent, Told
    <2>8. ASSUME r \in Before(n) \ worried'[n]
          PROVE  told[n][r] = "Worried" /\ turn.load[n][r] < 65
      <3>1. Relieved(turn.load[n][r])
        BY <2>5, <2>8 DEF Feels
      <3>2. r \in Told(n)
        BY <2>4, <2>8
      <3>3. QED
        BY <2>6, <3>1, <3>2 DEF Relieved, WorryThresholdPercent, hysteresis, Told
    <2>9. QED
      BY <2>7, <2>8
  <1>2. Init => Steady
    BY InitSteady
  <1>3. Steady /\ [Next]_vars => Steady'
    BY StepSteady
  <1>4. QED
    <2>1. Spec => [][Calm]_vars
      BY <1>1, <1>2, <1>3, PTL DEF Spec
    <2>2. QED
      BY <2>1 DEF NoFlapping
=============================================================================
