----------------------- MODULE XInactivationHistory -----------------------
(***************************************************************************)
(* What a node remembers, and who may change its mind, for every value of  *)
(* the constants: a recorded crash is not lost, whatever is killed and     *)
(* whenever the power goes; every apiserver follows the first choice and   *)
(* only the lock holder switches it, and not during an upgrade whose flag  *)
(* can be read.                                                            *)
(***************************************************************************)
EXTENDS XInactivationProofs, FiniteSetTheorems

USE ApiserverAssumption, PinAssumption, FlagAssumption, ThresholdAssumption,
    FaultAssumption, NoOneAssumption, BoundAssumption

---------------------------------------------------------------------------
(* Only a starter that finds no choice, the switch of RecordCrash, an operator
   and a power loss write the choice. *)
LEMMA ChoiceMoves ==
    ASSUME TypeOK, [Next]_vars, disk'.choice # disk.choice
    PROVE  \/ disk.choice = "none"
           \/ \E w \in Wrapper : SwitchChoice(w)
           \/ EditChoice \/ PowerLoss
  <1>1. ASSUME NEW w \in Wrapper, Start(w) PROVE disk.choice = "none"
    BY <1>1 DEF Start, StartPinned, StartOlder, StartChosen, StartFirst, LinkChoice,
       SyncLink, ReadWinner, node
  <1>2. ASSUME NEW w \in Wrapper, Supervise(w) PROVE FALSE
    BY <1>2 DEF Supervise, Mature, Signal, Exit, GraceEnds, FollowTick, KillTimer,
       Crash, node
  <1>3. ASSUME NEW w \in Wrapper, RecordCrash(w), ~SwitchChoice(w) PROVE FALSE
    BY <1>3 DEF RecordCrash, LockAndCount, CannotLock, ReadCurrent, CheckBlocked,
       NoteCrash, SyncNote, SyncSwitch, StampEscape, SyncStamp, ClearHistories, node,
       WriteHistory, WriteStamp, TypeOK
  <1>4. ASSUME NEW w \in Wrapper, Kill(w) PROVE FALSE
    BY <1>4 DEF Kill
  <1>5. CASE Environment
    BY <1>5 DEF Environment, Reboot, Tick, StepBack, TouchUpgrading, RemoveUpgrading, node
  <1>6. QED
    BY <1>1, <1>2, <1>3, <1>4, <1>5 DEF Next, vars

(* A choice once made is switched by the lock holder's escape from it, edited by
   an operator or taken back by a power loss; a starter, a follower or a recorder
   that read an older choice never moves it, whatever fault strikes. *)
THEOREM OnlyRecordersSwitch == Spec => OnlyEscapesSwitch
  <1> DEFINE Moved ==
        disk.choice \in Allele /\ disk'.choice # disk.choice
        => \/ \E w \in Wrapper : lock = w /\ proc[w].allele = disk.choice
                                 /\ Len(switches') > Len(switches)
           \/ edits' > edits \/ boot' > boot
  <1>1. TypeOK /\ OneRecorder /\ [Next]_vars => Moved
    <2> SUFFICES ASSUME TypeOK, OneRecorder, [Next]_vars, disk.choice \in Allele,
                        disk'.choice # disk.choice
                 PROVE  Moved
      OBVIOUS
    <2>1. ASSUME NEW w \in Wrapper, SwitchChoice(w) PROVE Moved
      <3>1. disk' # disk /\ proc[w].allele \in Allele
        BY DEF TypeOK, Proc
      <3>2. disk'.choice = Other(proc[w].allele)
        BY <2>1, <3>1 DEF SwitchChoice, WriteChoice, TypeOK
      <3>3. proc[w].allele = disk.choice
        BY <3>1, <3>2 DEF Other, Allele
      <3>4. Len(switches') > Len(switches)
        BY <2>1, <3>1 DEF SwitchChoice, TypeOK
      <3>5. lock = w
        BY <2>1 DEF SwitchChoice, At, OneRecorder, Holds, Recording
      <3>6. QED
        BY <3>3, <3>4, <3>5
    <2>2. CASE EditChoice
      BY <2>2 DEF EditChoice, TypeOK
    <2>3. CASE PowerLoss
      BY <2>3 DEF PowerLoss, Boot, TypeOK
    <2>4. disk.choice # "none"
      BY DEF Allele
    <2>5. QED
      BY <2>1, <2>2, <2>3, <2>4, ChoiceMoves
  <1>2. [Next]_vars /\ TypeOK /\ OneRecorder => [Moved]_vars
    BY <1>1
  <1>3. QED
    BY <1>2, TypeCorrect, Exclusion, PTL DEF Spec, OnlyEscapesSwitch
---------------------------------------------------------------------------
(* What was seen of the flag is still so: removing the flag withdraws it. *)
FlagSeen == \A w \in Wrapper : proc[w].sawFlag => upgrading

\* Past the check of the flag.
Decided == {"switching", "switched", "stamping"}

(* A step other than the check of the flag decides nothing. *)
LEMMA FlagStep ==
    ASSUME "io" \notin Fault, TypeOK, FlagSeen, UpgradeBlocksEscape, [Next]_vars
    PROVE  FlagSeen' /\ UpgradeBlocksEscape'
  <1> DEFINE ok(v) == /\ proc'[v].sawFlag => upgrading'
                      /\ proc'[v].pc \in Decided => ~proc'[v].sawFlag
  <1>0. ASSUME \A v \in Wrapper : ok(v) PROVE FlagSeen' /\ UpgradeBlocksEscape'
    BY <1>0 DEF FlagSeen, UpgradeBlocksEscape, Decided
  <1>1. ASSUME NEW v \in Wrapper, proc'[v] = proc[v], upgrading => upgrading' PROVE ok(v)
    BY <1>1 DEF FlagSeen, UpgradeBlocksEscape, Decided
  <1>2. ASSUME NEW v \in Wrapper, proc'[v].sawFlag = FALSE PROVE ok(v)
    BY <1>2
  <1>3. ASSUME NEW w \in Wrapper, Start(w) PROVE \A v \in Wrapper : ok(v)
    <2>1. upgrading' = upgrading /\ \A v \in Wrapper \ {w} : proc'[v] = proc[v]
      BY <1>3 DEF Start, StartPinned, StartOlder, StartChosen, StartFirst, LinkChoice,
         SyncLink, ReadWinner, Express, Done, Goto, TypeOK, node
    <2>2. proc'[w].pc \notin Decided
      <3>1. Calm
        BY <1>3, StartIsCalm
      <3>2. proc[w].pc \notin Escaping
        BY <1>3 DEF Start, StartPinned, StartOlder, StartChosen, StartFirst, LinkChoice,
           SyncLink, ReadWinner, At, Escaping
      <3>3. QED
        BY <3>1, <3>2 DEF Calm, Escaping, Decided
    <2>3. proc'[w].sawFlag = FALSE \/ proc'[w].sawFlag = proc[w].sawFlag
      BY <1>3 DEF Start, StartPinned, StartOlder, StartChosen, StartFirst, LinkChoice,
         SyncLink, ReadWinner, Express, Done, Idle, Fresh, Goto, TypeOK, Proc
    <2>4. ok(w)
      BY <2>1, <2>2, <2>3 DEF FlagSeen
    <2>5. QED
      BY <1>1, <2>1, <2>4
  <1>4. ASSUME NEW w \in Wrapper, Supervise(w) PROVE \A v \in Wrapper : ok(v)
    <2>1. upgrading' = upgrading /\ \A v \in Wrapper \ {w} : proc'[v] = proc[v]
      BY <1>4 DEF Supervise, Mature, Signal, Exit, GraceEnds, FollowTick, KillTimer,
         Crash, Done, TypeOK, node
    <2>2. proc'[w].pc \notin Decided
      <3>1. Calm
        BY <1>4, SuperviseIsCalm
      <3>2. proc[w].pc \notin Escaping
        BY <1>4 DEF Supervise, Mature, Signal, Exit, GraceEnds, FollowTick, Follows,
           KillTimer, Crash, At, Escaping
      <3>3. QED
        BY <3>1, <3>2 DEF Calm, Escaping, Decided
    <2>3. proc'[w].sawFlag = FALSE \/ proc'[w].sawFlag = proc[w].sawFlag
      BY <1>4 DEF Supervise, Mature, Signal, Exit, GraceEnds, FollowTick, KillTimer,
         Crash, Done, Idle, Fresh, TypeOK, Proc
    <2>4. ok(w)
      BY <2>1, <2>2, <2>3 DEF FlagSeen
    <2>5. QED
      BY <1>1, <2>1, <2>4
  <1>5. ASSUME NEW w \in Wrapper, RecordCrash(w) PROVE \A v \in Wrapper : ok(v)
    <2>1. upgrading' = upgrading
      BY <1>5 DEF RecordCrash, LockAndCount, CannotLock, ReadCurrent, CheckBlocked,
         NoteCrash, SyncNote, SwitchChoice, SyncSwitch, StampEscape, SyncStamp,
         ClearHistories, node
    <2>2. \A v \in Wrapper \ {w} : proc'[v] = proc[v]
      BY <1>5 DEF RecordCrash, LockAndCount, CannotLock, ReadCurrent, CheckBlocked,
         NoteCrash, SyncNote, SwitchChoice, SyncSwitch, StampEscape, SyncStamp,
         ClearHistories, Unlock, Goto, Done, TypeOK
    <2>3. ok(w)
      <3>1. CASE LockAndCount(w)
        <4>1. proc'[w].pc \in {"noting", "reading"} /\ proc'[w].sawFlag = upgrading
          BY <3>1 DEF LockAndCount, TypeOK, Proc
        <4>2. QED
          BY <2>1, <4>1 DEF Decided
      <3>2. CASE CheckBlocked(w)
        <4>1. /\ proc'[w].sawFlag = proc[w].sawFlag
              /\ upgrading => proc'[w].pc = "noting"
          <5>1. \E last : Goto(w, IF EscapeBlocked(upgrading, last, proc[w].entry.at)
                                 THEN "noting" ELSE "switching")
            BY <3>2 DEF CheckBlocked, IO
          <5>2. QED
            BY <5>1, GotoMoves DEF EscapeBlocked
        <4>2. QED
          BY <2>1, <4>1 DEF FlagSeen, Decided
      <3>3. CASE SwitchChoice(w) \/ SyncSwitch(w)
        <4>1. proc[w].pc \in Decided
          BY <3>3 DEF SwitchChoice, SyncSwitch, At, Decided
        <4>2. proc'[w].sawFlag = FALSE \/ proc'[w].sawFlag = proc[w].sawFlag
          BY <3>3 DEF SwitchChoice, SyncSwitch, Unlock, Goto, Done, Idle, Fresh, TypeOK,
             Proc
        <4>3. QED
          BY <2>1, <4>1, <4>2 DEF FlagSeen, UpgradeBlocksEscape, Decided
      <3>4. CASE CannotLock(w) \/ ReadCurrent(w) \/ NoteCrash(w) \/ SyncNote(w)
                 \/ StampEscape(w) \/ SyncStamp(w) \/ ClearHistories(w)
        <4>1. Done(w) => proc'[w].pc = "down" /\ proc'[w].sawFlag = FALSE
          BY DEF Done, Idle, Fresh, TypeOK
        <4>2. ASSUME NEW pc, Goto(w, pc)
              PROVE  proc'[w].pc = pc /\ proc'[w].sawFlag = proc[w].sawFlag
          BY <4>2 DEF Goto, TypeOK, Proc
        <4>3. /\ proc'[w].pc \in {"down", "checking", "noting", "noted", "stamped",
                                  "clearing"}
              /\ proc'[w].sawFlag = FALSE \/ proc'[w].sawFlag = proc[w].sawFlag
          BY <3>4, <4>1, <4>2 DEF CannotLock, ReadCurrent, NoteCrash, SyncNote,
             StampEscape, SyncStamp, ClearHistories, Unlock
        <4>4. QED
          BY <2>1, <4>3 DEF FlagSeen, Decided
      <3>5. QED
        BY <1>5, <3>1, <3>2, <3>3, <3>4 DEF RecordCrash
    <2>4. QED
      BY <1>1, <2>1, <2>2, <2>3
  <1>6. ASSUME NEW w \in Wrapper, Kill(w) PROVE \A v \in Wrapper : ok(v)
    <2>1. /\ upgrading' = upgrading /\ proc'[w].sawFlag = FALSE
          /\ \A v \in Wrapper \ {w} : proc'[v] = proc[v]
      BY <1>6 DEF Kill, Done, Idle, Fresh, TypeOK
    <2>2. QED
      BY <1>1, <1>2, <2>1
  <1>7. ASSUME Environment PROVE \A v \in Wrapper : ok(v)
    <2>1. CASE Reboot \/ PowerLoss
      BY <1>2, <2>1 DEF Reboot, PowerLoss, Boot, Idle, Fresh
    <2>2. CASE Tick \/ StepBack \/ TouchUpgrading \/ EditChoice
      BY <1>1, <2>2 DEF Tick, StepBack, TouchUpgrading, EditChoice, node
    <2>3. CASE RemoveUpgrading
      BY <1>2, <2>3, RemovalMoves
    <2>4. QED
      BY <1>7, <2>1, <2>2, <2>3 DEF Environment
  <1>8. CASE UNCHANGED vars
    BY <1>8 DEF vars, FlagSeen, UpgradeBlocksEscape
  <1>9. QED
    BY <1>0, <1>3, <1>4, <1>5, <1>6, <1>7, <1>8 DEF Next

(* Where the state directory can be read, a recording that began under the
   operator's upgrading flag switches nothing as long as the flag stays, whatever
   is killed, edited or loses power and wherever the clock goes.  A flag that
   cannot be read is taken for none. *)
THEOREM UpgradesHoldBack ==
    ASSUME "io" \notin Fault
    PROVE  Spec => []UpgradeBlocksEscape
  <1>1. Init => FlagSeen /\ UpgradeBlocksEscape
    BY DEF Init, FlagSeen, UpgradeBlocksEscape, Idle, Fresh
  <1>2. TypeOK /\ FlagSeen /\ UpgradeBlocksEscape /\ [Next]_vars
          => FlagSeen' /\ UpgradeBlocksEscape'
    BY FlagStep
  <1>3. QED
    BY <1>1, <1>2, TypeCorrect, PTL DEF Spec
---------------------------------------------------------------------------
\* Files can be read and written, and the clock never goes back.
Readable == Fault \cap {"io", "clock"} = {}

\* From counting a crash to the sync of its note.
Counting == {"reading", "checking", "noting"}

(* Why no recorded crash is lost: the lock holder rewrites the history with all
   that was in it and still counts, and what it notes is on disk when it syncs. *)
Remembered ==
    /\ HistoryComplete
    /\ \A e \in counted : e.at <= clock
    /\ \A w \in Wrapper :
         /\ proc[w].pc \in Counting =>
              /\ Recent(counted, clock) \subseteq proc[w].recent
              /\ proc[w].entry \in proc[w].recent /\ proc[w].entry.at <= clock
         /\ At(w, "noted") =>
              proc[w].entry \in disk.history /\ proc[w].entry.at <= clock

\* A step that counts, notes and clears nothing: the histories found after it
\* were there before it.
Passive ==
    LET found == kept.history \cup {disk.history} IN
    /\ counted' = counted /\ clock' \in Nat /\ clock <= clock'
    /\ disk'.history \in found /\ kept'.history \subseteq found
    /\ \A v \in Wrapper :
         /\ proc'[v].pc \in Counting \cup {"noted"} =>
              proc'[v].entry = proc[v].entry /\ proc'[v].recent = proc[v].recent
         /\ proc'[v].pc \in Counting => proc[v].pc \in Counting
         /\ proc'[v].pc = "noted" => At(v, "noted") /\ disk'.history = disk.history

(* As time passes, fewer of the crashes counted so far are recent. *)
LEMMA RecentShrinks ==
    ASSUME NEW c \in SUBSET Entry, NEW t \in Nat, NEW u \in Nat, t <= u,
           \A e \in c : e.at <= t
    PROVE  Recent(c, u) \subseteq Recent(c, t)
  <1>1. ASSUME NEW e \in Recent(c, u) PROVE e \in Recent(c, t)
    <2>1. e \in c /\ u - e.at <= EscapeWindow /\ e.at <= t
      BY <1>1 DEF Recent
    <2>2. e.at \in Nat
      BY <2>1 DEF Entry
    <2>3. t - e.at <= EscapeWindow
      BY <2>1, <2>2
    <2>4. QED
      BY <2>1, <2>3 DEF Recent
  <1>2. QED
    BY <1>1

(* A passive step forgets nothing. *)
LEMMA PassiveStep ==
    ASSUME TypeOK, Remembered, Passive
    PROVE  Remembered'
  <1>1. counted \in SUBSET Entry /\ clock \in Nat /\ \A e \in counted : e.at \in Nat
    BY DEF TypeOK, Entry
  <1>2. Recent(counted', clock') \subseteq Recent(counted, clock)
    BY <1>1, RecentShrinks DEF Passive, Remembered
  <1>3. HistoryComplete'
    BY <1>2 DEF Passive, Remembered, HistoryComplete
  <1>4. \A e \in counted' : e.at <= clock'
    BY <1>1 DEF Passive, Remembered
  <1>5. ASSUME NEW v \in Wrapper, proc'[v].pc \in Counting
        PROVE  /\ Recent(counted', clock') \subseteq proc'[v].recent
               /\ proc'[v].entry \in proc'[v].recent /\ proc'[v].entry.at <= clock'
    <2>1. /\ proc'[v].entry = proc[v].entry /\ proc'[v].recent = proc[v].recent
          /\ proc[v].pc \in Counting /\ proc[v].entry.at \in Nat
      BY <1>5 DEF Passive, TypeOK, Proc, Entry
    <2>2. QED
      BY <1>1, <1>2, <2>1 DEF Remembered, Passive
  <1>6. ASSUME NEW v \in Wrapper, proc'[v].pc = "noted"
        PROVE  proc'[v].entry \in disk'.history /\ proc'[v].entry.at <= clock'
    <2>1. /\ proc'[v].entry = proc[v].entry /\ At(v, "noted")
          /\ disk'.history = disk.history /\ proc[v].entry.at \in Nat
      BY <1>6 DEF Passive, TypeOK, Proc, Entry
    <2>2. QED
      BY <1>1, <2>1 DEF Remembered, Passive
  <1>7. QED
    BY <1>3, <1>4, <1>5, <1>6 DEF Remembered, At

(* Starting and supervising are passive. *)
LEMMA StartIsPassive ==
    ASSUME TypeOK, NEW w \in Wrapper, Start(w)
    PROVE  Passive
  <1>1. counted' = counted /\ clock' = clock /\ clock \in Nat
    BY DEF Start, StartPinned, StartOlder, StartChosen, StartFirst, LinkChoice,
       SyncLink, ReadWinner, env, observed, TypeOK
  <1>2. \A v \in Wrapper \ {w} : proc'[v] = proc[v]
    BY DEF Start, StartPinned, StartOlder, StartChosen, StartFirst, LinkChoice,
       SyncLink, ReadWinner, Express, Done, Goto, TypeOK
  <1>3. disk'.history = disk.history
    BY DEF Start, StartPinned, StartOlder, StartChosen, StartFirst, LinkChoice,
       SyncLink, ReadWinner, node, WriteChoice, TypeOK
  <1>4. kept'.history \in {kept.history, {disk.history}}
    <2>1. CASE LinkChoice(w)
      BY <2>1 DEF LinkChoice, WriteChoice, TypeOK
    <2>2. CASE SyncLink(w)
      <3>1. SyncDir \/ UNCHANGED kept
        BY <2>2 DEF SyncLink
      <3>2. QED
        BY <3>1 DEF SyncDir, KeptOf
    <2>3. QED
      BY <2>1, <2>2 DEF Start, StartPinned, StartOlder, StartChosen, StartFirst,
         ReadWinner, node
  <1>5. proc'[w].pc \notin Recording
    <2>1. ASSUME NEW a, NEW pin, NEW era, Express(w, a, pin, era)
          PROVE  proc'[w].pc \notin Recording
      BY <2>1 DEF Express, Done, Idle, Fresh, Recording, TypeOK
    <2>2. Done(w) => proc'[w].pc \notin Recording
      BY DEF Done, Idle, Fresh, Recording, TypeOK
    <2>3. StartFirst(w) => proc'[w].pc \notin Recording
      BY DEF StartFirst, Fresh, Recording, TypeOK
    <2>4. Goto(w, "lost") => proc'[w].pc \notin Recording
      BY GotoMoves DEF Recording
    <2>5. proc' = [proc EXCEPT ![w].pc = "linked", ![w].since = Era]
            => proc'[w].pc \notin Recording
      BY DEF Recording, TypeOK, Proc
    <2>6. QED
      BY <2>1, <2>2, <2>3, <2>4, <2>5
         DEF Start, StartPinned, StartOlder, StartChosen, LinkChoice, SyncLink, ReadWinner
  <1>6. QED
    BY <1>1, <1>2, <1>3, <1>4, <1>5 DEF Passive, Counting, Recording, At

\* Supervising a component (the select loop) records nothing and touches no file.
LEMMA SuperviseIsPassive ==
    ASSUME TypeOK, NEW w \in Wrapper, Supervise(w)
    PROVE  Passive
  <1>1. /\ counted' = counted /\ clock' = clock /\ clock \in Nat
        /\ disk' = disk /\ kept' = kept
    BY DEF Supervise, Mature, Signal, Exit, GraceEnds, FollowTick, KillTimer, Crash,
       node, env, observed, TypeOK
  <1>2. \A v \in Wrapper \ {w} : proc'[v] = proc[v]
    BY DEF Supervise, Mature, Signal, Exit, GraceEnds, FollowTick, KillTimer, Crash,
       Done, TypeOK
  <1>3. proc[w] \in Proc /\ At(w, "running")
    BY DEF Supervise, Mature, Signal, Exit, GraceEnds, FollowTick, Follows, KillTimer,
       Crash, TypeOK
  <1>4. proc'[w].pc \in {"running", "down", "crashed"}
    BY <1>3 DEF Supervise, Mature, Signal, Exit, GraceEnds, FollowTick, KillTimer,
       Crash, Done, Idle, Fresh, At, TypeOK, Proc
  <1>5. QED
    BY <1>1, <1>2, <1>4 DEF Passive, Counting, At

(* So are judging a crash and an escape up to its end. *)
LEMMA JudgingIsPassive ==
    ASSUME Readable, TypeOK, NEW w \in Wrapper,
           \/ CannotLock(w) \/ ReadCurrent(w) \/ CheckBlocked(w) \/ SwitchChoice(w)
           \/ SyncSwitch(w) \/ StampEscape(w) \/ SyncStamp(w)
    PROVE  Passive
  <1>1. counted' = counted /\ clock' = clock /\ clock \in Nat /\ ~IO
    BY DEF CannotLock, ReadCurrent, CheckBlocked, SwitchChoice, SyncSwitch, StampEscape,
       SyncStamp, env, observed, TypeOK, Readable, IO
  <1>2. \A v \in Wrapper \ {w} : proc'[v] = proc[v]
    BY <1>1 DEF CannotLock, ReadCurrent, CheckBlocked, SwitchChoice, SyncSwitch,
       StampEscape, SyncStamp, Goto, TypeOK
  <1>3. disk'.history = disk.history /\ kept'.history \in {kept.history, {disk.history}}
    BY <1>1 DEF CannotLock, ReadCurrent, CheckBlocked, SwitchChoice, SyncSwitch,
       StampEscape, SyncStamp, node, WriteChoice, WriteStamp, SyncDir, KeptOf, TypeOK
  <1>4. /\ proc'[w].entry = proc[w].entry /\ proc'[w].recent = proc[w].recent
        /\ proc'[w].pc # "noted"
        /\ proc'[w].pc \in Counting => proc[w].pc \in Counting
    <2>1. ASSUME NEW pc, Goto(w, pc)
          PROVE  /\ proc'[w].entry = proc[w].entry /\ proc'[w].recent = proc[w].recent
                 /\ proc'[w].pc = pc
      BY <2>1 DEF Goto, TypeOK, Proc
    <2>2. \/ At(w, "reading") /\ (Goto(w, "checking") \/ Goto(w, "noting"))
          \/ At(w, "checking") /\ (Goto(w, "noting") \/ Goto(w, "switching"))
          \/ Goto(w, "switched") \/ Goto(w, "stamping") \/ Goto(w, "stamped")
          \/ Goto(w, "clearing")
      BY <1>1 DEF CannotLock, ReadCurrent, CheckBlocked, SwitchChoice, SyncSwitch,
         StampEscape, SyncStamp
    <2>3. QED
      BY <2>1, <2>2 DEF At, Counting
  <1>5. QED
    BY <1>1, <1>2, <1>3, <1>4 DEF Passive, At

(* Nor does the environment count anything: kills and power losses included. *)
LEMMA EnvironmentIsPassive ==
    ASSUME Readable, TypeOK, Environment \/ \E w \in Wrapper : Kill(w)
    PROVE  Passive
  <1>1. ~StepBack
    BY DEF StepBack, Readable
  <1>2. counted' = counted /\ clock' \in Nat /\ clock <= clock'
    BY <1>1 DEF Environment, Reboot, PowerLoss, Boot, Tick, TouchUpgrading,
       RemoveUpgrading, EditChoice, Kill, env, observed, TypeOK
  <1>3. CASE Reboot
    <2>1. disk' = disk /\ kept'.history = {disk.history}
      BY <1>3 DEF Reboot, KeptOf
    <2>2. QED
      BY <1>2, <1>3, <2>1 DEF Reboot, Boot, Idle, Fresh, Passive, Counting
  <1>4. CASE PowerLoss
    <2>1. disk'.history \in kept.history /\ kept'.history = {disk'.history}
      BY <1>4 DEF PowerLoss, KeptOf
    <2>2. QED
      BY <1>2, <1>4, <2>1 DEF PowerLoss, Boot, Idle, Fresh, Passive, Counting
  <1>5. CASE Tick \/ TouchUpgrading
    BY <1>2, <1>5 DEF Tick, TouchUpgrading, node, Passive, At
  <1>6. CASE RemoveUpgrading
    BY <1>2, <1>6, RemovalMoves DEF RemoveUpgrading, Passive, At
  <1>7. CASE EditChoice
    <2>1. disk'.history = disk.history /\ kept'.history = kept.history
      BY <1>7 DEF EditChoice, WriteChoice, TypeOK
    <2>2. QED
      BY <1>2, <1>7, <2>1 DEF EditChoice, Passive, At
  <1>8. ASSUME NEW w \in Wrapper, Kill(w) PROVE Passive
    <2>1. /\ disk' = disk /\ kept' = kept /\ proc'[w].pc = "down"
          /\ \A v \in Wrapper \ {w} : proc'[v] = proc[v]
      BY <1>8 DEF Kill, Done, Idle, Fresh, TypeOK
    <2>2. QED
      BY <1>2, <2>1 DEF Passive, Counting, At
  <1>9. QED
    BY <1>1, <1>3, <1>4, <1>5, <1>6, <1>7, <1>8 DEF Environment

(* The four steps that do count, note or clear. *)
LEMMA CountingStep ==
    ASSUME Readable, TypeOK, OneRecorder, Remembered, NEW w \in Wrapper,
           LockAndCount(w) \/ NoteCrash(w) \/ SyncNote(w) \/ ClearHistories(w)
    PROVE  Remembered'
  <1>1. clock' = clock /\ clock \in Nat /\ ~IO
    BY DEF LockAndCount, NoteCrash, SyncNote, ClearHistories, env, TypeOK, Readable, IO
  <1>2. \A v \in Wrapper \ {w} : proc'[v] = proc[v]
    BY <1>1 DEF LockAndCount, NoteCrash, SyncNote, ClearHistories, Unlock, Done, Goto,
       TypeOK
  <1>3. \A v \in Wrapper \ {w} : proc'[v].pc \notin Recording
    <2>1. LockAndCount(w) => \A v \in Wrapper : proc[v].pc \notin Recording
      BY DEF LockAndCount, LockFree, OneRecorder, Holds
    <2>2. ~LockAndCount(w) => \A v \in Wrapper \ {w} : proc[v].pc \notin Recording
      BY DEF NoteCrash, SyncNote, ClearHistories, At, OneRecorder, Holds, Recording
    <2>3. QED
      BY <1>2, <2>1, <2>2
  <1>4. CASE LockAndCount(w)
    <2> DEFINE this == [proc[w].entry EXCEPT !.at = clock]
               recent == Recent(disk.history, clock) \cup {this}
    <2>0. proc' = [proc EXCEPT
                      ![w].pc = IF Cardinality(recent) < EscapeCrashes
                                THEN "noting" ELSE "reading",
                      ![w].entry = this, ![w].recent = recent, ![w].sawFlag = upgrading]
      BY <1>1, <1>4 DEF LockAndCount
    <2>1. /\ counted' = counted /\ disk' = disk /\ kept' = kept
          /\ proc'[w].pc \in {"noting", "reading"}
          /\ proc'[w].entry = this /\ proc'[w].recent = recent
      <3>1. counted' = counted /\ disk' = disk /\ kept' = kept
        BY <1>4 DEF LockAndCount, observed
      <3> HIDE DEF this, recent
      <3>2. QED
        BY <2>0, <3>1 DEF TypeOK, Proc
    <2>2. this.at = clock
      BY DEF TypeOK, Proc, Entry
    <2>3. Recent(counted, clock) \subseteq recent
      BY DEF Remembered, HistoryComplete, Recent
    <2>4. HistoryComplete'
      BY <1>1, <2>1 DEF Remembered, HistoryComplete
    <2>5. this \in recent /\ this.at <= clock
      BY <1>1, <2>2
    <2>6. \A e \in counted' : e.at <= clock'
      BY <1>1, <2>1 DEF Remembered
    <2> HIDE DEF this, recent
    <2>7. QED
      BY <1>1, <1>3, <2>1, <2>3, <2>4, <2>5, <2>6
         DEF Remembered, Counting, Recording, At
  <1>5. CASE NoteCrash(w)
    <2>1. /\ counted' = counted /\ At(w, "noting") /\ WriteHistory(proc[w].recent)
          /\ proc'[w].pc = "noted" /\ proc'[w].entry = proc[w].entry
      BY <1>1, <1>5 DEF NoteCrash, observed, Goto, TypeOK, Proc
    <2>2. /\ disk'.history = proc[w].recent
          /\ kept'.history = kept.history \cup {proc[w].recent}
      BY <2>1 DEF WriteHistory, TypeOK
    <2>3. /\ Recent(counted, clock) \subseteq proc[w].recent
          /\ proc[w].entry \in proc[w].recent /\ proc[w].entry.at <= clock
      BY <2>1 DEF Remembered, At, Counting
    <2>4. HistoryComplete'
      BY <1>1, <2>1, <2>2, <2>3 DEF Remembered, HistoryComplete
    <2>5. \A e \in counted' : e.at <= clock'
      BY <1>1, <2>1 DEF Remembered
    <2>6. QED
      BY <1>1, <1>3, <2>1, <2>2, <2>3, <2>4, <2>5
         DEF Remembered, Counting, Recording, At
  <1>6. CASE SyncNote(w)
    <2>1. /\ counted' = counted \cup {proc[w].entry} /\ At(w, "noted")
          /\ kept'.history = {disk.history} /\ disk' = disk
          /\ proc'[w].pc = "down"
      BY <1>1, <1>6 DEF SyncNote, SyncDir, KeptOf, Unlock, Done, Idle, Fresh, TypeOK
    <2>2. proc[w].entry \in disk.history /\ proc[w].entry.at <= clock
      BY <2>1 DEF Remembered
    <2>3. HistoryComplete'
      BY <1>1, <2>1, <2>2 DEF Remembered, HistoryComplete, Recent
    <2>4. \A e \in counted' : e.at <= clock'
      BY <1>1, <2>1, <2>2 DEF Remembered
    <2>5. QED
      BY <1>3, <2>1, <2>3, <2>4 DEF Remembered, Counting, Recording, At
  <1>7. CASE ClearHistories(w)
    <2>1. counted' = {} /\ proc'[w].pc = "down"
      BY <1>1, <1>7 DEF ClearHistories, Unlock, Done, Idle, Fresh, TypeOK
    <2>2. HistoryComplete'
      BY <2>1 DEF HistoryComplete, Recent
    <2>3. QED
      BY <1>3, <2>1, <2>2 DEF Remembered, Counting, Recording, At
  <1>8. QED
    BY <1>4, <1>5, <1>6, <1>7

(* A crash reported as recorded stays in the history while it counts, with any
   number of containers, killed at any step and any power loss, on a node whose
   files can be read and written and whose clock never goes back. *)
THEOREM NoCrashIsLost ==
    ASSUME Readable
    PROVE  Spec => []HistoryComplete
  <1>1. Init => Remembered
    <2> SUFFICES ASSUME Init PROVE Remembered
      OBVIOUS
    <2>1. counted = {} /\ \A w \in Wrapper : proc[w].pc = "down"
      BY DEF Init, Idle, Fresh
    <2>2. QED
      BY <2>1 DEF Remembered, HistoryComplete, Recent, Counting, At
  <1>2. TypeOK /\ OneRecorder /\ Remembered /\ [Next]_vars => Remembered'
    <2> SUFFICES ASSUME TypeOK, OneRecorder, Remembered, [Next]_vars PROVE Remembered'
      OBVIOUS
    <2>1. ASSUME NEW w \in Wrapper, RecordCrash(w) PROVE Remembered'
      BY <2>1, CountingStep, JudgingIsPassive, PassiveStep DEF RecordCrash
    <2>2. CASE UNCHANGED vars
      BY <2>2, PassiveStep DEF vars, Passive, TypeOK, At
    <2>3. QED
      BY <2>1, <2>2, StartIsPassive, SuperviseIsPassive, EnvironmentIsPassive,
         PassiveStep DEF Next
  <1>3. Remembered => HistoryComplete
    BY DEF Remembered
  <1>4. QED
    BY <1>1, <1>2, <1>3, TypeCorrect, Exclusion, PTL DEF Spec
---------------------------------------------------------------------------
(* Why all starts of an era agree: those of the present era started on the choice
   the node has, and a first starter that has published its pick but not started
   yet agrees with the starts of the era it published in. *)
Coherent ==
    /\ OneLineage
    /\ \A s \in lineage : s.era <= Era /\ (s.era = Era => s.on = disk.choice)
    /\ \A w \in Wrapper : At(w, "linked") =>
         /\ proc[w].since <= Era
         /\ proc[w].since = Era => proc[w].allele = disk.choice
         /\ \A s \in lineage : s.era = proc[w].since => s.on = proc[w].allele
    /\ \A v, w \in Wrapper :
         At(v, "linked") /\ At(w, "linked") /\ proc[v].since = proc[w].since
           => proc[v].allele = proc[w].allele

\* Nobody comes to be between its link and its start.
NoneLinks ==
    \A v \in Wrapper : proc'[v].pc = "linked" =>
      /\ At(v, "linked") /\ proc'[v].since = proc[v].since
      /\ proc'[v].allele = proc[v].allele

(* Eras, those of the starts and those of the links are numbers. *)
LEMMA ErasAreNumbers ==
    ASSUME TypeOK
    PROVE  /\ Era \in Nat /\ \A s \in lineage : s.era \in Nat /\ s.on \in Allele
           /\ \A w \in Wrapper : proc[w].since \in Nat /\ proc[w].allele \in Allele
  <1>1. lineage \subseteq [era : Nat, on : Allele] /\ proc \in [Wrapper -> Proc]
    BY DEF TypeOK
  <1>2. QED
    BY <1>1, EraType DEF Proc

(* Without a start, a new era begins or the choice stays. *)
LEMMA UnmovedLineage ==
    ASSUME TypeOK, Coherent, lineage' = lineage, NoneLinks, Era' \in Nat,
           Era < Era' \/ (Era' = Era /\ disk'.choice = disk.choice)
    PROVE  Coherent'
  <1>1. OneLineage'
    BY DEF Coherent, OneLineage
  <1>2. ASSUME NEW s \in lineage
        PROVE  s.era <= Era' /\ (s.era = Era' => s.on = disk'.choice)
    BY ErasAreNumbers DEF Coherent
  <1>3. ASSUME NEW w \in Wrapper, proc'[w].pc = "linked"
        PROVE  /\ proc'[w].since <= Era'
               /\ proc'[w].since = Era' => proc'[w].allele = disk'.choice
               /\ \A s \in lineage : s.era = proc'[w].since => s.on = proc'[w].allele
    BY <1>3, ErasAreNumbers DEF Coherent, NoneLinks
  <1>4. ASSUME NEW v \in Wrapper, NEW w \in Wrapper, proc'[v].pc = "linked",
               proc'[w].pc = "linked", proc'[v].since = proc'[w].since
        PROVE  proc'[v].allele = proc'[w].allele
    BY <1>4 DEF Coherent, NoneLinks
  <1>5. QED
    BY <1>1, <1>2, <1>3, <1>4 DEF Coherent, At

(* A start on what the node has, or on what the starter published, agrees with
   all others of its era. *)
LEMMA StartAgrees ==
    ASSUME TypeOK, Coherent, NEW a \in Allele, NEW era \in Nat,
           lineage' \subseteq lineage \cup {[era |-> era, on |-> a]}, NoneLinks,
           Era' = Era, disk'.choice = disk.choice,
           \/ era = Era /\ a = disk.choice
           \/ \E w \in Wrapper : At(w, "linked") /\ era = proc[w].since
                                 /\ a = proc[w].allele
    PROVE  Coherent'
  <1> DEFINE new == [era |-> era, on |-> a]
  <1>0. new.era = era /\ new.on = a
    OBVIOUS
  <1>1. era <= Era /\ (era = Era => a = disk.choice)
    BY EraType DEF Coherent
  <1>2. \A s \in lineage : s.era = era => s.on = a
    BY DEF Coherent
  <1>3. \A v \in Wrapper : At(v, "linked") /\ proc[v].since = era => proc[v].allele = a
    BY DEF Coherent
  <1>4. \A s \in lineage' : s \in lineage \/ s = new
    OBVIOUS
  <1> HIDE DEF new
  <1>5. OneLineage'
    BY <1>0, <1>2, <1>4 DEF OneLineage, Coherent
  <1>6. ASSUME NEW s \in lineage'
        PROVE  s.era <= Era' /\ (s.era = Era' => s.on = disk'.choice)
    BY <1>0, <1>1, <1>4 DEF Coherent
  <1>7. ASSUME NEW w \in Wrapper, proc'[w].pc = "linked"
        PROVE  /\ proc'[w].since <= Era'
               /\ proc'[w].since = Era' => proc'[w].allele = disk'.choice
               /\ \A s \in lineage' : s.era = proc'[w].since => s.on = proc'[w].allele
    BY <1>0, <1>3, <1>4, <1>7 DEF Coherent, NoneLinks
  <1>8. ASSUME NEW v \in Wrapper, NEW w \in Wrapper, proc'[v].pc = "linked",
               proc'[w].pc = "linked", proc'[v].since = proc'[w].since
        PROVE  proc'[v].allele = proc'[w].allele
    BY <1>8 DEF Coherent, NoneLinks
  <1>9. QED
    BY <1>5, <1>6, <1>7, <1>8 DEF Coherent, At

(* A starter's steps: the link is the first of its era, for the choice was missing,
   and a start is one of the choice or of a link. *)
LEMMA StartIsCoherent ==
    ASSUME TypeOK, Coherent, NEW w \in Wrapper, Start(w)
    PROVE  Coherent'
  <1>1. Era' = Era /\ Era \in Nat
    BY EraType DEF Start, StartPinned, StartOlder, StartChosen, StartFirst, LinkChoice,
       SyncLink, ReadWinner, env, observed, Era
  <1>2. \A v \in Wrapper \ {w} : proc'[v] = proc[v]
    BY DEF Start, StartPinned, StartOlder, StartChosen, StartFirst, LinkChoice,
       SyncLink, ReadWinner, Express, Done, Goto, TypeOK
  <1>3. proc'[w].pc # "linked" => NoneLinks
    BY <1>2 DEF NoneLinks, At
  <1>4. Done(w) => proc'[w].pc # "linked"
    BY DEF Done, Idle, Fresh, TypeOK
  <1>5. ASSUME NEW a, NEW pin, NEW era, Express(w, a, pin, era)
        PROVE  /\ proc'[w].pc # "linked"
               /\ lineage' \subseteq lineage \cup {[era |-> era, on |-> a]}
               /\ w \notin Apiserver \/ pin => lineage' = lineage
    BY <1>4, <1>5 DEF Express, Fresh, TypeOK
  <1>6. CASE StartPinned(w) \/ StartOlder(w)
    <2>1. proc'[w].pc # "linked" /\ lineage' = lineage /\ disk' = disk
      BY <1>5, <1>6 DEF StartPinned, StartOlder, node
    <2>2. QED
      BY <1>1, <1>3, <2>1, UnmovedLineage
  <1>7. CASE StartChosen(w)
    <2>1. /\ proc'[w].pc # "linked" /\ disk' = disk /\ disk.choice \in Allele
          /\ lineage' \subseteq lineage \cup {[era |-> Era, on |-> disk.choice]}
      BY <1>5, <1>7 DEF StartChosen, node
    <2>2. QED
      BY <1>1, <1>3, <2>1, StartAgrees
  <1>8. CASE StartFirst(w)
    <2>1. proc'[w].pc # "linked" /\ lineage' = lineage /\ disk' = disk
      BY <1>8 DEF StartFirst, Fresh, observed, node, TypeOK
    <2>2. QED
      BY <1>1, <1>3, <2>1, UnmovedLineage
  <1>9. CASE LinkChoice(w)
    <2>1. lineage' = lineage
      BY <1>9 DEF LinkChoice, observed
    <2>2. CASE Goto(w, "lost") \/ Done(w)
      <3>1. proc'[w].pc # "linked"
        BY <1>4, <2>2, GotoMoves
      <3>2. At(w, "picked")
        BY <1>9 DEF LinkChoice
      <3>3. disk'.choice = disk.choice
        <4>1. proc'[w].pc # "linked" => UNCHANGED disk
          <5>1. proc' = [proc EXCEPT ![w].pc = "linked", ![w].since = Era]
                  => proc'[w].pc = "linked"
            BY DEF TypeOK, Proc
          <5>2. QED
            BY <1>9, <5>1 DEF LinkChoice
        <4>2. QED
          BY <3>1, <4>1
      <3>4. QED
        BY <1>1, <1>3, <2>1, <3>1, <3>3, UnmovedLineage
    <2>3. CASE /\ disk.choice = "none" /\ WriteChoice(proc[w].allele)
               /\ proc' = [proc EXCEPT ![w].pc = "linked", ![w].since = Era]
      <3>1. /\ disk'.choice = proc[w].allele /\ proc[w].allele \in Allele
            /\ disk.choice \notin Allele
        BY <2>3 DEF WriteChoice, TypeOK, Proc, Allele
      <3>2. /\ proc'[w].pc = "linked" /\ proc'[w].since = Era
            /\ proc'[w].allele = proc[w].allele
        BY <2>3 DEF TypeOK, Proc
      <3>3. \A s \in lineage : s.era # Era
        BY <3>1, ErasAreNumbers DEF Coherent
      <3>4. \A v \in Wrapper : At(v, "linked") => proc[v].since # Era
        BY <3>1, ErasAreNumbers DEF Coherent
      <3>5. OneLineage'
        BY <2>1 DEF Coherent, OneLineage
      <3>6. \A s \in lineage' : s.era <= Era' /\ s.era # Era'
        BY <1>1, <2>1, <3>3 DEF Coherent
      <3>7. ASSUME NEW v \in Wrapper, proc'[v].pc = "linked"
            PROVE  /\ proc'[v].since <= Era'
                   /\ proc'[v].since = Era' => proc'[v].allele = disk'.choice
                   /\ \A s \in lineage' : s.era = proc'[v].since => s.on = proc'[v].allele
        <4>1. CASE v = w
          BY <1>1, <3>1, <3>2, <3>6, <4>1
        <4>2. CASE v # w
          BY <1>1, <1>2, <2>1, <3>4, <3>7, <4>2 DEF Coherent, At
        <4>3. QED
          BY <4>1, <4>2
      <3>8. ASSUME NEW u \in Wrapper, NEW v \in Wrapper, proc'[u].pc = "linked",
                   proc'[v].pc = "linked", proc'[u].since = proc'[v].since
            PROVE  proc'[u].allele = proc'[v].allele
        <4>1. CASE u # w /\ v # w
          BY <1>2, <3>8, <4>1 DEF Coherent, At
        <4>2. CASE u = w \/ v = w
          BY <1>2, <3>2, <3>4, <3>8, <4>2 DEF At
        <4>3. QED
          BY <4>1, <4>2
      <3>9. QED
        BY <3>5, <3>6, <3>7, <3>8 DEF Coherent, At
    <2>4. QED
      BY <1>9, <2>2, <2>3 DEF LinkChoice
  <1>10. CASE SyncLink(w)
    <2>1. /\ proc'[w].pc # "linked" /\ disk' = disk /\ At(w, "linked")
          /\ lineage' \subseteq
               lineage \cup {[era |-> proc[w].since, on |-> proc[w].allele]}
      BY <1>4, <1>5, <1>10 DEF SyncLink
    <2>2. proc[w].since \in Nat /\ proc[w].allele \in Allele
      BY ErasAreNumbers
    <2>3. QED
      BY <1>1, <1>3, <2>1, <2>2, StartAgrees
  <1>11. CASE ReadWinner(w)
    <2>1. CASE disk.choice \in Allele
      <3>1. /\ proc'[w].pc # "linked" /\ disk' = disk
            /\ lineage' \subseteq lineage \cup {[era |-> Era, on |-> disk.choice]}
        BY <1>5, <1>11, <2>1 DEF ReadWinner, node
      <3>2. QED
        BY <1>1, <1>3, <2>1, <3>1, StartAgrees
    <2>2. CASE disk.choice \notin Allele
      <3>1. proc'[w].pc # "linked" /\ lineage' = lineage /\ disk' = disk
        BY <1>4, <1>11, <2>2 DEF ReadWinner, node
      <3>2. QED
        BY <1>1, <1>3, <3>1, UnmovedLineage
    <2>3. QED
      BY <2>1, <2>2
  <1>12. QED
    BY <1>6, <1>7, <1>8, <1>9, <1>10, <1>11 DEF Start

(* Every step keeps the starts coherent, as long as no power is lost. *)
LEMMA LineageStep ==
    ASSUME "power" \notin Fault, TypeOK, TypeOK', Coherent, [Next]_vars
    PROVE  Coherent'
  <1>0. Era \in Nat /\ Era' \in Nat
    <2>1. Len(switches') \in Nat /\ edits' \in Nat
      BY DEF TypeOK
    <2>2. QED
      BY <2>1, EraType DEF Era
  <1>1. ASSUME NEW w \in Wrapper, Supervise(w) PROVE Coherent'
    <2>1. lineage' = lineage /\ disk' = disk /\ Era' = Era
      BY <1>1 DEF Supervise, Mature, Signal, Exit, GraceEnds, FollowTick, KillTimer,
         Crash, node, env, observed, Era
    <2>2. \A v \in Wrapper \ {w} : proc'[v] = proc[v]
      BY <1>1 DEF Supervise, Mature, Signal, Exit, GraceEnds, FollowTick, KillTimer,
         Crash, Done, TypeOK
    <2>3. proc'[w].pc \in {"running", "down", "crashed"}
      <3>1. proc[w] \in Proc /\ At(w, "running")
        BY <1>1 DEF Supervise, Mature, Signal, Exit, GraceEnds, FollowTick, Follows,
           KillTimer, Crash, TypeOK
      <3>2. CASE Mature(w) \/ Signal(w) \/ FollowTick(w)
        <4>1. proc'[w].pc = proc[w].pc
          BY <3>2, StaysRunning
        <4>2. QED
          BY <3>1, <4>1 DEF At
      <3>3. Done(w) => proc'[w].pc = "down"
        BY DEF Done, Idle, Fresh, TypeOK
      <3>4. Crash(w) => proc'[w].pc = "crashed"
        BY <3>1 DEF Crash, TypeOK, Proc
      <3>5. QED
        BY <1>1, <3>1, <3>2, <3>3, <3>4 DEF Supervise, Exit, GraceEnds, KillTimer, At
    <2>4. NoneLinks
      BY <2>2, <2>3 DEF NoneLinks, At
    <2>5. QED
      BY <1>0, <2>1, <2>4, UnmovedLineage
  <1>2. ASSUME NEW w \in Wrapper, RecordCrash(w) PROVE Coherent'
    <2>1. lineage' = lineage
      BY <1>2 DEF RecordCrash, LockAndCount, CannotLock, ReadCurrent, CheckBlocked,
         NoteCrash, SyncNote, SwitchChoice, SyncSwitch, StampEscape, SyncStamp,
         ClearHistories, observed
    <2>2. NoneLinks
      <3>1. \A v \in Wrapper \ {w} : proc'[v] = proc[v]
        BY <1>2 DEF RecordCrash, LockAndCount, CannotLock, ReadCurrent, CheckBlocked,
           NoteCrash, SyncNote, SwitchChoice, SyncSwitch, StampEscape, SyncStamp,
           ClearHistories, Unlock, Goto, Done, TypeOK
      <3>2. Done(w) => proc'[w].pc # "linked"
        BY DEF Done, Idle, Fresh, TypeOK
      <3>3. ASSUME NEW pc, pc # "linked", Goto(w, pc) PROVE proc'[w].pc # "linked"
        BY <3>3, GotoMoves
      <3>4. LockAndCount(w) => proc'[w].pc # "linked"
        <4>1. LockAndCount(w) => proc'[w].pc \in {"noting", "reading"}
          BY DEF LockAndCount, TypeOK, Proc
        <4>2. QED
          BY <4>1
      <3>5. proc'[w].pc # "linked"
        BY <1>2, <3>2, <3>3, <3>4 DEF RecordCrash, CannotLock, ReadCurrent, CheckBlocked,
           NoteCrash, SyncNote, SwitchChoice, SyncSwitch, StampEscape, SyncStamp,
           ClearHistories, Unlock
      <3>6. QED
        BY <3>1, <3>5 DEF NoneLinks, At
    <2>3. Era < Era' \/ (Era' = Era /\ disk'.choice = disk.choice)
      <3>1. CASE SwitchChoice(w)
        <4>1. edits' = edits /\ edits \in Nat /\ switches \in Seq(Escape)
          BY <3>1 DEF SwitchChoice, env, TypeOK
        <4>2. \/ Len(switches') = Len(switches) + 1
              \/ switches' = switches /\ disk' = disk
          BY <3>1, <4>1 DEF SwitchChoice
        <4>3. QED
          BY <4>1, <4>2 DEF Era
      <3>2. CASE ~SwitchChoice(w)
        <4>1. disk'.choice = disk.choice
          BY <1>2, <3>2, RecordingKeepsChoice
        <4>2. edits' = edits /\ switches' = switches
          BY <1>2, <3>2 DEF RecordCrash, LockAndCount, CannotLock, ReadCurrent,
             CheckBlocked, NoteCrash, SyncNote, SyncSwitch, StampEscape, SyncStamp,
             ClearHistories, env, observed
        <4>3. QED
          BY <4>1, <4>2 DEF Era
      <3>3. QED
        BY <3>1, <3>2
    <2>4. QED
      BY <1>0, <2>1, <2>2, <2>3, UnmovedLineage
  <1>3. ASSUME NEW w \in Wrapper, Kill(w) PROVE Coherent'
    <2>1. lineage' = lineage /\ disk' = disk /\ Era' = Era
      BY <1>3 DEF Kill, env, observed, Era
    <2>2. NoneLinks
      BY <1>3 DEF Kill, Done, Idle, Fresh, NoneLinks, At, TypeOK
    <2>3. QED
      BY <1>0, <2>1, <2>2, UnmovedLineage
  <1>4. CASE Environment
    <2>1. lineage' = lineage
      BY <1>4 DEF Environment, Reboot, PowerLoss, Boot, Tick, StepBack, TouchUpgrading,
         RemoveUpgrading, EditChoice, observed
    <2>2. NoneLinks
      <3>1. CASE Reboot
        BY <3>1 DEF Reboot, Boot, Idle, Fresh, NoneLinks
      <3>2. CASE Tick \/ StepBack \/ TouchUpgrading \/ EditChoice
        BY <3>2 DEF Tick, StepBack, TouchUpgrading, EditChoice, NoneLinks, At
      <3>3. CASE RemoveUpgrading
        BY <3>3, RemovalMoves DEF NoneLinks, At
      <3>4. QED
        BY <1>4, <3>1, <3>2, <3>3 DEF Environment, PowerLoss
    <2>3. Era < Era' \/ (Era' = Era /\ disk'.choice = disk.choice)
      <3>1. CASE EditChoice
        <4>1. edits' = edits + 1 /\ switches' = switches
          BY <3>1 DEF EditChoice, observed
        <4>2. edits \in Nat /\ Len(switches) \in Nat
          BY DEF TypeOK
        <4>3. QED
          BY <4>1, <4>2 DEF Era
      <3>2. CASE ~EditChoice
        <4>1. edits' = edits /\ switches' = switches /\ disk' = disk
          BY <1>4, <3>2 DEF Environment, Reboot, PowerLoss, Boot, Tick, StepBack,
             TouchUpgrading, RemoveUpgrading, node, env, observed
        <4>2. QED
          BY <4>1 DEF Era
      <3>3. QED
        BY <3>1, <3>2
    <2>4. QED
      BY <1>0, <2>1, <2>2, <2>3, UnmovedLineage
  <1>5. CASE UNCHANGED vars
    BY <1>0, <1>5, UnmovedLineage DEF vars, NoneLinks, At, Era
  <1>6. QED
    BY <1>1, <1>2, <1>3, <1>4, <1>5, StartIsCoherent DEF Next

(* The choice is made once, for good: all apiservers that start unpinned on what
   they found, or published, between two switches start on the same allele, on a
   node that loses no power. *)
THEOREM ChosenOnce ==
    ASSUME "power" \notin Fault
    PROVE  Spec => []OneLineage
  <1>1. Init => Coherent
    BY DEF Init, Coherent, OneLineage, Idle, Fresh, At
  <1>2. TypeOK /\ TypeOK' /\ Coherent /\ [Next]_vars => Coherent'
    BY LineageStep
  <1>3. Coherent => OneLineage
    BY DEF Coherent
  <1>4. QED
    BY <1>1, <1>2, <1>3, TypeCorrect, PTL DEF Spec
---------------------------------------------------------------------------
\* A crash not yet noted nor held against the node; one that is being judged;
\* one found to be enough; and an escape made whose histories are not cleared.
Pending == {"crashed", "reading", "checking", "noting", "switching"}
Judged == {"reading", "checking", "noting", "switching"}
Weighed == {"reading", "checking", "switching"}
Ending == {"switched", "stamping", "stamped", "clearing"}

Ids(S) == {e.id : e \in S}
\* The crashes that served an escape.
Served == UNION {Ids(switches[i].crashes) : i \in DOMAIN switches}

(* Why every escape has evidence of its own: crashes are told apart, and what the
   histories hold served no escape, but for the lock holder that has not cleared
   them yet. *)
Apart == /\ \A w \in Wrapper : proc[w].pc \in Pending =>
              /\ proc[w].entry.id \notin Served \cup Ids(disk.history)
              /\ proc[w].entry.id <= crashes /\ proc[w].entry.on = proc[w].allele
         /\ \A v, w \in Wrapper :
              v # w /\ proc[v].pc \in Pending /\ proc[w].pc \in Pending
                => proc[v].entry.id # proc[w].entry.id
         /\ \A k \in Served \cup Ids(disk.history) : k <= crashes
         /\ (\A w \in Wrapper : proc[w].pc \notin Ending)
              => Ids(disk.history) \cap Served = {}
         /\ IsFiniteSet(disk.history)

(* And why it is enough: what the lock holder judges are noted crashes of the
   window and its own. *)
Evident ==
    \A w \in Wrapper :
      /\ proc[w].pc \in Judged =>
           /\ proc[w].recent \subseteq disk.history \cup {proc[w].entry}
           /\ proc[w].entry \in proc[w].recent
           /\ \A e \in proc[w].recent : /\ e.at <= proc[w].entry.at
                                        /\ proc[w].entry.at - e.at <= EscapeWindow
      /\ proc[w].pc \in Weighed => Cardinality(proc[w].recent) >= EscapeCrashes

\* A step that begins, notes, serves and clears no crash.
Tame == /\ switches' = switches /\ disk'.history = disk.history /\ crashes' = crashes
        /\ \A v \in Wrapper :
             /\ proc'[v].pc \in Pending =>
                  /\ proc[v].pc \in Pending /\ proc'[v].entry = proc[v].entry
                  /\ proc'[v].allele = proc[v].allele
             /\ proc'[v].pc \in Judged =>
                  proc[v].pc \in Judged /\ proc'[v].recent = proc[v].recent
             /\ proc'[v].pc \in Weighed => proc[v].pc \in Weighed
             /\ proc[v].pc \in Ending => proc'[v].pc \in Ending

(* A tame step leaves the evidence as it was. *)
LEMMA TameStep ==
    ASSUME Tame, Apart, Evident
    PROVE  Apart' /\ Evident'
  <1>1. Served' = Served
    BY DEF Tame, Served
  <1>2. Apart'
    <2>1. Ids(disk'.history) = Ids(disk.history) /\ Ids(disk.history)' = Ids(disk.history)
      BY DEF Tame, Ids
    <2>2. (\A w \in Wrapper : proc'[w].pc \notin Ending)
            => \A w \in Wrapper : proc[w].pc \notin Ending
      BY DEF Tame
    <2>3. ASSUME NEW w \in Wrapper, proc'[w].pc \in Pending
          PROVE  /\ proc[w].pc \in Pending /\ proc'[w].entry = proc[w].entry
                 /\ proc'[w].allele = proc[w].allele
      BY <2>3 DEF Tame
    <2>4. crashes' = crashes /\ IsFiniteSet(disk'.history) = IsFiniteSet(disk.history)
      BY DEF Tame
    <2>5. QED
      BY <1>1, <2>1, <2>2, <2>3, <2>4 DEF Apart
  <1>3. Judged \subseteq Pending /\ Weighed \subseteq Judged
    BY DEF Judged, Pending, Weighed
  <1>4. Evident'
    BY <1>3 DEF Tame, Evident
  <1>5. QED
    BY <1>2, <1>4

(* Starting is tame. *)
LEMMA StartIsTame ==
    ASSUME TypeOK, NEW w \in Wrapper, Start(w)
    PROVE  Tame
  <1>1. switches' = switches /\ crashes' = crashes /\ disk'.history = disk.history
    BY DEF Start, StartPinned, StartOlder, StartChosen, StartFirst, LinkChoice,
       SyncLink, ReadWinner, env, observed, node, WriteChoice, TypeOK
  <1>2. \A v \in Wrapper \ {w} : proc'[v] = proc[v]
    BY DEF Start, StartPinned, StartOlder, StartChosen, StartFirst, LinkChoice,
       SyncLink, ReadWinner, Express, Done, Goto, TypeOK
  <1>3. proc[w].pc \in {"down", "picked", "linked", "lost"}
    BY DEF Start, StartPinned, StartOlder, StartChosen, StartFirst, LinkChoice,
       SyncLink, ReadWinner, At
  <1>4. proc'[w].pc \in {"down", "running", "picked", "linked", "lost"}
    <2>1. ASSUME NEW a, NEW pin, NEW era, Express(w, a, pin, era)
          PROVE  proc'[w].pc \in {"down", "running"}
      BY <2>1 DEF Express, Done, Idle, Fresh, TypeOK
    <2>2. Done(w) => proc'[w].pc = "down"
      BY DEF Done, Idle, Fresh, TypeOK
    <2>3. StartFirst(w) => proc'[w].pc = "picked"
      BY DEF StartFirst, Fresh, TypeOK
    <2>4. Goto(w, "lost") => proc'[w].pc = "lost"
      BY GotoMoves
    <2>5. proc' = [proc EXCEPT ![w].pc = "linked", ![w].since = Era]
            => proc'[w].pc = "linked"
      BY DEF TypeOK, Proc
    <2>6. QED
      BY <2>1, <2>2, <2>3, <2>4, <2>5
         DEF Start, StartPinned, StartOlder, StartChosen, LinkChoice, SyncLink, ReadWinner
  <1>5. QED
    BY <1>1, <1>2, <1>3, <1>4 DEF Tame, Pending, Judged, Weighed, Ending

(* So is supervising a component that does not crash. *)
LEMMA SuperviseIsTame ==
    ASSUME TypeOK, NEW w \in Wrapper, Supervise(w), ~Crash(w)
    PROVE  Tame
  <1>1. switches' = switches /\ crashes' = crashes /\ disk'.history = disk.history
    BY DEF Supervise, Mature, Signal, Exit, GraceEnds, FollowTick, KillTimer, env,
       observed, node
  <1>2. \A v \in Wrapper \ {w} : proc'[v] = proc[v]
    BY DEF Supervise, Mature, Signal, Exit, GraceEnds, FollowTick, KillTimer, Done,
       TypeOK
  <1>3. proc[w].pc = "running" /\ proc[w] \in Proc
    BY DEF Supervise, Mature, Signal, Exit, GraceEnds, FollowTick, Follows, KillTimer,
       At, TypeOK
  <1>4. proc'[w].pc \in {"running", "down"}
    <2>1. CASE Mature(w) \/ Signal(w) \/ FollowTick(w)
      BY <1>3, <2>1, StaysRunning
    <2>2. CASE Exit(w) \/ GraceEnds(w) \/ KillTimer(w)
      BY <2>2 DEF Exit, GraceEnds, KillTimer, Done, Idle, Fresh, TypeOK
    <2>3. QED
      BY <2>1, <2>2 DEF Supervise
  <1>5. QED
    BY <1>1, <1>2, <1>3, <1>4 DEF Tame, Pending, Judged, Weighed, Ending

(* So are the steps of RecordCrash that judge, unlock or stamp. *)
LEMMA RecordingIsTame ==
    ASSUME Uninterrupted, TypeOK, NEW w \in Wrapper,
           \/ CannotLock(w) \/ ReadCurrent(w) \/ CheckBlocked(w) \/ SyncNote(w)
           \/ SyncSwitch(w) \/ StampEscape(w) \/ SyncStamp(w)
    PROVE  Tame
  <1>0. ~IO
    BY DEF Uninterrupted, IO
  <1>1. switches' = switches /\ crashes' = crashes /\ disk'.history = disk.history
    BY DEF CannotLock, ReadCurrent, CheckBlocked, SyncNote, SyncSwitch, StampEscape,
       SyncStamp, env, observed, node, WriteStamp, TypeOK
  <1>2. \A v \in Wrapper \ {w} : proc'[v] = proc[v]
    BY <1>0 DEF CannotLock, ReadCurrent, CheckBlocked, SyncNote, SyncSwitch, StampEscape,
       SyncStamp, Unlock, Done, Goto, TypeOK
  <1>3. Done(w) => proc'[w].pc = "down"
    BY DEF Done, Idle, Fresh, TypeOK
  <1>4. ASSUME NEW pc, Goto(w, pc)
        PROVE  /\ proc'[w].pc = pc /\ proc'[w].entry = proc[w].entry
               /\ proc'[w].recent = proc[w].recent /\ proc'[w].allele = proc[w].allele
    BY <1>4 DEF Goto, TypeOK, Proc
  <1>5. \/ At(w, "reading") /\ (Goto(w, "checking") \/ Goto(w, "noting"))
        \/ At(w, "checking") /\ (Goto(w, "noting") \/ Goto(w, "switching"))
        \/ At(w, "noted") /\ Done(w)
        \/ At(w, "switched") /\ Goto(w, "stamping")
        \/ At(w, "stamping") /\ Goto(w, "stamped")
        \/ At(w, "stamped") /\ Goto(w, "clearing")
    BY <1>0 DEF CannotLock, ReadCurrent, CheckBlocked, SyncNote, SyncSwitch, StampEscape,
       SyncStamp, Unlock
  <1>6. QED
    BY <1>1, <1>2, <1>3, <1>4, <1>5 DEF Tame, At, Pending, Judged, Weighed, Ending

(* And so is the environment, but for a power loss. *)
LEMMA EnvironmentIsTame ==
    ASSUME Uninterrupted, TypeOK, Environment
    PROVE  Tame
  <1>1. CASE Reboot
    <2>1. /\ switches' = switches /\ disk' = disk /\ crashes' = crashes
          /\ \A v \in Wrapper : proc'[v].pc = "down" /\ proc[v].pc \in {"down", "running"}
      BY <1>1 DEF Reboot, Boot, observed, Idle, Fresh
    <2>2. QED
      BY <2>1 DEF Tame, Pending, Judged, Weighed, Ending
  <1>2. CASE Tick \/ StepBack \/ TouchUpgrading
    BY <1>2 DEF Tick, StepBack, TouchUpgrading, node, env, observed, Tame
  <1>3. CASE RemoveUpgrading
    BY <1>3, RemovalMoves DEF RemoveUpgrading, env, observed, Tame
  <1>4. CASE EditChoice
    <2>1. disk'.history = disk.history
      BY <1>4 DEF EditChoice, WriteChoice, TypeOK
    <2>2. QED
      BY <1>4, <2>1 DEF EditChoice, observed, Tame
  <1>5. ~PowerLoss
    BY DEF PowerLoss, Uninterrupted
  <1>6. QED
    BY <1>1, <1>2, <1>3, <1>4, <1>5 DEF Environment

(* The component's crash is a new one. *)
LEMMA CrashIsNew ==
    ASSUME TypeOK, Apart, Evident, NEW w \in Wrapper, Crash(w)
    PROVE  Apart' /\ Evident'
  <1>1. /\ switches' = switches /\ disk' = disk /\ crashes' = crashes + 1
        /\ crashes \in Nat /\ At(w, "running")
    BY DEF Crash, node, observed, TypeOK
  <1>2. \A v \in Wrapper \ {w} : proc'[v] = proc[v]
    BY DEF Crash, TypeOK
  <1>3. /\ proc'[w].pc = "crashed" /\ proc'[w].entry.id = crashes + 1
        /\ proc'[w].entry.on = proc'[w].allele
    BY DEF Crash, TypeOK, Proc
  <1>4. Served' = Served /\ Ids(disk.history)' = Ids(disk.history)
    BY <1>1 DEF Served, Ids
  <1>5. \A v \in Wrapper : proc[v].entry.id \in Nat
    BY DEF TypeOK, Proc, Entry
  <1>6. \A k \in Served \cup Ids(disk.history) : k \in Nat
    <2>1. ASSUME NEW i \in DOMAIN switches PROVE switches[i].crashes \subseteq Entry
      <3>1. switches \in Seq(Escape)
        BY DEF TypeOK
      <3>2. switches[i] \in Escape
        BY <3>1
      <3>3. QED
        BY <3>2 DEF Escape
    <2>2. disk.history \subseteq Entry
      BY DEF TypeOK
    <2>3. QED
      BY <2>1, <2>2 DEF Served, Ids, Entry
  <1>7. Apart'
    <2>1. \A k \in Served \cup Ids(disk.history) : k <= crashes
      BY DEF Apart
    <2>2. crashes + 1 \notin Served \cup Ids(disk.history)
      BY <1>1, <1>6, <2>1
    <2>3. \A v \in Wrapper \ {w} : proc[v].pc \in Pending => proc[v].entry.id <= crashes
      BY DEF Apart
    <2>4. \A v \in Wrapper \ {w} : proc'[v].pc \in Pending => proc'[v].entry.id # crashes + 1
      BY <1>1, <1>2, <1>5, <2>3
    <2>5. \A v \in Wrapper : proc'[v].pc \in Pending =>
              /\ proc'[v].entry.id \notin Served \cup Ids(disk.history)
              /\ proc'[v].entry.id <= crashes + 1 /\ proc'[v].entry.on = proc'[v].allele
      <3>1. ASSUME NEW v \in Wrapper \ {w}, proc'[v].pc \in Pending
            PROVE  /\ proc'[v].entry.id \notin Served \cup Ids(disk.history)
                   /\ proc'[v].entry.id <= crashes + 1
                   /\ proc'[v].entry.on = proc'[v].allele
        BY <1>1, <1>2, <1>5, <3>1 DEF Apart
      <3>2. QED
        BY <1>1, <1>3, <2>2, <3>1
    <2>6. \A u, v \in Wrapper :
              u # v /\ proc'[u].pc \in Pending /\ proc'[v].pc \in Pending
                => proc'[u].entry.id # proc'[v].entry.id
      BY <1>2, <1>3, <2>4 DEF Apart
    <2>7. \A k \in Served \cup Ids(disk.history) : k <= crashes + 1
      BY <1>1, <1>6, <2>1
    <2>8. (\A v \in Wrapper : proc'[v].pc \notin Ending)
            => Ids(disk.history) \cap Served = {}
      <3>1. proc[w].pc \notin Ending
        BY <1>1 DEF At, Ending
      <3>2. QED
        BY <1>2, <3>1 DEF Apart
    <2>9. IsFiniteSet(disk'.history)
      BY <1>1 DEF Apart
    <2>10. QED
      BY <1>1, <1>4, <2>5, <2>6, <2>7, <2>8, <2>9 DEF Apart
  <1>8. Evident'
    BY <1>1, <1>2, <1>3 DEF Evident, Judged, Weighed
  <1>9. QED
    BY <1>7, <1>8

(* The lock holder takes the noted crashes of the window, and its own. *)
LEMMA CountingIsEvident ==
    ASSUME Uninterrupted, TypeOK, OneRecorder, Apart, Evident,
           NEW w \in Wrapper, LockAndCount(w)
    PROVE  Apart' /\ Evident'
  <1> DEFINE this == [proc[w].entry EXCEPT !.at = clock]
             recent == Recent(disk.history, clock) \cup {this}
  <1>1. /\ switches' = switches /\ disk' = disk /\ crashes' = crashes
        /\ At(w, "crashed") /\ lock = NoOne
    BY DEF LockAndCount, LockFree, env, observed
  <1>2. \A v \in Wrapper \ {w} : proc'[v] = proc[v]
    BY DEF LockAndCount, TypeOK
  <1>3. proc' = [proc EXCEPT
                      ![w].pc = IF Cardinality(recent) < EscapeCrashes
                                THEN "noting" ELSE "reading",
                      ![w].entry = this, ![w].recent = recent, ![w].sawFlag = upgrading]
    BY DEF LockAndCount, Uninterrupted, IO
  <1>4. /\ proc'[w].pc = IF Cardinality(recent) < EscapeCrashes
                         THEN "noting" ELSE "reading"
        /\ proc'[w].entry = this /\ proc'[w].recent = recent
        /\ proc'[w].allele = proc[w].allele
    <2> HIDE DEF this, recent
    <2>1. QED
      BY <1>3 DEF TypeOK, Proc
  <1>5. this.id = proc[w].entry.id /\ this.on = proc[w].entry.on /\ this.at = clock
    BY DEF TypeOK, Proc, Entry
  <1>6. \A v \in Wrapper : proc[v].pc \notin Recording
    BY <1>1 DEF OneRecorder, Holds
  <1>7. Served' = Served /\ Ids(disk.history)' = Ids(disk.history)
    BY <1>1 DEF Served, Ids
  <1>8. Cardinality(recent) \in Nat
    <2>1. IsFiniteSet(disk.history)
      BY DEF Apart
    <2>2. Recent(disk.history, clock) \in SUBSET disk.history
      BY DEF Recent
    <2>3. IsFiniteSet(Recent(disk.history, clock))
      BY <2>1, <2>2, FS_Subset
    <2>4. IsFiniteSet(recent)
      BY <2>3, FS_AddElement
    <2>5. QED
      BY <2>4, FS_CardinalityType
  <1>9. Apart'
    <2>1. proc'[w].pc \in {"noting", "reading"} /\ proc[w].pc \in Pending
      BY <1>1, <1>4 DEF At, Pending
    <2>2. \A v \in Wrapper : proc'[v].pc \in Pending =>
              /\ proc[v].pc \in Pending /\ proc'[v].entry.id = proc[v].entry.id
              /\ proc'[v].entry.on = proc[v].entry.on /\ proc'[v].allele = proc[v].allele
      <3> HIDE DEF this
      <3>1. QED
        BY <1>2, <1>4, <1>5, <2>1
    <2>3. \A v \in Wrapper : proc[v].pc \notin Ending
      BY <1>6 DEF Recording, Ending
    <2>4. crashes' = crashes /\ disk' = disk
      BY <1>1
    <2> HIDE DEF this, recent
    <2>5. QED
      BY <1>7, <2>2, <2>3, <2>4 DEF Apart
  <1>10. Evident'
    <2>1. /\ recent \subseteq disk.history \cup {this} /\ this \in recent
      BY DEF Recent
    <2>2. ASSUME NEW e \in recent
          PROVE  e.at <= this.at /\ this.at - e.at <= EscapeWindow
      <3>1. CASE e = this
        BY <1>5, <3>1 DEF TypeOK
      <3>2. CASE e # this
        BY <1>5, <3>2 DEF Recent
      <3>3. QED
        BY <3>1, <3>2
    <2>3. proc'[w].pc \in Weighed => Cardinality(recent) >= EscapeCrashes
      <3> HIDE DEF recent
      <3>1. QED
        BY <1>4, <1>8 DEF Weighed
    <2>4. \A v \in Wrapper \ {w} : proc'[v].pc \notin Judged /\ proc'[v].pc \notin Weighed
      BY <1>2, <1>6 DEF Recording, Judged, Weighed
    <2> HIDE DEF this, recent
    <2>5. QED
      BY <1>1, <1>4, <2>1, <2>2, <2>3, <2>4 DEF Evident
  <1>11. QED
    BY <1>9, <1>10

(* What the lock holder notes served no escape. *)
LEMMA NotingIsEvident ==
    ASSUME Uninterrupted, TypeOK, OneRecorder, Apart, Evident,
           NEW w \in Wrapper, NoteCrash(w)
    PROVE  Apart' /\ Evident'
  <1>1. /\ switches' = switches /\ crashes' = crashes /\ At(w, "noting")
        /\ disk'.history = proc[w].recent /\ Goto(w, "noted")
    BY DEF NoteCrash, WriteHistory, env, observed, TypeOK, Uninterrupted, IO
  <1>2. /\ \A v \in Wrapper \ {w} : proc'[v] = proc[v]
        /\ proc'[w].pc = "noted"
    BY <1>1 DEF Goto, TypeOK, Proc
  <1>3. \A v \in Wrapper \ {w} : proc[v].pc \notin Recording
    BY <1>1 DEF OneRecorder, Holds, At, Recording
  <1>4. /\ proc[w].recent \subseteq disk.history \cup {proc[w].entry}
        /\ proc[w].pc \in Pending
    BY <1>1 DEF Evident, At, Judged, Pending
  <1>5. Ids(disk.history)' \subseteq Ids(disk.history) \cup {proc[w].entry.id}
    BY <1>1, <1>4 DEF Ids
  <1>6. Served' = Served
    BY <1>1 DEF Served, Ids
  <1>7. \A v \in Wrapper : proc[v].pc \notin Ending
    BY <1>1, <1>3 DEF At, Recording, Ending
  <1>8. IsFiniteSet(disk'.history)
    <2>1. IsFiniteSet(disk.history \cup {proc[w].entry})
      BY FS_AddElement DEF Apart
    <2>2. QED
      BY <1>1, <1>4, <2>1, FS_Subset
  <1>9. proc'[w].pc \notin Pending
    BY <1>2 DEF Pending
  <1>10. Apart'
    BY <1>1, <1>2, <1>4, <1>5, <1>6, <1>7, <1>8, <1>9 DEF Apart
  <1>11. Evident'
    BY <1>2, <1>3 DEF Evident, Judged, Weighed, Recording
  <1>12. QED
    BY <1>10, <1>11

(* Clearing the histories gives back what the escape was made of. *)
LEMMA ClearingIsEvident ==
    ASSUME Uninterrupted, TypeOK, OneRecorder, Apart, Evident,
           NEW w \in Wrapper, ClearHistories(w)
    PROVE  Apart' /\ Evident'
  <1>1. /\ switches' = switches /\ crashes' = crashes /\ At(w, "clearing")
        /\ disk'.history = {} /\ Done(w)
    BY DEF ClearHistories, Unlock, Cleared, WriteHistory, env, observed, TypeOK,
       Uninterrupted, IO
  <1>2. /\ \A v \in Wrapper \ {w} : proc'[v] = proc[v]
        /\ proc'[w].pc = "down"
    BY <1>1 DEF Done, Idle, Fresh, TypeOK
  <1>3. \A v \in Wrapper \ {w} : proc[v].pc \notin Recording
    BY <1>1 DEF OneRecorder, Holds, At, Recording
  <1>4. Ids(disk.history)' = {} /\ Served' = Served
    BY <1>1 DEF Ids, Served
  <1>5. IsFiniteSet(disk'.history)
    BY <1>1, FS_EmptySet
  <1>6. proc'[w].pc \notin Pending
    BY <1>2 DEF Pending
  <1>7. Apart'
    BY <1>1, <1>2, <1>4, <1>5, <1>6 DEF Apart
  <1>8. Evident'
    BY <1>2, <1>3 DEF Evident, Judged, Weighed, Recording
  <1>9. QED
    BY <1>7, <1>8

(* A switch rests on what the lock holder judged, and that is new. *)
LEMMA SwitchIsEvident ==
    ASSUME Uninterrupted, TypeOK, OneRecorder, Apart, Evident, EscapeEvidence,
           NEW w \in Wrapper, SwitchChoice(w)
    PROVE  Apart' /\ Evident' /\ EscapeEvidence'
  <1> DEFINE this == [at |-> proc[w].entry.at, boot |-> boot,
                      from |-> proc[w].allele, crashes |-> proc[w].recent]
  <1>1. /\ switches' = Append(switches, this) /\ crashes' = crashes /\ At(w, "switching")
        /\ disk'.history = disk.history /\ Goto(w, "switched")
    BY DEF SwitchChoice, WriteChoice, env, TypeOK, Uninterrupted, IO
  <1>2. /\ \A v \in Wrapper \ {w} : proc'[v] = proc[v]
        /\ proc'[w].pc = "switched"
    BY <1>1 DEF Goto, TypeOK, Proc
  <1>3. \A v \in Wrapper \ {w} : proc[v].pc \notin Recording
    BY <1>1 DEF OneRecorder, Holds, At, Recording
  <1>4. /\ proc[w].pc \in Pending /\ proc[w].pc \in Judged /\ proc[w].pc \in Weighed
    BY <1>1 DEF At, Pending, Judged, Weighed
  <1>5. Ids(proc[w].recent) \subseteq Ids(disk.history) \cup {proc[w].entry.id}
    BY <1>4 DEF Evident, Ids
  <1>6. \A v \in Wrapper : proc[v].pc \notin Ending
    BY <1>1, <1>3 DEF At, Recording, Ending
  <1>7. Ids(proc[w].recent) \cap Served = {}
    BY <1>4, <1>5, <1>6 DEF Apart
  <1>8. switches \in Seq(Escape)
    BY DEF TypeOK
  <1>9. Served' = Served \cup Ids(proc[w].recent)
    <2>1. /\ DOMAIN switches' = DOMAIN switches \cup {Len(switches) + 1}
          /\ switches'[Len(switches) + 1] = this
          /\ \A i \in DOMAIN switches : switches'[i] = switches[i]
      <3> HIDE DEF this
      <3>1. QED
        BY <1>1, <1>8
    <2>2. this.crashes = proc[w].recent
      OBVIOUS
    <2> HIDE DEF this
    <2>3. QED
      BY <2>1, <2>2 DEF Served
  <1>10. Apart'
    <2>1. proc'[w].pc \notin Pending /\ proc'[w].pc \in Ending
      BY <1>2 DEF Pending, Ending
    <2>2. Ids(disk.history)' = Ids(disk.history)
      BY <1>1 DEF Ids
    <2>3. crashes' = crashes /\ disk'.history = disk.history
      BY <1>1
    <2> HIDE DEF this
    <2>4. QED
      BY <1>2, <1>4, <1>5, <1>9, <2>1, <2>2, <2>3 DEF Apart
  <1>11. Evident'
    BY <1>2, <1>3 DEF Evident, Judged, Weighed, Recording
  <1>12. EscapeEvidence'
    <2>1. ASSUME NEW i \in DOMAIN switches'
          PROVE  LET s == switches'[i] IN
                 /\ Cardinality(s.crashes) >= EscapeCrashes
                 /\ \A e \in s.crashes : e.at <= s.at /\ s.at - e.at <= EscapeWindow
                 /\ \E e \in s.crashes : e.on = s.from /\ e.at = s.at
                 /\ \A j \in 1 .. i - 1 : s.crashes \cap switches'[j].crashes = {}
      <3>1. CASE i \in DOMAIN switches
        <4>1. switches'[i] = switches[i]
          BY <1>1, <1>8, <3>1
        <4>2. \A j \in 1 .. i - 1 : switches'[j] = switches[j]
          BY <1>1, <1>8, <3>1
        <4>3. QED
          BY <3>1, <4>1, <4>2 DEF EscapeEvidence
      <3>2. CASE i \notin DOMAIN switches
        <4>1. i = Len(switches) + 1 /\ switches'[i] = this
          BY <1>1, <1>8, <3>2
        <4>2. \A j \in 1 .. i - 1 : j \in DOMAIN switches /\ switches'[j] = switches[j]
          BY <1>1, <1>8, <4>1
        <4>3. /\ Cardinality(proc[w].recent) >= EscapeCrashes
              /\ \A e \in proc[w].recent : /\ e.at <= proc[w].entry.at
                                           /\ proc[w].entry.at - e.at <= EscapeWindow
              /\ proc[w].entry \in proc[w].recent
              /\ proc[w].entry.on = proc[w].allele
          BY <1>4 DEF Evident, Apart
        <4>4. ASSUME NEW j \in DOMAIN switches, NEW e \in proc[w].recent,
                     e \in switches[j].crashes
              PROVE  FALSE
          <5>1. e.id \in Ids(proc[w].recent) /\ e.id \in Ids(switches[j].crashes)
            BY <4>4 DEF Ids
          <5>2. e.id \in Served
            BY <5>1 DEF Served
          <5>3. QED
            BY <1>7, <5>1, <5>2
        <4>5. /\ this.at = proc[w].entry.at /\ this.from = proc[w].allele
              /\ this.crashes = proc[w].recent
          OBVIOUS
        <4> HIDE DEF this
        <4>6. QED
          BY <4>1, <4>2, <4>3, <4>4, <4>5
      <3>3. QED
        BY <3>1, <3>2
    <2>2. QED
      BY <2>1 DEF EscapeEvidence
  <1>13. QED
    BY <1>10, <1>11, <1>12

(* Every escape rests on enough crashes of its own window, the last one of the
   allele that is left, none of which served before, with any number of containers
   and any clock, as long as nothing interrupts an escape. *)
THEOREM EscapesHaveEvidence ==
    ASSUME Uninterrupted
    PROVE  Spec => []EscapeEvidence
  <1>1. Init => Apart /\ Evident /\ EscapeEvidence
    <2> SUFFICES ASSUME Init PROVE Apart /\ Evident /\ EscapeEvidence
      OBVIOUS
    <2>1. /\ switches = <<>> /\ disk.history = {}
          /\ \A w \in Wrapper : proc[w].pc = "down"
      BY DEF Init, Idle, Fresh
    <2>2. Served = {} /\ Ids(disk.history) = {} /\ IsFiniteSet(disk.history)
      BY <2>1, FS_EmptySet DEF Served, Ids
    <2>3. QED
      BY <2>1, <2>2 DEF Apart, Evident, EscapeEvidence, Pending, Judged, Weighed
  <1>2. TypeOK /\ OneRecorder /\ Apart /\ Evident /\ EscapeEvidence /\ [Next]_vars
          => Apart' /\ Evident' /\ EscapeEvidence'
    <2> SUFFICES ASSUME TypeOK, OneRecorder, Apart, Evident, EscapeEvidence, [Next]_vars
                 PROVE  Apart' /\ Evident' /\ EscapeEvidence'
      OBVIOUS
    <2>1. switches' = switches => EscapeEvidence'
      BY DEF EscapeEvidence
    <2>2. Tame => Apart' /\ Evident' /\ EscapeEvidence'
      BY <2>1, TameStep DEF Tame
    <2>3. ASSUME NEW w \in Wrapper, RecordCrash(w)
          PROVE  Apart' /\ Evident' /\ EscapeEvidence'
      <3>1. LockAndCount(w) \/ NoteCrash(w) \/ ClearHistories(w) => switches' = switches
        BY DEF LockAndCount, NoteCrash, ClearHistories, observed
      <3>2. QED
        BY <2>1, <2>2, <2>3, <3>1, CountingIsEvident, NotingIsEvident, ClearingIsEvident,
           SwitchIsEvident, RecordingIsTame DEF RecordCrash
    <2>4. ASSUME NEW w \in Wrapper, Supervise(w)
          PROVE  Apart' /\ Evident' /\ EscapeEvidence'
      <3>1. Crash(w) => switches' = switches
        BY DEF Crash, observed
      <3>2. QED
        BY <2>1, <2>2, <2>4, <3>1, CrashIsNew, SuperviseIsTame
    <2>5. ASSUME NEW w \in Wrapper PROVE ~Kill(w)
      BY DEF Kill, Uninterrupted
    <2>6. CASE UNCHANGED vars
      BY <2>2, <2>6 DEF vars, Tame
    <2>7. QED
      BY <2>2, <2>3, <2>4, <2>5, <2>6, StartIsTame, EnvironmentIsTame DEF Next
  <1>3. QED
    BY <1>1, <1>2, TypeCorrect, Exclusion, PTL DEF Spec
=============================================================================
