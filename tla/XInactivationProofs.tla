------------------------ MODULE XInactivationProofs ------------------------
(***************************************************************************)
(* What is proved of XInactivation for every value of its constants.       *)
(***************************************************************************)
EXTENDS XInactivation, TLAPS

USE ApiserverAssumption, PinAssumption, FlagAssumption, ThresholdAssumption,
    FaultAssumption, NoOneAssumption, BoundAssumption

(* A process record just started, or idle, is well formed. *)
LEMMA FreshType ==
    ASSUME NEW pc \in Location, NEW a \in Allele, NEW pin \in BOOLEAN
    PROVE  Fresh(pc, a, pin) \in Proc
  BY DEF Fresh, Proc, NoEntry, Entry, Allele

(* A wrapper that is down has a well-formed record. *)
LEMMA IdleType == Idle \in Proc
  BY FreshType DEF Idle, Location, Starting, Recording, Allele

(* The contents of any directory are contents a power loss may leave. *)
LEMMA KeptType ==
    ASSUME NEW d \in [choice : Choice, history : SUBSET Entry, last : Stamp]
    PROVE  KeptOf(d) \in [choice : SUBSET Choice, history : SUBSET (SUBSET Entry),
                          last : SUBSET Stamp]
  BY DEF KeptOf

(* The other of two alleles is an allele. *)
LEMMA OtherType == ASSUME NEW a \in Allele PROVE Other(a) \in Allele
  BY DEF Other, Allele

(* Eras are numbered. *)
LEMMA EraType == ASSUME TypeOK PROVE Era \in Nat
  BY DEF TypeOK, Era

(* Whatever Express does, the processes and the starts seen stay well formed. *)
LEMMA ExpressType ==
    ASSUME TypeOK, NEW w \in Wrapper, NEW a \in Allele, NEW pin \in BOOLEAN,
           NEW era \in Nat, Express(w, a, pin, era)
    PROVE  proc' \in [Wrapper -> Proc] /\ lineage' \subseteq [era : Nat, on : Allele]
  <1>1. Fresh("running", a, pin) \in Proc
    BY FreshType DEF Location
  <1>2. proc' \in [Wrapper -> Proc]
    BY <1>1, IdleType DEF Express, Done, TypeOK
  <1>3. [era |-> era, on |-> a] \in [era : Nat, on : Allele]
    OBVIOUS
  <1>4. lineage' \subseteq [era : Nat, on : Allele]
    BY <1>3 DEF Express, TypeOK
  <1>5. QED
    BY <1>2, <1>4

(* Publishing a pick keeps a process well formed. *)
LEMMA LinkedType ==
    ASSUME TypeOK, NEW w \in Wrapper,
           proc' = [proc EXCEPT ![w].pc = "linked", ![w].since = Era]
    PROVE  proc' \in [Wrapper -> Proc]
  <1>1. proc[w] \in Proc
    BY DEF TypeOK
  <1>2. [proc[w] EXCEPT !.pc = "linked", !.since = Era] \in Proc
    BY <1>1, EraType DEF Proc, Location, Starting
  <1>3. QED
    BY <1>2 DEF TypeOK

(* Going to another location keeps a process well formed. *)
LEMMA GotoType ==
    ASSUME TypeOK, NEW w \in Wrapper, NEW pc \in Location, Goto(w, pc)
    PROVE  proc' \in [Wrapper -> Proc]
  <1>1. proc[w] \in Proc
    BY DEF TypeOK
  <1>2. [proc[w] EXCEPT !.pc = pc] \in Proc
    BY <1>1 DEF Proc
  <1>3. QED
    BY <1>2 DEF Goto, TypeOK

(* Going to another location moves only the one that goes, and only its location. *)
LEMMA GotoMoves ==
    ASSUME TypeOK, NEW w \in Wrapper, NEW pc, Goto(w, pc)
    PROVE  /\ proc'[w].pc = pc /\ proc'[w].entry = proc[w].entry
           /\ proc'[w].recent = proc[w].recent /\ proc'[w].allele = proc[w].allele
           /\ proc'[w].sawFlag = proc[w].sawFlag
           /\ \A v \in Wrapper \ {w} : proc'[v] = proc[v]
  <1>1. proc[w] \in Proc /\ proc \in [Wrapper -> Proc]
    BY DEF TypeOK
  <1>2. proc'[w] = [proc[w] EXCEPT !.pc = pc] /\ \A v \in Wrapper \ {w} : proc'[v] = proc[v]
    BY <1>1 DEF Goto
  <1>3. QED
    BY <1>1, <1>2 DEF Proc

(* A component goes on running as it matures, is signalled or is told to follow. *)
LEMMA StaysRunning ==
    ASSUME TypeOK, NEW w \in Wrapper, Mature(w) \/ Signal(w) \/ FollowTick(w)
    PROVE  proc'[w].pc = proc[w].pc
  <1>1. proc[w] \in Proc /\ proc \in [Wrapper -> Proc]
    BY DEF TypeOK
  <1>2. CASE Mature(w)
    BY <1>1, <1>2 DEF Mature, Proc
  <1>3. CASE Signal(w)
    BY <1>1, <1>3 DEF Signal, Proc
  <1>4. CASE FollowTick(w)
    BY <1>1, <1>4 DEF FollowTick, Proc
  <1>5. QED
    BY <1>2, <1>3, <1>4

(* Withdrawing the flag changes nothing else of a wrapper than what it saw of it. *)
LEMMA RemovalMoves ==
    ASSUME TypeOK, RemoveUpgrading, NEW v \in Wrapper
    PROVE  /\ proc'[v].pc = proc[v].pc /\ proc'[v].entry = proc[v].entry
           /\ proc'[v].recent = proc[v].recent /\ proc'[v].allele = proc[v].allele
           /\ proc'[v].since = proc[v].since /\ proc'[v].sawFlag = FALSE
  <1>1. proc[v] \in Proc
    BY DEF TypeOK
  <1>2. proc'[v] = [proc[v] EXCEPT !.sawFlag = FALSE]
    BY DEF RemoveUpgrading
  <1>3. QED
    BY <1>1, <1>2 DEF Proc

(* Ending a process keeps the processes well formed. *)
LEMMA DoneType ==
    ASSUME TypeOK, NEW w \in Wrapper, Done(w)
    PROVE  proc' \in [Wrapper -> Proc]
  BY IdleType DEF Done, TypeOK

(* The three ways a file is replaced, and the sync, keep the directory and what
   a power loss may leave of it well formed. *)
LEMMA DiskType ==
    ASSUME TypeOK
    PROVE  LET ok == /\ disk' \in [choice : Choice, history : SUBSET Entry, last : Stamp]
                     /\ kept' \in [choice : SUBSET Choice,
                                    history : SUBSET (SUBSET Entry),
                                    last : SUBSET Stamp]
           IN  /\ \A a \in Choice : WriteChoice(a) => ok
               /\ \A h \in SUBSET Entry : WriteHistory(h) => ok
               /\ \A s \in Stamp : WriteStamp(s) => ok
               /\ SyncDir /\ UNCHANGED disk => ok
  <1>1. ASSUME NEW a \in Choice, WriteChoice(a)
        PROVE  /\ disk' \in [choice : Choice, history : SUBSET Entry, last : Stamp]
               /\ kept' \in [choice : SUBSET Choice, history : SUBSET (SUBSET Entry),
                              last : SUBSET Stamp]
    BY <1>1 DEF WriteChoice, TypeOK
  <1>2. ASSUME NEW h \in SUBSET Entry, WriteHistory(h)
        PROVE  /\ disk' \in [choice : Choice, history : SUBSET Entry, last : Stamp]
               /\ kept' \in [choice : SUBSET Choice, history : SUBSET (SUBSET Entry),
                              last : SUBSET Stamp]
    BY <1>2 DEF WriteHistory, TypeOK
  <1>3. ASSUME NEW s \in Stamp, WriteStamp(s)
        PROVE  /\ disk' \in [choice : Choice, history : SUBSET Entry, last : Stamp]
               /\ kept' \in [choice : SUBSET Choice, history : SUBSET (SUBSET Entry),
                              last : SUBSET Stamp]
    BY <1>3 DEF WriteStamp, TypeOK
  <1>4. ASSUME SyncDir, UNCHANGED disk
        PROVE  /\ disk' \in [choice : Choice, history : SUBSET Entry, last : Stamp]
               /\ kept' \in [choice : SUBSET Choice, history : SUBSET (SUBSET Entry),
                              last : SUBSET Stamp]
    BY <1>4, KeptType DEF SyncDir, TypeOK
  <1>5. QED
    BY <1>1, <1>2, <1>3, <1>4

---------------------------------------------------------------------------
(* Every variable has its type in every reachable state. *)
THEOREM TypeCorrect == Spec => []TypeOK
  <1>1. Init => TypeOK
    <2> SUFFICES ASSUME Init PROVE TypeOK
      OBVIOUS
    <2>1. disk \in [choice : Choice, history : SUBSET Entry, last : Stamp]
      BY DEF Init, Choice, Stamp, NoStamp
    <2>2. kept \in [choice : SUBSET Choice, history : SUBSET (SUBSET Entry),
                    last : SUBSET Stamp]
      BY <2>1, KeptType DEF Init
    <2>3. switches \in Seq(Escape)
      BY DEF Init
    <2>4. proc \in [Wrapper -> Proc]
      BY IdleType DEF Init
    <2>5. lock \in Wrapper \cup {NoOne} /\ upgrading \in BOOLEAN
      BY DEF Init
    <2>6. clock \in Nat /\ boot \in Nat \ {0} /\ crashes \in Nat /\ edits \in Nat
      BY DEF Init
    <2>7. counted \subseteq Entry /\ lineage \subseteq [era : Nat, on : Allele]
      BY DEF Init
    <2>8. QED
      BY <2>1, <2>2, <2>3, <2>4, <2>5, <2>6, <2>7 DEF TypeOK
  <1>2. TypeOK /\ [Next]_vars => TypeOK'
    <2> SUFFICES ASSUME TypeOK, [Next]_vars PROVE TypeOK'
      OBVIOUS
    <2>1. ASSUME NEW w \in Wrapper, Start(w) PROVE TypeOK'
      <3>1. CASE StartPinned(w)
        BY <3>1, ExpressType, EraType DEF StartPinned, TypeOK, node, env
      <3>2. CASE StartOlder(w)
        BY <3>2, ExpressType, EraType DEF StartOlder, TypeOK, node, env, Allele
      <3>3. CASE StartChosen(w)
        BY <3>3, ExpressType, EraType DEF StartChosen, TypeOK, node, env
      <3>4. CASE StartFirst(w)
        <4>1. PICK a \in Allele : proc' = [proc EXCEPT ![w] = Fresh("picked", a, FALSE)]
          BY <3>4 DEF StartFirst
        <4>2. Fresh("picked", a, FALSE) \in Proc
          BY FreshType DEF Location, Starting
        <4>3. QED
          BY <3>4, <4>1, <4>2 DEF StartFirst, TypeOK, node, env, observed
      <3>5. CASE LinkChoice(w)
        <4>1. proc[w].allele \in Choice
          BY DEF TypeOK, Proc, Choice
        <4>2. proc' \in [Wrapper -> Proc]
          BY <3>5, GotoType, LinkedType, DoneType DEF LinkChoice, Location, Starting
        <4>3. QED
          BY <3>5, <4>1, <4>2, DiskType DEF LinkChoice, TypeOK, env, observed
      <3>6. CASE SyncLink(w)
        <4>1. proc[w].allele \in Allele /\ proc[w].since \in Nat
          BY DEF TypeOK, Proc
        <4>2. proc' \in [Wrapper -> Proc] /\ lineage' \subseteq [era : Nat, on : Allele]
          BY <3>6, <4>1, ExpressType, DoneType DEF SyncLink, TypeOK
        <4>3. QED
          BY <3>6, <4>2, DiskType DEF SyncLink, TypeOK, env
      <3>7. CASE ReadWinner(w)
        BY <3>7, ExpressType, EraType, DoneType DEF ReadWinner, TypeOK, node, env
      <3>8. QED
        BY <2>1, <3>1, <3>2, <3>3, <3>4, <3>5, <3>6, <3>7 DEF Start
    <2>2. ASSUME NEW w \in Wrapper, Supervise(w) PROVE TypeOK'
      <3>0. proc[w] \in Proc
        BY DEF TypeOK
      <3>1. CASE Mature(w)
        <4>1. [proc[w] EXCEPT !.mature = TRUE] \in Proc
          BY <3>0 DEF Proc
        <4>2. QED
          BY <3>1, <4>1 DEF Mature, TypeOK, node, env, observed
      <3>2. CASE Signal(w)
        <4>1. [proc[w] EXCEPT !.stopping = TRUE, !.asked = TRUE] \in Proc
          BY <3>0 DEF Proc
        <4>2. QED
          BY <3>2, <4>1 DEF Signal, TypeOK, node, env, observed
      <3>3. CASE Exit(w) \/ GraceEnds(w) \/ KillTimer(w)
        BY <3>3, DoneType
           DEF Exit, GraceEnds, KillTimer, TypeOK, node, env, observed
      <3>4. CASE FollowTick(w)
        <4>1. [proc[w] EXCEPT !.stopping = TRUE, !.killing = TRUE] \in Proc
          BY <3>0 DEF Proc
        <4>2. QED
          BY <3>4, <4>1 DEF FollowTick, TypeOK, node, env, observed
      <3>5. CASE Crash(w)
        <4>1. [id |-> crashes + 1, at |-> 0, on |-> proc[w].allele] \in Entry
          BY <3>0 DEF Proc, Entry, TypeOK
        <4>2. [proc[w] EXCEPT !.pc = "crashed",
                 !.entry = [id |-> crashes + 1, at |-> 0,
                            on |-> proc[w].allele]] \in Proc
          BY <3>0, <4>1 DEF Proc, Location
        <4>3. proc' \in [Wrapper -> Proc] /\ crashes' \in Nat
          BY <3>5, <4>2 DEF Crash, TypeOK
        <4>4. QED
          BY <3>5, <4>3 DEF Crash, TypeOK, node, observed
      <3>6. QED
        BY <2>2, <3>1, <3>2, <3>3, <3>4, <3>5 DEF Supervise
    <2>3. ASSUME NEW w \in Wrapper, RecordCrash(w) PROVE TypeOK'
      <3>0. proc[w] \in Proc
        BY DEF TypeOK
      <3>1. CASE LockAndCount(w)
        <4>1. PICK seen \in {disk.history} \cup (IF IO THEN {{}} ELSE {}) :
                LET this == [proc[w].entry EXCEPT !.at = clock]
                    recent == Recent(seen, clock) \cup {this}
                IN  proc' = [proc EXCEPT
                      ![w].pc = IF Cardinality(recent) < EscapeCrashes
                                THEN "noting" ELSE "reading",
                      ![w].entry = this, ![w].recent = recent, ![w].sawFlag = upgrading]
          BY <3>1 DEF LockAndCount
        <4> DEFINE this == [proc[w].entry EXCEPT !.at = clock]
                   recent == Recent(seen, clock) \cup {this}
                   pc == IF Cardinality(recent) < EscapeCrashes
                         THEN "noting" ELSE "reading"
                   next == [proc[w] EXCEPT !.pc = pc, !.entry = this,
                                           !.recent = recent, !.sawFlag = upgrading]
        <4>2. this \in Entry
          BY <3>0 DEF Proc, Entry, TypeOK
        <4>3. recent \in SUBSET Entry
          BY <4>2 DEF Recent, TypeOK
        <4>4. pc \in Location
          BY DEF Location, Recording
        <4>5. next \in Proc
          <5> HIDE DEF pc, this, recent
          <5> QED
            BY <3>0, <4>2, <4>3, <4>4 DEF Proc, TypeOK
        <4>6. proc' = [proc EXCEPT ![w] = next]
          BY <4>1
        <4>7. proc' \in [Wrapper -> Proc]
          BY <4>5, <4>6 DEF TypeOK
        <4>8. QED
          BY <3>1, <4>7 DEF LockAndCount, TypeOK, env, observed
      <3>2. CASE CannotLock(w)
        BY <3>2, DoneType DEF CannotLock, TypeOK, node, env, observed
      <3>3. CASE ReadCurrent(w)
        <4>1. proc' \in [Wrapper -> Proc]
          BY <3>3, GotoType DEF ReadCurrent, Location, Recording
        <4>2. QED
          BY <3>3, <4>1 DEF ReadCurrent, TypeOK, node, env, observed
      <3>4. CASE CheckBlocked(w)
        <4>1. proc' \in [Wrapper -> Proc]
          BY <3>4, GotoType DEF CheckBlocked, Location, Recording
        <4>2. QED
          BY <3>4, <4>1 DEF CheckBlocked, TypeOK, node, env, observed
      <3>5. CASE NoteCrash(w)
        <4>1. proc[w].recent \in SUBSET Entry
          BY <3>0 DEF Proc
        <4>2. proc' \in [Wrapper -> Proc] /\ lock' \in Wrapper \cup {NoOne}
          BY <3>5, GotoType, DoneType
             DEF NoteCrash, Unlock, Location, Recording, TypeOK
        <4>3. QED
          BY <3>5, <4>1, <4>2, DiskType DEF NoteCrash, TypeOK, env, observed
      <3>6. CASE SyncNote(w)
        <4>1. proc[w].entry \in Entry
          BY <3>0 DEF Proc
        <4>2. proc' \in [Wrapper -> Proc] /\ lock' \in Wrapper \cup {NoOne}
          BY <3>6, DoneType DEF SyncNote, Unlock
        <4>3. QED
          BY <3>6, <4>1, <4>2, DiskType DEF SyncNote, TypeOK, env
      <3>7. CASE SwitchChoice(w)
        <4>1. Other(proc[w].allele) \in Choice
          BY <3>0, OtherType DEF Proc, Choice
        <4>2. proc' \in [Wrapper -> Proc] /\ lock' \in Wrapper \cup {NoOne}
          BY <3>7, GotoType, DoneType
             DEF SwitchChoice, Unlock, Location, Recording, TypeOK
        <4>3. /\ disk' \in [choice : Choice, history : SUBSET Entry, last : Stamp]
              /\ kept' \in [choice : SUBSET Choice, history : SUBSET (SUBSET Entry),
                             last : SUBSET Stamp]
          BY <3>7, <4>1, DiskType DEF SwitchChoice, TypeOK
        <4>4. switches' \in Seq(Escape)
          <5>1. [at |-> proc[w].entry.at, boot |-> boot, from |-> proc[w].allele,
                 crashes |-> proc[w].recent]
                \in Escape
            BY <3>0 DEF Proc, Entry, Escape, TypeOK
          <5>2. switches \in Seq(Escape)
            BY DEF TypeOK
          <5>3. CASE UNCHANGED switches
            BY <5>2, <5>3
          <5>4. CASE switches' = Append(switches, [at |-> proc[w].entry.at, boot |-> boot,
                                                   from |-> proc[w].allele,
                                                   crashes |-> proc[w].recent])
            BY <5>1, <5>2, <5>4
          <5>5. QED
            BY <3>7, <5>3, <5>4 DEF SwitchChoice
        <4>5. QED
          BY <3>7, <4>2, <4>3, <4>4 DEF SwitchChoice, TypeOK, env
      <3>8. CASE SyncSwitch(w)
        <4>1. proc' \in [Wrapper -> Proc] /\ lock' \in Wrapper \cup {NoOne}
          BY <3>8, GotoType, DoneType
             DEF SyncSwitch, Unlock, Location, Recording, TypeOK
        <4>2. QED
          BY <3>8, <4>1, DiskType DEF SyncSwitch, TypeOK, env, observed
      <3>9. CASE StampEscape(w)
        <4>1. [written |-> TRUE, at |-> proc[w].entry.at,
               boot |-> IF BootIdKnown THEN boot ELSE 0] \in Stamp
          BY <3>0 DEF Proc, Entry, Stamp, TypeOK
        <4>2. proc' \in [Wrapper -> Proc]
          BY <3>9, GotoType DEF StampEscape, Location, Recording
        <4>3. /\ disk' \in [choice : Choice, history : SUBSET Entry, last : Stamp]
              /\ kept' \in [choice : SUBSET Choice, history : SUBSET (SUBSET Entry),
                             last : SUBSET Stamp]
          BY <3>9, <4>1, DiskType DEF StampEscape, TypeOK
        <4>4. QED
          BY <3>9, <4>2, <4>3 DEF StampEscape, TypeOK, env, observed
      <3>10. CASE SyncStamp(w)
        <4>1. proc' \in [Wrapper -> Proc]
          BY <3>10, GotoType DEF SyncStamp, Location, Recording
        <4>2. QED
          BY <3>10, <4>1, DiskType DEF SyncStamp, TypeOK, env, observed
      <3>11. CASE ClearHistories(w)
        <4>1. proc' \in [Wrapper -> Proc] /\ lock' \in Wrapper \cup {NoOne}
          BY <3>11, DoneType DEF ClearHistories, Unlock
        <4>2. QED
          BY <3>11, <4>1, DiskType DEF ClearHistories, Cleared, TypeOK, env
      <3>12. QED
        BY <2>3, <3>1, <3>2, <3>3, <3>4, <3>5, <3>6, <3>7, <3>8, <3>9, <3>10, <3>11
           DEF RecordCrash
    <2>4. ASSUME NEW w \in Wrapper, Kill(w) PROVE TypeOK'
      BY <2>4, DoneType DEF Kill, TypeOK, env, observed
    <2>5. CASE Environment
      <3>1. CASE Reboot
        BY <3>1, IdleType, KeptType DEF Reboot, Boot, TypeOK, observed
      <3>2. CASE PowerLoss
        <4>1. PICK d \in [choice : kept.choice, history : kept.history,
                          last : kept.last] : disk' = d /\ kept' = KeptOf(d)
          BY <3>2 DEF PowerLoss
        <4>2. d \in [choice : Choice, history : SUBSET Entry, last : Stamp]
          BY DEF TypeOK
        <4>3. QED
          BY <3>2, <4>1, <4>2, IdleType, KeptType DEF PowerLoss, Boot, TypeOK, observed
      <3>3. CASE Tick \/ StepBack \/ TouchUpgrading
        <4>1. clock' \in Nat
          BY <3>3 DEF Tick, StepBack, TouchUpgrading, TypeOK, env
        <4>2. UNCHANGED <<proc, lock, disk, kept, boot, crashes, edits, observed>>
          BY <3>3 DEF Tick, StepBack, TouchUpgrading, node, env
        <4>3. upgrading' \in BOOLEAN
          BY <3>3 DEF Tick, StepBack, TouchUpgrading, TypeOK, node
        <4>4. QED
          BY <4>1, <4>2, <4>3 DEF TypeOK, observed
      <3>4. CASE RemoveUpgrading
        <4>1. ASSUME NEW w \in Wrapper PROVE [proc[w] EXCEPT !.sawFlag = FALSE] \in Proc
          <5>1. proc[w] \in Proc
            BY DEF TypeOK
          <5>2. QED
            BY <5>1 DEF Proc
        <4>2. QED
          BY <3>4, <4>1 DEF RemoveUpgrading, TypeOK, env, observed
      <3>5. CASE EditChoice
        <4>1. /\ disk' \in [choice : Choice, history : SUBSET Entry, last : Stamp]
              /\ kept' \in [choice : SUBSET Choice, history : SUBSET (SUBSET Entry),
                             last : SUBSET Stamp]
          BY <3>5, DiskType DEF EditChoice
        <4>2. QED
          BY <3>5, <4>1 DEF EditChoice, TypeOK, observed
      <3>6. QED
        BY <2>5, <3>1, <3>2, <3>3, <3>4, <3>5 DEF Environment
    <2>6. CASE UNCHANGED vars
      BY <2>6 DEF vars, TypeOK
    <2>7. QED
      BY <2>1, <2>2, <2>3, <2>4, <2>5, <2>6 DEF Next
  <1>3. QED
    BY <1>1, <1>2, PTL DEF Spec
---------------------------------------------------------------------------
(* Only a step of w itself, a kill of w or a boot takes w into or out of the
   critical section, and lock follows it. *)
LEMMA RecorderStep ==
    ASSUME TypeOK, OneRecorder, [Next]_vars
    PROVE  OneRecorder'
  <1>1. ASSUME NEW w \in Wrapper, Start(w) \/ Supervise(w)
        PROVE  OneRecorder'
    <2>1. lock' = lock
      BY <1>1 DEF Start, StartPinned, StartOlder, StartChosen, StartFirst, LinkChoice,
         SyncLink, ReadWinner, Supervise, Mature, Signal, Exit, GraceEnds, FollowTick,
         KillTimer, Crash, node
    <2>2. \A v \in Wrapper \ {w} : proc'[v] = proc[v]
      BY <1>1 DEF Start, StartPinned, StartOlder, StartChosen, StartFirst, LinkChoice,
         SyncLink, ReadWinner, Express, Supervise, Mature, Signal, Exit, GraceEnds,
         FollowTick, KillTimer, Crash, Done, Goto, TypeOK
    <2>3. ~Holds(w)'
      <3>1. CASE Start(w)
        <4>1. ASSUME NEW a, NEW pin, NEW era, Express(w, a, pin, era)
              PROVE  ~Holds(w)'
          BY <4>1 DEF Express, Done, Idle, Fresh, Holds, Recording, TypeOK
        <4>2. Done(w) => ~Holds(w)'
          BY DEF Done, Idle, Fresh, Holds, Recording, TypeOK
        <4>3. CASE StartFirst(w)
          BY <4>3 DEF StartFirst, Fresh, Holds, Recording, TypeOK
        <4>4. CASE LinkChoice(w)
          <5>1. Goto(w, "lost") => ~Holds(w)'
            BY DEF Goto, Holds, Recording, TypeOK, Proc
          <5>2. proc' = [proc EXCEPT ![w].pc = "linked", ![w].since = Era] => ~Holds(w)'
            BY DEF Holds, Recording, TypeOK, Proc
          <5>3. QED
            BY <4>2, <4>4, <5>1, <5>2 DEF LinkChoice
        <4>5. QED
          BY <3>1, <4>1, <4>2, <4>3, <4>4
             DEF Start, StartPinned, StartOlder, StartChosen, SyncLink, ReadWinner
      <3>2. CASE Supervise(w)
        <4>1. proc[w] \in Proc /\ At(w, "running")
          BY <3>2 DEF Supervise, Mature, Signal, Exit, GraceEnds, FollowTick, Follows,
             KillTimer, Crash, TypeOK
        <4>2. CASE Mature(w) \/ Signal(w) \/ FollowTick(w)
          <5>1. proc'[w].pc = proc[w].pc
            BY <4>2, StaysRunning
          <5>2. QED
            BY <4>1, <5>1 DEF At, Holds, Recording
        <4>3. CASE Exit(w) \/ GraceEnds(w) \/ KillTimer(w)
          BY <4>3 DEF Exit, GraceEnds, KillTimer, Done, Idle, Fresh, Holds, Recording,
             TypeOK
        <4>4. CASE Crash(w)
          <5>1. proc'[w].pc = "crashed"
            BY <4>1, <4>4 DEF Crash, TypeOK, Proc
          <5>2. QED
            BY <5>1 DEF Holds, Recording
        <4>5. QED
          BY <3>2, <4>2, <4>3, <4>4 DEF Supervise
      <3>3. QED
        BY <1>1, <3>1, <3>2
    <2>4. QED
      BY <2>1, <2>2, <2>3 DEF OneRecorder, Holds
  <1>2. ASSUME NEW w \in Wrapper, LockAndCount(w) PROVE OneRecorder'
    <2>1. lock = NoOne /\ lock' = w
      BY <1>2 DEF LockAndCount, LockFree
    <2>2. \A v \in Wrapper \ {w} : proc'[v] = proc[v]
      BY <1>2 DEF LockAndCount, TypeOK
    <2>3. QED
      BY <2>1, <2>2 DEF OneRecorder, Holds
  <1>3. ASSUME NEW w \in Wrapper, RecordCrash(w), ~LockAndCount(w), ~CannotLock(w)
        PROVE  OneRecorder'
    <2>1. Holds(w)
      BY <1>3 DEF RecordCrash, ReadCurrent, CheckBlocked, NoteCrash, SyncNote,
         SwitchChoice, SyncSwitch, StampEscape, SyncStamp, ClearHistories, At, Holds,
         Recording
    <2>2. \A v \in Wrapper \ {w} : proc'[v] = proc[v]
      BY <1>3 DEF RecordCrash, ReadCurrent, CheckBlocked, NoteCrash, SyncNote,
         SwitchChoice, SyncSwitch, StampEscape, SyncStamp, ClearHistories, Goto,
         Unlock, Done, TypeOK
    <2>3. lock' = lock \/ Unlock(w)
      BY <1>3 DEF RecordCrash, ReadCurrent, CheckBlocked, NoteCrash, SyncNote,
         SwitchChoice, SyncSwitch, StampEscape, SyncStamp, ClearHistories, node
    <2>4. Unlock(w) => ~Holds(w)'
      BY DEF Unlock, Done, Idle, Fresh, Holds, Recording, TypeOK
    <2>5. QED
      BY <2>1, <2>2, <2>3, <2>4 DEF OneRecorder, Holds
  <1>4. ASSUME NEW w \in Wrapper, CannotLock(w) PROVE OneRecorder'
    BY <1>4 DEF CannotLock, Done, Idle, Fresh, node, OneRecorder, Holds, Recording, TypeOK
  <1>5. ASSUME NEW w \in Wrapper, Kill(w) PROVE OneRecorder'
    <2>1. ~Holds(w)' /\ \A v \in Wrapper \ {w} : proc'[v] = proc[v]
      BY <1>5 DEF Kill, Done, Idle, Fresh, Holds, Recording, TypeOK
    <2>2. QED
      BY <1>5, <2>1 DEF Kill, OneRecorder, Holds
  <1>6. ASSUME Environment PROVE OneRecorder'
    <2>1. CASE Reboot \/ PowerLoss
      BY <2>1 DEF Reboot, PowerLoss, Boot, Idle, Fresh, OneRecorder, Holds, Recording
    <2>2. CASE Tick \/ StepBack \/ TouchUpgrading \/ EditChoice
      BY <2>2 DEF Tick, StepBack, TouchUpgrading, EditChoice, node, OneRecorder, Holds
    <2>3. CASE RemoveUpgrading
      <3>1. lock' = lock /\ proc' = [w \in Wrapper |-> [proc[w] EXCEPT !.sawFlag = FALSE]]
        BY <2>3 DEF RemoveUpgrading
      <3>2. \A w \in Wrapper : proc[w] \in Proc
        BY DEF TypeOK
      <3>3. \A w \in Wrapper : proc'[w].pc = proc[w].pc
        BY <3>1, <3>2 DEF Proc
      <3>4. QED
        BY <3>1, <3>3 DEF OneRecorder, Holds
    <2>4. QED
      BY <1>6, <2>1, <2>2, <2>3 DEF Environment
  <1>7. CASE UNCHANGED vars
    BY <1>7 DEF vars, OneRecorder, Holds
  <1>8. QED
    BY <1>1, <1>2, <1>3, <1>4, <1>5, <1>6, <1>7 DEF Next, RecordCrash

(* RecordCrash runs in one wrapper at a time, whatever is killed or fails. *)
THEOREM Exclusion == Spec => []OneRecorder
  <1>1. Init => OneRecorder
    BY DEF Init, OneRecorder, Holds, Idle, Fresh, Recording
  <1>2. TypeOK /\ OneRecorder /\ [Next]_vars => OneRecorder'
    BY RecorderStep
  <1>3. QED
    BY <1>1, <1>2, TypeCorrect, PTL DEF Spec
---------------------------------------------------------------------------
\* A node that nothing interrupts between the switch and its stamp.
Uninterrupted == Fault \cap {"io", "kill", "power"} = {}

\* The locations between the decision to escape and the stamp.
Escaping == {"switching", "switched", "stamping"}

\* A step that neither escapes nor reboots.
Calm == /\ switches' = switches /\ disk'.last = disk.last /\ boot' = boot
        /\ \A v \in Wrapper : proc[v].pc \in Escaping \/ proc'[v].pc \in Escaping
                               => proc'[v].pc = proc[v].pc

(* Starting never touches the stamp or an escape under way. *)
LEMMA StartIsCalm ==
    ASSUME TypeOK, NEW w \in Wrapper, Start(w)
    PROVE  Calm
  <1>1. switches' = switches /\ boot' = boot
    BY DEF Start, StartPinned, StartOlder, StartChosen, StartFirst, LinkChoice,
       SyncLink, ReadWinner, env, observed
  <1>2. disk'.last = disk.last
    BY DEF Start, StartPinned, StartOlder, StartChosen, StartFirst, LinkChoice,
       SyncLink, ReadWinner, node, WriteChoice, TypeOK
  <1>3. \A v \in Wrapper \ {w} : proc'[v] = proc[v]
    BY DEF Start, StartPinned, StartOlder, StartChosen, StartFirst, LinkChoice,
       SyncLink, ReadWinner, Express, Done, Goto, TypeOK
  <1>4. proc[w].pc \notin Escaping
    BY DEF Start, StartPinned, StartOlder, StartChosen, StartFirst, LinkChoice,
       SyncLink, ReadWinner, At, Escaping
  <1>5. proc'[w].pc \notin Escaping
    <2>1. ASSUME NEW a, NEW pin, NEW era, Express(w, a, pin, era)
          PROVE  proc'[w].pc \notin Escaping
      BY <2>1 DEF Express, Done, Idle, Fresh, Escaping, TypeOK
    <2>2. Done(w) => proc'[w].pc \notin Escaping
      BY DEF Done, Idle, Fresh, Escaping, TypeOK
    <2>3. StartFirst(w) => proc'[w].pc \notin Escaping
      BY DEF StartFirst, Fresh, Escaping, TypeOK
    <2>4. Goto(w, "lost") => proc'[w].pc \notin Escaping
      BY DEF Goto, Escaping, TypeOK, Proc
    <2>5. proc' = [proc EXCEPT ![w].pc = "linked", ![w].since = Era]
            => proc'[w].pc \notin Escaping
      BY DEF Escaping, TypeOK, Proc
    <2>6. QED
      BY <2>1, <2>2, <2>3, <2>4, <2>5
         DEF Start, StartPinned, StartOlder, StartChosen, LinkChoice, SyncLink, ReadWinner
  <1>6. QED
    BY <1>1, <1>2, <1>3, <1>4, <1>5 DEF Calm

(* Supervising a component touches neither the stamp nor an escape under way. *)
LEMMA SuperviseIsCalm ==
    ASSUME TypeOK, NEW w \in Wrapper, Supervise(w)
    PROVE  Calm
  <1>1. switches' = switches /\ boot' = boot /\ disk'.last = disk.last
    BY DEF Supervise, Mature, Signal, Exit, GraceEnds, FollowTick, KillTimer, Crash,
       node, env, observed
  <1>2. \A v \in Wrapper \ {w} : proc'[v] = proc[v]
    BY DEF Supervise, Mature, Signal, Exit, GraceEnds, FollowTick, KillTimer, Crash,
       Done, TypeOK
  <1>3. proc[w] \in Proc /\ At(w, "running")
    BY DEF Supervise, Mature, Signal, Exit, GraceEnds, FollowTick, Follows, KillTimer,
       Crash, TypeOK
  <1>4. proc'[w].pc \notin Escaping
    <2>1. CASE Mature(w) \/ Signal(w) \/ FollowTick(w)
      <3>1. proc'[w].pc = proc[w].pc
        BY <2>1, StaysRunning
      <3>2. QED
        BY <1>3, <3>1 DEF At, Escaping
    <2>2. CASE Exit(w) \/ GraceEnds(w) \/ KillTimer(w)
      BY <2>2 DEF Exit, GraceEnds, KillTimer, Done, Idle, Fresh, Escaping, TypeOK
    <2>3. CASE Crash(w)
      <3>1. proc'[w].pc = "crashed"
        BY <1>3, <2>3 DEF Crash, TypeOK, Proc
      <3>2. QED
        BY <3>1 DEF Escaping
    <2>4. QED
      BY <2>1, <2>2, <2>3 DEF Supervise
  <1>5. proc[w].pc \notin Escaping
    BY <1>3 DEF At, Escaping
  <1>6. QED
    BY <1>1, <1>2, <1>4, <1>5 DEF Calm

(* The last escape is one of the escapes, or there was none. *)
LEMMA LastOfSwitches ==
    ASSUME TypeOK
    PROVE  /\ LastBoot \in Nat /\ LastAt \in Nat
           /\ switches = <<>> => LastBoot = 0 /\ LastAt = 0
           /\ switches # <<>> =>
                /\ Len(switches) \in DOMAIN switches
                /\ LastBoot = switches[Len(switches)].boot
                /\ LastAt = switches[Len(switches)].at
  <1>1. switches \in Seq(Escape)
    BY DEF TypeOK
  <1>2. CASE switches = <<>>
    BY <1>2 DEF LastBoot, LastAt
  <1>3. CASE switches # <<>>
    <2>1. Len(switches) \in 1 .. Len(switches)
      BY <1>1, <1>3
    <2>2. switches[Len(switches)] \in Escape
      BY <1>1, <2>1
    <2>3. QED
      BY <1>1, <1>3, <2>1, <2>2 DEF LastBoot, LastAt, Escape
  <1>4. QED
    BY <1>2, <1>3

\* The steps of RecordCrash outside the escape.
Noting(w) == LockAndCount(w) \/ CannotLock(w) \/ ReadCurrent(w) \/ NoteCrash(w)
             \/ SyncNote(w) \/ SyncStamp(w) \/ ClearHistories(w)

(* Counting and noting a crash, and what follows the stamp, are calm. *)
LEMMA NotingIsCalm ==
    ASSUME TypeOK, NEW w \in Wrapper, Noting(w)
    PROVE  Calm
  <1>1. switches' = switches /\ boot' = boot
    BY DEF Noting, LockAndCount, CannotLock, ReadCurrent, NoteCrash, SyncNote,
       SyncStamp, ClearHistories, env, observed
  <1>2. disk'.last = disk.last
    BY DEF Noting, LockAndCount, CannotLock, ReadCurrent, NoteCrash, SyncNote,
       SyncStamp, ClearHistories, node, WriteHistory, TypeOK
  <1>3. \A v \in Wrapper \ {w} : proc'[v] = proc[v]
    BY DEF Noting, LockAndCount, CannotLock, ReadCurrent, NoteCrash, SyncNote,
       SyncStamp, ClearHistories, Unlock, Done, Goto, TypeOK
  <1>4. proc[w].pc \notin Escaping
    BY DEF Noting, LockAndCount, CannotLock, ReadCurrent, NoteCrash, SyncNote,
       SyncStamp, ClearHistories, At, Escaping
  <1>5. proc'[w].pc \notin Escaping
    <2>1. Done(w) => proc'[w].pc \notin Escaping
      BY DEF Done, Idle, Fresh, Escaping, TypeOK
    <2>2. ASSUME NEW pc \in {"checking", "noting", "noted", "clearing"}, Goto(w, pc)
          PROVE  proc'[w].pc \notin Escaping
      BY <2>2, GotoMoves DEF Escaping
    <2>3. ASSUME LockAndCount(w) PROVE proc'[w].pc \notin Escaping
      <3>1. proc'[w].pc \in {"noting", "reading"}
        BY <2>3 DEF LockAndCount, TypeOK, Proc
      <3>2. QED
        BY <3>1 DEF Escaping
    <2>4. QED
      BY <2>1, <2>2, <2>3
         DEF Noting, CannotLock, ReadCurrent, NoteCrash, SyncNote, SyncStamp,
             ClearHistories, Unlock
  <1>6. QED
    BY <1>1, <1>2, <1>3, <1>4, <1>5 DEF Calm

(* So is everything the environment does short of a boot. *)
LEMMA EnvironmentIsCalm ==
    ASSUME TypeOK, Environment, ~Reboot, ~PowerLoss
    PROVE  Calm
  <1>1. CASE Tick \/ StepBack \/ TouchUpgrading
    BY <1>1 DEF Tick, StepBack, TouchUpgrading, node, env, observed, Calm
  <1>2. CASE RemoveUpgrading
    BY <1>2, RemovalMoves DEF RemoveUpgrading, env, observed, Calm
  <1>3. CASE EditChoice
    <2>1. disk'.last = disk.last
      BY <1>3 DEF EditChoice, WriteChoice, TypeOK
    <2>2. QED
      BY <1>3, <2>1 DEF EditChoice, observed, Calm
  <1>4. QED
    BY <1>1, <1>2, <1>3 DEF Environment

(* A calm step leaves the stamp as good as it was. *)
LEMMA CalmStep ==
    ASSUME BootStamped, Calm
    PROVE  BootStamped'
  <1>1. LastBoot' = LastBoot /\ Unstamped' = Unstamped
    BY DEF Calm, LastBoot, Unstamped, Escaping
  <1>2. QED
    BY <1>1 DEF Calm, BootStamped, Escaping, At

(* The steps of an escape, and a reboot that waits for it. *)
LEMMA BootStampedStep ==
    ASSUME Uninterrupted, BootIdKnown, TypeOK, OneRecorder, BootStamped, [Next]_vars
    PROVE  BootStamped'
  <1>1. ASSUME NEW w \in Wrapper, CheckBlocked(w) PROVE BootStamped'
    <2>1. /\ switches' = switches /\ disk' = disk /\ boot' = boot
          /\ At(w, "checking") /\ ~IO
          /\ Goto(w, IF EscapeBlocked(upgrading, disk.last, proc[w].entry.at)
                     THEN "noting" ELSE "switching")
      BY <1>1 DEF CheckBlocked, node, env, observed, Uninterrupted, IO
    <2>2. /\ \A v \in Wrapper \ {w} : proc'[v] = proc[v]
          /\ proc'[w].pc = IF EscapeBlocked(upgrading, disk.last, proc[w].entry.at)
                           THEN "noting" ELSE "switching"
      BY <2>1 DEF Goto, TypeOK, Proc
    <2>3. \A v \in Wrapper \ {w} : proc[v].pc \notin Escaping
      BY <2>1 DEF OneRecorder, Holds, At, Recording, Escaping
    <2>4. ~Unstamped /\ ~Unstamped'
      BY <2>1, <2>2, <2>3 DEF Unstamped, At, Escaping
    <2>5. LastBoot' = LastBoot
      BY <2>1 DEF LastBoot
    <2>6. LastBoot \in Nat /\ LastBoot <= boot
      BY LastOfSwitches DEF BootStamped, TypeOK
    <2>7. At(w, "switching")' => LastBoot < boot
      BY <2>2, <2>4, <2>6 DEF At, EscapeBlocked, BootStamped, TypeOK
    <2>8. QED
      BY <2>1, <2>2, <2>3, <2>4, <2>5, <2>7 DEF BootStamped, At, Escaping
  <1>2. ASSUME NEW w \in Wrapper, SwitchChoice(w) PROVE BootStamped'
    <2> DEFINE this == [at |-> proc[w].entry.at, boot |-> boot,
                        from |-> proc[w].allele, crashes |-> proc[w].recent]
    <2>1. /\ switches' = Append(switches, this) /\ boot' = boot
          /\ At(w, "switching") /\ Goto(w, "switched")
      BY <1>2 DEF SwitchChoice, env, Uninterrupted, IO
    <2>2. /\ \A v \in Wrapper \ {w} : proc'[v] = proc[v]
          /\ proc'[w].pc = "switched"
      BY <2>1 DEF Goto, TypeOK, Proc
    <2>3. \A v \in Wrapper \ {w} : proc[v].pc \notin Escaping
      BY <2>1 DEF OneRecorder, Holds, At, Recording, Escaping
    <2>4. Unstamped'
      BY <2>2 DEF Unstamped
    <2>5. LastBoot' = boot
      BY <2>1 DEF LastBoot, TypeOK
    <2>6. \A i \in DOMAIN switches' : switches'[i].boot <= boot'
      BY <2>1 DEF BootStamped, TypeOK
    <2>7. QED
      BY <2>1, <2>2, <2>3, <2>4, <2>5, <2>6 DEF BootStamped, At, Escaping
  <1>3. ASSUME NEW w \in Wrapper, SyncSwitch(w) PROVE BootStamped'
    <2>1. /\ switches' = switches /\ boot' = boot /\ disk' = disk
          /\ At(w, "switched") /\ Goto(w, "stamping")
      BY <1>3 DEF SyncSwitch, env, observed, Uninterrupted, IO
    <2>2. /\ \A v \in Wrapper \ {w} : proc'[v] = proc[v]
          /\ proc'[w].pc = "stamping"
      BY <2>1 DEF Goto, TypeOK, Proc
    <2>3. LastBoot' = LastBoot /\ Unstamped'
      BY <2>1, <2>2 DEF LastBoot, Unstamped
    <2>4. QED
      BY <2>1, <2>2, <2>3 DEF BootStamped, At
  <1>4. ASSUME NEW w \in Wrapper, StampEscape(w) PROVE BootStamped'
    <2>1. /\ switches' = switches /\ boot' = boot /\ At(w, "stamping")
          /\ WriteStamp([written |-> TRUE, at |-> proc[w].entry.at,
                         boot |-> IF BootIdKnown THEN boot ELSE 0])
          /\ Goto(w, "stamped")
      BY <1>4 DEF StampEscape, env, observed, Uninterrupted, IO
    <2>2. /\ \A v \in Wrapper \ {w} : proc'[v] = proc[v]
          /\ proc'[w].pc = "stamped"
      BY <2>1 DEF Goto, TypeOK, Proc
    <2>3. \A v \in Wrapper \ {w} : proc[v].pc \notin Escaping
      BY <2>1 DEF OneRecorder, Holds, At, Recording, Escaping
    <2>4. disk'.last.written /\ disk'.last.boot = boot
      BY <2>1, BootIdKnown DEF WriteStamp, TypeOK
    <2>5. LastBoot' = LastBoot /\ LastBoot = boot
      BY <2>1 DEF LastBoot, BootStamped, At
    <2>6. QED
      BY <2>1, <2>2, <2>3, <2>4, <2>5 DEF BootStamped, At, Escaping
  <1>5. ASSUME Reboot PROVE BootStamped'
    <2>1. LastBoot' = LastBoot
      BY <1>5 DEF Reboot, Boot, LastBoot, observed
    <2>2. ~Unstamped /\ \A v \in Wrapper : proc'[v].pc = "down"
      BY <1>5 DEF Reboot, Boot, Unstamped, Idle, Fresh
    <2>3. ~Unstamped'
      BY <2>2 DEF Unstamped
    <2>4. \A i \in DOMAIN switches : switches[i].boot <= boot'
      <3>1. ASSUME NEW i \in DOMAIN switches PROVE switches[i].boot <= boot'
        <4>1. switches \in Seq(Escape)
          BY DEF TypeOK
        <4>2. switches[i] \in Escape
          BY <4>1
        <4>3. switches[i].boot \in Nat /\ switches[i].boot <= boot
          BY <4>2 DEF Escape, BootStamped
        <4>4. QED
          BY <1>5, <4>3 DEF Reboot, Boot, TypeOK
      <3>2. QED
        BY <3>1
    <2>5. QED
      BY <1>5, <2>1, <2>2, <2>3, <2>4 DEF Reboot, Boot, BootStamped, observed, At
  <1>6. ASSUME NEW w \in Wrapper, Kill(w) PROVE FALSE
    BY <1>6 DEF Kill, Uninterrupted
  <1>7. ~PowerLoss
    BY DEF PowerLoss, Uninterrupted
  <1>8. CASE UNCHANGED vars
    BY <1>8, CalmStep DEF vars, Calm
  <1>9. ASSUME NEW w \in Wrapper, RecordCrash(w) PROVE BootStamped'
    BY <1>1, <1>2, <1>3, <1>4, <1>9, CalmStep, NotingIsCalm DEF RecordCrash, Noting
  <1>10. CASE Environment
    <2>1. CASE Reboot
      BY <1>5, <2>1
    <2>2. CASE ~Reboot
      BY <1>7, <1>10, <2>2, CalmStep, EnvironmentIsCalm
    <2>3. QED
      BY <2>1, <2>2
  <1>11. QED
    BY <1>6, <1>8, <1>9, <1>10, CalmStep, StartIsCalm, SuperviseIsCalm DEF Next

(* A new escape comes in a later boot than all before it. *)
LEMMA OncePerBootStep ==
    ASSUME Uninterrupted, BootIdKnown, TypeOK, BootStamped, OncePerBoot, [Next]_vars
    PROVE  OncePerBoot'
  <1>1. CASE switches' = switches
    BY <1>1 DEF OncePerBoot
  <1>2. ASSUME NEW w \in Wrapper, SwitchChoice(w) PROVE OncePerBoot'
    <2> DEFINE this == [at |-> proc[w].entry.at, boot |-> boot,
                        from |-> proc[w].allele, crashes |-> proc[w].recent]
    <2>1. switches \in Seq(Escape)
      BY DEF TypeOK
    <2>2. switches' = Append(switches, this) /\ At(w, "switching")
      BY <1>2 DEF SwitchChoice, Uninterrupted, IO
    <2>3. LastBoot < boot
      BY <2>2 DEF BootStamped
    <2>4. ASSUME NEW i \in DOMAIN switches PROVE switches[i].boot < boot
      <3>1. switches[i] \in Escape /\ switches # <<>>
        BY <2>1
      <3>2. switches[i].boot \in Nat
        BY <3>1 DEF Escape
      <3>3. LastBoot = switches[Len(switches)].boot /\ LastBoot \in Nat
        BY <3>1, LastOfSwitches
      <3>4. CASE i = Len(switches)
        BY <2>3, <3>3, <3>4
      <3>5. CASE i < Len(switches)
        <4>1. switches[i].boot < LastBoot
          BY <2>1, <3>3, <3>5 DEF OncePerBoot
        <4>2. QED
          BY <2>3, <3>2, <3>3, <4>1 DEF TypeOK
      <3>6. QED
        BY <2>1, <3>4, <3>5
    <2>5. ASSUME NEW i \in DOMAIN switches', NEW j \in DOMAIN switches', i < j
          PROVE  switches'[i].boot < switches'[j].boot
      <3>1. i \in DOMAIN switches /\ switches'[i] = switches[i]
        BY <2>1, <2>2, <2>5
      <3>2. CASE j = Len(switches) + 1
        BY <2>1, <2>2, <2>4, <3>1, <3>2
      <3>3. CASE j # Len(switches) + 1
        BY <2>1, <2>2, <2>5, <3>1, <3>3 DEF OncePerBoot
      <3>4. QED
        BY <3>2, <3>3
    <2>6. QED
      BY <2>5 DEF OncePerBoot
  <1>3. (\E w \in Wrapper : SwitchChoice(w)) \/ switches' = switches
    <2>1. ASSUME NEW w \in Wrapper, CheckBlocked(w) \/ SyncSwitch(w) \/ StampEscape(w)
          PROVE  switches' = switches
      BY <2>1 DEF CheckBlocked, SyncSwitch, StampEscape, observed
    <2>2. ASSUME NEW w \in Wrapper, RecordCrash(w), ~SwitchChoice(w)
          PROVE  switches' = switches
      BY <2>1, <2>2, NotingIsCalm DEF RecordCrash, Noting, Calm
    <2>3. ASSUME NEW w \in Wrapper, Kill(w) PROVE switches' = switches
      BY <2>3 DEF Kill, observed
    <2>4. CASE Environment
      BY <2>4, EnvironmentIsCalm DEF Reboot, PowerLoss, Boot, observed, Calm
    <2>5. CASE UNCHANGED vars
      BY <2>5 DEF vars
    <2>6. QED
      BY <2>2, <2>3, <2>4, <2>5, StartIsCalm, SuperviseIsCalm DEF Next, Calm
  <1>4. QED
    BY <1>1, <1>2, <1>3

(* README: a node escapes at most once per boot - on every node whose kernel has
   a boot id, with any number of containers, any crashes and edits and any clock,
   as long as no I/O error, kill or power loss interrupts an escape. *)
THEOREM EscapesOncePerBoot ==
    ASSUME Uninterrupted, BootIdKnown
    PROVE  Spec => []OncePerBoot
  <1>1. Init => BootStamped /\ OncePerBoot
    <2> SUFFICES ASSUME Init PROVE BootStamped /\ OncePerBoot
      OBVIOUS
    <2>1. switches = <<>> /\ LastBoot = 0 /\ \A w \in Wrapper : proc[w].pc = "down"
      BY DEF Init, LastBoot, Idle, Fresh
    <2>2. QED
      BY <2>1 DEF BootStamped, OncePerBoot, At
  <1>2. TypeOK /\ OneRecorder /\ BootStamped /\ OncePerBoot /\ [Next]_vars
          => BootStamped' /\ OncePerBoot'
    BY BootStampedStep, OncePerBootStep
  <1>3. QED
    BY <1>1, <1>2, TypeCorrect, Exclusion, PTL DEF Spec

---------------------------------------------------------------------------
(* The refinement of NodeAllele: with any number of containers, crashes, reboots
   and upgrades, on every node whose clock never goes back, whose kernel has a
   boot id, whose operator leaves the choice file alone and where no I/O error,
   kill or power loss interrupts an escape. *)

\* Nothing interrupts an escape, sets the clock back or edits the choice.
Undisturbed == Uninterrupted /\ Fault \cap {"clock", "operator"} = {}

\* A crash is judged for an escape only while the node expresses its allele.
Agreed ==
    /\ disk.choice # "bad"
    /\ \A w \in Wrapper :
         proc[w].pc \in {"checking", "switching"} => proc[w].allele = disk.choice

\* A calm step that leaves every recording under way, and time, as they are.
Still == /\ Calm /\ clock' \in Nat /\ clock <= clock'
         /\ \A v \in Wrapper : Holds(v)' => /\ Holds(v)
                                            /\ proc'[v].entry = proc[v].entry
                                            /\ proc'[v].allele = proc[v].allele

\* No recording under way goes on.
Halted == \A v \in Wrapper : Holds(v)' => proc'[v].pc = proc[v].pc

---------------------------------------------------------------------------
(* A wrapper that starts holds nothing. *)
LEMMA StartIsStill ==
    ASSUME TypeOK, NEW w \in Wrapper, Start(w)
    PROVE  Still /\ Halted
  <1>1. clock' = clock /\ clock \in Nat
    BY DEF Start, StartPinned, StartOlder, StartChosen, StartFirst, LinkChoice,
       SyncLink, ReadWinner, env, TypeOK
  <1>2. \A v \in Wrapper \ {w} : proc'[v] = proc[v]
    BY DEF Start, StartPinned, StartOlder, StartChosen, StartFirst, LinkChoice,
       SyncLink, ReadWinner, Express, Done, Goto, TypeOK
  <1>3. ~Holds(w)'
    <2>1. ASSUME NEW a, NEW pin, NEW era, Express(w, a, pin, era)
          PROVE  ~Holds(w)'
      BY <2>1 DEF Express, Done, Idle, Fresh, Holds, Recording, TypeOK
    <2>2. Done(w) => ~Holds(w)'
      BY DEF Done, Idle, Fresh, Holds, Recording, TypeOK
    <2>3. StartFirst(w) => ~Holds(w)'
      BY DEF StartFirst, Fresh, Holds, Recording, TypeOK
    <2>4. Goto(w, "lost") => ~Holds(w)'
      BY DEF Goto, Holds, Recording, TypeOK, Proc
    <2>5. proc' = [proc EXCEPT ![w].pc = "linked", ![w].since = Era] => ~Holds(w)'
      BY DEF Holds, Recording, TypeOK, Proc
    <2>6. QED
      BY <2>1, <2>2, <2>3, <2>4, <2>5
         DEF Start, StartPinned, StartOlder, StartChosen, LinkChoice, SyncLink, ReadWinner
  <1>4. QED
    BY <1>1, <1>2, <1>3, StartIsCalm DEF Still, Halted, Holds

(* Nor does one that supervises its component. *)
LEMMA SuperviseIsStill ==
    ASSUME TypeOK, NEW w \in Wrapper, Supervise(w)
    PROVE  Still /\ Halted
  <1>1. clock' = clock /\ clock \in Nat
    BY DEF Supervise, Mature, Signal, Exit, GraceEnds, FollowTick, KillTimer, Crash,
       env, TypeOK
  <1>2. \A v \in Wrapper \ {w} : proc'[v] = proc[v]
    BY DEF Supervise, Mature, Signal, Exit, GraceEnds, FollowTick, KillTimer, Crash,
       Done, TypeOK
  <1>3. proc[w] \in Proc /\ At(w, "running")
    BY DEF Supervise, Mature, Signal, Exit, GraceEnds, FollowTick, Follows, KillTimer,
       Crash, TypeOK
  <1>4. ~Holds(w)'
    <2>1. CASE Mature(w) \/ Signal(w) \/ FollowTick(w)
      <3>1. proc'[w].pc = proc[w].pc
        BY <2>1, StaysRunning
      <3>2. QED
        BY <1>3, <3>1 DEF At, Holds, Recording
    <2>2. CASE Exit(w) \/ GraceEnds(w) \/ KillTimer(w)
      BY <2>2 DEF Exit, GraceEnds, KillTimer, Done, Idle, Fresh, Holds, Recording, TypeOK
    <2>3. CASE Crash(w)
      <3>1. proc'[w].pc = "crashed"
        BY <1>3, <2>3 DEF Crash, TypeOK, Proc
      <3>2. QED
        BY <3>1 DEF Holds, Recording
    <2>4. QED
      BY <2>1, <2>2, <2>3 DEF Supervise
  <1>5. QED
    BY <1>1, <1>2, <1>4, SuperviseIsCalm DEF Still, Halted, Holds

(* Once its time is read, noting a crash is still too. *)
LEMMA NotingIsStill ==
    ASSUME TypeOK, NEW w \in Wrapper, Noting(w), ~LockAndCount(w)
    PROVE  Still
  <1>1. clock' = clock /\ clock \in Nat
    BY DEF Noting, CannotLock, ReadCurrent, NoteCrash, SyncNote, SyncStamp,
       ClearHistories, env, TypeOK
  <1>2. \A v \in Wrapper \ {w} : proc'[v] = proc[v]
    BY DEF Noting, CannotLock, ReadCurrent, NoteCrash, SyncNote, SyncStamp,
       ClearHistories, Unlock, Done, Goto, TypeOK
  <1>3. Done(w) => ~Holds(w)'
    BY DEF Done, Idle, Fresh, Holds, Recording, TypeOK
  <1>4. ASSUME NEW pc, Goto(w, pc)
        PROVE  proc'[w].entry = proc[w].entry /\ proc'[w].allele = proc[w].allele
    BY <1>4 DEF Goto, TypeOK, Proc
  <1>5. Done(w) \/ (Holds(w) /\ \E pc \in Recording : Goto(w, pc))
    BY DEF Noting, CannotLock, ReadCurrent, NoteCrash, SyncNote, SyncStamp,
       ClearHistories, Unlock, At, Holds, Recording
  <1>6. QED
    BY <1>1, <1>2, <1>3, <1>4, <1>5, NotingIsCalm DEF Still, Holds

(* And so is the environment, but for a boot and a clock set back. *)
LEMMA EnvironmentIsStill ==
    ASSUME Undisturbed, TypeOK, Environment, ~Reboot
    PROVE  Still /\ Halted /\ disk'.choice = disk.choice
  <1>1. ~PowerLoss /\ ~StepBack /\ ~EditChoice
    BY DEF PowerLoss, StepBack, EditChoice, Undisturbed, Uninterrupted
  <1>2. Calm
    BY <1>1, EnvironmentIsCalm
  <1>3. clock' \in Nat /\ clock <= clock' /\ disk'.choice = disk.choice
    BY <1>1 DEF Environment, Tick, TouchUpgrading, RemoveUpgrading, env, node, TypeOK
  <1>4. \A v \in Wrapper : /\ proc'[v].pc = proc[v].pc
                           /\ proc'[v].entry = proc[v].entry
                           /\ proc'[v].allele = proc[v].allele
    <2>1. CASE Tick \/ TouchUpgrading
      BY <2>1 DEF Tick, TouchUpgrading
    <2>2. CASE RemoveUpgrading
      BY <2>2 DEF RemoveUpgrading, TypeOK, Proc
    <2>3. QED
      BY <1>1, <2>1, <2>2 DEF Environment
  <1>5. QED
    BY <1>2, <1>3, <1>4 DEF Still, Halted, Holds

(* A still step leaves the times as good as they were. *)
LEMMA StillStep ==
    ASSUME TypeOK, TypeOK', TimeStamped, Still
    PROVE  TimeStamped'
  <1>1. LastBoot' = LastBoot /\ LastAt' = LastAt /\ Unstamped' = Unstamped
    BY DEF Still, Calm, LastBoot, LastAt, Unstamped, Escaping
  <1>2. \A i \in DOMAIN switches' : switches'[i].at <= clock'
    <2>1. ASSUME NEW i \in DOMAIN switches PROVE switches[i].at <= clock'
      <3>1. switches \in Seq(Escape) /\ clock \in Nat
        BY DEF TypeOK
      <3>2. switches[i] \in Escape
        BY <3>1
      <3>3. switches[i].at \in Nat /\ switches[i].at <= clock
        BY <3>2 DEF Escape, TimeStamped
      <3>4. QED
        BY <3>1, <3>3 DEF Still
    <2>2. QED
      BY <2>1 DEF Still, Calm
  <1>3. ASSUME NEW v \in Wrapper, Holds(v)'
        PROVE  LastAt <= proc'[v].entry.at /\ proc'[v].entry.at <= clock'
    <2>1. Holds(v) /\ proc'[v].entry = proc[v].entry
      BY <1>3 DEF Still
    <2>2. proc[v].entry.at \in Nat /\ clock \in Nat
      BY DEF TypeOK, Proc, Entry
    <2>3. QED
      BY <2>1, <2>2 DEF Still, TimeStamped
  <1>4. ASSUME NEW v \in Wrapper, proc'[v].pc \in Escaping
        PROVE  proc'[v].pc = proc[v].pc /\ proc'[v].entry = proc[v].entry
    BY <1>4 DEF Still, Calm, Holds, Escaping, Recording
  <1>5. disk'.last = disk.last
    BY DEF Still, Calm
  <1>6. QED
    BY <1>1, <1>2, <1>3, <1>4, <1>5 DEF TimeStamped, Escaping, At

(* The recording of a crash starts at the clock, after every escape so far. *)
LEMMA LockAndCountTimed ==
    ASSUME TypeOK, OneRecorder, TimeStamped, NEW w \in Wrapper, LockAndCount(w)
    PROVE  TimeStamped'
  <1>1. /\ switches' = switches /\ disk' = disk /\ clock' = clock
        /\ lock = NoOne
    BY DEF LockAndCount, LockFree, env, observed
  <1>2. \A v \in Wrapper : ~Holds(v)
    BY <1>1 DEF OneRecorder
  <1>3. \A v \in Wrapper \ {w} : proc'[v] = proc[v]
    BY DEF LockAndCount, TypeOK
  <1>4. proc'[w].pc \in {"noting", "reading"} /\ proc'[w].entry.at = clock
    BY DEF LockAndCount, TypeOK, Proc, Entry
  <1>5. LastBoot' = LastBoot /\ LastAt' = LastAt
    BY <1>1 DEF LastBoot, LastAt
  <1>6. ~Unstamped /\ ~Unstamped'
    BY <1>2, <1>3, <1>4 DEF Unstamped, Holds, Recording
  <1>7. LastAt <= clock
    BY LastOfSwitches DEF TimeStamped, TypeOK
  <1>8. \A v \in Wrapper : Holds(v)' => v = w
    BY <1>2, <1>3 DEF Holds
  <1>9. clock <= clock
    BY DEF TypeOK
  <1>10. QED
    BY <1>1, <1>4, <1>5, <1>6, <1>7, <1>8, <1>9 DEF TimeStamped, Holds, Recording, At

(* The four steps of an escape keep its time where the next escape will find it. *)
LEMMA EscapeTimed ==
    ASSUME Undisturbed, TypeOK, OneRecorder, TimeStamped, NEW w \in Wrapper,
           CheckBlocked(w) \/ SwitchChoice(w) \/ SyncSwitch(w) \/ StampEscape(w)
    PROVE  TimeStamped'
  <1>0. clock' = clock /\ clock \in Nat /\ proc[w].entry.at \in Nat /\ ~IO
    BY DEF CheckBlocked, SwitchChoice, SyncSwitch, StampEscape, env, TypeOK, Proc, Entry,
       Undisturbed, Uninterrupted, IO
  <1>1. Holds(w)
    BY DEF CheckBlocked, SwitchChoice, SyncSwitch, StampEscape, At, Holds, Recording
  <1>2. \A v \in Wrapper \ {w} : ~Holds(v)
    BY <1>1 DEF OneRecorder
  <1>3. /\ \A v \in Wrapper \ {w} : proc'[v] = proc[v]
        /\ proc'[w].entry = proc[w].entry
    BY <1>0, GotoMoves DEF CheckBlocked, SwitchChoice, SyncSwitch, StampEscape
  <1>4. \A v \in Wrapper : Holds(v)' => v = w
    BY <1>2, <1>3 DEF Holds
  <1>5. LastAt <= proc[w].entry.at /\ proc[w].entry.at <= clock
    BY <1>1 DEF TimeStamped
  <1>6. CASE CheckBlocked(w)
    <2>1. /\ switches' = switches /\ disk' = disk /\ At(w, "checking")
          /\ proc'[w].pc = IF EscapeBlocked(upgrading, disk.last, proc[w].entry.at)
                           THEN "noting" ELSE "switching"
      BY <1>0, <1>6, GotoMoves DEF CheckBlocked, node, observed
    <2>2. LastBoot' = LastBoot /\ LastAt' = LastAt
      BY <2>1 DEF LastBoot, LastAt
    <2>3. ~Unstamped /\ ~Unstamped'
      BY <1>2, <1>4, <2>1 DEF Unstamped, At, Holds, Recording
    <2>4. LastAt \in Nat /\ Cooldown \in Nat
      BY LastOfSwitches
    <2>5. At(w, "switching")' /\ LastBoot # 0 => LastAt + Cooldown <= proc[w].entry.at
      <3> SUFFICES ASSUME At(w, "switching")', LastBoot # 0
                   PROVE  LastAt + Cooldown <= proc[w].entry.at
        OBVIOUS
      <3>1. ~EscapeBlocked(upgrading, disk.last, proc[w].entry.at)
        BY <2>1 DEF At
      <3>2. disk.last.written /\ disk.last.at = LastAt
        BY <2>3 DEF TimeStamped
      <3>3. ~(proc[w].entry.at - LastAt < Cooldown)
        BY <1>5, <3>1, <3>2 DEF EscapeBlocked
      <3>4. QED
        BY <1>0, <2>4, <3>3
    <2>6. QED
      BY <1>0, <1>3, <1>4, <1>5, <2>1, <2>2, <2>3, <2>5
         DEF TimeStamped, Holds, Recording, At
  <1>7. CASE SwitchChoice(w)
    <2> DEFINE this == [at |-> proc[w].entry.at, boot |-> boot,
                        from |-> proc[w].allele, crashes |-> proc[w].recent]
    <2>1. switches' = Append(switches, this) /\ proc'[w].pc = "switched"
      BY <1>0, <1>7, GotoMoves DEF SwitchChoice
    <2>2. LastAt' = proc[w].entry.at /\ Unstamped'
      BY <2>1 DEF LastAt, Unstamped, TypeOK
    <2>3. \A i \in DOMAIN switches' : switches'[i].at <= clock'
      BY <1>0, <1>5, <2>1 DEF TimeStamped, TypeOK
    <2>4. proc[w].entry.at <= proc[w].entry.at
      BY <1>0
    <2>5. QED
      BY <1>0, <1>3, <1>4, <1>5, <2>1, <2>2, <2>3, <2>4
         DEF TimeStamped, Holds, Recording, At
  <1>8. CASE SyncSwitch(w)
    <2>1. switches' = switches /\ At(w, "switched") /\ proc'[w].pc = "stamping"
      BY <1>0, <1>8, GotoMoves DEF SyncSwitch, observed
    <2>2. LastAt' = LastAt /\ Unstamped'
      BY <2>1 DEF LastAt, Unstamped
    <2>3. QED
      BY <1>0, <1>3, <1>4, <1>5, <2>1, <2>2 DEF TimeStamped, Holds, Recording, At
  <1>9. CASE StampEscape(w)
    <2>1. /\ switches' = switches /\ At(w, "stamping") /\ proc'[w].pc = "stamped"
          /\ WriteStamp([written |-> TRUE, at |-> proc[w].entry.at,
                         boot |-> IF BootIdKnown THEN boot ELSE 0])
      BY <1>0, <1>9, GotoMoves DEF StampEscape, observed
    <2>2. LastAt' = LastAt /\ LastBoot' = LastBoot
      BY <2>1 DEF LastAt, LastBoot
    <2>3. disk'.last.written /\ disk'.last.at = proc[w].entry.at
      BY <2>1 DEF WriteStamp, TypeOK
    <2>4. LastAt = proc[w].entry.at
      BY <2>1 DEF TimeStamped, At
    <2>5. QED
      BY <1>0, <1>3, <1>4, <1>5, <2>1, <2>2, <2>3, <2>4
         DEF TimeStamped, Holds, Recording, At
  <1>10. QED
    BY <1>6, <1>7, <1>8, <1>9

(* An orderly reboot finds no recording under way. *)
LEMMA RebootTimed ==
    ASSUME TypeOK, TimeStamped, Reboot
    PROVE  TimeStamped'
  <1>1. /\ switches' = switches /\ clock' = clock /\ disk' = disk
        /\ \A v \in Wrapper : proc'[v].pc = "down"
    BY DEF Reboot, Boot, observed, Idle, Fresh
  <1>2. LastBoot' = LastBoot /\ LastAt' = LastAt
    BY <1>1 DEF LastBoot, LastAt
  <1>3. ~Unstamped /\ ~Unstamped'
    BY <1>1 DEF Reboot, Unstamped
  <1>4. QED
    BY <1>1, <1>2, <1>3 DEF TimeStamped, Holds, Recording, At

(* Every step keeps the times. *)
LEMMA TimeStampedStep ==
    ASSUME Undisturbed, TypeOK, TypeOK', OneRecorder, TimeStamped, [Next]_vars
    PROVE  TimeStamped'
  <1>1. ASSUME NEW w \in Wrapper, RecordCrash(w) PROVE TimeStamped'
    BY <1>1, LockAndCountTimed, EscapeTimed, NotingIsStill, StillStep
       DEF RecordCrash, Noting
  <1>2. ASSUME NEW w \in Wrapper PROVE ~Kill(w)
    BY DEF Kill, Undisturbed, Uninterrupted
  <1>3. CASE UNCHANGED vars
    BY <1>3, StillStep DEF vars, Still, Calm, TypeOK, Holds
  <1>4. CASE Environment
    BY <1>4, RebootTimed, EnvironmentIsStill, StillStep
  <1>5. QED
    BY <1>1, <1>2, <1>3, <1>4, StartIsStill, SuperviseIsStill, StillStep DEF Next
---------------------------------------------------------------------------
\* The choice of alleles moves as NodeAllele says, or not at all.
Chosen == \/ disk'.choice = disk.choice
          \/ disk.choice = "none" /\ disk'.choice \in Allele

(* Starting makes the first choice and no other. *)
LEMMA StartChooses ==
    ASSUME TypeOK, NEW w \in Wrapper, Start(w)
    PROVE  Chosen
  <1>1. CASE LinkChoice(w)
    <2>1. proc[w].allele \in Allele
      BY DEF TypeOK, Proc
    <2>2. QED
      BY <1>1, <2>1 DEF LinkChoice, WriteChoice, Chosen, TypeOK
  <1>2. CASE ~LinkChoice(w)
    BY <1>2 DEF Start, StartPinned, StartOlder, StartChosen, StartFirst, SyncLink,
       ReadWinner, node, Chosen
  <1>3. QED
    BY <1>1, <1>2

(* Supervising makes no choice. *)
LEMMA SuperviseKeepsChoice ==
    ASSUME TypeOK, NEW w \in Wrapper, Supervise(w)
    PROVE  Chosen
  BY DEF Supervise, Mature, Signal, Exit, GraceEnds, FollowTick, KillTimer, Crash, node,
     Chosen

(* Halted from its switch, recording a crash leaves the choice alone. *)
LEMMA RecordingKeepsChoice ==
    ASSUME TypeOK, NEW w \in Wrapper, RecordCrash(w), ~SwitchChoice(w)
    PROVE  disk'.choice = disk.choice
  BY DEF RecordCrash, LockAndCount, CannotLock, ReadCurrent, CheckBlocked, NoteCrash,
     SyncNote, SyncSwitch, StampEscape, SyncStamp, ClearHistories, node, WriteHistory,
     WriteStamp, TypeOK

\* A switch by w, and where it leaves the choice.
Switched(w) == /\ At(w, "switching") /\ lock = w
               /\ disk'.choice = Other(proc[w].allele)
               /\ switches' = Append(switches, [at |-> proc[w].entry.at, boot |-> boot,
                                                from |-> proc[w].allele,
                                                crashes |-> proc[w].recent])
               /\ boot' = boot

(* Nothing goes wrong with a switch that is not disturbed. *)
LEMMA SwitchSucceeds ==
    ASSUME Undisturbed, TypeOK, OneRecorder, NEW w \in Wrapper, SwitchChoice(w)
    PROVE  Switched(w) /\ Goto(w, "switched")
  <1>1. /\ At(w, "switching") /\ boot' = boot /\ ~IO
        /\ WriteChoice(Other(proc[w].allele)) /\ Goto(w, "switched")
        /\ switches' = Append(switches, [at |-> proc[w].entry.at, boot |-> boot,
                                         from |-> proc[w].allele,
                                         crashes |-> proc[w].recent])
    BY DEF SwitchChoice, env, Undisturbed, Uninterrupted, IO
  <1>2. lock = w
    BY <1>1 DEF OneRecorder, Holds, At, Recording
  <1>3. disk'.choice = Other(proc[w].allele)
    BY <1>1 DEF WriteChoice, TypeOK
  <1>4. QED
    BY <1>1, <1>2, <1>3 DEF Switched

(* Nobody else moves the choice while a crash is judged. *)
LEMMA AgreedStep ==
    ASSUME Undisturbed, TypeOK, OneRecorder, Agreed, [Next]_vars
    PROVE  Agreed'
  <1>1. ASSUME Still, Halted, Chosen PROVE Agreed'
    <2>1. disk'.choice # "bad"
      BY <1>1 DEF Chosen, Agreed, Allele
    <2>2. ASSUME NEW v \in Wrapper, proc'[v].pc \in {"checking", "switching"}
          PROVE  proc'[v].allele = disk'.choice
      <3>1. Holds(v)'
        BY <2>2 DEF Holds, Recording
      <3>2. proc[v].pc \in {"checking", "switching"} /\ proc'[v].allele = proc[v].allele
        BY <1>1, <2>2, <3>1 DEF Still, Halted
      <3>3. proc[v].allele = disk.choice /\ proc[v].allele \in Allele
        BY <3>2 DEF Agreed, TypeOK, Proc
      <3>4. QED
        BY <1>1, <3>2, <3>3 DEF Chosen, Allele
    <2>3. QED
      BY <2>1, <2>2 DEF Agreed
  <1>2. ASSUME NEW w \in Wrapper, RecordCrash(w) PROVE Agreed'
    <2>1. \A v \in Wrapper \ {w} : proc'[v] = proc[v]
      BY <1>2 DEF RecordCrash, LockAndCount, CannotLock, ReadCurrent, CheckBlocked,
         NoteCrash, SyncNote, SwitchChoice, SyncSwitch, StampEscape, SyncStamp,
         ClearHistories, Unlock, Goto, Done, TypeOK
    <2>2. CASE SwitchChoice(w)
      <3>1. Switched(w) /\ Goto(w, "switched")
        BY <2>2, SwitchSucceeds
      <3>2. Other(proc[w].allele) # "bad"
        BY DEF Other
      <3>3. \A v \in Wrapper \ {w} : ~Holds(v)
        BY <3>1 DEF Switched, OneRecorder
      <3>4. proc'[w].pc = "switched"
        BY <3>1 DEF Goto, TypeOK, Proc
      <3>5. QED
        BY <2>1, <3>1, <3>2, <3>3, <3>4 DEF Switched, Agreed, Holds, Recording
    <2>3. CASE ~SwitchChoice(w)
      <3>1. disk'.choice = disk.choice
        BY <1>2, <2>3, RecordingKeepsChoice
      <3>2. proc'[w].pc \in {"checking", "switching"} => proc'[w].allele = disk.choice
        <4>1. CASE CannotLock(w) \/ NoteCrash(w) \/ SyncNote(w) \/ SyncSwitch(w)
                   \/ StampEscape(w) \/ SyncStamp(w) \/ ClearHistories(w)
          <5>1. Done(w) => proc'[w].pc = "down"
            BY DEF Done, Idle, Fresh, TypeOK
          <5>2. ASSUME NEW pc, Goto(w, pc) PROVE proc'[w].pc = pc
            BY <5>2 DEF Goto, TypeOK, Proc
          <5>3. QED
            BY <4>1, <5>1, <5>2 DEF CannotLock, NoteCrash, SyncNote, SyncSwitch,
               StampEscape, SyncStamp, ClearHistories, Unlock
        <4>2. CASE LockAndCount(w)
          <5>1. proc'[w].pc \in {"noting", "reading"}
            BY <4>2 DEF LockAndCount, TypeOK, Proc
          <5>2. QED
            BY <5>1
        <4>3. CASE ReadCurrent(w)
          BY <4>3 DEF ReadCurrent, Goto, TypeOK, Proc
        <4>4. CASE CheckBlocked(w)
          <5>1. At(w, "checking") /\ proc'[w].allele = proc[w].allele
            BY <4>4 DEF CheckBlocked, Goto, TypeOK, Proc
          <5>2. QED
            BY <5>1 DEF Agreed, At
        <4>5. QED
          BY <1>2, <2>3, <4>1, <4>2, <4>3, <4>4 DEF RecordCrash
      <3>3. QED
        BY <2>1, <3>1, <3>2 DEF Agreed
    <2>4. QED
      BY <2>2, <2>3
  <1>3. CASE Reboot
    BY <1>3 DEF Reboot, Boot, Idle, Fresh, Agreed
  <1>4. ASSUME Environment, ~Reboot PROVE Agreed'
    BY <1>1, <1>4, EnvironmentIsStill DEF Chosen
  <1>5. ASSUME NEW w \in Wrapper PROVE ~Kill(w)
    BY DEF Kill, Undisturbed, Uninterrupted
  <1>6. CASE UNCHANGED vars
    BY <1>6 DEF vars, Agreed
  <1>7. QED
    BY <1>1, <1>2, <1>3, <1>4, <1>5, <1>6, StartIsStill, SuperviseIsStill,
       StartChooses, SuperviseKeepsChoice DEF Next
---------------------------------------------------------------------------
\* What a node never leaves: every part of the argument at once.
Sound == TypeOK /\ OneRecorder /\ BootStamped /\ TimeStamped /\ Agreed

(* A calm step is the first choice or nothing an operator would see. *)
LEMMA CalmMaps ==
    ASSUME TypeOK, Calm, Chosen
    PROVE  [Promise!Next]_Promise!vars
  <1>1. boot' = boot /\ LastBoot' = LastBoot /\ LastAt' = LastAt
    BY DEF Calm, LastBoot, LastAt
  <1>2. CASE disk'.choice = disk.choice
    BY <1>1, <1>2 DEF Promise!vars
  <1>3. CASE disk.choice = "none" /\ disk'.choice \in Allele
    BY <1>1, <1>3 DEF Promise!Next, Promise!Inactivate, Allele
  <1>4. QED
    BY <1>2, <1>3 DEF Chosen

(* The lock holder's switch is an escape of the node. *)
LEMMA SwitchMaps ==
    ASSUME Undisturbed, Sound, NEW w \in Wrapper, SwitchChoice(w)
    PROVE  Promise!Escape
  <1>1. Switched(w)
    BY SwitchSucceeds DEF Sound
  <1>2. proc[w].allele = disk.choice /\ disk.choice \in Allele
    BY <1>1 DEF Sound, Agreed, TypeOK, Proc, Switched, At
  <1>3. disk'.choice \in {"Xm", "Xp"} \ {disk.choice}
    BY <1>1, <1>2 DEF Switched, Other, Allele
  <1>4. LastBoot' = boot /\ LastAt' = proc[w].entry.at
    BY <1>1 DEF Switched, LastBoot, LastAt, Sound, TypeOK
  <1>5. LastBoot < boot
    BY <1>1 DEF Switched, Sound, BootStamped
  <1>6. LastBoot = 0 \/ LastAt + Cooldown <= proc[w].entry.at
    BY <1>1 DEF Switched, Sound, TimeStamped
  <1>7. LastAt \in Nat /\ Cooldown \in Nat /\ proc[w].entry.at \in Nat
    BY LastOfSwitches DEF Sound, TypeOK, Proc, Entry
  <1>8. QED
    BY <1>1, <1>2, <1>3, <1>4, <1>5, <1>6, <1>7 DEF Promise!Escape, Switched, Allele

(* Every step of the node is a step of the promise, or one it does not see. *)
LEMMA StepMaps ==
    ASSUME Undisturbed, BootIdKnown, Sound, [Next]_vars
    PROVE  [Promise!Next]_Promise!vars
  <1>1. ASSUME NEW w \in Wrapper, RecordCrash(w) PROVE [Promise!Next]_Promise!vars
    <2>1. CASE SwitchChoice(w)
      BY <2>1, SwitchMaps DEF Promise!Next
    <2>2. CASE ~SwitchChoice(w)
      <3>1. disk'.choice = disk.choice
        BY <1>1, <2>2, RecordingKeepsChoice DEF Sound
      <3>2. boot' = boot
        BY <1>1 DEF RecordCrash, LockAndCount, CannotLock, ReadCurrent, CheckBlocked,
           NoteCrash, SyncNote, SwitchChoice, SyncSwitch, StampEscape, SyncStamp,
           ClearHistories, env
      <3>3. switches' = switches
        BY <1>1, <2>2 DEF RecordCrash, LockAndCount, CannotLock, ReadCurrent,
           CheckBlocked, NoteCrash, SyncNote, SyncSwitch, StampEscape, SyncStamp,
           ClearHistories, observed
      <3>4. QED
        BY <3>1, <3>2, <3>3 DEF Promise!vars, LastBoot, LastAt
    <2>3. QED
      BY <2>1, <2>2
  <1>2. CASE Reboot
    BY <1>2 DEF Reboot, Boot, observed, LastBoot, LastAt, Promise!Next, Promise!Reboot
  <1>3. ASSUME Environment, ~Reboot PROVE [Promise!Next]_Promise!vars
    BY <1>3, EnvironmentIsStill, CalmMaps DEF Sound, Still, Chosen
  <1>4. ASSUME NEW w \in Wrapper PROVE ~Kill(w)
    BY DEF Kill, Undisturbed, Uninterrupted
  <1>5. CASE UNCHANGED vars
    BY <1>5 DEF vars, Promise!vars, LastBoot, LastAt
  <1>6. QED
    BY <1>1, <1>2, <1>3, <1>4, <1>5, StartIsCalm, SuperviseIsCalm, StartChooses,
       SuperviseKeepsChoice, CalmMaps DEF Next, Sound

(* README: the allele is chosen once, at the node's first boot, and left only by
   an escape, at most once per boot and a Cooldown after the escape before.  The
   wrappers, their lock and their files keep that promise, whatever crashes. *)
THEOREM NodeKeepsItsPromise ==
    ASSUME Undisturbed, BootIdKnown
    PROVE  Spec => ImplementsNodeAllele
  <1>1. Init /\ TypeOK => Sound /\ Promise!Init
    <2> SUFFICES ASSUME Init, TypeOK PROVE Sound /\ Promise!Init
      OBVIOUS
    <2>1. /\ switches = <<>> /\ LastBoot = 0 /\ LastAt = 0
          /\ \A w \in Wrapper : proc[w].pc = "down"
      BY DEF Init, LastBoot, LastAt, Idle, Fresh
    <2>2. QED
      BY <2>1 DEF Init, Sound, OneRecorder, BootStamped, TimeStamped, Agreed,
         Holds, Recording, At, Promise!Init
  <1>2. Sound /\ TypeOK' /\ [Next]_vars => Sound'
    BY RecorderStep, BootStampedStep, TimeStampedStep, AgreedStep DEF Sound, Undisturbed
  <1>3. Sound /\ [Next]_vars => [Promise!Next]_Promise!vars
    BY StepMaps
  <1>4. QED
    BY <1>1, <1>2, <1>3, TypeCorrect, PTL
       DEF Spec, ImplementsNodeAllele, Promise!Spec
=============================================================================
