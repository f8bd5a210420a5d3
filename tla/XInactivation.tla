--------------------------- MODULE XInactivation ---------------------------
(***************************************************************************)
(* One control-plane node: its inactivation state on disk (the Cell of     *)
(* cell.go) and the wrappers that start, supervise and follow it (main.go).*)
(*                                                                         *)
(* A step of a wrapper is one system call whose effect another process, a  *)
(* kill or a power loss can see.  A directory operation (link, rename,     *)
(* unlink) is visible at once and durable only after the directory is      *)
(* synced: disk is what processes read, kept what may be found after a     *)
(* power loss.                                                             *)
(***************************************************************************)
EXTENDS Naturals, FiniteSets, Sequences

CONSTANTS
    Wrapper,        \* containers on the node, one x-inactivation process each
    Apiserver,      \* those installed as kube-apiserver, the only mosaic component
    Pin,            \* alleles a manifest may set in KYVERNETRIA_ALLELE
    XpMinorKnown,   \* the image tells which minor an Xm apiserver emulates
    BootIdKnown,    \* the kernel provides a boot id
    EscapeCrashes, EscapeWindow, Cooldown,
    Fault,          \* which of Faults the environment may inflict
    NoOne,          \* nobody holds the lock
    MaxClock, MaxBoot, MaxCrashes, MaxEdits     \* bounds of the exploration

Allele == {"Xm", "Xp"}
Other(a) == IF a = "Xm" THEN "Xp" ELSE "Xm"
Faults == {"io", "kill", "power", "clock", "operator"}

ASSUME ApiserverAssumption == Apiserver \subseteq Wrapper
ASSUME PinAssumption == Pin \subseteq Allele
ASSUME FlagAssumption == XpMinorKnown \in BOOLEAN /\ BootIdKnown \in BOOLEAN
\* newWrapper falls back to 5 below two crashes; durations are positive.
ASSUME ThresholdAssumption == /\ EscapeCrashes \in Nat /\ EscapeCrashes >= 2
                              /\ EscapeWindow \in Nat /\ Cooldown \in Nat \ {0}
ASSUME FaultAssumption == Fault \subseteq Faults
ASSUME NoOneAssumption == NoOne \notin Wrapper
ASSUME BoundAssumption == {MaxClock, MaxBoot, MaxCrashes, MaxEdits} \subseteq Nat

VARIABLES
    proc,       \* per wrapper: its program counter and local variables
    lock,       \* holder of the flock on .lock
    disk,       \* the state directory as processes see it
    kept,       \* per file, the contents a power loss may leave behind
    upgrading,  \* the operator's flag file exists
    clock, boot,
    crashes, edits,     \* how many crashes and operator edits there were
    switches,   \* observed: every change of the choice by RecordCrash
    counted,    \* observed: crashes reported as recorded, since the last clear
    lineage     \* observed: the unpinned apiserver starts, by era and allele

node == <<lock, disk, kept, upgrading>>
env == <<clock, boot, crashes, edits>>
observed == <<switches, counted, lineage>>
vars == <<proc, lock, disk, kept, upgrading, clock, boot, crashes, edits,
          switches, counted, lineage>>

Choice == Allele \cup {"none", "bad"}
Entry == [id : Nat, at : Nat, on : Allele]      \* a crash; on and id are not in the file
Stamp == [written : BOOLEAN, at : Nat, boot : Nat]
Escape == [at : Nat, boot : Nat, from : Allele, crashes : SUBSET Entry]
NoEntry == [id |-> 0, at |-> 0, on |-> "Xp"]
NoStamp == [written |-> FALSE, at |-> 0, boot |-> 0]

Starting == {"picked", "linked", "lost"}
Recording == {"reading", "checking", "noting", "noted", "switching", "switched",
              "stamping", "stamped", "clearing"}
Location == {"down", "running", "crashed"} \cup Starting \cup Recording

\* asked is observed: kubelet asked the container to stop; so is since: the era
\* of the choice a first starter published.
Proc == [pc : Location, allele : Allele, pinned : BOOLEAN, stopping : BOOLEAN,
         asked : BOOLEAN, killing : BOOLEAN, mature : BOOLEAN, since : Nat,
         entry : Entry, recent : SUBSET Entry, sawFlag : BOOLEAN]

Fresh(pc, a, pin) ==
    [pc |-> pc, allele |-> a, pinned |-> pin, stopping |-> FALSE, asked |-> FALSE,
     killing |-> FALSE, mature |-> FALSE, since |-> 0, entry |-> NoEntry,
     recent |-> {}, sawFlag |-> FALSE]
Idle == Fresh("down", "Xp", FALSE)

At(w, pc) == proc[w].pc = pc
Goto(w, pc) == proc' = [proc EXCEPT ![w].pc = pc]
Done(w) == proc' = [proc EXCEPT ![w] = Idle]
IO == "io" \in Fault

\* An era lasts from one escape or operator's edit to the next.
Era == Len(switches) + edits

---------------------------------------------------------------------------
\* The state directory.

WriteChoice(a) == /\ disk' = [disk EXCEPT !.choice = a]
                  /\ kept' = [kept EXCEPT !.choice = @ \cup {a}]
WriteHistory(h) == /\ disk' = [disk EXCEPT !.history = h]
                   /\ kept' = [kept EXCEPT !.history = @ \cup {h}]
WriteStamp(s) == /\ disk' = [disk EXCEPT !.last = s]
                 /\ kept' = [kept EXCEPT !.last = @ \cup {s}]

\* The files of directory d, and nothing older, survive a power loss.
KeptOf(d) == [choice |-> {d.choice}, history |-> {d.history}, last |-> {d.last}]

\* Wrong form: the directory is never synced.
NeverSynced == UNCHANGED kept
\* syncDir: what the directory holds now survives a power loss.
SyncDir == kept' = KeptOf(disk)

\* Wrong form: every crash ever noted counts.
RecentAll(h, t) == h
\* recent: the entries of the window before t; later ones mean the clock was
\* stepped back.
Recent(h, t) == {e \in h : e.at <= t /\ t - e.at <= EscapeWindow}

\* Wrong form: the histories survive the escape.
Uncleared(h) == h
\* clearHistories
Cleared(h) == {}

\* Wrong forms of the next operator: each forgets one of the reasons.
BlockedUnlessFlag(flag, s, t) ==
    s.written /\ (s.boot = boot \/ (s.at <= t /\ t - s.at < Cooldown))
BlockedUnlessBoot(flag, s, t) ==
    flag \/ (s.written /\ s.at <= t /\ t - s.at < Cooldown)
BlockedUnlessCooling(flag, s, t) == flag \/ (s.written /\ s.boot = boot)
\* escapeBlocked, from the flag and the stamp s as they were read: a stamp
\* without boot id has boot 0, and boots count from 1.
EscapeBlocked(flag, s, t) ==
    \/ flag
    \/ s.written /\ s.boot = boot
    \/ s.written /\ s.at <= t /\ t - s.at < Cooldown

---------------------------------------------------------------------------
\* Starting: choose, Expressed and the start of supervise.

\* w starts on a, as it found the node in era.
Express(w, a, pin, era) ==
    IF w \in Apiserver /\ a = "Xm" /\ ~XpMinorKnown
    THEN Done(w) /\ UNCHANGED lineage           \* withEmulation refuses
    ELSE /\ proc' = [proc EXCEPT ![w] = Fresh("running", a, pin)]
         /\ lineage' = IF w \in Apiserver /\ ~pin
                       THEN lineage \cup {[era |-> era, on |-> a]} ELSE lineage

StartPinned(w) ==
    /\ At(w, "down")
    /\ \E a \in Pin : Express(w, a, TRUE, Era)
    /\ UNCHANGED <<node, env, switches, counted>>

StartOlder(w) ==
    /\ At(w, "down") /\ w \notin Apiserver
    /\ Express(w, "Xp", FALSE, Era)
    /\ UNCHANGED <<node, env, switches, counted>>

\* A choice that cannot be parsed refuses the start: no step.
StartChosen(w) ==
    /\ At(w, "down") /\ w \in Apiserver /\ disk.choice \in Allele
    /\ Express(w, disk.choice, FALSE, Era)
    /\ UNCHANGED <<node, env, switches, counted>>

StartFirst(w) ==
    /\ At(w, "down") /\ w \in Apiserver /\ disk.choice = "none"
    /\ \E a \in Allele : proc' = [proc EXCEPT ![w] = Fresh("picked", a, FALSE)]
    /\ UNCHANGED <<node, env, observed>>

\* Wrong form: publish the choice with rename(2), which replaces.
RenameChoice(w) ==
    /\ At(w, "picked")
    /\ WriteChoice(proc[w].allele)
    /\ proc' = [proc EXCEPT ![w].pc = "linked", ![w].since = Era]
    /\ UNCHANGED <<lock, upgrading, env, observed>>

LinkChoice(w) ==
    /\ At(w, "picked")
    /\ \/ /\ disk.choice = "none"
          /\ WriteChoice(proc[w].allele)
          /\ proc' = [proc EXCEPT ![w].pc = "linked", ![w].since = Era]
       \/ /\ disk.choice # "none"
          /\ Goto(w, "lost") /\ UNCHANGED <<disk, kept>>
       \/ IO /\ Done(w) /\ UNCHANGED <<disk, kept>>
    /\ UNCHANGED <<lock, upgrading, env, observed>>

SyncLink(w) ==
    /\ At(w, "linked")
    /\ \/ SyncDir /\ Express(w, proc[w].allele, FALSE, proc[w].since)
       \/ IO /\ Done(w) /\ UNCHANGED <<kept, lineage>>
    /\ UNCHANGED <<lock, disk, upgrading, env, switches, counted>>

\* Wrong form: a starter that lost the race keeps its own pick.
KeepPick(w) ==
    /\ At(w, "lost")
    /\ Express(w, proc[w].allele, FALSE, Era)
    /\ UNCHANGED <<node, env, switches, counted>>

\* A starter that lost the race takes what the winner published.
ReadWinner(w) ==
    /\ At(w, "lost")
    /\ IF disk.choice \in Allele THEN Express(w, disk.choice, FALSE, Era)
                                 ELSE Done(w) /\ UNCHANGED lineage
    /\ UNCHANGED <<node, env, switches, counted>>

---------------------------------------------------------------------------
\* Supervising: the select loop of supervise and the verdict of exited.

\* The component has run for KYVERNETRIA_CRASH_UPTIME.
Mature(w) ==
    /\ At(w, "running") /\ ~proc[w].mature
    /\ proc' = [proc EXCEPT ![w].mature = TRUE]
    /\ UNCHANGED <<node, env, observed>>

\* Kubelet, the only one to signal a wrapper, stops the container, which may
\* already be stopping to follow a switch; the wrapper forwards the signal.
Signal(w) ==
    /\ At(w, "running") /\ ~proc[w].asked
    /\ proc' = [proc EXCEPT ![w].stopping = TRUE, ![w].asked = TRUE]
    /\ UNCHANGED <<node, env, observed>>

\* The component exits and exited does not count it: a clean exit, a stop that
\* was asked for, a failure after a long run, or a component that never escapes.
Exit(w) ==
    /\ At(w, "running")
    /\ Done(w)
    /\ UNCHANGED <<node, env, observed>>

\* Kubelet's grace period ends: it kills the container it asked to stop, and
\* knows nothing of a stop the wrapper decided on.
GraceEnds(w) ==
    /\ At(w, "running") /\ proc[w].asked
    /\ Done(w)
    /\ UNCHANGED <<node, env, observed>>

Follows(w) == At(w, "running") /\ w \in Apiserver /\ ~proc[w].pinned
              /\ ~proc[w].stopping

\* Wrong form: SIGTERM without a timer for SIGKILL.
FollowPolitely(w) ==
    /\ Follows(w)
    /\ disk.choice \in Allele \ {proc[w].allele}
    /\ proc' = [proc EXCEPT ![w].stopping = TRUE]
    /\ UNCHANGED <<node, env, observed>>

\* The ticker reads the choice; an unreadable one keeps the allele.
FollowTick(w) ==
    /\ Follows(w)
    /\ disk.choice \in Allele \ {proc[w].allele}
    /\ proc' = [proc EXCEPT ![w].stopping = TRUE, ![w].killing = TRUE]
    /\ UNCHANGED <<node, env, observed>>

\* stopTimeout after the wrapper's own SIGTERM: SIGKILL, and the exit is not counted.
KillTimer(w) ==
    /\ At(w, "running") /\ proc[w].killing
    /\ Done(w)
    /\ UNCHANGED <<node, env, observed>>

\* A non-zero exit or a signal soon after the start, or a failing cmd.Start.
Crash(w) ==
    /\ At(w, "running") /\ w \in Apiserver
    /\ ~proc[w].pinned /\ ~proc[w].stopping /\ ~proc[w].mature
    /\ crashes < MaxCrashes
    /\ crashes' = crashes + 1
    /\ proc' = [proc EXCEPT ![w].pc = "crashed",
                            ![w].entry = [id |-> crashes + 1, at |-> 0,
                                          on |-> proc[w].allele]]
    /\ UNCHANGED <<node, clock, boot, edits, observed>>

---------------------------------------------------------------------------
\* RecordCrash, under an exclusive lock on the state directory.

\* Wrong form: the lock excludes nobody.
NoExclusion == TRUE
LockFree == lock = NoOne

Unlock(w) == lock' = NoOne /\ Done(w)

\* lock, Now and recent.  An unreadable history counts as empty.
LockAndCount(w) ==
    /\ At(w, "crashed") /\ LockFree
    /\ \E seen \in {disk.history} \cup (IF IO THEN {{}} ELSE {}) :
         LET this == [proc[w].entry EXCEPT !.at = clock]
             recent == Recent(seen, clock) \cup {this}
         IN  proc' = [proc EXCEPT
               ![w].pc = IF Cardinality(recent) < EscapeCrashes
                         THEN "noting" ELSE "reading",
               ![w].entry = this, ![w].recent = recent, ![w].sawFlag = upgrading]
    /\ lock' = w
    /\ UNCHANGED <<disk, kept, upgrading, env, observed>>

\* MkdirAll or lock fails: the crash is not recorded.
CannotLock(w) ==
    /\ At(w, "crashed") /\ IO
    /\ Done(w)
    /\ UNCHANGED <<node, env, observed>>

\* Only a crash of the allele the node still expresses may switch it.
ReadCurrent(w) ==
    /\ At(w, "reading")
    /\ \/ disk.choice = proc[w].allele /\ Goto(w, "checking")
       \/ (disk.choice # proc[w].allele \/ IO) /\ Goto(w, "noting")
    /\ UNCHANGED <<node, env, observed>>

\* Any error of os.Stat means there is no flag, and an unreadable last-escape
\* blocks nothing.
CheckBlocked(w) ==
    /\ At(w, "checking")
    /\ \E flag \in {upgrading} \cup (IF IO THEN {FALSE} ELSE {}),
          last \in {disk.last} \cup (IF IO THEN {NoStamp} ELSE {}) :
         Goto(w, IF EscapeBlocked(flag, last, proc[w].entry.at)
                 THEN "noting" ELSE "switching")
    /\ UNCHANGED <<node, env, observed>>

NoteCrash(w) ==
    /\ At(w, "noting")
    /\ \/ WriteHistory(proc[w].recent) /\ Goto(w, "noted") /\ UNCHANGED lock
       \/ IO /\ Unlock(w) /\ UNCHANGED <<disk, kept>>
    /\ UNCHANGED <<upgrading, env, observed>>

SyncNote(w) ==
    /\ At(w, "noted")
    /\ Unlock(w)
    /\ \/ SyncDir /\ counted' = counted \cup {proc[w].entry}
       \/ IO /\ UNCHANGED <<kept, counted>>
    /\ UNCHANGED <<disk, upgrading, env, switches, lineage>>

SwitchChoice(w) ==
    /\ At(w, "switching")
    /\ \/ /\ WriteChoice(Other(proc[w].allele))
          /\ Goto(w, "switched")
          /\ switches' = Append(switches, [at |-> proc[w].entry.at, boot |-> boot,
                                           from |-> proc[w].allele,
                                           crashes |-> proc[w].recent])
          /\ UNCHANGED lock
       \/ IO /\ Unlock(w) /\ UNCHANGED <<disk, kept, switches>>
    /\ UNCHANGED <<upgrading, env, counted, lineage>>

\* A failing sync returns before the stamp: the choice has moved all the same.
SyncSwitch(w) ==
    /\ At(w, "switched")
    /\ \/ SyncDir /\ Goto(w, "stamping") /\ UNCHANGED lock
       \/ IO /\ Unlock(w) /\ UNCHANGED kept
    /\ UNCHANGED <<disk, upgrading, env, observed>>

\* A failing stamp does not stop the steps that follow.
StampEscape(w) ==
    /\ At(w, "stamping")
    /\ \/ /\ WriteStamp([written |-> TRUE, at |-> proc[w].entry.at,
                         boot |-> IF BootIdKnown THEN boot ELSE 0])
          /\ Goto(w, "stamped")
       \/ IO /\ Goto(w, "clearing") /\ UNCHANGED <<disk, kept>>
    /\ UNCHANGED <<lock, upgrading, env, observed>>

SyncStamp(w) ==
    /\ At(w, "stamped")
    /\ SyncDir \/ (IO /\ UNCHANGED kept)
    /\ Goto(w, "clearing")
    /\ UNCHANGED <<lock, disk, upgrading, env, observed>>

\* Unlinked, not synced; the line in the escapes log changes nothing here.
ClearHistories(w) ==
    /\ At(w, "clearing")
    /\ Unlock(w)
    /\ \/ WriteHistory(Cleared(disk.history)) /\ counted' = {}
       \/ IO /\ UNCHANGED <<disk, kept, counted>>
    /\ UNCHANGED <<upgrading, env, switches, lineage>>

---------------------------------------------------------------------------
\* The environment.

\* The container is killed without notice; the kernel drops its lock.
Kill(w) ==
    /\ "kill" \in Fault /\ ~At(w, "down")
    /\ Done(w)
    /\ lock' = IF lock = w THEN NoOne ELSE lock
    /\ UNCHANGED <<disk, kept, upgrading, env, observed>>

Boot == /\ boot < MaxBoot
        /\ boot' = boot + 1
        /\ proc' = [w \in Wrapper |-> Idle]
        /\ lock' = NoOne
        /\ UNCHANGED <<upgrading, clock, crashes, edits, observed>>

\* An orderly reboot lets a recording finish and unmounts the disk.
Reboot == /\ \A w \in Wrapper : proc[w].pc \in {"down", "running"}
          /\ Boot /\ UNCHANGED disk /\ kept' = KeptOf(disk)

PowerLoss ==
    /\ "power" \in Fault
    /\ \E c \in kept.choice, h \in kept.history, s \in kept.last :
         LET d == [choice |-> c, history |-> h, last |-> s]
         IN  disk' = d /\ kept' = KeptOf(d)
    /\ Boot

Tick == /\ clock < MaxClock
        /\ clock' = clock + 1
        /\ UNCHANGED <<proc, node, boot, crashes, edits, observed>>

\* The clock is corrected backwards.
StepBack == /\ "clock" \in Fault
            /\ \E t \in 0 .. MaxClock : t < clock /\ clock' = t
            /\ UNCHANGED <<proc, node, boot, crashes, edits, observed>>

TouchUpgrading ==
    /\ ~upgrading /\ upgrading' = TRUE
    /\ UNCHANGED <<proc, lock, disk, kept, env, observed>>

RemoveUpgrading ==
    /\ upgrading /\ upgrading' = FALSE
    /\ proc' = [w \in Wrapper |-> [proc[w] EXCEPT !.sawFlag = FALSE]]
    /\ UNCHANGED <<lock, disk, kept, env, observed>>

\* The operator fixes, breaks or removes the choice file, without the lock.
EditChoice ==
    /\ "operator" \in Fault /\ edits < MaxEdits
    /\ edits' = edits + 1
    /\ \E c \in Choice \ {disk.choice} : WriteChoice(c)
    /\ UNCHANGED <<proc, lock, upgrading, clock, boot, crashes, observed>>

---------------------------------------------------------------------------
Init ==
    /\ proc = [w \in Wrapper |-> Idle]
    /\ lock = NoOne
    /\ disk = [choice |-> "none", history |-> {}, last |-> NoStamp]
    /\ kept = KeptOf(disk)
    /\ upgrading = FALSE
    /\ clock = 0 /\ boot = 1 /\ crashes = 0 /\ edits = 0
    /\ switches = <<>> /\ counted = {} /\ lineage = {}

Start(w) == \/ StartPinned(w) \/ StartOlder(w) \/ StartChosen(w) \/ StartFirst(w)
            \/ LinkChoice(w) \/ SyncLink(w) \/ ReadWinner(w)
Supervise(w) == \/ Mature(w) \/ Signal(w) \/ Exit(w) \/ GraceEnds(w)
                \/ FollowTick(w) \/ KillTimer(w) \/ Crash(w)
RecordCrash(w) == \/ LockAndCount(w) \/ CannotLock(w) \/ ReadCurrent(w)
                  \/ CheckBlocked(w) \/ NoteCrash(w) \/ SyncNote(w)
                  \/ SwitchChoice(w) \/ SyncSwitch(w) \/ StampEscape(w)
                  \/ SyncStamp(w) \/ ClearHistories(w)
Environment == \/ Reboot \/ PowerLoss \/ Tick \/ StepBack
               \/ TouchUpgrading \/ RemoveUpgrading \/ EditChoice

Next == \/ \E w \in Wrapper : Start(w) \/ Supervise(w) \/ RecordCrash(w) \/ Kill(w)
        \/ Environment

Spec == Init /\ [][Next]_vars

\* A wrapper's own steps go on, its ticker and its kill timer fire, and
\* kubelet enforces its grace period on the containers it asked to stop; that a
\* component reacts to SIGTERM, or that kubelet ever asks, is not promised.
FairSpec == /\ Spec
            /\ \A w \in Wrapper : /\ WF_vars(Start(w)) /\ WF_vars(RecordCrash(w))
                                  /\ WF_vars(FollowTick(w)) /\ WF_vars(KillTimer(w))
                                  /\ WF_vars(GraceEnds(w))

---------------------------------------------------------------------------
TypeOK ==
    /\ proc \in [Wrapper -> Proc]
    /\ lock \in Wrapper \cup {NoOne}
    /\ disk \in [choice : Choice, history : SUBSET Entry, last : Stamp]
    /\ kept \in [choice : SUBSET Choice, history : SUBSET (SUBSET Entry),
                 last : SUBSET Stamp]
    /\ upgrading \in BOOLEAN
    /\ clock \in Nat /\ boot \in Nat \ {0} /\ crashes \in Nat /\ edits \in Nat
    /\ switches \in Seq(Escape)
    /\ counted \subseteq Entry /\ lineage \subseteq [era : Nat, on : Allele]

Holds(w) == proc[w].pc \in Recording

(* At most one wrapper is between the lock and the unlock of RecordCrash, and
   it is the one the lock names, kills and power losses included. *)
OneRecorder == \A w \in Wrapper : Holds(w) => lock = w

(* A crash RecordCrash reported as recorded stays in the history while it is in
   the window: neither another wrapper's rewrite, nor a kill at any step, nor a
   power loss takes it out, until an escape clears the histories. *)
HistoryComplete ==
    \A h \in kept.history \cup {disk.history} : Recent(counted, clock) \subseteq h

(* Every escape rests on EscapeCrashes different crashes within the window, the
   last of them on the allele that is left, and none of them served an earlier
   escape. *)
EscapeEvidence ==
    \A i \in DOMAIN switches :
      LET s == switches[i] IN
      /\ Cardinality(s.crashes) >= EscapeCrashes
      /\ \A e \in s.crashes : e.at <= s.at /\ s.at - e.at <= EscapeWindow
      /\ \E e \in s.crashes : e.on = s.from /\ e.at = s.at
      /\ \A j \in 1 .. i - 1 : s.crashes \cap switches[j].crashes = {}

(* With one apiserver container on the node, as kubeadm installs it, every crash
   behind an escape is a crash of the allele that is left: what the other allele
   did, before or between escapes, is never held against this one. *)
PureEvidence ==
    \A i \in DOMAIN switches : \A e \in switches[i].crashes : e.on = switches[i].from

(* README: a node escapes at most once per boot. *)
OncePerBoot ==
    \A i, j \in DOMAIN switches : i < j => switches[i].boot < switches[j].boot

(* README: and at most once in 24 hours (Cooldown). *)
CoolsDown ==
    \A i, j \in DOMAIN switches : i < j => switches[j].at >= switches[i].at + Cooldown

\* The boot and the time of the last escape, 0 before the first.
LastBoot == IF switches = <<>> THEN 0 ELSE switches[Len(switches)].boot
LastAt == IF switches = <<>> THEN 0 ELSE switches[Len(switches)].at

\* An escape has moved the choice and not yet left its stamp.
Unstamped == \E w \in Wrapper : proc[w].pc \in {"switched", "stamping"}

(* Why a node escapes once per boot: the stamp on disk names the boot of the last
   escape, but for the lock holder between the switch and the stamp, and a
   wrapper is about to switch only in a boot that saw no escape. *)
BootStamped ==
    /\ \A i \in DOMAIN switches : switches[i].boot <= boot
    /\ LastBoot # 0 /\ ~Unstamped => disk.last.written /\ disk.last.boot = LastBoot
    /\ \A w \in Wrapper :
         /\ proc[w].pc \in {"switched", "stamping"} => LastBoot = boot
         /\ At(w, "switching") => LastBoot < boot

(* Why escapes are a Cooldown apart: the same with the time of the escape, for a
   clock that never goes back. *)
TimeStamped ==
    /\ \A i \in DOMAIN switches : switches[i].at <= clock
    /\ LastBoot # 0 /\ ~Unstamped => disk.last.written /\ disk.last.at = LastAt
    /\ \A w \in Wrapper :
         /\ Holds(w) => LastAt <= proc[w].entry.at /\ proc[w].entry.at <= clock
         /\ proc[w].pc \in {"switched", "stamping"} => LastAt = proc[w].entry.at
         /\ At(w, "switching") /\ LastBoot # 0
              => LastAt + Cooldown <= proc[w].entry.at

(* Expressed: the choice is made once and inherited by every later start.  All
   apiservers that start unpinned on what they found, or published, between two
   switches (escapes or operator's edits) start on the same allele: the winner of
   the first choice, those that lost it and every restart, however long a start
   takes. *)
OneLineage == \A s, t \in lineage : s.era = t.era => s.on = t.on

(* Where the state directory can be read, a crash whose recording began while the
   upgrading flag was there does not switch the node as long as the flag stays. *)
UpgradeBlocksEscape ==
    \A w \in Wrapper :
      proc[w].pc \in {"switching", "switched", "stamping"} => ~proc[w].sawFlag

(* The node's choice never goes from one allele to the other except by the
   lock holder's escape; a starter, a follower or a late reader cannot move it. *)
OnlyEscapesSwitch ==
    [][disk.choice \in Allele /\ disk'.choice # disk.choice
       => \/ \E w \in Wrapper : lock = w /\ proc[w].allele = disk.choice
                                /\ Len(switches') > Len(switches)
          \/ edits' > edits \/ boot' > boot]_vars

(* An unpinned apiserver that runs the allele its node left is stopped by its
   wrapper, even one that ignores SIGTERM and that kubelet never asks to stop,
   unless the node comes back to it. *)
FollowsSwitch ==
    \A w \in Apiserver, a \in Allele :
      (disk.choice = Other(a) /\ At(w, "running") /\ ~proc[w].pinned
         /\ proc[w].allele = a)
      ~> (disk.choice = a \/ ~(At(w, "running") /\ proc[w].allele = a))

(* The wrappers, their lock and their files keep the promise of NodeAllele: one
   choice, then escapes only, each in a boot of its own and a Cooldown apart. *)
Promise == INSTANCE NodeAllele WITH expressed <- disk.choice, escapedIn <- LastBoot,
                                    escapedAt <- LastAt
ImplementsNodeAllele == Promise!Spec
=============================================================================
