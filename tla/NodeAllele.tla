----------------------------- MODULE NodeAllele -----------------------------
(***************************************************************************)
(* What a node promises about its kube-apiserver allele, as an operator    *)
(* reads it in the README: chosen once, for good, at the first boot; left  *)
(* by an escape only, at most once per boot and never sooner than Cooldown *)
(* after the escape before.  XInactivation implements it.                  *)
(***************************************************************************)
EXTENDS Naturals

CONSTANT Cooldown

VARIABLES expressed,    \* the allele chosen, or "none"
          boot,         \* which boot of the node this is
          escapedIn,    \* boot of the last escape, 0 before the first
          escapedAt     \* when the last escape was decided

vars == <<expressed, boot, escapedIn, escapedAt>>

Init == expressed = "none" /\ boot = 1 /\ escapedIn = 0 /\ escapedAt = 0

Inactivate == /\ expressed = "none"
              /\ expressed' \in {"Xm", "Xp"}
              /\ UNCHANGED <<boot, escapedIn, escapedAt>>

Escape == /\ expressed \in {"Xm", "Xp"}
          /\ escapedIn < boot
          /\ expressed' \in {"Xm", "Xp"} \ {expressed}
          /\ escapedIn' = boot
          /\ escapedAt' \in Nat
          /\ escapedIn = 0 \/ escapedAt' >= escapedAt + Cooldown
          /\ UNCHANGED boot

Reboot == /\ boot' = boot + 1
          /\ UNCHANGED <<expressed, escapedIn, escapedAt>>

Next == Inactivate \/ Escape \/ Reboot

Spec == Init /\ [][Next]_vars
=============================================================================
