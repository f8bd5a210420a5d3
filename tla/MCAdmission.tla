---------------------------- MODULE MCAdmission ----------------------------
(* Small instances of Admission for TLC. *)
EXTENDS Admission, TLC

\* Two classes: a care tier and one a user may choose or make the default.
ValueOf == [tier |-> 2, gold |-> 3]

\* No annotation; the app's entry; an entry for nobody and one for a class that
\* is no care tier, before the app's own.
Lists == {<<>>,
          <<[app |-> Absent, class |-> "tier"], [app |-> "web", class |-> "gold"],
            [app |-> "web", class |-> "tier"]>>}

HostPath == [what |-> "host path", of |-> Absent]
Image(tag, digest) == [what |-> "image", of |-> [tag |-> tag, digest |-> digest]]
Capability(name) == [what |-> "capability", of |-> name]

\* Nothing foreign: a digest, and a capability of the baseline.
Pinned == {Image("latest", TRUE), Capability("CHOWN")}
Latest == {Image("latest", FALSE), Capability("CHOWN")}

Parts == Pinned \union Latest \union {HostPath, Capability("BPF")}
PartChanges == {Pinned, Latest, Pinned \union {HostPath, Capability("BPF")}}

Bare == [ns |-> "shop", app |-> "web", parts |-> Pinned, has |-> {},
         mirror |-> FALSE, resources |-> FALSE, priority |-> FALSE, class |-> Absent]

\* Nothing stated; half of it stated and a class chosen, with an antigen;
\* resources and priority stated for the whole pod; a mirror pod; one of the
\* cluster's own organs.
AskedPods == {Bare,
              [Bare EXCEPT !.has = {"cpu"}, !.class = "gold", !.parts = @ \union {HostPath}],
              [Bare EXCEPT !.resources = TRUE, !.priority = TRUE],
              [Bare EXCEPT !.mirror = TRUE],
              [Bare EXCEPT !.ns = "kube-system", !.parts = @ \union {HostPath}]}
=============================================================================
