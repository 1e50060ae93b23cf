--------------------------- MODULE VolumeContract ---------------------------
(* What the driver promises about each volume, seen from outside: the pod    *)
(* sees the certificates or nothing; only a call on the volume changes that; *)
(* a publish that reports success shows the certificates, a publish that     *)
(* fails and an unpublish that succeeds show nothing.                        *)
CONSTANT Volumes

VARIABLES shown,     \* shown[v]: what is at the target path: "nothing", "certs"
          phase,     \* phase[v]: the running call: "none", "publish",
                     \* "undo" (a publish that has failed) or "unpublish"
          belief     \* belief[v]: the kubelet's: "unknown", "served",
                     \* "leaving" (to be unpublished) or "gone"

vars == <<shown, phase, belief>>

Init ==
  /\ shown = [v \in Volumes |-> "nothing"]
  /\ phase = [v \in Volumes |-> "none"]
  /\ belief = [v \in Volumes |-> "unknown"]

To(f, v, value) == f' = [f EXCEPT ![v] = value]

Call(v, kind) ==
  /\ phase[v] = "none"
  /\ kind = (IF belief[v] = "leaving" THEN "unpublish" ELSE "publish")
  /\ belief[v] # "gone"
  /\ To(phase, v, kind)
  /\ UNCHANGED <<shown, belief>>

\* A publish succeeds.
Serve(v) ==
  /\ phase[v] = "publish"
  /\ To(phase, v, "none")
  /\ To(shown, v, "certs")
  /\ To(belief, v, "served")

\* A publish fails, perhaps after the mount; it has not answered yet.
Break(v) ==
  /\ phase[v] = "publish"
  /\ To(phase, v, "undo")
  /\ shown' \in {shown, [shown EXCEPT ![v] = "certs"]}
  /\ UNCHANGED belief

Withdraw(v) ==
  /\ phase[v] \in {"undo", "unpublish"}
  /\ To(shown, v, "nothing")
  /\ UNCHANGED <<phase, belief>>

\* The failed publish answers, with nothing left to see.
Undone(v) ==
  /\ phase[v] = "undo"
  /\ shown[v] = "nothing"
  /\ To(phase, v, "none")
  /\ To(belief, v, "unknown")
  /\ UNCHANGED shown

Gone(v) ==
  /\ phase[v] = "unpublish"
  /\ shown[v] = "nothing"
  /\ To(phase, v, "none")
  /\ To(belief, v, "gone")
  /\ UNCHANGED shown

\* An unpublish that fails is repeated.
Again(v) ==
  /\ phase[v] = "unpublish"
  /\ To(phase, v, "none")
  /\ UNCHANGED <<shown, belief>>

\* The pod goes away; if no publish has succeeded there may be nothing to undo.
Delete(v) ==
  /\ phase[v] = "none"
  /\ belief[v] \in {"unknown", "served"}
  /\ \/ To(belief, v, "leaving")
     \/ belief[v] = "unknown" /\ shown[v] = "nothing" /\ To(belief, v, "gone")
  /\ UNCHANGED <<shown, phase>>

\* The node goes down and forgets all mounts.
Reboot ==
  /\ shown' = [v \in Volumes |-> "nothing"]
  /\ phase' = [v \in Volumes |-> "none"]
  /\ belief' = [v \in Volumes |-> IF belief[v] = "served" THEN "unknown" ELSE belief[v]]

Next ==
  \/ \E v \in Volumes :
       \/ \E kind \in {"publish", "unpublish"} : Call(v, kind)
       \/ Serve(v) \/ Break(v) \/ Withdraw(v) \/ Undone(v)
       \/ Gone(v) \/ Again(v) \/ Delete(v)
  \/ Reboot

Spec == Init /\ [][Next]_vars
=============================================================================
