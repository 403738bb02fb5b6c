--------------------------- MODULE VolumeContract ---------------------------
(***************************************************************************)
(* What the three-state initialisation of a persistent LUKS2 volume        *)
(* promises (VolumeInitState in cryptpilot-core/src/fs/luks2.rs): a volume *)
(* is "Ready" only once everything it needs has been built under its       *)
(* current volume key, only a Ready volume is ever exposed under its own   *)
(* /dev/mapper name, and an exposed volume is never re-formatted.          *)
(***************************************************************************)
CONSTANT Volumes

VARIABLES
    phase,      \* phase[v]: the VolumeInitState read from the header
    built,      \* built[v]: key slot and file system exist for this header
    exposed     \* exposed[v]: /dev/mapper/<volume> is active

vars == <<phase, built, exposed>>

Phases == {"None", "Initializing", "Ready"}

(* The phase, completeness and exposure of each volume.                    *)
TypeOK ==
    /\ phase \in [Volumes -> Phases]
    /\ built \in [Volumes -> BOOLEAN]
    /\ exposed \in [Volumes -> BOOLEAN]

Init ==
    /\ phase = [v \in Volumes |-> "None"]
    /\ built = [v \in Volumes |-> FALSE]
    /\ exposed = [v \in Volumes |-> FALSE]

(* The header is (re)written: whatever was there is gone. A write that     *)
(* stops half-way leaves no valid header; a volume that needs nothing but  *)
(* its key slot is built by the same call.                                 *)
Begin(v) ==
    /\ ~exposed[v]
    /\ \E s \in {"None", "Initializing"}, b \in BOOLEAN :
          /\ phase' = [phase EXCEPT ![v] = s]
          /\ built' = [built EXCEPT ![v] = b]
    /\ UNCHANGED exposed

(* The last thing the volume needs is in place. *)
Build(v) ==
    /\ phase[v] = "Initializing"
    /\ ~exposed[v]
    /\ built' = [built EXCEPT ![v] = TRUE]
    /\ UNCHANGED <<phase, exposed>>

Commit(v) ==
    /\ phase[v] = "Initializing"
    /\ built[v]
    /\ phase' = [phase EXCEPT ![v] = "Ready"]
    /\ UNCHANGED <<built, exposed>>

Expose(v) ==
    /\ phase[v] = "Ready"
    /\ exposed' = [exposed EXCEPT ![v] = TRUE]
    /\ UNCHANGED <<phase, built>>

(* Any number of volumes disappear at once when the machine restarts. *)
Hide ==
    /\ exposed' \in [Volumes -> BOOLEAN]
    /\ \A v \in Volumes : exposed'[v] => exposed[v]
    /\ UNCHANGED <<phase, built>>

Next ==
    \/ \E v \in Volumes : Begin(v) \/ Build(v) \/ Commit(v) \/ Expose(v)
    \/ Hide

Spec == Init /\ [][Next]_vars
=============================================================================
