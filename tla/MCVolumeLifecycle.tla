------------------------- MODULE MCVolumeLifecycle -------------------------
(* Instances of VolumeLifecycle for TLC. *)
EXTENDS VolumeLifecycle

CONSTANTS data0, scratch

(* The boot service meets both volumes; operators name either or both. *)
MCAutoOpen == <<data0, scratch>>
MCArgs == {<<data0>>, <<scratch>>, <<scratch, data0>>}
MCConcurrentArgs == {<<data0>>, <<scratch>>}
=============================================================================
