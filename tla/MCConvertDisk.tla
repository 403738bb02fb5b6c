--------------------------- MODULE MCConvertDisk ----------------------------
(* What etc/resolv.conf is on the distributions: a file, or a link into     *)
(* /run, which is empty in the image.                                       *)
EXTENDS ConvertDisk
AllKinds == {"file", "link", "absent"}
=============================================================================
