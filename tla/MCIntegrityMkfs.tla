-------------------------- MODULE MCIntegrityMkfs ---------------------------
(* Two pages of two sectors and a short one; operations straddle the pages  *)
(* and reach into the short one.                                            *)
EXTENDS IntegrityMkfs
Op(kind, sector, sectors) == [kind |-> kind, sector |-> sector, sectors |-> sectors]
MCOps == {Op("write", 1, 2), Op("write", 3, 2), Op("read", 0, 2), Op("discard", 2, 1)}
=============================================================================
