----------------------------- MODULE MCFdeBoot -----------------------------
(* Instances of FdeBoot. *)
EXTENDS FdeBoot

Fde(encrypt, backend, location, key) ==
    [ encrypt |-> encrypt, backend |-> backend, location |-> location,
      key |-> key, fde |-> TRUE ]

MCConfigs == {c \in Configs : c.fde} \union {NoFde}
Image(c) == [cfg |-> c, files |-> "ok", metadata |-> "type 1"]
Plain == Image(Fde("none", "overlayfs", "disk-persist", "persistent"))
MCImages == {Image(c) : c \in MCConfigs}
            \union {[Plain EXCEPT !.files = "broken"], [Plain EXCEPT !.metadata = "type 2"]}
MCUserData ==
    {[header |-> TRUE, parses |-> TRUE, cfg |-> Fde("none", "dm-snapshot", "disk", "temporary")],
     [header |-> FALSE, parses |-> TRUE, cfg |-> NoFde], [header |-> TRUE, parses |-> FALSE, cfg |-> NoFde]}
MCDirs == <<"containers", "docker">>
=============================================================================
