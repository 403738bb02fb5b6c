------------------------- MODULE MCReferenceValues --------------------------
(* Disks: a UKI; a separate /boot with loader entries (variables, also one  *)
(* with names that begin alike, and one that grub.cfg sets only if unset);  *)
(* /boot on the root partition with menu entries, a submenu among them, and *)
(* a link /vmlinuz; an old EFI directory on a data partition; an MBR table; *)
(* a partition 12; entry files with paths outside /boot.                    *)
EXTENDS ReferenceValues, TLC

NoDirs == [d \in {} |-> {}]
Part(n, role) ==
    [number |-> n, role |-> role, mounts |-> TRUE, efi |-> FALSE, vmlinuz |-> "none",
     label |-> FALSE, uki |-> "none", dirs |-> NoDirs]
Lvm(n) == [Part(n, "crypt") EXCEPT !.mounts = FALSE]
Esp(n, files) ==
    [Part(n, "efi") EXCEPT !.efi = TRUE,
       !.dirs = [d \in {"vendor", "debug"} |->
                   IF d = "vendor" THEN {"grubx64.efi", "shimx64.efi"} \cup files ELSE {"grubx64.efi"}]]
Esp2(n) ==
    [Part(n, "efi") EXCEPT !.efi = TRUE,
       !.dirs = [d \in {"vendor", "boot"} |-> {"grubx64.efi", "shimx64.efi"}]]
UkiEsp(n) == [Part(n, "efi") EXCEPT !.efi = TRUE, !.uki = "uki"]
Boot(n, label) == [Part(n, "boot") EXCEPT !.vmlinuz = "files", !.label = label]
Root(n, link) == [Part(n, "root") EXCEPT !.label = TRUE, !.vmlinuz = link]

L(x) == <<"lit", x>>
V(x) == <<"var">> \o x
Entry(id, names, k, form, options) ==
    [id |-> id, names |-> names, kernel |-> k, initrd |-> k, form |-> form, options |-> options]
Blank ==
    [parts |-> <<>>, table |-> "gpt", saved |-> <<>>, env |-> [n \in {} |-> <<>>], opts |-> <<>>,
     loader |-> {}, menu |-> <<>>, bootEnv |-> "file", bootCfg |-> "file",
     files |-> {"k1", "k2"}, fde |-> {"k1"}]
Ref == <<V(Kernelopts), Sp, V(TunedParams)>>

UkiDisk == [Blank EXCEPT !.parts = <<UkiEsp(1)>>, !.fde = {"uki"}]
LoaderDisk ==
    [Blank EXCEPT !.parts = <<Lvm(1), Esp2(2), Boot(3, TRUE)>>, !.saved = <<"e1">>,
       !.env = Kernelopts :> <<L("root"), Sp, L("ro")>>,
       !.loader = {Entry("e1", {"e1"}, "k1", "rel", Ref), Entry("e2", {"e2"}, "k2", "rel", Ref)}]
PrefixDisk ==
    [LoaderDisk EXCEPT !.parts = <<Esp(1, {}), Boot(2, FALSE)>>,
       !.env = <<"tuned">> :> <<L("x")>> @@ Kernelopts :> <<L("ro")>>]
GuardedDisk ==
    [LoaderDisk EXCEPT !.parts = <<Esp(1, {"grubenv"}), Boot(2, FALSE)>>, !.bootEnv = "link",
       !.env = [n \in {} |-> <<>>], !.opts = <<[how |-> "guarded", value |-> <<L("ro")>>]>>]
SetDisk == [GuardedDisk EXCEPT !.opts = <<[how |-> "set", value |-> <<L("ro")>>]>>]
AbsDisk == [LoaderDisk EXCEPT !.loader = {Entry("e1", {"e1"}, "k1", "abs", Ref)}]
MenuDisk ==
    [Blank EXCEPT !.parts = <<Esp(1, {"grub.cfg"}), Root(2, "none")>>, !.saved = <<"sub", "m2">>,
       !.menu = <<Entry("m1", {"m1"}, "k1", "boot", <<L("a")>>),
                  Entry("m2", {"m2"}, "k2", "abs", <<L("b"), Sp, Sp, L("c")>>),
                  Entry("m3", {"m1", "m3"}, "k1", "boot", <<L("d")>>)>>,
       !.bootCfg = "none"]
LinkDisk == [MenuDisk EXCEPT !.parts = <<Esp(1, {"grub.cfg"}), Root(2, "link")>>, !.saved = <<"m3">>]
DataDisk ==
    [MenuDisk EXCEPT !.parts = <<Esp(1, {"grub.cfg"}),
                                 [Esp(5, {"grub.cfg", "grubenv"}) EXCEPT !.role = "data"], Root(2, "none")>>,
       !.saved = <<"m1">>]
MbrDisk == [LoaderDisk EXCEPT !.parts = <<Esp(1, {}), Boot(2, FALSE)>>, !.table = "dos"]
MbrFar == [MbrDisk EXCEPT !.parts = <<Esp(1, {}), Boot(12, FALSE)>>]
BothDisk ==
    [LoaderDisk EXCEPT !.parts = <<[Esp(1, {}) EXCEPT !.uki = "uki"], Boot(2, TRUE)>>]

(* An image is read while another command reads one; the other disks while  *)
(* another command looks at the running system.                             *)
CONSTANT Main
With(other) == [c \in Commands |-> other]
MCRequests ==
    {[With([kind |-> "image", disk |-> UkiDisk]) EXCEPT ![Main].disk = LoaderDisk]}
    \cup {[With([kind |-> "current", disk |-> UkiDisk]) EXCEPT ![Main] = r] :
        r \in [kind : {"block"}, disk : {PrefixDisk, GuardedDisk, SetDisk, AbsDisk, MenuDisk, LinkDisk,
                                         DataDisk, MbrDisk, MbrFar, BothDisk}]
              \cup [kind : {"current"}, disk : {LoaderDisk, GuardedDisk, MenuDisk, BothDisk}]}
=============================================================================
