----------------------- MODULE ReferenceValuesProofs ------------------------
(***************************************************************************)
(* What holds of the commands that inspect disks, for any number of        *)
(* commands and devices, any disks and any failures.                       *)
(*                                                                         *)
(* KeepsDevice is inductive with little help: a device is connected only   *)
(* if it is free. EverythingReleased needs, for what is still held, the    *)
(* command that is going to release it: while nobody was killed, the rule  *)
(* file has a command that will drop it, a connected device the command    *)
(* that is using it or failed to disconnect it, and a device that is       *)
(* closing a command with a mount of it that will go, or that leaked one.  *)
(* Reading the boot artifacts disturbs nothing that is held.               *)
(***************************************************************************)
EXTENDS ReferenceValues, TLAPS


(* Devices belong to the commands that connected them.                      *)
DeviceInv ==
    /\ pc \in [Commands -> {"start", "install", "connect", "settle", "use", "direct",
                            "droprule", "end", "failed"}]
    /\ DOMAIN number = Commands
    /\ owner \in [Numbers -> Commands \cup {None, Orphan, Closing}]
    /\ \A c \in Commands :
         pc[c] \in {"install", "connect", "settle", "use"} => number[c] \in Numbers
    /\ KeepsDevice

(* The progress of a command: a record of these fields, with partitions for *)
(* what was found and mounted.                                              *)
Fields == {"kind", "disk", "at", "todo", "efi", "boot", "type", "held", "faulty", "result"}

GoodProgress(s) ==
    /\ DOMAIN s = Fields /\ Len(s.disk.parts) \in Nat
    /\ s.todo \in Seq(Nat) /\ s.held \in Seq(Nat) /\ s.efi \in Nat /\ s.boot \in Nat
    /\ s.at \in {"efi?", "boot?"} => s.todo # <<>> /\ s.held # <<>>

(* Every command has one.                                                   *)
ProgressInv == DOMAIN st = Commands /\ \A c \in Commands : GoodProgress(st[c])

(* A rule file has a command that drops it later.                           *)
RuleInv ==
    /\ kills \in Nat /\ (ruleFile => Udev)
    /\ ruleFile /\ kills = 0 =>
         \E c \in Commands : pc[c] \in {"connect", "settle", "use", "droprule"}

(* Command c disconnected device n, and its last mount frees it; or it      *)
(* leaked a mount.                                                          *)
LetsGo(c, n) ==
    /\ number[c] = n /\ pc[c] \in {"droprule", "end"}
    /\ c \in leaks \/ (st[c].at = "drop" /\ st[c].held # <<>>)

(* Command c has device n connected, or failed to disconnect it.            *)
Keeps(c, n) ==
    /\ number[c] = n
    /\ pc[c] \in {"settle", "use"} \/ (pc[c] \in {"droprule", "end"} /\ c \in leaks)

(* A device that is not free has a command to answer for it.                *)
OwnerInv ==
    kills = 0 => \A n \in Numbers :
      /\ \A c \in Commands : owner[n] = c => Keeps(c, n)
      /\ owner[n] = Closing => \E c \in Commands : LetsGo(c, n)

IInv == DeviceInv /\ ProgressInv /\ RuleInv /\ OwnerInv

(* The steps of a command that finds and mounts the partitions.             *)
Looks(c) ==
    \/ ListParts(c) \/ ProbeMount(c) \/ ProbeEfi(c) \/ ProbeBoot(c) \/ GiveUp(c) \/ MountEfi(c)
    \/ ChooseType(c) \/ ChooseRoot(c) \/ MountBoot(c) \/ FindCurrent(c) \/ Undo(c)

(* A step of command c leaves the progress of the others as it is.          *)
OnlyOwn(c) == \A d \in Commands \ {c} : st'[d] = st[d]

(* The progress of one command is replaced by another.                      *)
LEMMA Updated ==
    ASSUME ProgressInv, NEW c \in Commands, NEW s, GoodProgress(s), st' = [st EXCEPT ![c] = s]
    PROVE  ProgressInv' /\ OnlyOwn(c)
BY DEF ProgressInv, OnlyOwn, GoodProgress

(* A step of command c that makes its progress t.                           *)
Moves(c, t) == GoodProgress(t) /\ st' = [st EXCEPT ![c] = t]

(* Each of the steps that find and mount partitions keeps the form of the   *)
(* progress: there is something to take from `todo` and `held` where they   *)
(* take it.                                                                 *)
LEMMA LookMoves ==
    ASSUME ProgressInv, NEW c \in Commands, Looks(c)
    PROVE  \E t : Moves(c, t)
<1> DEFINE s == st[c]
           all == [i \in 1 .. Len(Parts(c)) |-> i]
<1>0. GoodProgress(s)
  BY DEF ProgressInv
<1>a. all \in Seq(Nat)
  BY <1>0 DEF GoodProgress, Parts, Disk
<1>b. \A p \in 1 .. Len(Parts(c)) : p \in Nat
  BY <1>0, SMTT(30) DEF GoodProgress, Parts, Disk
<1>1. CASE ListParts(c)
  <2> DEFINE t == [s EXCEPT !.at = "efi", !.todo = all]
  <2>1. GoodProgress(t)
    BY <1>0, <1>a DEF GoodProgress, Fields
  <2>2. st' = [st EXCEPT ![c] = t]
    BY <1>1, Zenon DEF ListParts
  <2> QED BY <2>1, <2>2, Zenon DEF Moves
<1>2. CASE ProbeMount(c)
  <2> DEFINE t == [s EXCEPT !.at = IF @ = "efi" THEN "efi?" ELSE "boot?",
                            !.held = <<Head(s.todo)>> \o @]
             u == [s EXCEPT !.todo = Tail(@),
                            !.faulty = Fault(c, Parts(c)[Head(s.todo)].mounts)]
  <2>1. GoodProgress(t)
    BY <1>0, <1>2 DEF GoodProgress, Fields, ProbeMount
  <2>2. GoodProgress(u)
    BY <1>0, <1>2 DEF GoodProgress, Fields, ProbeMount
  <2>3. st' = [st EXCEPT ![c] = t] \/ st' = [st EXCEPT ![c] = u]
    BY <1>2, Zenon DEF ProbeMount
  <2> QED BY <2>1, <2>2, <2>3, Zenon DEF Moves
<1>3. CASE ProbeEfi(c)
  <2> DEFINE p == Head(s.todo)
             t == [s EXCEPT !.at = "mountEfi", !.efi = p, !.held = Tail(@)]
             u == [s EXCEPT !.at = "efi", !.todo = Tail(@), !.held = Tail(@),
                            !.faulty = Fault(c, LooksLikeEfi(Parts(c)[p]))]
  <2>1. GoodProgress(t)
    BY <1>0, <1>3 DEF GoodProgress, Fields, ProbeEfi, At
  <2>2. GoodProgress(u)
    BY <1>0, <1>3 DEF GoodProgress, Fields, ProbeEfi, At
  <2>3. st' = [st EXCEPT ![c] = t] \/ st' = [st EXCEPT ![c] = u]
    BY <1>3, Zenon DEF ProbeEfi
  <2> QED BY <2>1, <2>2, <2>3, Zenon DEF Moves
<1>4. CASE ProbeBoot(c)
  <2> DEFINE p == Head(s.todo)
             t == [s EXCEPT !.at = "mountBoot", !.boot = p, !.type = "Grub", !.held = Tail(@)]
             u == [s EXCEPT !.at = "boot", !.todo = Tail(@), !.held = Tail(@),
                            !.faulty = Fault(c, LooksLikeBoot(Parts(c)[p]))]
  <2>1. GoodProgress(t)
    BY <1>0, <1>4, SMTT(30) DEF GoodProgress, Fields, ProbeBoot, At
  <2>2. GoodProgress(u)
    BY <1>0, <1>4 DEF GoodProgress, Fields, ProbeBoot, At
  <2>3. st' = [st EXCEPT ![c] = t] \/ st' = [st EXCEPT ![c] = u]
    BY <1>4, ZenonT(40) DEF ProbeBoot
  <2> QED BY <2>1, <2>2, <2>3 DEF Moves
<1>5. CASE GiveUp(c)
  <2> DEFINE t == [s EXCEPT !.at = "undo"]
  <2>1. GoodProgress(t)
    BY <1>0 DEF GoodProgress, Fields
  <2>2. st' = [st EXCEPT ![c] = t]
    BY <1>5 DEF GiveUp
  <2> QED BY <2>1, <2>2, Zenon DEF Moves
<1>6. CASE MountEfi(c)
  <2> DEFINE t == [s EXCEPT !.held = <<s.efi>>, !.at = "type"]
  <2>1. GoodProgress(t)
    BY <1>0 DEF GoodProgress, Fields
  <2>2. st' = [st EXCEPT ![c] = t]
    BY <1>6, Zenon DEF MountEfi
  <2> QED BY <2>1, <2>2, Zenon DEF Moves
<1>7. CASE ChooseType(c)
  <2> DEFINE uki == assume_uki_image(Parts(c)[s.efi])
             t == [s EXCEPT !.type = "Uki", !.at = "extract"]
             u(p) == [s EXCEPT !.type = "Grub", !.boot = p, !.at = "mountBoot",
                               !.faulty = Fault(c, uki)]
             v(todo) == [s EXCEPT !.at = "boot", !.todo = todo, !.faulty = Fault(c, uki)]
  <2>1. GoodProgress(t)
    BY <1>0, Zenon DEF GoodProgress, Fields
  <2>2. ASSUME NEW p \in Nat PROVE GoodProgress(u(p))
    BY <1>0, Zenon DEF GoodProgress, Fields
  <2>3. ASSUME NEW todo \in Seq(Nat) PROVE GoodProgress(v(todo))
    BY <1>0, Zenon DEF GoodProgress, Fields
  <2>4. CASE st' = [st EXCEPT ![c].type = "Uki", ![c].at = "extract"]
    <3>1. st' = [st EXCEPT ![c] = t]
      BY <2>4, ZenonT(40)
    <3> QED BY <2>1, <3>1, Zenon DEF Moves
  <2>5. CASE \E p \in Labelled(c, "boot") :
                st' = [st EXCEPT ![c].type = "Grub", ![c].boot = p, ![c].at = "mountBoot",
                                 ![c].faulty = Fault(c, uki)]
    <3>1. PICK p \in Labelled(c, "boot") :
                st' = [st EXCEPT ![c].type = "Grub", ![c].boot = p, ![c].at = "mountBoot",
                                 ![c].faulty = Fault(c, uki)]
      BY <2>5, Zenon
    <3>2. st' = [st EXCEPT ![c] = u(p)]
      BY <3>1, Zenon
    <3>3. p \in Nat
      BY <1>b DEF Labelled
    <3> QED BY <2>2, <3>2, <3>3, Zenon DEF Moves
  <2>6. ASSUME NEW todo \in Seq(Nat),
               st' = [st EXCEPT ![c].at = "boot", ![c].todo = todo, ![c].faulty = Fault(c, uki)]
        PROVE  \E x : Moves(c, x)
    <3>1. st' = [st EXCEPT ![c] = v(todo)]
      BY <2>6, Zenon
    <3> QED BY <2>3, <3>1, Zenon DEF Moves
  <2>7. <<>> \in Seq(Nat)
    OBVIOUS
  <2> HIDE DEF uki, all
  <2> QED BY <1>7, <1>a, <2>4, <2>5, <2>6, <2>7, Zenon DEF ChooseType, uki, all
<1>8. CASE ChooseRoot(c)
  <2> DEFINE t(p) == [s EXCEPT !.type = "NoFde", !.boot = p, !.at = "mountBoot"]
             u == [s EXCEPT !.at = "undo"]
  <2>1. ASSUME NEW p \in Nat PROVE GoodProgress(t(p))
    BY <1>0 DEF GoodProgress, Fields
  <2>2. GoodProgress(u)
    BY <1>0, SMTT(30) DEF GoodProgress, Fields
  <2>3. \/ \E p \in Labelled(c, "root") : st' = [st EXCEPT ![c] = t(p)]
        \/ st' = [st EXCEPT ![c] = u]
    BY <1>8, ZenonT(40) DEF ChooseRoot
  <2>4. CASE \E p \in Labelled(c, "root") : st' = [st EXCEPT ![c] = t(p)]
    BY <2>1, <2>4, <1>b, ZenonT(40) DEF Moves, Labelled
  <2> QED BY <2>2, <2>3, <2>4, Zenon DEF Moves
<1>9. CASE MountBoot(c)
  <2> DEFINE t == [s EXCEPT !.at = "extract",
                            !.held = IF s.type = "Grub" THEN <<s.boot>> \o @
                                     ELSE @ \o <<s.boot>>]
  <2>1. GoodProgress(t)
    BY <1>0 DEF GoodProgress, Fields
  <2>2. st' = [st EXCEPT ![c] = t]
    BY <1>9, Zenon DEF MountBoot
  <2> QED BY <2>1, <2>2, Zenon DEF Moves
<1>10. CASE FindCurrent(c)
  <2> DEFINE Role(r) == {p \in 1 .. Len(Parts(c)) : Parts(c)[p].role = r}
             uki == \E e \in Role("efi") : assume_uki_image(Parts(c)[e])
             t(e) == [s EXCEPT !.type = "Uki", !.efi = e, !.at = "extract"]
             u(e, p) == [s EXCEPT !.type = "Grub", !.efi = e, !.boot = p,
                                  !.at = "extract", !.faulty = uki]
             v(e, p) == [s EXCEPT !.type = "NoFde", !.efi = e, !.boot = p,
                                  !.at = "extract", !.faulty = uki \/ Role("boot") # {}]
             w == [s EXCEPT !.at = "undo"]
  <2>1. ASSUME NEW e \in Nat PROVE GoodProgress(t(e))
    BY <1>0 DEF GoodProgress, Fields
  <2>2. ASSUME NEW e \in Nat, NEW p \in Nat PROVE GoodProgress(u(e, p))
    BY <1>0 DEF GoodProgress, Fields
  <2>3. ASSUME NEW e \in Nat, NEW p \in Nat PROVE GoodProgress(v(e, p))
    BY <1>0 DEF GoodProgress, Fields
  <2>4. GoodProgress(w)
    BY <1>0 DEF GoodProgress, Fields
  <2>5. \A r : Role(r) \subseteq Nat
    BY <1>b, SMTT(30)
  <2>6. ASSUME NEW e \in Role("efi"),
               st' = [st EXCEPT ![c].type = "Uki", ![c].efi = e, ![c].at = "extract"]
        PROVE  \E x : Moves(c, x)
    <3>1. st' = [st EXCEPT ![c] = t(e)]
      BY <2>6, Zenon
    <3> QED BY <2>1, <2>5, <3>1, Zenon DEF Moves
  <2>7. ASSUME NEW e \in Role("efi"), NEW p \in Role("boot"),
               st' = [st EXCEPT ![c].type = "Grub", ![c].efi = e, ![c].boot = p,
                                ![c].at = "extract", ![c].faulty = uki]
        PROVE  \E x : Moves(c, x)
    <3>1. st' = [st EXCEPT ![c] = u(e, p)]
      BY <2>7, Zenon
    <3> QED BY <2>2, <2>5, <3>1, Zenon DEF Moves
  <2>8. ASSUME NEW e \in Role("efi"), NEW p \in Role("root"),
               st' = [st EXCEPT ![c].type = "NoFde", ![c].efi = e, ![c].boot = p,
                                ![c].at = "extract", ![c].faulty = uki \/ Role("boot") # {}]
        PROVE  \E x : Moves(c, x)
    <3>1. st' = [st EXCEPT ![c] = v(e, p)]
      BY <2>8, Zenon
    <3> QED BY <2>3, <2>5, <3>1, Zenon DEF Moves
  <2>9. CASE st' = [st EXCEPT ![c].at = "undo"]
    <3>1. st' = [st EXCEPT ![c] = w]
      BY <2>9
    <3> QED BY <2>4, <3>1, Zenon DEF Moves
  <2> QED BY <1>10, <2>6, <2>7, <2>8, <2>9, Zenon DEF FindCurrent
<1>11. CASE Undo(c)
  <2> DEFINE t == [s EXCEPT !.at = "drop"]
             u == [s EXCEPT !.held = Tail(@)]
  <2>1. GoodProgress(t)
    BY <1>0 DEF GoodProgress, Fields
  <2>2. s.held # <<>> => GoodProgress(u)
    BY <1>0, <1>11 DEF GoodProgress, Fields, Undo, At
  <2>3. st' = [st EXCEPT ![c] = t] \/ (s.held # <<>> /\ st' = [st EXCEPT ![c] = u])
    BY <1>11, Zenon DEF Undo
  <2> QED BY <2>1, <2>2, <2>3 DEF Moves
<1> QED BY <1>1, <1>2, <1>3, <1>4, <1>5, <1>6, <1>7, <1>8, <1>9, <1>10, <1>11
        DEF Looks

(* Progress with the device in use changes nothing that others rely on: a   *)
(* command that uses its device is not one that lets a device go.           *)
LEMMA MoveStep ==
    ASSUME IInv, NEW c \in Commands, NEW t, Moves(c, t),
           UNCHANGED nbd, Attached(c), leaks \subseteq leaks'
    PROVE  IInv'
<1>1. ProgressInv' /\ OnlyOwn(c)
  BY Updated, Zenon DEF IInv, Moves
<1>2. DeviceInv' /\ RuleInv'
  BY DEF IInv, DeviceInv, RuleInv, KeepsDevice, nbd
<1>3. ASSUME NEW d \in Commands, NEW n, LetsGo(d, n) PROVE LetsGo(d, n)'
  <2>1. d # c
    BY <1>3 DEF LetsGo, Attached
  <2> QED BY <1>1, <1>3, <2>1 DEF LetsGo, OnlyOwn, nbd
<1>4. ASSUME NEW d \in Commands, NEW n, Keeps(d, n) PROVE Keeps(d, n)'
  BY <1>4 DEF Keeps, nbd
<1>5. OwnerInv'
  BY <1>3, <1>4 DEF IInv, OwnerInv, nbd
<1> QED BY <1>1, <1>2, <1>5 DEF IInv

(* So finding and mounting partitions keeps the invariant.                  *)
LEMMA LookStep ==
    ASSUME IInv, NEW c \in Commands, Looks(c)
    PROVE  IInv'
<1>1. PICK t : Moves(c, t)
  BY LookMoves DEF IInv
<1>2. UNCHANGED nbd /\ Attached(c)
  BY ZenonT(40)
     DEF Looks, ListParts, ProbeMount, ProbeEfi, ProbeBoot, GiveUp, MountEfi, ChooseType,
         ChooseRoot, MountBoot, FindCurrent, Undo, At
<1>3. leaks \subseteq leaks'
  BY ZenonT(40)
     DEF Looks, ListParts, ProbeMount, ProbeEfi, ProbeBoot, GiveUp, MountEfi, ChooseType,
         ChooseRoot, MountBoot, FindCurrent, Undo, Unmount, cleanup
<1> QED BY <1>1, <1>2, <1>3, MoveStep

(* The steps at a device leave the mounts alone.                            *)
LEMMA NbdProgress ==
    ASSUME ProgressInv, UNCHANGED st
    PROVE  ProgressInv'
BY DEF ProgressInv, GoodProgress

(* The scan takes no device yet.                                            *)
LEMMA GetAvailableStep ==
    ASSUME IInv, NEW c \in Commands, GetAvailable(c), UNCHANGED <<st, cleanup>>
    PROVE  IInv'
<1> USE DEF IInv
<1>0. pc' = [pc EXCEPT ![c] = pc'[c]] /\ pc'[c] \in {"failed", "install"}
  BY DEF DeviceInv, GetAvailable, Goto
<1>1. \A d \in Commands \ {c} : number'[d] = number[d] /\ pc'[d] = pc[d]
  BY DEF DeviceInv, GetAvailable, Goto
<1>2. pc'[c] = "install" => number'[c] \in Numbers
  BY DEF DeviceInv, GetAvailable, Goto, Idle
<1>3. DOMAIN number' = Commands
  BY DEF DeviceInv, GetAvailable
<1>4. UNCHANGED <<ruleFile, owner, kills, leaks, st>> /\ pc[c] = "start"
  BY DEF GetAvailable, cleanup, device, rule
<1>5. DeviceInv'
  BY <1>0, <1>1, <1>2, <1>3, <1>4 DEF DeviceInv, KeepsDevice
<1>6. RuleInv'
  BY <1>0, <1>1, <1>4 DEF RuleInv, DeviceInv
<1>7. ASSUME NEW d \in Commands, NEW n, LetsGo(d, n) PROVE LetsGo(d, n)'
  BY <1>1, <1>4, <1>7 DEF LetsGo
<1>8. ASSUME NEW d \in Commands, NEW n, Keeps(d, n) PROVE Keeps(d, n)'
  BY <1>1, <1>4, <1>8 DEF Keeps
<1>9. OwnerInv'
  BY <1>4, <1>7, <1>8 DEF OwnerInv
<1> QED BY <1>4, <1>5, <1>6, <1>9, NbdProgress, Zenon

(* The command that writes the rule file is there to drop it.               *)
LEMMA InstallRuleStep ==
    ASSUME IInv, NEW c \in Commands, InstallRule(c), UNCHANGED <<st, cleanup>>
    PROVE  IInv'
<1> USE DEF IInv
<1>1. /\ pc[c] = "install" /\ pc' = [pc EXCEPT ![c] = pc'[c]] /\ pc'[c] \in {"connect", "failed"}
      /\ UNCHANGED <<number, owner, kills, leaks, st>>
  BY Zenon DEF InstallRule, Goto, DeviceInv, device, cleanup
<1>2. \A d \in Commands \ {c} : pc'[d] = pc[d]
  BY <1>1 DEF DeviceInv
<1>3. DeviceInv'
  BY <1>1, <1>2 DEF DeviceInv, KeepsDevice
<1>4. RuleInv'
  <2>1. CASE pc'[c] = "connect"
    BY <2>1, Zenon DEF RuleInv, InstallRule, Goto, DeviceInv, rule
  <2>2. CASE pc'[c] = "failed"
    <3>1. UNCHANGED ruleFile
      BY <2>2, Zenon DEF InstallRule, Goto, DeviceInv, rule
    <3> QED BY <3>1, <1>1, <1>2 DEF RuleInv
  <2> QED BY <1>1, <2>1, <2>2
<1>5. ASSUME NEW d \in Commands, NEW n, LetsGo(d, n) PROVE LetsGo(d, n)'
  BY <1>1, <1>2, <1>5, Zenon DEF LetsGo
<1>6. ASSUME NEW d \in Commands, NEW n, Keeps(d, n) PROVE Keeps(d, n)'
  BY <1>1, <1>2, <1>6, Zenon DEF Keeps
<1>7. OwnerInv'
  BY <1>1, <1>5, <1>6, Zenon DEF OwnerInv
<1> QED BY <1>1, <1>3, <1>4, <1>7, NbdProgress

(* Only a free device is connected; otherwise the command goes on to drop   *)
(* the rule and leaves the device to its owner.                             *)
LEMMA ConnectStep ==
    ASSUME IInv, NEW c \in Commands, Connect(c), UNCHANGED <<st, cleanup>>
    PROVE  IInv'
<1> USE DEF IInv
<1>1. /\ pc[c] = "connect" /\ pc' = [pc EXCEPT ![c] = pc'[c]] /\ pc'[c] \in {"settle", "droprule"}
      /\ UNCHANGED <<number, ruleFile, kills, leaks, st>>
  BY DEF Connect, Goto, DeviceInv, rule, cleanup
<1>2. \A d \in Commands \ {c} : pc'[d] = pc[d]
  BY <1>1 DEF DeviceInv
<1>3. number[c] \in Numbers
  BY <1>1 DEF DeviceInv
<1>4. \/ /\ owner[number[c]] = None /\ pc'[c] = "settle"
         /\ owner' = [owner EXCEPT ![number[c]] = c]
      \/ UNCHANGED owner /\ pc'[c] = "droprule"
  BY DEF Connect, Goto, DeviceInv
<1>5. DeviceInv'
  <2>1. owner' \in [Numbers -> Commands \cup {None, Orphan, Closing}]
    BY <1>3, <1>4, Zenon DEF DeviceInv
  <2>2. KeepsDevice'
    <3> SUFFICES ASSUME NEW d \in Commands, pc'[d] \in {"settle", "use"}
                 PROVE  owner'[number[d]] = d
      BY <1>1, Zenon DEF KeepsDevice
    <3>1. CASE d = c
      BY <3>1, <1>3, <1>4, Zenon DEF DeviceInv
    <3>2. CASE d # c
      <4>1. owner[number[d]] = d /\ number[d] \in Numbers
        BY <3>2, <1>2, Zenon DEF DeviceInv, KeepsDevice
      <4>2. d # None
        BY NbdAssumption, Zenon
      <4> QED BY <4>1, <4>2, <1>3, <1>4, Zenon DEF DeviceInv
    <3> QED BY <3>1, <3>2, Zenon
  <2> QED BY <2>1, <2>2, <1>1, <1>2, Zenon DEF DeviceInv
<1>6. RuleInv'
  BY <1>1, <1>2, Zenon DEF RuleInv
<1>7. ASSUME NEW d \in Commands, NEW n, LetsGo(d, n) PROVE LetsGo(d, n)'
  BY <1>1, <1>2, <1>7, Zenon DEF LetsGo
<1>8. ASSUME NEW d \in Commands, NEW n, Keeps(d, n) PROVE Keeps(d, n)'
  BY <1>1, <1>2, <1>8, Zenon DEF Keeps
<1>9. OwnerInv'
  <2> SUFFICES ASSUME kills = 0, NEW n \in Numbers
               PROVE  /\ \A d \in Commands : owner'[n] = d => Keeps(d, n)'
                      /\ owner'[n] = Closing => \E d \in Commands : LetsGo(d, n)'
    BY <1>1, Zenon DEF OwnerInv
  <2>1. CASE owner'[n] = owner[n]
    BY <2>1, <1>7, <1>8, Zenon DEF OwnerInv
  <2>2. CASE n = number[c] /\ owner'[n] = c /\ pc'[c] = "settle"
    <3>1. Keeps(c, n)' /\ c # Closing
      BY <2>2, <1>1, NbdAssumption, Zenon DEF Keeps
    <3> QED BY <2>2, <3>1, Zenon
  <2> QED BY <2>1, <2>2, <1>3, <1>4, Zenon DEF DeviceInv
<1> QED BY <1>1, <1>5, <1>6, <1>9, NbdProgress, Zenon

(* The wait for udevd ends.                                                 *)
LEMMA RemoveHoldersStep ==
    ASSUME IInv, NEW c \in Commands, RemoveHolders(c), UNCHANGED <<st, cleanup>>
    PROVE  IInv'
<1> USE DEF IInv
<1>1. /\ pc[c] = "settle" /\ pc' = [pc EXCEPT ![c] = "use"]
      /\ UNCHANGED <<number, ruleFile, owner, kills, leaks, st>>
  BY DEF RemoveHolders, Goto, rule, cleanup
<1>2. pc'[c] = "use" /\ \A d \in Commands \ {c} : pc'[d] = pc[d]
  BY <1>1 DEF DeviceInv
<1>3. DeviceInv'
  BY <1>1, <1>2 DEF DeviceInv, KeepsDevice
<1>4. RuleInv'
  BY <1>1, <1>2 DEF RuleInv
<1>5. ASSUME NEW d \in Commands, NEW n, LetsGo(d, n) PROVE LetsGo(d, n)'
  BY <1>1, <1>2, <1>5 DEF LetsGo
<1>6. ASSUME NEW d \in Commands, NEW n, Keeps(d, n) PROVE Keeps(d, n)'
  BY <1>1, <1>2, <1>6 DEF Keeps
<1>7. OwnerInv'
  BY <1>1, <1>5, <1>6 DEF OwnerInv
<1> QED BY <1>1, <1>3, <1>4, <1>7, NbdProgress, Zenon

(* A disk that is no image needs no device.                                 *)
LEMMA OpenBlockStep ==
    ASSUME IInv, NEW c \in Commands, OpenBlock(c)
    PROVE  IInv'
<1> USE DEF IInv
<1>1. /\ pc[c] = "start" /\ pc' = [pc EXCEPT ![c] = "direct"]
      /\ UNCHANGED <<number, ruleFile, owner, kills, leaks, st>>
  BY DEF OpenBlock, Goto, rule, device, cleanup
<1>2. pc'[c] = "direct" /\ \A d \in Commands \ {c} : pc'[d] = pc[d]
  BY <1>1 DEF DeviceInv
<1>3. DeviceInv'
  BY <1>1, <1>2 DEF DeviceInv, KeepsDevice
<1>4. RuleInv'
  BY <1>1, <1>2 DEF RuleInv
<1>5. ASSUME NEW d \in Commands, NEW n, LetsGo(d, n) PROVE LetsGo(d, n)'
  BY <1>1, <1>2, <1>5, Zenon DEF LetsGo
<1>6. ASSUME NEW d \in Commands, NEW n, Keeps(d, n) PROVE Keeps(d, n)'
  BY <1>1, <1>2, <1>6, Zenon DEF Keeps
<1>7. OwnerInv'
  BY <1>1, <1>5, <1>6, Zenon DEF OwnerInv
<1> QED BY <1>1, <1>3, <1>4, <1>7, NbdProgress, Zenon

(* A disconnected device is free, or closing while its own command holds    *)
(* mounts; if the disconnect fails, the command is counted among the leaks. *)
LEMMA DropDeviceStep ==
    ASSUME IInv, NEW c \in Commands, DropFirst(c), pc[c] = "use"
    PROVE  IInv'
<1> USE DEF IInv
<1> DEFINE to == IF st[c].held # <<>> THEN Closing ELSE None
<1>1. /\ st[c].at = "drop" /\ pc' = [pc EXCEPT ![c] = "droprule"]
      /\ UNCHANGED <<number, ruleFile, kills, st>>
      /\ owner' \in {owner, [owner EXCEPT ![number[c]] = to]}
      /\ leaks' = IF owner'[number[c]] = c THEN leaks \cup {c} ELSE leaks
  BY DEF DropFirst, DropDevice, DropRule, Goto, At, rule
<1>2. pc'[c] = "droprule" /\ \A d \in Commands \ {c} : pc'[d] = pc[d]
  BY <1>1 DEF DeviceInv
<1>3. number[c] \in Numbers /\ owner[number[c]] = c
  BY Zenon DEF DeviceInv, KeepsDevice
<1>4. \A n \in Numbers : owner'[n] = owner[n] \/ (n = number[c] /\ owner'[n] = to)
  BY <1>1, <1>3, Zenon DEF DeviceInv
<1>5. DeviceInv'
  <2>1. owner' \in [Numbers -> Commands \cup {None, Orphan, Closing}]
    BY <1>1, <1>3, Zenon DEF DeviceInv
  <2>2. ASSUME NEW d \in Commands, pc'[d] \in {"settle", "use"}
        PROVE  owner'[number[d]] = d
    <3>1. d # c /\ pc[d] \in {"settle", "use"}
      BY <1>2, <2>2
    <3>2. number[d] \in Numbers /\ owner[number[d]] = d
      BY <3>1 DEF DeviceInv, KeepsDevice
    <3>3. number[d] # number[c]
      BY <3>1, <3>2, <1>3, Zenon
    <3> QED BY <3>2, <3>3, <1>4, Zenon
  <2> QED BY <2>1, <2>2, <1>1, <1>2, Zenon DEF DeviceInv, KeepsDevice
<1>6. RuleInv'
  BY <1>1, <1>2, Zenon DEF RuleInv
<1>7. ASSUME NEW d \in Commands, NEW n, LetsGo(d, n) PROVE LetsGo(d, n)'
  BY <1>1, <1>2, <1>7, Zenon DEF LetsGo
<1>8. ASSUME NEW d \in Commands \ {c}, NEW n, Keeps(d, n) PROVE Keeps(d, n)'
  BY <1>1, <1>2, <1>8, Zenon DEF Keeps
<1>9. OwnerInv'
  <2> SUFFICES ASSUME kills = 0, NEW n \in Numbers
               PROVE  /\ \A d \in Commands : owner'[n] = d => Keeps(d, n)'
                      /\ owner'[n] = Closing => \E d \in Commands : LetsGo(d, n)'
    BY <1>1 DEF OwnerInv
  <2>1. CASE owner'[n] = c
    <3>1. owner[n] = c
      BY <2>1, <1>4, NbdAssumption
    <3>2. number[c] = n
      BY <3>1 DEF OwnerInv, Keeps
    <3>3. Keeps(c, n)' /\ c # Closing
      BY <3>2, <2>1, <1>1, <1>2, NbdAssumption, Zenon DEF Keeps
    <3> QED BY <2>1, <3>3
  <2>2. CASE owner'[n] # c /\ owner'[n] = owner[n]
    BY <2>2, <1>7, <1>8, Zenon DEF OwnerInv
  <2>3. CASE n = number[c] /\ owner'[n] = to
    <3>1. to = Closing => LetsGo(c, n)'
      BY <2>3, <1>1, <1>2, Zenon DEF LetsGo, None, Closing
    <3>2. to \notin Commands
      BY NbdAssumption, Zenon
    <3> HIDE DEF to
    <3> QED BY <2>3, <3>1, <3>2, Zenon
  <2> QED BY <2>1, <2>2, <2>3, <1>4, Zenon
<1> QED BY <1>1, <1>5, <1>6, <1>9, NbdProgress, Zenon

(* The rule goes, whoever wrote it.                                         *)
LEMMA DropRuleStep ==
    ASSUME IInv, NEW c \in Commands, DropFirst(c), pc[c] # "use"
    PROVE  IInv'
<1> USE DEF IInv
<1>1. /\ pc[c] \in {"direct", "droprule"} /\ pc' = [pc EXCEPT ![c] = "end"]
      /\ UNCHANGED <<number, owner, kills, leaks, st>>
  BY Zenon DEF DropFirst, DropDevice, DropRule, Goto, At, Attached, device
<1>2. pc'[c] = "end" /\ \A d \in Commands \ {c} : pc'[d] = pc[d]
  BY <1>1 DEF DeviceInv
<1>3. DeviceInv'
  BY <1>1, <1>2 DEF DeviceInv, KeepsDevice
<1>4. RuleInv'
  <2>1. CASE pc[c] = "direct"
    <3>1. UNCHANGED ruleFile
      BY <2>1, Zenon DEF DropFirst, rule
    <3> QED BY <2>1, <3>1, <1>1, <1>2, Zenon DEF RuleInv
  <2>2. CASE pc[c] = "droprule"
    BY <2>2, Zenon DEF RuleInv, DropFirst, DropDevice, DropRule, rule
  <2> QED BY <1>1, <2>1, <2>2, Zenon
<1>5. ASSUME NEW d \in Commands, NEW n, LetsGo(d, n) PROVE LetsGo(d, n)'
  BY <1>1, <1>2, <1>5, Zenon DEF LetsGo
<1>6. ASSUME NEW d \in Commands, NEW n, Keeps(d, n) PROVE Keeps(d, n)'
  BY <1>1, <1>2, <1>6, Zenon DEF Keeps
<1>7. OwnerInv'
  BY <1>1, <1>5, <1>6 DEF OwnerInv
<1> QED BY <1>1, <1>3, <1>4, <1>7, NbdProgress, Zenon

(* Of two or more mounts one is left when the first goes.                   *)
LEMMA TailLeft ==
    ASSUME NEW q \in Seq(Nat), q # <<>>, Len(q) # 1
    PROVE  Tail(q) # <<>>
<1>1. Len(q) \in Nat /\ Len(q) # 0
  OBVIOUS
<1>2. Len(Tail(q)) = Len(q) - 1
  BY <1>1
<1>3. Len(<<>>) = 0
  OBVIOUS
<1>4. Len(Tail(q)) # 0
  <2> DEFINE n == Len(q)
             m == Len(Tail(q))
  <2>1. n \in Nat /\ n # 0 /\ n # 1 /\ m = n - 1
    BY <1>1, <1>2
  <2> HIDE DEF n, m
  <2>2. m # 0
    BY <2>1
  <2> QED BY <2>2 DEF m
<1> QED BY <1>3, <1>4, Zenon

(* The last mount frees a device that is closing.                           *)
LEMMA DropMountsStep ==
    ASSUME IInv, NEW c \in Commands, DropMounts(c)
    PROVE  IInv'
<1> USE DEF IInv
<1> DEFINE t == [st[c] EXCEPT !.held = Tail(@)]
<1>1. /\ pc[c] = "end" /\ st[c].at = "drop" /\ st[c].held # <<>>
      /\ UNCHANGED <<pc, number, ruleFile, kills>> /\ leaks' \in {leaks, leaks \cup {c}}
  BY DEF DropMounts, Unmount, rule, cleanup
<1>2. st[c].held \in Seq(Nat) /\ GoodProgress(st[c])
  BY DEF ProgressInv, GoodProgress
<1>3. st' = [st EXCEPT ![c] = t]
  BY DEF DropMounts
<1>4. GoodProgress(t) /\ t.at = "drop" /\ t.held = Tail(st[c].held)
  BY <1>1, <1>2 DEF GoodProgress, Fields
<1>5. ProgressInv' /\ OnlyOwn(c) /\ st'[c] = t
  BY <1>3, <1>4, Updated, Zenon DEF ProgressInv
<1>6. \A n \in Numbers : owner'[n] = owner[n]
         \/ /\ owner'[n] = None /\ owner[n] = Closing
            /\ n = number[c] /\ Len(st[c].held) = 1 /\ c \notin leaks'
  BY Zenon DEF DropMounts
<1>7. DeviceInv'
  <2>1. owner' \in [Numbers -> Commands \cup {None, Orphan, Closing}]
    BY Zenon DEF DeviceInv, DropMounts
  <2>2. ASSUME NEW d \in Commands, pc[d] \in {"settle", "use"}
        PROVE  owner'[number[d]] = d
    <3>1. number[d] \in Numbers /\ owner[number[d]] = d
      BY <2>2, Zenon DEF DeviceInv, KeepsDevice
    <3>2. d # Closing
      BY NbdAssumption
    <3> QED BY <3>1, <3>2, <1>6, Zenon
  <2> QED BY <2>1, <2>2, <1>1, Zenon DEF DeviceInv, KeepsDevice
<1>8. RuleInv'
  BY <1>1 DEF RuleInv
<1>9. ASSUME NEW d \in Commands, NEW n, LetsGo(d, n), d # c \/ Len(st[c].held) # 1 \/ c \in leaks'
      PROVE  LetsGo(d, n)'
  <2>1. CASE d # c
    BY <2>1, <1>1, <1>5, <1>9 DEF LetsGo, OnlyOwn
  <2>2. CASE d = c
    <3>1. Len(st[c].held) # 1 => Tail(st[c].held) # <<>>
      BY <1>1, <1>2, TailLeft
    <3>2. c \in leaks' \/ (st'[c].at = "drop" /\ st'[c].held # <<>>)
      BY <3>1, <2>2, <1>4, <1>5, <1>9
    <3> QED BY <3>2, <2>2, <1>1, <1>9, Zenon DEF LetsGo
  <2> QED BY <2>1, <2>2
<1>10. OwnerInv'
  <2> SUFFICES ASSUME kills = 0, NEW n \in Numbers
               PROVE  /\ \A d \in Commands : owner'[n] = d => Keeps(d, n)'
                      /\ owner'[n] = Closing => \E d \in Commands : LetsGo(d, n)'
    BY <1>1 DEF OwnerInv
  <2>1. CASE owner'[n] = None
    <3>1. None \notin Commands /\ None # Closing
      BY NbdAssumption DEF None, Closing
    <3> QED BY <2>1, <3>1
  <2>2. CASE owner'[n] = owner[n]
    <3>1. \A d \in Commands : owner'[n] = d => Keeps(d, n)'
      <4>1. ASSUME NEW d \in Commands, Keeps(d, n) PROVE Keeps(d, n)'
        BY <4>1, <1>1 DEF Keeps
      <4> QED BY <2>2, <4>1, Zenon DEF OwnerInv
    <3>2. ASSUME owner[n] = Closing PROVE \E d \in Commands : LetsGo(d, n)'
      <4>1. PICK d \in Commands : LetsGo(d, n)
        BY <3>2 DEF OwnerInv
      <4>2. d = c => Len(st[c].held) # 1 \/ c \in leaks'
        <5>1. n = number[c] /\ Len(st[c].held) = 1 /\ c \notin leaks' => owner'[n] = None
          BY <3>2 DEF DropMounts
        <5>2. None # Closing
          BY DEF None, Closing
        <5> QED BY <4>1, <5>1, <5>2, <2>2, <3>2, Zenon DEF LetsGo
      <4> QED BY <4>1, <4>2, <1>9
    <3> QED BY <2>2, <3>1, <3>2, Zenon
  <2> QED BY <2>1, <2>2, <1>6, Zenon
<1> QED BY <1>5, <1>7, <1>8, <1>10

(* A killed command leaves its device to nobody; the promises about what is *)
(* released end there.                                                      *)
LEMMA KilledStep ==
    ASSUME IInv, NEW c \in Commands, KilledHere(c)
    PROVE  IInv'
<1> USE DEF IInv
<1> DEFINE t == [st[c] EXCEPT !.at = "killed"]
<1>1. /\ pc' = [pc EXCEPT ![c] = "end"] /\ UNCHANGED <<number, ruleFile>> /\ kills' = kills + 1
      /\ owner' = [n \in Numbers |-> IF owner[n] = c THEN Orphan ELSE owner[n]]
  BY DEF KilledHere, Killed, Goto, rule
<1>2. pc'[c] = "end" /\ \A d \in Commands \ {c} : pc'[d] = pc[d]
  BY <1>1 DEF DeviceInv
<1>3. st' = [st EXCEPT ![c] = t]
  BY Zenon DEF KilledHere
<1>4. GoodProgress(t)
  BY DEF ProgressInv, GoodProgress, Fields
<1>5. ProgressInv'
  BY <1>3, <1>4, Updated, Zenon
<1>6. owner' \in [Numbers -> Commands \cup {None, Orphan, Closing}]
  BY <1>1 DEF DeviceInv
<1>7. ASSUME NEW d \in Commands, pc'[d] \in {"settle", "use"}
      PROVE  owner'[number[d]] = d
  <2>1. d # c /\ pc[d] \in {"settle", "use"}
    BY <1>2, <1>7, Zenon
  <2>2. number[d] \in Numbers /\ owner[number[d]] = d
    BY <2>1, Zenon DEF DeviceInv, KeepsDevice
  <2> QED BY <2>1, <2>2, <1>1
<1>8. DeviceInv'
  BY <1>1, <1>2, <1>6, <1>7, Zenon DEF DeviceInv, KeepsDevice
<1>9. kills' # 0
  BY <1>1 DEF RuleInv
<1>10. RuleInv'
  BY <1>1, <1>9 DEF RuleInv
<1>11. OwnerInv'
  BY <1>9 DEF OwnerInv
<1> QED BY <1>5, <1>8, <1>10, <1>11

(* The invariant does not depend on udevd.                                  *)
LEMMA Idles ==
    ASSUME IInv, UNCHANGED <<pc, number, ruleFile, owner, kills, st, leaks>>
    PROVE  IInv'
<1> USE DEF IInv
<1>1. DeviceInv'
  BY DEF DeviceInv, KeepsDevice
<1>2. RuleInv'
  BY DEF RuleInv
<1>3. \A c \in Commands : \A n : (LetsGo(c, n) => LetsGo(c, n)') /\ (Keeps(c, n) => Keeps(c, n)')
  BY Zenon DEF LetsGo, Keeps
<1>4. OwnerInv'
  BY <1>3, Zenon DEF OwnerInv
<1> QED BY <1>1, <1>2, <1>4, NbdProgress, Zenon

(* It holds before the commands start.                                      *)
LEMMA Initial ==
    InspectInit => IInv
<1> SUFFICES ASSUME InspectInit PROVE IInv
  BY Zenon
<1>1. DeviceInv
  BY DEF InspectInit, NbdInit, DeviceInv, KeepsDevice
<1>2. RuleInv
  BY DEF InspectInit, NbdInit, RuleInv
<1>3. OwnerInv
  <2>1. ASSUME NEW n \in Numbers PROVE owner[n] \notin Commands /\ owner[n] # Closing
    BY NbdAssumption DEF InspectInit, NbdInit, None, Orphan, Closing
  <2> QED BY <2>1, Zenon DEF OwnerInv
<1>4. PICK req \in Requests :
         st = [c \in Commands |->
                 [kind |-> req[c].kind, disk |-> req[c].disk, at |-> "begin",
                  todo |-> <<>>, efi |-> NoPart, boot |-> NoPart, type |-> "none",
                  held |-> <<>>, faulty |-> FALSE, result |-> NoResult]]
  BY Zenon DEF InspectInit
<1>5. ASSUME NEW c \in Commands PROVE GoodProgress(st[c])
  <2> DEFINE r == [kind |-> req[c].kind, disk |-> req[c].disk, at |-> "begin",
                   todo |-> <<>>, efi |-> NoPart, boot |-> NoPart, type |-> "none",
                   held |-> <<>>, faulty |-> FALSE, result |-> NoResult]
  <2>1. st[c] = r
    BY <1>4, Zenon
  <2>2. DOMAIN r = Fields
    BY Zenon DEF Fields
  <2>3. Len(r.disk.parts) \in Nat
    BY InspectAssumption, Zenon
  <2>4. /\ r.todo \in Seq(Nat) /\ r.held \in Seq(Nat) /\ r.efi \in Nat /\ r.boot \in Nat
        /\ r.at \notin {"efi?", "boot?"}
    BY DEF NoPart
  <2> HIDE DEF r
  <2> QED BY <2>1, <2>2, <2>3, <2>4, Zenon DEF GoodProgress
<1>6. ProgressInv
  BY <1>4, <1>5 DEF ProgressInv
<1> QED BY <1>1, <1>2, <1>3, <1>6, Zenon DEF IInv

(* The device is kept.                                                      *)
LEMMA InvKeepsDevice == IInv => KeepsDevice
BY DEF IInv, DeviceInv

(* With every command returned there is nobody left to answer for a rule or *)
(* a device, so none is held.                                               *)
LEMMA InvReleased == IInv => EverythingReleased
<1> SUFFICES ASSUME IInv, \A c \in Commands : Returned(c), kills = 0, leaks = {}
             PROVE  ~ruleFile /\ \A n \in Numbers : owner[n] \in {None, Orphan}
  BY DEF EverythingReleased
<1>1. ~ruleFile
  BY DEF IInv, RuleInv, Returned
<1>2. ASSUME NEW n \in Numbers PROVE owner[n] \in {None, Orphan}
  <2>1. owner[n] \in Commands \cup {None, Orphan, Closing}
    BY Zenon DEF IInv, DeviceInv
  <2>2. owner[n] \notin Commands
    BY DEF IInv, OwnerInv, Keeps, Returned
  <2>3. owner[n] # Closing
    BY DEF IInv, OwnerInv, LetsGo, Returned
  <2> QED BY <2>1, <2>2, <2>3, Zenon
<1> QED BY <1>1, <1>2, Zenon

(* Reading the artifacts, and a read that fails, are the command's own      *)
(* progress.                                                                *)
LEMMA ExtractMoves ==
    ASSUME ProgressInv, NEW c \in Commands, Extract(c) \/ ExtractFails(c)
    PROVE  \E t : Moves(c, t)
<1> DEFINE s == st[c]
           t(f, r) == [s EXCEPT !.at = "drop", !.faulty = f, !.result = r]
           u == [s EXCEPT !.at = "drop"]
<1>0. GoodProgress(s)
  BY DEF ProgressInv
<1>1. ASSUME NEW f, NEW r PROVE GoodProgress(t(f, r))
  BY <1>0 DEF GoodProgress, Fields
<1>2. GoodProgress(u)
  BY <1>0 DEF GoodProgress, Fields
<1>3. ASSUME NEW values, NEW cut, ShowReferenceValue(c, values, cut)
      PROVE  \E x : Moves(c, x)
  <2>1. st' = [st EXCEPT ![c] = t(Fault(c, cut), [ok |-> TRUE, values |-> values])]
    BY <1>3, Zenon DEF ShowReferenceValue
  <2> HIDE DEF t
  <2> QED BY <1>1, <2>1, Zenon DEF Moves
<1>4. ASSUME NEW initrds, ConfigDump(c, initrds)
      PROVE  \E x : Moves(c, x)
  BY <1>2, <1>4, Zenon DEF Moves, ConfigDump
<1>5. CASE ExtractFails(c)
  BY <1>2, <1>5, Zenon DEF Moves, ExtractFails
<1> QED BY <1>3, <1>4, <1>5, Zenon DEF Extract

(* So they keep the invariant.                                              *)
LEMMA ExtractStep ==
    ASSUME IInv, NEW c \in Commands, Extract(c) \/ ExtractFails(c)
    PROVE  IInv'
<1>1. PICK t : Moves(c, t)
  BY ExtractMoves, Zenon DEF IInv
<1>2. UNCHANGED <<nbd, cleanup>> /\ Attached(c)
  BY Zenon DEF Extract, ExtractFails, At
<1>3. leaks \subseteq leaks'
  BY <1>2 DEF cleanup
<1>4. UNCHANGED nbd
  BY <1>2
<1> QED BY <1>1, <1>2, <1>3, <1>4, MoveStep

(* Every step of every command, and of udevd, keeps the invariant.          *)
LEMMA Inductive ==
    IInv /\ [Next]_vars => IInv'
<1> SUFFICES ASSUME IInv, [Next]_vars PROVE IInv'
  OBVIOUS
<1>1. ASSUME NEW c \in Commands, Connecting(c) PROVE IInv'
  BY <1>1, GetAvailableStep, InstallRuleStep, ConnectStep, RemoveHoldersStep, Zenon DEF Connecting
<1>2. ASSUME NEW c \in Commands, DropFirst(c) PROVE IInv'
  BY <1>2, DropDeviceStep, DropRuleStep, Zenon
<1>3. ASSUME NEW n \in Numbers, UdevStep(n) PROVE IInv'
  BY <1>3, Idles DEF UdevStep, UdevActs, rule, cleanup
<1>4. CASE AllReturned \/ UNCHANGED vars
  BY <1>4, Idles DEF AllReturned, vars, nbd
<1>5. ASSUME NEW c \in Commands, Looks(c) PROVE IInv'
  BY <1>5, LookStep, Zenon
<1> QED BY <1>1, <1>2, <1>3, <1>4, <1>5, ExtractStep, OpenBlockStep, DropMountsStep, KilledStep,
           ZenonT(40)
        DEF Next, Looks

(* The invariant holds in every reachable state.                            *)
LEMMA Invariance == Spec => []IInv
BY Initial, Inductive, PTL DEF Spec

(* From its connection until it drops it, the device of a command serves    *)
(* that command's image, however many commands race for the devices between *)
(* the scan of get_avaliable and qemu-nbd --connect.                        *)
THEOREM DeviceKept == Spec => []KeepsDevice
BY InvKeepsDevice, Invariance, PTL

(* When all commands have returned, none killed and no umount or disconnect *)
(* refused, the shared udev rule is gone and every device is free.          *)
THEOREM AllReleased == Spec => []EverythingReleased
BY InvReleased, Invariance, PTL
=============================================================================
