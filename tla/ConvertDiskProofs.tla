------------------------- MODULE ConvertDiskProofs --------------------------
(***************************************************************************)
(* A conversion for every combination of options, any number of attempts   *)
(* and a failure at any command.                                           *)
(*                                                                         *)
(* The first half is about the exit trap. HookInv says of everything that  *)
(* is in use that its hook is registered and has not run, that the hooks   *)
(* of the work directory and of the image lie below those of all mounts    *)
(* and devices, and that the hook of the encrypted volume lies above those *)
(* of the logical volumes. The order is what makes it inductive: hooks are *)
(* pushed before what they undo comes into use, and popped.                *)
(*                                                                         *)
(* The second half, FlowInv, follows the contents of the root filesystem   *)
(* from the partition through rootfs.img to the logical volume, the hash   *)
(* tree and the root hash, step by step of main, and where etc/resolv.conf *)
(* is on the way.                                                          *)
(***************************************************************************)
EXTENDS ConvertDisk, TLAPS

-----------------------------------------------------------------------------
(* What is in use, and the hooks that undo it.                              *)

MountNames == {"wefi", "wboot", "rootfs", "dev", "boot", "efi", "etc"}
DmNames == {"lv", "crypt", "hash"}
HookNames == MountNames \cup DmNames \cup {"workdir", "work", "disconnect"}

(* The hooks that Setup registers.                                          *)
Base == IF opt.device THEN 1 ELSE 3
Running == pc \notin {"start", "exit", "over"}

Types ==
    /\ opt \in [boot : BOOLEAN, uki : BOOLEAN, encrypt : BOOLEAN, device : BOOLEAN]
    /\ hooks \in Seq(HookNames) /\ todo \in Seq(MountNames)
    /\ mounts \subseteq MountNames /\ dm \subseteq DmNames
    /\ connected \in BOOLEAN /\ workdir \in BOOLEAN
    /\ pc = "mount" => todo # <<>>
    /\ stage \in {"update", "initrd"}

(* The work directory has the first hook and the image one of the first     *)
(* three.                                                                   *)
Bottom ==
    /\ workdir <=> hooks # <<>>
    /\ \A n \in DOMAIN hooks : hooks[n] = "workdir" <=> n = 1
    /\ \A n \in DOMAIN hooks : hooks[n] = "disconnect" => n <= Base
    /\ connected => \E n \in DOMAIN hooks : hooks[n] = "disconnect"
    /\ Running => Len(hooks) >= Base /\ (opt.device \/ connected)
    /\ pc \in {"start", "over"} => hooks = <<>>

(* Whatever is mounted or mapped has a hook of its own above those.         *)
HasHook(x) == \E n \in DOMAIN hooks : n > Base /\ hooks[n] = x

Covered ==
    /\ \A m \in mounts : HasHook(m)
    /\ \A d \in dm : HasHook(d)
    /\ ~connected /\ ~opt.device => mounts = {} /\ dm = {}
    /\ pc = "finish" => mounts = {}

(* The hook of the encrypted volume is above those of the logical volumes.  *)
Ordered ==
    "crypt" \in dm =>
      /\ pc \in {"copy", "exit"}
      /\ \E n \in DOMAIN hooks :
           hooks[n] = "crypt" /\ \A m \in DOMAIN hooks : m > n => hooks[m] \notin {"lv", "hash"}

HookInv == Types /\ Bottom /\ Covered /\ Ordered

(* Hooks are put on top of the others.                                      *)
LEMMA Pushed ==
    ASSUME NEW s \in Seq(HookNames), NEW t \in Seq(HookNames)
    PROVE  /\ s \o t \in Seq(HookNames) /\ Len(s \o t) = Len(s) + Len(t)
           /\ DOMAIN (s \o t) = 1 .. Len(s) + Len(t) /\ DOMAIN s = 1 .. Len(s) /\ DOMAIN t = 1 .. Len(t)
           /\ Len(s) \in Nat /\ Len(t) \in Nat
           /\ \A n \in 1 .. Len(s) : (s \o t)[n] = s[n]
           /\ \A n \in 1 .. Len(t) : (s \o t)[Len(s) + n] = t[n]
OBVIOUS

(* The hook on top is taken off.                                            *)
LEMMA Popped ==
    ASSUME NEW s \in Seq(HookNames), s # <<>>
    PROVE  /\ Len(s) \in Nat \ {0} /\ DOMAIN s = 1 .. Len(s) /\ Len(s) \in DOMAIN s
           /\ Front(s) \in Seq(HookNames) /\ Len(Front(s)) = Len(s) - 1
           /\ DOMAIN Front(s) = 1 .. Len(s) - 1
           /\ \A n \in 1 .. Len(s) - 1 : Front(s)[n] = s[n]
<1>1. Len(s) \in Nat \ {0} /\ DOMAIN s = 1 .. Len(s) /\ Len(s) \in DOMAIN s
  OBVIOUS
<1>2. Front(s) \in Seq(HookNames) /\ Len(Front(s)) = Len(s) - 1
  BY <1>1 DEF Front
<1>3. \A n \in 1 .. Len(s) - 1 : Front(s)[n] = s[n]
  BY <1>1 DEF Front
<1> QED
  BY <1>1, <1>2, <1>3

(* Steps that register no hook, and only take things away.                  *)
LEMMA NoHook ==
    ASSUME HookInv, UNCHANGED <<opt, hooks, connected, workdir>>,
           mounts' \subseteq mounts, dm' \subseteq dm,
           todo' \in Seq(MountNames), pc' = "mount" => todo' # <<>>, stage' \in {"update", "initrd"},
           Running' => Running, pc' \in {"start", "over"} => hooks = <<>>,
           pc' = "finish" => mounts' = {}, "crypt" \in dm' => pc' \in {"copy", "exit"}
    PROVE  HookInv'
<1>1. Types'
  BY DEF HookInv, Types
<1>2. Bottom'
  BY Zenon DEF HookInv, Bottom, Base
<1>3. Covered'
  <2>1. \A x : HasHook(x) => HasHook(x)'
    BY DEF HasHook, Base
  <2> QED
    BY <2>1 DEF HookInv, Covered
<1>4. Ordered'
  BY DEF HookInv, Ordered
<1> QED
  BY <1>1, <1>2, <1>3, <1>4 DEF HookInv

(* Steps that register the hooks of what they mount or map.                 *)
LEMMA MoreHooks ==
    ASSUME HookInv, NEW hs \in Seq(MountNames \cup DmNames), Hook(hs), hs # <<>>,
           UNCHANGED <<opt, connected, workdir>>,
           mounts' \subseteq MountNames, \A m \in mounts' \ mounts : \E n \in DOMAIN hs : hs[n] = m,
           dm' \subseteq DmNames, \A d \in dm' \ dm : \E n \in DOMAIN hs : hs[n] = d,
           todo' \in Seq(MountNames), pc' = "mount" => todo' # <<>>, stage' \in {"update", "initrd"},
           Running, Running', pc' # "finish",
           "crypt" \in dm' => hs[Len(hs)] = "crypt" /\ pc' = "copy"
    PROVE  HookInv'
<1> DEFINE L == Len(hooks)
           K == Len(hs)
<1>1. hs \in Seq(HookNames) /\ hooks \in Seq(HookNames) /\ hooks' = hooks \o hs
  <2>1. MountNames \cup DmNames \subseteq HookNames
    BY DEF HookNames
  <2> QED
    BY <2>1 DEF HookInv, Types, Hook
<1>2. /\ hooks' \in Seq(HookNames) /\ Len(hooks') = L + K /\ L \in Nat /\ K \in Nat
      /\ DOMAIN hooks' = 1 .. L + K /\ DOMAIN hooks = 1 .. L /\ DOMAIN hs = 1 .. K
      /\ \A n \in 1 .. L : hooks'[n] = hooks[n]
      /\ \A n \in 1 .. K : hooks'[L + n] = hs[n]
  BY <1>1, Pushed
<1>3. Base' = Base /\ Base \in {1, 3} /\ L >= Base /\ (opt.device \/ connected) /\ K # 0
  BY DEF Base, HookInv, Bottom
<1>4. \A n \in 1 .. K : hs[n] \notin {"workdir", "disconnect"}
  BY <1>2 DEF MountNames, DmNames
<1> HIDE DEF L, K
<1>5. Types'
  BY <1>2 DEF HookInv, Types
<1>6. Bottom'
  <2>1. workdir' /\ hooks' # <<>>
    <3>1. Len(hooks) # 0 /\ Len(hooks') # 0
      BY <1>2, <1>3 DEF L
    <3>2. hooks # <<>> /\ hooks' # <<>>
      BY <3>1
    <3> QED
      BY <3>2 DEF HookInv, Bottom
  <2>2. ASSUME NEW n \in DOMAIN hooks'
        PROVE  (hooks'[n] = "workdir" <=> n = 1) /\ (hooks'[n] = "disconnect" => n <= Base)
    <3>1. CASE n > L
      <4>1. n # 1 /\ n - L \in 1 .. K /\ L + (n - L) = n
        BY <1>2, <1>3, <3>1
      <4>2. hooks'[n] = hs[n - L]
        BY <1>2, <4>1
      <4> QED
        BY <1>4, <4>1, <4>2
    <3>2. CASE ~(n > L)
      <4>1. n \in 1 .. L
        BY <1>2, <3>2
      <4> QED
        BY <1>2, <4>1 DEF HookInv, Bottom
    <3> QED
      BY <3>1, <3>2
  <2>3. connected' => \E n \in DOMAIN hooks' : hooks'[n] = "disconnect"
    <3> SUFFICES ASSUME connected PROVE \E n \in DOMAIN hooks' : hooks'[n] = "disconnect"
      OBVIOUS
    <3>1. PICK n \in DOMAIN hooks : hooks[n] = "disconnect"
      BY DEF HookInv, Bottom
    <3>2. n \in DOMAIN hooks' /\ hooks'[n] = "disconnect"
      BY <1>2, <3>1
    <3> QED
      BY <3>2
  <2>4. Len(hooks') >= Base' /\ (opt.device' \/ connected')
    BY <1>2, <1>3
  <2> QED
    BY <1>3, <2>1, <2>2, <2>3, <2>4 DEF Bottom, Running
<1>7. Covered'
  <2>1. ASSUME NEW x, HasHook(x) PROVE HasHook(x)'
    <3>1. PICK n \in DOMAIN hooks : n > Base /\ hooks[n] = x
      BY <2>1 DEF HasHook
    <3>2. n \in DOMAIN hooks' /\ hooks'[n] = x
      BY <1>2, <3>1
    <3> QED
      BY <1>3, <3>1, <3>2 DEF HasHook
  <2>2. ASSUME NEW n \in DOMAIN hs PROVE HasHook(hs[n])'
    <3>1. L + n \in DOMAIN hooks' /\ L + n > Base /\ hooks'[L + n] = hs[n]
      BY <1>2, <1>3
    <3> QED
      BY <1>3, <3>1 DEF HasHook
  <2>3. (\A m \in mounts' : HasHook(m)') /\ (\A d \in dm' : HasHook(d)')
    BY <2>1, <2>2 DEF HookInv, Covered
  <2> QED
    BY <1>3, <2>3, Zenon DEF Covered
<1>8. Ordered'
  <2> SUFFICES ASSUME "crypt" \in dm'
               PROVE  \E n \in DOMAIN hooks' :
                        hooks'[n] = "crypt" /\ \A m \in DOMAIN hooks' : m > n => hooks'[m] \notin {"lv", "hash"}
    BY DEF Ordered
  <2>1. L + K \in DOMAIN hooks' /\ hooks'[L + K] = "crypt" /\ \A m \in DOMAIN hooks' : ~(m > L + K)
    BY <1>2, <1>3 DEF K
  <2> QED
    BY <2>1
<1> QED
  BY <1>5, <1>6, <1>7, <1>8 DEF HookInv

(* Initially there is nothing to undo.                                      *)
LEMMA HookInit == Init => HookInv
<1> SUFFICES ASSUME Init PROVE HookInv
  OBVIOUS
<1>1. hooks = <<>> /\ hooks \in Seq(HookNames) /\ todo \in Seq(MountNames) /\ DOMAIN hooks = {}
  BY DEF Init
<1>2. Types
  BY <1>1 DEF Init, Types
<1>3. Bottom
  BY <1>1 DEF Init, Bottom, Running
<1>4. Covered /\ Ordered
  BY DEF Init, Covered, Ordered
<1> QED
  BY <1>2, <1>3, <1>4 DEF HookInv

(* The mount points to go through.                                          *)
LEMMA TodoLists ==
    /\ Probed \in Seq(MountNames) /\ Probed # <<>>
    /\ ChrootMounts \in Seq(MountNames) /\ ChrootMounts # <<>>
BY DEF Probed, ChrootMounts, MountNames

(* The first hooks.                                                         *)
LEMMA SetupHooks ==
    ASSUME HookInv, Setup
    PROVE  HookInv'
<1>1. hooks = <<>> /\ mounts = {} /\ dm = {} /\ ~connected /\ UNCHANGED <<opt, mounts, dm>>
  <2>1. hooks = <<>> /\ UNCHANGED <<opt, mounts, dm>>
    BY DEF HookInv, Bottom, Setup
  <2>2. DOMAIN hooks = {}
    BY <2>1
  <2> QED
    BY <2>1, <2>2 DEF HookInv, Bottom, Covered, HasHook, Types
<1>2. opt \in [boot : BOOLEAN, uki : BOOLEAN, encrypt : BOOLEAN, device : BOOLEAN] /\ workdir' = TRUE
      /\ pc' = "find" /\ todo' = Probed /\ stage' = stage
  BY DEF HookInv, Types, Setup
<1>3. CASE opt.device
  <2>1. hooks' = <<"workdir">> /\ connected' = connected
    BY <1>1, <1>3 DEF Setup, Hook
  <2>2. /\ hooks' \in Seq(HookNames) /\ Len(hooks') = 1 /\ DOMAIN hooks' = {1} /\ hooks'[1] = "workdir"
        /\ hooks' # <<>>
    BY <2>1 DEF HookNames
  <2>3. Types'
    BY <1>1, <1>2, <2>1, <2>2, TodoLists DEF HookInv, Types
  <2>4. Bottom'
    BY <1>1, <1>2, <1>3, <2>1, <2>2 DEF Bottom, Base, Running
  <2> QED
    BY <1>1, <1>2, <1>3, <2>3, <2>4 DEF HookInv, Covered, Ordered
<1>4. CASE ~opt.device
  <2>1. hooks' = <<"workdir", "work", "disconnect">> /\ connected' = TRUE
    BY <1>1, <1>4 DEF Setup, Hook
  <2>2. /\ hooks' \in Seq(HookNames) /\ Len(hooks') = 3 /\ DOMAIN hooks' = {1, 2, 3}
        /\ hooks'[1] = "workdir" /\ hooks'[2] = "work" /\ hooks'[3] = "disconnect" /\ hooks' # <<>>
    BY <2>1 DEF HookNames
  <2>3. Types'
    BY <1>1, <1>2, <2>1, <2>2, TodoLists DEF HookInv, Types
  <2>4. Bottom'
    BY <1>1, <1>2, <1>4, <2>1, <2>2 DEF Bottom, Base, Running
  <2> QED
    BY <1>1, <1>2, <1>4, <2>1, <2>3, <2>4 DEF HookInv, Covered, Ordered
<1> QED
  BY <1>3, <1>4

(* A hook runs: it undoes what was mounted or mapped last.                  *)
LEMMA RunHookHooks ==
    ASSUME HookInv, RunHook
    PROVE  HookInv'
<1> DEFINE L == Len(hooks)
           h == hooks[L]
<1>1. /\ pc = "exit" /\ hooks # <<>> /\ hooks' = Front(hooks)
      /\ mounts' = mounts \ Below(h)
      /\ connected' = (connected /\ h # "disconnect")
      /\ UNCHANGED <<opt, pc, stage, todo>>
  BY DEF RunHook, RestHooks, NextHook, Last
<1>2. IF h = "workdir" THEN workdir' = FALSE ELSE workdir' = workdir
  BY DEF RunHook, NextHook, Last, work
<1>3. dm' \subseteq dm /\ h \notin dm'
  BY DEF RunHook, NextHook, Last, DmRemoveAll, HookInv, Types, DmNames
<1>4. h \notin mounts' /\ mounts' \subseteq mounts
  <2>1. h \in Below(h)
    BY DEF Below
  <2> QED
    BY <1>1, <2>1
<1>5. /\ hooks \in Seq(HookNames) /\ L \in Nat \ {0} /\ DOMAIN hooks = 1 .. L /\ L \in DOMAIN hooks
      /\ hooks' \in Seq(HookNames) /\ Len(hooks') = L - 1 /\ DOMAIN hooks' = 1 .. L - 1
      /\ \A n \in 1 .. L - 1 : hooks'[n] = hooks[n]
  <2>1. hooks \in Seq(HookNames)
    BY DEF HookInv, Types
  <2> QED
    BY <1>1, <2>1, Popped
<1>6. Base' = Base /\ Base \in {1, 3}
  BY <1>1 DEF Base
<1> HIDE DEF h
<1>7. Types'
  <2>1. connected' \in BOOLEAN /\ workdir' \in BOOLEAN
    BY <1>1, <1>2, Zenon DEF HookInv, Types
  <2> QED
    BY <1>1, <1>3, <1>4, <1>5, <2>1 DEF HookInv, Types
<1>8. Bottom'
  <2>1. workdir' <=> hooks' # <<>>
    <3>1. h = "workdir" <=> L = 1
      BY <1>5 DEF HookInv, Bottom, h
    <3>2. hooks' = <<>> <=> L = 1
      BY <1>5
    <3>3. workdir
      BY <1>1 DEF HookInv, Bottom
    <3> QED
      BY <1>2, <3>1, <3>2, <3>3
  <2>2. connected' => \E n \in DOMAIN hooks' : hooks'[n] = "disconnect"
    <3> SUFFICES ASSUME connected, h # "disconnect" PROVE \E n \in DOMAIN hooks' : hooks'[n] = "disconnect"
      BY <1>1
    <3>1. PICK n \in DOMAIN hooks : hooks[n] = "disconnect"
      BY DEF HookInv, Bottom
    <3>2. n # L
      BY <3>1 DEF h
    <3>3. n \in 1 .. L - 1
      BY <1>5, <3>1, <3>2
    <3> QED
      BY <1>5, <3>1, <3>3
  <2>3. ASSUME NEW n \in DOMAIN hooks'
        PROVE  (hooks'[n] = "workdir" <=> n = 1) /\ (hooks'[n] = "disconnect" => n <= Base)
    <3>1. n \in DOMAIN hooks /\ hooks'[n] = hooks[n]
      BY <1>5
    <3> QED
      BY <3>1 DEF HookInv, Bottom
  <2> QED
    BY <1>1, <1>6, <2>1, <2>2, <2>3 DEF Bottom, Running
<1>9. ASSUME NEW x, HasHook(x), x # h PROVE HasHook(x)'
  <2>1. PICK n \in DOMAIN hooks : n > Base /\ hooks[n] = x
    BY <1>9 DEF HasHook
  <2>2. n \in 1 .. L - 1
    BY <1>5, <1>9, <2>1 DEF h
  <2> QED
    BY <1>5, <1>6, <2>1, <2>2 DEF HasHook
<1>10. Covered'
  <2>1. (\A m \in mounts' : HasHook(m)') /\ (\A d \in dm' : HasHook(d)')
    BY <1>3, <1>4, <1>9 DEF HookInv, Covered
  <2>2. ASSUME ~connected', ~opt.device PROVE mounts' = {} /\ dm' = {}
    <3>1. CASE ~connected
      BY <1>3, <1>4, <2>2, <3>1 DEF HookInv, Covered
    <3>2. CASE connected
      <4>1. h = "disconnect"
        BY <1>1, <2>2, <3>2
      <4>2. L <= Base
        BY <1>5, <4>1 DEF HookInv, Bottom, h
      <4>3. \A x : ~HasHook(x)'
        BY <1>5, <1>6, <4>2 DEF HasHook
      <4> QED
        BY <2>1, <4>3
    <3> QED
      BY <3>1, <3>2
  <2> QED
    BY <1>1, <2>1, <2>2 DEF Covered
<1>11. Ordered'
  <2> SUFFICES ASSUME "crypt" \in dm'
               PROVE  \E n \in DOMAIN hooks' :
                        hooks'[n] = "crypt" /\ \A m \in DOMAIN hooks' : m > n => hooks'[m] \notin {"lv", "hash"}
    BY <1>1 DEF Ordered
  <2>1. PICK n \in DOMAIN hooks :
          hooks[n] = "crypt" /\ \A m \in DOMAIN hooks : m > n => hooks[m] \notin {"lv", "hash"}
    BY <1>3 DEF HookInv, Ordered
  <2>2. n # L
    BY <1>3, <2>1 DEF h
  <2>3. n \in 1 .. L - 1
    BY <1>5, <2>2
  <2> QED
    BY <1>5, <2>1, <2>3
<1> QED
  BY <1>7, <1>8, <1>10, <1>11 DEF HookInv

(* Steps that mount or map.                                                 *)
LEMMA MountingHooks ==
    ASSUME HookInv, ProbeMount \/ ExtractMount \/ MountNext \/ CreateLv \/ OpenCrypt \/ CreateHashLv
    PROVE  HookInv'
<1>1. todo \in Seq(MountNames) /\ mounts \subseteq MountNames /\ dm \subseteq DmNames
      /\ stage \in {"update", "initrd"} /\ stage' = stage
  BY DEF HookInv, Types, ProbeMount, ExtractMount, MountNext, CreateLv, OpenCrypt, CreateHashLv, Goto
<1>2. pc # "copy" /\ pc # "exit" => "crypt" \notin dm
  BY DEF HookInv, Ordered
<1>3. ASSUME todo # <<>> PROVE Head(todo) \in MountNames /\ Tail(todo) \in Seq(MountNames)
  BY <1>1, <1>3
<1>4. ASSUME NEW h \in MountNames \cup DmNames
      PROVE  <<h>> \in Seq(MountNames \cup DmNames) /\ <<h>> # <<>> /\ Len(<<h>>) = 1
             /\ 1 \in DOMAIN <<h>> /\ <<h>>[1] = h
  OBVIOUS
<1>5. CASE ProbeMount
  <2> DEFINE h == Head(todo)
  <2>1. /\ Hook(<<h>>) /\ mounts' = {h} /\ pc = "find" /\ pc' = "probe" /\ todo' = Tail(todo)
        /\ UNCHANGED <<opt, dm, connected, workdir>> /\ todo # <<>>
    BY <1>5 DEF ProbeMount, work
  <2>2. h \in MountNames /\ Tail(todo) \in Seq(MountNames)
    BY <1>3, <2>1
  <2> HIDE DEF h
  <2> QED
    BY <1>1, <1>2, <1>4, <2>1, <2>2, MoreHooks DEF Running
<1>6. CASE ExtractMount
  <2> DEFINE hs == <<"wboot", "rootfs">>
  <2>1. /\ Hook(hs) /\ mounts' = {"wboot", "rootfs"} /\ pc = "extract" /\ pc' = "delete"
        /\ UNCHANGED <<opt, dm, connected, workdir, todo>>
    BY <1>6 DEF ExtractMount, Goto
  <2>2. /\ hs \in Seq(MountNames \cup DmNames) /\ hs # <<>> /\ DOMAIN hs = {1, 2}
        /\ hs[1] = "wboot" /\ hs[2] = "rootfs" /\ {"wboot", "rootfs"} \subseteq MountNames
    BY DEF MountNames
  <2> HIDE DEF hs
  <2>3. \A m \in mounts' \ mounts : \E n \in DOMAIN hs : hs[n] = m
    BY <2>1, <2>2
  <2> QED
    BY <1>1, <1>2, <2>1, <2>2, <2>3, MoreHooks DEF Running
<1>7. CASE MountNext
  <2> DEFINE h == Head(todo)
  <2>1. /\ Hook(<<h>>) /\ mounts' = mounts \cup {h} /\ pc = "mount" /\ todo' = Tail(todo)
        /\ pc' = IF todo' = <<>> THEN stage ELSE "mount"
        /\ UNCHANGED <<opt, dm, connected, workdir>> /\ todo # <<>>
    BY <1>7 DEF MountNext, HookInv, Types
  <2>2. h \in MountNames /\ Tail(todo) \in Seq(MountNames)
    BY <1>3, <2>1
  <2>3. Running' /\ pc' # "finish" /\ (pc' = "mount" => todo' # <<>>)
    BY <1>1, <2>1 DEF Running
  <2> HIDE DEF h
  <2> QED
    BY <1>1, <1>2, <1>4, <2>1, <2>2, <2>3, MoreHooks DEF Running
<1>8. CASE CreateLv
  <2>1. /\ Hook(<<"lv">>) /\ dm' = {"lv"} /\ pc = "lv" /\ pc' \in {"crypt", "copy"}
        /\ UNCHANGED <<opt, mounts, connected, workdir, todo>>
    BY <1>8 DEF CreateLv, Goto, work
  <2>2. "lv" \in DmNames
    BY DEF DmNames
  <2> QED
    BY <1>1, <1>2, <1>4, <2>1, <2>2, MoreHooks DEF Running
<1>9. CASE OpenCrypt
  <2>1. /\ Hook(<<"crypt">>) /\ dm' = dm \cup {"crypt"} /\ pc = "crypt" /\ pc' = "copy"
        /\ UNCHANGED <<opt, mounts, connected, workdir, todo>>
    BY <1>9 DEF OpenCrypt, Goto, work
  <2>2. "crypt" \in DmNames
    BY DEF DmNames
  <2> QED
    BY <1>1, <1>4, <2>1, <2>2, MoreHooks DEF Running
<1>10. CASE CreateHashLv
  <2>1. /\ Hook(<<"hash">>) /\ dm' = dm \cup {"hash"} /\ pc = "hash" /\ pc' = "metadata"
        /\ UNCHANGED <<opt, mounts, connected, workdir, todo>>
    BY <1>10 DEF CreateHashLv, Goto, work
  <2>2. "hash" \in DmNames
    BY DEF DmNames
  <2> QED
    BY <1>1, <1>2, <1>4, <2>1, <2>2, MoreHooks DEF Running
<1> QED
  BY <1>5, <1>6, <1>7, <1>8, <1>9, <1>10

(* Steps that do not.                                                       *)
LEMMA OtherHooks ==
    ASSUME HookInv, ProbeUnmount \/ Found \/ ExtractDelete \/ UpdateRootfs \/ UpdateInitrd \/ Cleanup
                    \/ Shrink \/ Extract \/ DeletePart \/ CreateParts \/ CopyRoot \/ WriteMetadata
                    \/ Fail \/ Exited \/ Rerun
    PROVE  HookInv'
<1>1. todo \in Seq(MountNames) /\ ("crypt" \in dm => pc \in {"copy", "exit"})
      /\ (pc \in {"start", "over"} => hooks = <<>>)
  BY DEF HookInv, Types, Ordered, Bottom
<1>0. hooks = <<>> => dm = {}
  <2>1. hooks = <<>> => DOMAIN hooks = {}
    OBVIOUS
  <2> QED
    BY <2>1 DEF HookInv, Covered, HasHook
<1>2. UNCHANGED <<opt, hooks, connected>>
  BY DEF ProbeUnmount, Found, ExtractDelete, UpdateRootfs, UpdateInitrd, Cleanup, Shrink, Extract,
         DeletePart, CreateParts, CopyRoot, WriteMetadata, Fail, Exited, Rerun
<1>3. UNCHANGED workdir
  BY DEF ProbeUnmount, Found, ExtractDelete, UpdateRootfs, UpdateInitrd, Cleanup, Shrink, Extract,
         DeletePart, CreateParts, CopyRoot, WriteMetadata, Fail, Exited, Rerun, work
<1>4. mounts' \subseteq mounts
  BY DEF ProbeUnmount, Found, ExtractDelete, UpdateRootfs, UpdateInitrd, Cleanup, Shrink, Extract,
         DeletePart, CreateParts, CopyRoot, WriteMetadata, Fail, Exited, Rerun, Unmount
<1>5. dm' \subseteq dm
  BY DEF ProbeUnmount, Found, ExtractDelete, UpdateRootfs, UpdateInitrd, Cleanup, Shrink, Extract,
         DeletePart, CreateParts, CopyRoot, WriteMetadata, Fail, Exited, Rerun, DmRemoveAll
<1>6. "crypt" \in dm' => pc' \in {"copy", "exit"}
  <2>1. CASE CopyRoot \/ WriteMetadata
    BY <2>1 DEF CopyRoot, WriteMetadata, DmRemoveAll
  <2>2. CASE Exited
    BY <1>0, <1>5, <2>2 DEF Exited
  <2>3. CASE Fail
    BY <2>3 DEF Fail
  <2>4. CASE ~(CopyRoot \/ WriteMetadata \/ Exited \/ Fail)
    BY <1>1, <1>5, <2>4 DEF ProbeUnmount, Found, ExtractDelete, UpdateRootfs, UpdateInitrd, Cleanup,
         Shrink, Extract, DeletePart, CreateParts, Rerun
  <2> QED
    BY <2>1, <2>2, <2>3, <2>4
<1>8. /\ todo' \in Seq(MountNames) /\ (pc' = "mount" => todo' # <<>>)
      /\ stage' \in {"update", "initrd"}
  <2>1. CASE EnterChroot("update") \/ EnterChroot("initrd")
    BY <2>1, TodoLists DEF EnterChroot
  <2>2. CASE Rerun
    BY <2>2 DEF Rerun
  <2>3. CASE ~Rerun /\ ~(EnterChroot("update") \/ EnterChroot("initrd"))
    <3>1. UNCHANGED <<todo, stage>> /\ pc' # "mount"
      BY <2>3 DEF ProbeUnmount, Found, ExtractDelete, UpdateRootfs, UpdateInitrd, Cleanup, Shrink,
         Extract, DeletePart, CreateParts, CopyRoot, WriteMetadata, Fail, Exited, Goto
    <3> QED
      BY <1>1, <3>1 DEF HookInv, Types
  <2> QED
    BY <2>1, <2>2, <2>3
<1>7. (Running' => Running) /\ (pc' \in {"start", "over"} => hooks = <<>>)
      /\ (pc' = "finish" => mounts' = {})
  BY <1>1 DEF ProbeUnmount, Found, ExtractDelete, UpdateRootfs, UpdateInitrd, Cleanup, Shrink,
         Extract, DeletePart, CreateParts, CopyRoot, WriteMetadata, Fail, Exited, Rerun, Goto,
         EnterChroot, Unmount, Running
<1> QED
  BY <1>2, <1>3, <1>4, <1>5, <1>6, <1>7, <1>8, NoHook

(* The script reaches its end.                                              *)
LEMMA FinishHooks ==
    ASSUME HookInv, Finish
    PROVE  HookInv'
<1>1. pc = "finish" /\ pc' = "exit" /\ connected' = FALSE /\ dm' = {}
      /\ UNCHANGED <<opt, stage, todo, hooks, mounts, workdir>>
  BY DEF Finish, DmRemoveAll, work
<1>2. mounts = {}
  BY <1>1 DEF HookInv, Covered
<1>3. Types'
  BY <1>1 DEF HookInv, Types
<1>4. Bottom'
  BY <1>1 DEF HookInv, Bottom, Base, Running
<1> QED
  BY <1>1, <1>2, <1>3, <1>4 DEF HookInv, Covered, Ordered
(* Every step keeps the account.                                            *)
LEMMA HookNext == HookInv /\ [Next]_vars => HookInv'
<1> SUFFICES ASSUME HookInv, [Next]_vars PROVE HookInv'
  OBVIOUS
<1>1. CASE UNCHANGED vars
  <2>1. UNCHANGED <<opt, pc, stage, todo, hooks, mounts, dm, connected, workdir>>
    BY <1>1 DEF vars, work
  <2> QED
    BY <2>1 DEF HookInv, Types, Bottom, Covered, Ordered, HasHook, Base, Running
<1>2. CASE Next
  <2>1. CASE Setup
    BY <2>1, SetupHooks
  <2>2. CASE RunHook
    BY <2>2, RunHookHooks
  <2>3. CASE Finish
    BY <2>3, FinishHooks
  <2>4. CASE ProbeMount \/ ExtractMount \/ MountNext \/ CreateLv \/ OpenCrypt \/ CreateHashLv
    BY <2>4, MountingHooks
  <2>5. CASE ProbeUnmount \/ Found \/ ExtractDelete \/ UpdateRootfs \/ UpdateInitrd \/ Cleanup
             \/ Shrink \/ Extract \/ DeletePart \/ CreateParts \/ CopyRoot \/ WriteMetadata
             \/ Fail \/ Exited \/ Rerun
    BY <2>5, OtherHooks
  <2> QED
    BY <1>1, <1>2, <2>1, <2>2, <2>3, <2>4, <2>5 DEF Next, Over
<1> QED
  BY <1>1, <1>2

(* The hooks of the exit trap account for all that is in use.               *)
LEMMA HooksHold == Spec => []HookInv
<1> QED
  BY HookInit, HookNext, PTL DEF Spec

(* The work directory is never deleted under a mount, and the image never   *)
(* disconnected under a mount or a mapped device, at whichever command the  *)
(* script fails and whichever hooks of its exit trap have run by then, in   *)
(* any number of conversions.                                               *)
THEOREM TeardownIsSafe == Spec => []SafeTeardown
<1>1. HookInv => SafeTeardown
  <2> SUFFICES ASSUME HookInv PROVE SafeTeardown
    OBVIOUS
  <2>1. hooks = <<>> => DOMAIN hooks = {}
    OBVIOUS
  <2> QED
    BY <2>1 DEF HookInv, Bottom, Covered, HasHook, SafeTeardown
<1> QED
  BY <1>1, HooksHold, PTL

(* When the exit trap has ended, nothing of a conversion is left mounted,   *)
(* mapped or connected, and no work directory.                              *)
THEOREM TrapLeavesNothing == Spec => []NothingLeft
<1>1. HookInv => NothingLeft
  <2> SUFFICES ASSUME HookInv, pc = "over"
               PROVE  mounts = {} /\ dm = {} /\ ~connected /\ ~workdir
    BY DEF NothingLeft
  <2>1. hooks = <<>> /\ DOMAIN hooks = {}
    BY DEF HookInv, Bottom
  <2> QED
    BY <2>1 DEF HookInv, Bottom, Covered, HasHook
<1> QED
  BY <1>1, HooksHold, PTL

(* The trap never comes to a logical volume while the encrypted volume on   *)
(* it is open: dm_remove_all, which would wait for ever, never has to wait. *)
(* This is the safety part of TrapEnds.                                     *)
THEOREM TrapNeverWaits ==
    Spec => [](pc = "exit" /\ hooks # <<>> /\ NextHook \in {"lv", "hash"} => "crypt" \notin dm)
<1>1. HookInv => (pc = "exit" /\ hooks # <<>> /\ NextHook \in {"lv", "hash"} => "crypt" \notin dm)
  <2> SUFFICES ASSUME HookInv, hooks # <<>>, NextHook \in {"lv", "hash"}, "crypt" \in dm PROVE FALSE
    OBVIOUS
  <2>1. hooks \in Seq(HookNames) /\ Len(hooks) \in Nat \ {0} /\ DOMAIN hooks = 1 .. Len(hooks)
        /\ Len(hooks) \in DOMAIN hooks
    BY Popped DEF HookInv, Types
  <2>2. hooks[Len(hooks)] \in {"lv", "hash"}
    BY DEF NextHook, Last
  <2>3. PICK n \in DOMAIN hooks :
          hooks[n] = "crypt" /\ \A m \in DOMAIN hooks : m > n => hooks[m] \notin {"lv", "hash"}
    BY DEF HookInv, Ordered
  <2>4. ~(Len(hooks) > n)
    BY <2>1, <2>2, <2>3
  <2>5. n = Len(hooks)
    BY <2>1, <2>4
  <2> QED
    BY <2>2, <2>3, <2>5
<1> QED
  BY <1>1, HooksHold, PTL

-----------------------------------------------------------------------------
(* What is on the disk and in the work directory at each step of main.      *)

IsRoot(r) == r = [kernel |-> r.kernel, updated |-> r.updated, ro |-> r.ro, etc |-> r.etc,
                  backup |-> r.backup]
One(s) == s = <<s[1]>> /\ IsRoot(s[1])
IsBoot(b) == b = [kernel |-> b.kernel, meta |-> b.meta]

Records ==
    /\ disk = [root |-> disk.root, boot |-> disk.boot, efi |-> disk.efi, lv |-> disk.lv,
               hash |-> disk.hash, etc |-> disk.etc]
    /\ IsBoot(disk.boot)
    /\ disk.root # None => One(disk.root)
    /\ files = [boot |-> files.boot, root |-> files.root, metadata |-> files.metadata]
    /\ runs \in Nat \ {0}

(* The steps before and after the root filesystem is in rootfs.img, those   *)
(* that need the partition, and the two uses of the chroot.                 *)
InUpdate == stage = "update" /\ pc \in {"mount", "update", "clean"}
InInitrd == stage = "initrd" /\ pc \in {"mount", "initrd", "clean", "finish"}
Before == {"start", "find", "probe", "extract", "delete"}
Shrinking == {"shrink", "dump", "rmpart"}
Building == {"parts", "lv", "crypt", "copy", "hash", "metadata"}

Places ==
    /\ outcome \in {"running", "ok", "failed"}
    /\ outcome = "running" <=> pc \notin {"exit", "over"}
    /\ pc \in Before \cup Shrinking \cup Building => stage = "update"
    /\ outcome = "running" => pc \in Before \cup Shrinking \cup Building \/ InUpdate \/ InInitrd
    /\ pc = "mount" => \A i \in 1 .. Len(todo) : todo[i] = "etc" <=> i = Len(todo)

(* The root filesystem is there and, once updated, stays so until it is on  *)
(* the logical volume, hashed, and its hash in metadata.toml.               *)
Flow ==
    /\ pc \in {"extract", "delete"} \cup Shrinking \/ InUpdate => One(disk.root)
    /\ NewBoot /\ (pc \in {"delete"} \cup Shrinking \cup {"parts"} \/ InUpdate) =>
         IsBoot(files.boot[1])
    /\ pc \in Shrinking \/ (InUpdate /\ pc = "clean") => disk.root[1].updated = TRUE
    /\ pc \in {"rmpart"} \cup Building => One(files.root) /\ files.root[1].updated = TRUE
    /\ pc \in {"hash", "metadata"} => disk.lv = files.root
    /\ pc = "metadata" => disk.hash = files.root
    /\ InInitrd \/ outcome = "ok" =>
         One(disk.lv) /\ disk.lv[1].updated = TRUE /\ disk.hash = disk.lv
    /\ InInitrd => files.metadata = disk.lv
    /\ (InInitrd /\ pc \in {"clean", "finish"}) \/ outcome = "ok" =>
         /\ (IF opt.uki THEN disk.efi ELSE disk.boot.meta) = disk.lv
         /\ opt.uki \/ disk.boot.kernel

(* In a first conversion of a disk with a regular etc/resolv.conf: where    *)
(* that file is.                                                            *)
Etc ==
    runs = 1 /\ disk.etc = "file" =>
      /\ pc \in Before \/ (InUpdate /\ pc = "mount") =>
           One(disk.root) /\ disk.root[1].etc = "file" /\ disk.root[1].backup = "absent"
      /\ InUpdate /\ pc # "mount" => disk.root[1].etc = "empty" /\ disk.root[1].backup = "file"
      /\ pc \in Shrinking => disk.root[1].etc = "file"
      /\ pc \in {"rmpart"} \cup Building => files.root[1].etc = "file"
      /\ InInitrd \/ outcome = "ok" => disk.lv[1].etc = "file"

FlowInv == Types /\ Records /\ Places /\ Flow /\ Etc

(* A new disk.                                                              *)
LEMMA Original ==
    ASSUME opt \in [boot : BOOLEAN, uki : BOOLEAN, encrypt : BOOLEAN, device : BOOLEAN], NEW k
    PROVE  LET d == OriginalDisk(k) IN
           /\ d = [root |-> d.root, boot |-> d.boot, efi |-> d.efi, lv |-> d.lv, hash |-> d.hash,
                   etc |-> d.etc]
           /\ IsBoot(d.boot) /\ One(d.root) /\ d.etc = k
           /\ d.root[1].etc = k /\ d.root[1].backup = "absent"
BY DEF OriginalDisk, IsBoot, One, IsRoot

(* What the chroot still has to mount: etc/resolv.conf is the last.         *)
LEMMA ChrootList ==
    \A i \in 1 .. Len(ChrootMounts) : ChrootMounts[i] = "etc" <=> i = Len(ChrootMounts)
BY DEF ChrootMounts

(* It holds before the first command.                                       *)
LEMMA FlowInit == Init => FlowInv
<1> SUFFICES ASSUME Init PROVE FlowInv
  OBVIOUS
<1>1. Types
  BY HookInit DEF HookInv
<1>2. PICK k \in EtcKinds : disk = OriginalDisk(k)
  BY DEF Init
<1>3. /\ pc = "start" /\ stage = "update" /\ outcome = "running" /\ files = NoFiles /\ runs = 1
  BY DEF Init
<1>4. /\ disk = [root |-> disk.root, boot |-> disk.boot, efi |-> disk.efi, lv |-> disk.lv,
                 hash |-> disk.hash, etc |-> disk.etc]
      /\ IsBoot(disk.boot) /\ One(disk.root)
      /\ disk.root[1].etc = disk.etc /\ disk.root[1].backup = "absent"
  BY <1>1, <1>2, Original DEF Types
<1>5. Records
  BY <1>3, <1>4 DEF Records, NoFiles
<1>6. Places
  BY <1>3 DEF Places, Before
<1>7. Flow
  BY <1>3 DEF Flow, Shrinking, Building, InUpdate, InInitrd
<1>8. Etc
  BY <1>3, <1>4 DEF Etc, Before, Shrinking, Building, InUpdate, InInitrd
<1> QED
  BY <1>1, <1>5, <1>6, <1>7, <1>8 DEF FlowInv

(* Steps that write neither to the disk nor to the work directory.          *)
LEMMA QuietFlow ==
    ASSUME FlowInv, Types',
           ProbeMount \/ ProbeUnmount \/ Found \/ CreateLv \/ OpenCrypt \/ Finish \/ Fail \/ Exited
    PROVE  FlowInv'
<1>1. UNCHANGED <<opt, disk, files, runs>>
  BY DEF ProbeMount, ProbeUnmount, Found, CreateLv, OpenCrypt, Finish, Fail, Exited, work
<1>2. Records'
  BY <1>1 DEF FlowInv, Records
<1>4. Places'
  <2>1. CASE Found /\ ~NewBoot
    BY <2>1, ChrootList DEF FlowInv, Places, Found, EnterChroot, InUpdate, Before
  <2>2. CASE ~(Found /\ ~NewBoot)
    BY <2>2 DEF FlowInv, Places, ProbeMount, ProbeUnmount, Found, CreateLv, OpenCrypt, Finish, Fail,
         Exited, Goto, Before, Building, Shrinking, InUpdate, InInitrd
  <2> QED
    BY <2>1, <2>2
<1>5. Flow'
  <2>1. CASE Found
    BY <1>1, <2>1 DEF FlowInv, Places, Records, Flow, Found, EnterChroot, Goto, NewBoot, InUpdate, InInitrd,
       Before, Shrinking, Building
  <2>2. CASE Finish
    BY <1>1, <2>2 DEF FlowInv, Places, Flow, Finish, InUpdate, InInitrd, Before, Shrinking, Building
  <2>3. CASE Fail \/ Exited
    BY <1>1, <2>3 DEF FlowInv, Places, Flow, Fail, Exited, Goto, InUpdate, InInitrd, Shrinking, Building
  <2>4. CASE ProbeMount \/ ProbeUnmount
    BY <1>1, <2>4 DEF FlowInv, Places, Flow, ProbeMount, ProbeUnmount, Goto, InUpdate, InInitrd,
       Shrinking, Building
  <2>5. CASE CreateLv \/ OpenCrypt
    BY <1>1, <2>5 DEF FlowInv, Places, Flow, CreateLv, OpenCrypt, Goto, InUpdate, InInitrd, NewBoot,
       Shrinking, Building
  <2> QED
    BY <2>1, <2>2, <2>3, <2>4, <2>5
<1>6. Etc'
  <2>1. CASE Found
    BY <1>1, <2>1 DEF FlowInv, Etc, Found, EnterChroot, Goto, InUpdate, InInitrd, Before, Shrinking,
       Building, Places
  <2>2. CASE Finish
    BY <1>1, <2>2 DEF FlowInv, Etc, Finish, InUpdate, InInitrd, Before, Shrinking, Building, Places
  <2>3. CASE Fail \/ Exited
    BY <1>1, <2>3 DEF FlowInv, Etc, Fail, Exited, Goto, InUpdate, InInitrd, Before, Shrinking, Building, Places
  <2>4. CASE ProbeMount \/ ProbeUnmount
    BY <1>1, <2>4 DEF FlowInv, Etc, ProbeMount, ProbeUnmount, Goto, InUpdate, InInitrd, Before, Shrinking,
       Building, Places
  <2>5. CASE CreateLv \/ OpenCrypt
    BY <1>1, <2>5 DEF FlowInv, Etc, CreateLv, OpenCrypt, Goto, InUpdate, InInitrd, Before, Shrinking,
       Building, Places
  <2> QED
    BY <2>1, <2>2, <2>3, <2>4, <2>5
<1> QED
  BY <1>2, <1>4, <1>5, <1>6 DEF FlowInv

(* Setup and the hooks of the trap, which reset the work directory.         *)
LEMMA WorkFlow ==
    ASSUME FlowInv, Types', Setup \/ RunHook
    PROVE  FlowInv'
<1>1. UNCHANGED <<opt, disk, runs, stage, outcome>> /\ (files' = NoFiles \/ files' = files)
  BY DEF Setup, RunHook, work
<1>2. Records'
  BY <1>1 DEF FlowInv, Records, NoFiles
<1>3. CASE Setup
  <2>1. pc = "start" /\ pc' = "find"
    BY <1>3 DEF Setup
  <2> QED
    BY <1>1, <1>2, <2>1 DEF FlowInv, Places, Flow, Etc, Before, Shrinking, Building, InUpdate, InInitrd
<1>4. CASE RunHook
  <2>1. pc = "exit" /\ pc' = "exit"
    BY <1>4 DEF RunHook
  <2> QED
    BY <1>1, <1>2, <2>1 DEF FlowInv, Places, Flow, Etc, Before, Shrinking, Building, InUpdate, InInitrd
<1> QED
  BY <1>3, <1>4

(* Another conversion.                                                      *)
LEMMA RerunFlow ==
    ASSUME FlowInv, Types', Rerun
    PROVE  FlowInv'
<1>1. /\ UNCHANGED <<opt, files>> /\ runs' = runs + 1 /\ pc' = "start" /\ stage' = "update"
      /\ outcome' = "running" /\ disk' = IF opt.device THEN disk ELSE OriginalDisk(disk.etc)
  BY DEF Rerun, work
<1>2. Records' /\ runs' # 1
  BY <1>1, Original DEF FlowInv, Records, Types
<1> QED
  BY <1>1, <1>2 DEF FlowInv, Places, Flow, Etc, Before, Shrinking, Building, InUpdate, InInitrd

(* [2] /boot is extracted to boot.img.                                      *)
LEMMA ExtractMountFlow ==
    ASSUME FlowInv, Types', ExtractMount
    PROVE  FlowInv'
<1>1. /\ UNCHANGED <<opt, disk, runs, stage, outcome>> /\ pc = "extract" /\ pc' = "delete"
      /\ files' = [files EXCEPT !.boot = <<[kernel |-> disk.root[1].kernel, meta |-> None]>>]
  BY DEF ExtractMount, Goto
<1>2. /\ files'.boot[1] = [kernel |-> disk.root[1].kernel, meta |-> None]
      /\ files' = [boot |-> files'.boot, root |-> files'.root, metadata |-> files'.metadata]
  BY <1>1 DEF FlowInv, Records
<1>3. IsBoot(files'.boot[1])
  BY <1>2 DEF IsBoot
<1>4. Records'
  BY <1>1, <1>2 DEF FlowInv, Records
<1> HIDE DEF One, IsBoot
<1> QED
  BY <1>1, <1>3, <1>4 DEF FlowInv, Places, Flow, Etc, Before, Shrinking, Building, InUpdate, InInitrd, NewBoot

(* One field of the contents of a root filesystem is set.                   *)
LEMMA SetField ==
    ASSUME NEW s, One(s), NEW v
    PROVE  /\ LET t == [s EXCEPT ![1].kernel = v] IN
                One(t) /\ t[1] = [s[1] EXCEPT !.kernel = v]
           /\ LET t == [s EXCEPT ![1].updated = v] IN
                One(t) /\ t[1] = [s[1] EXCEPT !.updated = v]
           /\ LET t == [s EXCEPT ![1].ro = v] IN
                One(t) /\ t[1] = [s[1] EXCEPT !.ro = v]
BY DEF One, IsRoot

(* A value of a field of the disk.                                          *)
LEMMA SetRoot ==
    ASSUME Records, NEW s, disk' = [disk EXCEPT !.root = s], One(s)
    PROVE  /\ disk' = [root |-> disk'.root, boot |-> disk'.boot, efi |-> disk'.efi, lv |-> disk'.lv,
                       hash |-> disk'.hash, etc |-> disk'.etc]
           /\ IsBoot(disk'.boot) /\ disk'.root = s /\ disk'.boot = disk.boot /\ disk'.efi = disk.efi
           /\ disk'.lv = disk.lv /\ disk'.hash = disk.hash /\ disk'.etc = disk.etc
BY DEF Records

(* /boot is deleted from the root filesystem, and [3] its packages are      *)
(* installed, and [4] it is marked read-only.                               *)
LEMMA RootFlow ==
    ASSUME FlowInv, Types', ExtractDelete \/ UpdateRootfs \/ Shrink
    PROVE  FlowInv'
<1>1. UNCHANGED <<opt, files, runs, outcome>>
  BY DEF ExtractDelete, UpdateRootfs, Shrink, work, Goto, EnterChroot
<1>2. One(disk.root)
  BY DEF FlowInv, Flow, Places, ExtractDelete, UpdateRootfs, Shrink, Shrinking, InUpdate, InInitrd,
     Before, Building
<1>3. PICK s : /\ disk' = [disk EXCEPT !.root = s] /\ One(s)
               /\ \/ ExtractDelete /\ s[1] = [disk.root[1] EXCEPT !.kernel = FALSE]
                  \/ UpdateRootfs /\ s[1] = [disk.root[1] EXCEPT !.updated = TRUE]
                  \/ Shrink /\ s[1] = [disk.root[1] EXCEPT !.ro = TRUE]
  <2>1. CASE ExtractDelete
    <3> DEFINE s == [disk.root EXCEPT ![1].kernel = FALSE]
    <3>1. disk' = [disk EXCEPT !.root = s]
      BY <2>1 DEF ExtractDelete
    <3>2. One(s) /\ s[1] = [disk.root[1] EXCEPT !.kernel = FALSE]
      BY <1>2, SetField
    <3> HIDE DEF s
    <3> QED
      BY <2>1, <3>1, <3>2
  <2>2. CASE UpdateRootfs
    <3> DEFINE s == [disk.root EXCEPT ![1].updated = TRUE]
    <3>1. disk' = [disk EXCEPT !.root = s]
      BY <2>2 DEF UpdateRootfs
    <3>2. One(s) /\ s[1] = [disk.root[1] EXCEPT !.updated = TRUE]
      BY <1>2, SetField
    <3> HIDE DEF s
    <3> QED
      BY <2>2, <3>1, <3>2
  <2>3. CASE Shrink
    <3> DEFINE s == [disk.root EXCEPT ![1].ro = TRUE]
    <3>1. disk' = [disk EXCEPT !.root = s]
      BY <2>3 DEF Shrink
    <3>2. One(s) /\ s[1] = [disk.root[1] EXCEPT !.ro = TRUE]
      BY <1>2, SetField
    <3> HIDE DEF s
    <3> QED
      BY <2>3, <3>1, <3>2
  <2> QED
    BY <2>1, <2>2, <2>3
<1>4. /\ disk' = [root |-> disk'.root, boot |-> disk'.boot, efi |-> disk'.efi, lv |-> disk'.lv,
                  hash |-> disk'.hash, etc |-> disk'.etc]
      /\ IsBoot(disk'.boot) /\ disk'.root = s /\ disk'.boot = disk.boot /\ disk'.efi = disk.efi
      /\ disk'.lv = disk.lv /\ disk'.hash = disk.hash /\ disk'.etc = disk.etc
  BY <1>3, SetRoot DEF FlowInv
<1>5. Records'
  BY <1>1, <1>3, <1>4 DEF FlowInv, Records
<1>6. CASE ExtractDelete
  <2>1. pc = "delete" /\ pc' = "mount" /\ stage' = "update" /\ todo' = ChrootMounts
    BY <1>6 DEF ExtractDelete, EnterChroot
  <2>2. disk'.root[1].etc = disk.root[1].etc /\ disk'.root[1].backup = disk.root[1].backup
    <3>1. s[1] = [disk.root[1] EXCEPT !.kernel = FALSE]
      BY <1>3, <1>6 DEF ExtractDelete, UpdateRootfs, Shrink
    <3> QED
      BY <1>2, <1>4, <3>1 DEF One, IsRoot
  <2>3. Places'
    BY <1>1, <2>1, ChrootList DEF FlowInv, Places, Before, InUpdate
  <2> QED
    BY <1>1, <1>3, <1>4, <1>5, <2>1, <2>2, <2>3 DEF FlowInv, Places, Flow, Etc, Before, Shrinking, Building, InUpdate,
       InInitrd, NewBoot
<1>7. CASE UpdateRootfs
  <2>1. pc = "update" /\ pc' = "clean" /\ stage' = stage /\ stage = "update"
    BY <1>7 DEF UpdateRootfs, Goto, FlowInv, Places, Before, Shrinking, Building, InUpdate, InInitrd
  <2>2. /\ disk'.root[1].etc = disk.root[1].etc /\ disk'.root[1].backup = disk.root[1].backup
        /\ disk'.root[1].updated = TRUE
    <3>1. s[1] = [disk.root[1] EXCEPT !.updated = TRUE]
      BY <1>3, <2>1 DEF ExtractDelete, UpdateRootfs, Shrink
    <3> QED
      BY <1>2, <1>4, <3>1 DEF One, IsRoot
  <2> QED
    BY <1>1, <1>3, <1>4, <1>5, <2>1, <2>2 DEF FlowInv, Places, Flow, Etc, Before, Shrinking, Building, InUpdate,
       InInitrd, NewBoot
<1>8. CASE Shrink
  <2>1. pc = "shrink" /\ pc' = "dump" /\ stage' = stage /\ stage = "update"
    BY <1>8 DEF Shrink, Goto, FlowInv, Places, Before, Shrinking, Building, InUpdate, InInitrd
  <2>2. /\ disk'.root[1].etc = disk.root[1].etc /\ disk'.root[1].backup = disk.root[1].backup
        /\ disk'.root[1].updated = disk.root[1].updated
    <3>1. s[1] = [disk.root[1] EXCEPT !.ro = TRUE]
      BY <1>3, <2>1 DEF ExtractDelete, UpdateRootfs, Shrink
    <3> QED
      BY <1>2, <1>4, <3>1 DEF One, IsRoot
  <2> QED
    BY <1>1, <1>3, <1>4, <1>5, <2>1, <2>2 DEF FlowInv, Places, Flow, Etc, Before, Shrinking, Building, InUpdate,
       InInitrd, NewBoot
<1> QED
  BY <1>6, <1>7, <1>8

(* The root filesystem goes to rootfs.img, and its partition.               *)
LEMMA ExtractFlow ==
    ASSUME FlowInv, Types', Extract \/ DeletePart
    PROVE  FlowInv'
<1>1. UNCHANGED <<opt, runs, outcome, stage>>
  BY DEF Extract, DeletePart, Goto
<1>2. CASE Extract
  <2>1. /\ pc = "dump" /\ pc' = "rmpart" /\ disk' = disk
        /\ files' = [files EXCEPT !.root = disk.root]
    BY <1>2 DEF Extract, Goto
  <2>2. /\ files'.root = disk.root /\ files'.boot = files.boot
        /\ files' = [boot |-> files'.boot, root |-> files'.root, metadata |-> files'.metadata]
    BY <2>1 DEF FlowInv, Records
  <2>3. Records'
    BY <1>1, <2>1, <2>2 DEF FlowInv, Records
  <2> QED
    BY <1>1, <2>1, <2>2, <2>3 DEF FlowInv, Places, Flow, Etc, Before, Shrinking, Building, InUpdate,
       InInitrd, NewBoot
<1>3. CASE DeletePart
  <2>1. /\ pc = "rmpart" /\ pc' = "parts" /\ files' = files
        /\ disk' = [disk EXCEPT !.root = None]
    BY <1>3 DEF DeletePart, Goto, work
  <2>2. /\ disk' = [root |-> disk'.root, boot |-> disk'.boot, efi |-> disk'.efi, lv |-> disk'.lv,
                    hash |-> disk'.hash, etc |-> disk'.etc]
        /\ disk'.root = None /\ disk'.boot = disk.boot /\ disk'.etc = disk.etc
    BY <2>1 DEF FlowInv, Records
  <2>3. Records'
    BY <1>1, <2>1, <2>2 DEF FlowInv, Records
  <2> QED
    BY <1>1, <2>1, <2>2, <2>3 DEF FlowInv, Places, Flow, Etc, Before, Shrinking, Building, InUpdate,
       InInitrd, NewBoot
<1> QED
  BY <1>2, <1>3

(* [5] to [8]: the partitions and the volumes.                              *)
LEMMA BuildFlow ==
    ASSUME FlowInv, Types', CreateParts \/ CopyRoot \/ CreateHashLv
    PROVE  FlowInv'
<1>1. UNCHANGED <<opt, runs, outcome, stage, files>>
  BY DEF CreateParts, CopyRoot, CreateHashLv, Goto, work
<1>2. CASE CreateParts
  <2>1. /\ pc = "parts" /\ pc' = "lv"
        /\ disk' = IF NewBoot THEN [disk EXCEPT !.boot = files.boot[1]] ELSE disk
    BY <1>2 DEF CreateParts, Goto
  <2>2. NewBoot => IsBoot(files.boot[1])
    BY <2>1 DEF FlowInv, Flow
  <2>3. /\ disk' = [root |-> disk'.root, boot |-> disk'.boot, efi |-> disk'.efi, lv |-> disk'.lv,
                    hash |-> disk'.hash, etc |-> disk'.etc]
        /\ disk'.root = disk.root /\ IsBoot(disk'.boot) /\ disk'.etc = disk.etc
    <3>1. CASE NewBoot
      BY <2>1, <2>2, <3>1 DEF FlowInv, Records
    <3>2. CASE ~NewBoot
      BY <2>1, <3>2 DEF FlowInv, Records
    <3> QED
      BY <3>1, <3>2
  <2>4. Records'
    BY <1>1, <2>3 DEF FlowInv, Records
  <2> QED
    BY <1>1, <2>1, <2>3, <2>4 DEF FlowInv, Places, Flow, Etc, Before, Shrinking, Building, InUpdate, InInitrd
<1>3. CASE CopyRoot
  <2>1. pc = "copy" /\ pc' = "hash" /\ disk' = [disk EXCEPT !.lv = files.root]
    BY <1>3 DEF CopyRoot, Goto
  <2>2. /\ disk' = [root |-> disk'.root, boot |-> disk'.boot, efi |-> disk'.efi, lv |-> disk'.lv,
                    hash |-> disk'.hash, etc |-> disk'.etc]
        /\ disk'.root = disk.root /\ disk'.boot = disk.boot /\ disk'.etc = disk.etc
        /\ disk'.lv = files.root
    BY <2>1 DEF FlowInv, Records
  <2>3. Records'
    BY <1>1, <2>2 DEF FlowInv, Records
  <2> QED
    BY <1>1, <2>1, <2>2, <2>3 DEF FlowInv, Places, Flow, Etc, Before, Shrinking, Building, InUpdate, InInitrd
<1>4. CASE CreateHashLv
  <2>1. pc = "hash" /\ pc' = "metadata" /\ disk' = [disk EXCEPT !.hash = files.root]
    BY <1>4 DEF CreateHashLv, Goto
  <2>2. /\ disk' = [root |-> disk'.root, boot |-> disk'.boot, efi |-> disk'.efi, lv |-> disk'.lv,
                    hash |-> disk'.hash, etc |-> disk'.etc]
        /\ disk'.root = disk.root /\ disk'.boot = disk.boot /\ disk'.etc = disk.etc
        /\ disk'.lv = disk.lv /\ disk'.hash = files.root
    BY <2>1 DEF FlowInv, Records
  <2>3. Records'
    BY <1>1, <2>2 DEF FlowInv, Records
  <2> QED
    BY <1>1, <2>1, <2>2, <2>3 DEF FlowInv, Places, Flow, Etc, Before, Shrinking, Building, InUpdate, InInitrd
<1> QED
  BY <1>2, <1>3, <1>4

(* metadata.toml gets the root hash, and the initrd or the UKI gets it.     *)
LEMMA MetadataFlow ==
    ASSUME FlowInv, Types', WriteMetadata \/ UpdateInitrd
    PROVE  FlowInv'
<1>1. UNCHANGED <<opt, runs, outcome>>
  BY DEF WriteMetadata, UpdateInitrd, Goto, EnterChroot
<1>2. CASE WriteMetadata
  <2>1. /\ pc = "metadata" /\ pc' = "mount" /\ stage' = "initrd" /\ todo' = ChrootMounts /\ disk' = disk
        /\ files' = [files EXCEPT !.metadata = files.root, !.root[1].ro = FALSE]
    BY <1>2 DEF WriteMetadata, EnterChroot
  <2>2. /\ files' = [boot |-> files'.boot, root |-> files'.root, metadata |-> files'.metadata]
        /\ files'.metadata = files.root
    BY <2>1 DEF FlowInv, Records
  <2>3. Records'
    BY <1>1, <2>1, <2>2 DEF FlowInv, Records
  <2>4. Places'
    BY <1>1, <2>1, ChrootList DEF FlowInv, Places, Before, Shrinking, Building, InUpdate, InInitrd
  <2> QED
    BY <1>1, <2>1, <2>2, <2>3, <2>4 DEF FlowInv, Places, Flow, Etc, Before, Shrinking, Building, InUpdate, InInitrd
<1>3. CASE UpdateInitrd
  <2>1. /\ pc = "initrd" /\ pc' = "clean" /\ stage' = stage /\ stage = "initrd" /\ files' = files
        /\ disk' = IF opt.uki THEN [disk EXCEPT !.efi = files.metadata]
                   ELSE [disk EXCEPT !.boot.meta = files.metadata]
    BY <1>3 DEF UpdateInitrd, Goto, work, FlowInv, Places, Before, Shrinking, Building, InUpdate, InInitrd
  <2>2. opt.uki \/ disk.boot.kernel
    BY <1>3 DEF UpdateInitrd, KernelInBoot, NewBoot, FlowInv, Types
  <2>3. /\ disk' = [root |-> disk'.root, boot |-> disk'.boot, efi |-> disk'.efi, lv |-> disk'.lv,
                    hash |-> disk'.hash, etc |-> disk'.etc]
        /\ disk'.root = disk.root /\ IsBoot(disk'.boot) /\ disk'.etc = disk.etc
        /\ disk'.lv = disk.lv /\ disk'.hash = disk.hash
        /\ (IF opt.uki THEN disk'.efi ELSE disk'.boot.meta) = files.metadata
        /\ opt.uki \/ disk'.boot.kernel
    <3>1. CASE opt.uki
      BY <2>1, <3>1 DEF FlowInv, Records
    <3>2. CASE ~opt.uki
      BY <2>1, <2>2, <3>2 DEF FlowInv, Records, IsBoot
    <3> QED
      BY <3>1, <3>2
  <2>4. Records'
    BY <1>1, <2>1, <2>3 DEF FlowInv, Records
  <2> QED
    BY <1>1, <2>1, <2>3, <2>4 DEF FlowInv, Places, Flow, Etc, Before, Shrinking, Building, InUpdate, InInitrd
<1> QED
  BY <1>2, <1>3

(* The list of what is to be mounted, after its head.                       *)
LEMMA NothingToDo ==
    ASSUME NEW t \in Seq(MountNames)
    PROVE  t = <<>> <=> Len(t) = 0
OBVIOUS

(* Its tail.                                                                *)
LEMMA TailOf ==
    ASSUME NEW t \in Seq(MountNames), t # <<>>
    PROVE  /\ Len(t) \in Nat \ {0} /\ Head(t) = t[1] /\ Len(Tail(t)) = Len(t) - 1
           /\ \A i \in 1 .. Len(t) - 1 : Tail(t)[i] = t[i + 1]
           /\ Tail(t) = <<>> <=> Len(t) = 1
<1>1. Len(t) \in Nat \ {0} /\ Head(t) = t[1] /\ Len(Tail(t)) = Len(t) - 1 /\ Tail(t) \in Seq(MountNames)
  OBVIOUS
<1>2. \A i \in 1 .. Len(t) - 1 : Tail(t)[i] = t[i + 1]
  OBVIOUS
<1>3. Tail(t) = <<>> <=> Len(Tail(t)) = 0
  BY <1>1, NothingToDo
<1> QED
  BY <1>1, <1>2, <1>3

(* Its last element stays the last.                                         *)
LEMMA ListTail ==
    ASSUME NEW t \in Seq(MountNames), t # <<>>, NEW e, \A i \in 1 .. Len(t) : t[i] = e <=> i = Len(t)
    PROVE  /\ Head(t) = e <=> Tail(t) = <<>>
           /\ \A i \in 1 .. Len(Tail(t)) : Tail(t)[i] = e <=> i = Len(Tail(t))
<1>1. /\ Len(t) \in Nat \ {0} /\ Head(t) = t[1] /\ Len(Tail(t)) = Len(t) - 1
      /\ \A i \in 1 .. Len(t) - 1 : Tail(t)[i] = t[i + 1]
      /\ Tail(t) = <<>> <=> Len(t) = 1
  BY TailOf
<1> PICK n \in Nat \ {0} : n = Len(t)
  BY <1>1
<1>2. t[1] = e <=> 1 = n
  <2>1. 1 \in 1 .. Len(t)
    BY <1>1
  <2> QED
    BY <2>1
<1>3. ASSUME NEW i \in 1 .. n - 1 PROVE Tail(t)[i] = e <=> i = n - 1
  <2>1. i + 1 \in 1 .. n /\ Tail(t)[i] = t[i + 1]
    BY <1>1
  <2>2. t[i + 1] = e <=> i + 1 = n
    BY <2>1
  <2>3. i + 1 = n <=> i = n - 1
    OBVIOUS
  <2> QED
    BY <2>1, <2>2, <2>3
<1> QED
  BY <1>1, <1>2, <1>3

(* A root filesystem whose etc/resolv.conf is moved away, and back.         *)
LEMMA MovedFields ==
    ASSUME NEW k, NEW u, NEW o, NEW e, NEW b
    PROVE  LET r == [kernel |-> k, updated |-> u, ro |-> o, etc |-> e, backup |-> b] IN
           /\ MovedAway(r) = [kernel |-> k, updated |-> u, ro |-> o, etc |-> "empty",
                              backup |-> IF e = "absent" THEN b ELSE e]
           /\ Restored(r) = IF b \in {"file", "empty"}
                            THEN [kernel |-> k, updated |-> u, ro |-> o, etc |-> b, backup |-> "absent"]
                            ELSE r
<1> DEFINE r == [kernel |-> k, updated |-> u, ro |-> o, etc |-> e, backup |-> b]
<1>1. r.etc = e /\ r.backup = b
  OBVIOUS
<1> DEFINE Rec(x, y) == [kernel |-> k, updated |-> u, ro |-> o, etc |-> x, backup |-> y]
<1>2. \A x, y, z : [Rec(x, y) EXCEPT !.backup = z] = Rec(x, z)
  OBVIOUS
<1>3. \A x, y, z : [Rec(x, y) EXCEPT !.etc = z] = Rec(z, y)
  OBVIOUS
<1>6. r = Rec(e, b)
  OBVIOUS
<1>7. \A x, y : [r EXCEPT !.backup = x, !.etc = y] = [[r EXCEPT !.backup = x] EXCEPT !.etc = y]
  BY Zenon
<1>8. \A x, y : [r EXCEPT !.etc = y, !.backup = x] = [[r EXCEPT !.etc = y] EXCEPT !.backup = x]
  BY Zenon
<1>4. MovedAway(r) = [r EXCEPT !.backup = IF e = "absent" THEN b ELSE e, !.etc = "empty"]
  BY <1>1 DEF MovedAway
<1>5. Restored(r) = IF b \in {"file", "empty"} THEN [r EXCEPT !.etc = b, !.backup = "absent"] ELSE r
  BY <1>1 DEF Restored
<1> HIDE DEF r, Rec
<1>9. ASSUME NEW x, NEW y
      PROVE  [r EXCEPT !.backup = x, !.etc = y] = Rec(y, x) /\ [r EXCEPT !.etc = y, !.backup = x] = Rec(y, x)
  <2>1. [r EXCEPT !.backup = x] = Rec(e, x) /\ [r EXCEPT !.etc = y] = Rec(y, b)
    BY <1>2, <1>3, <1>6
  <2>2. [Rec(e, x) EXCEPT !.etc = y] = Rec(y, x) /\ [Rec(y, b) EXCEPT !.backup = x] = Rec(y, x)
    BY <1>2, <1>3
  <2> QED
    BY <1>7, <1>8, <2>1, <2>2
<1> QED
  BY <1>4, <1>5, <1>9 DEF r, Rec

(* What that leaves of it.                                                  *)
LEMMA Moved ==
    ASSUME NEW r, IsRoot(r)
    PROVE  /\ IsRoot(MovedAway(r)) /\ MovedAway(r).updated = r.updated
           /\ r.etc = "file" => MovedAway(r).etc = "empty" /\ MovedAway(r).backup = "file"
           /\ IsRoot(Restored(r)) /\ Restored(r).updated = r.updated
           /\ r.backup = "file" => Restored(r).etc = "file"
<1> PICK k, u, o, e, b : r = [kernel |-> k, updated |-> u, ro |-> o, etc |-> e, backup |-> b]
  BY DEF IsRoot
<1>1. /\ MovedAway(r) = [kernel |-> k, updated |-> u, ro |-> o, etc |-> "empty",
                         backup |-> IF e = "absent" THEN b ELSE e]
      /\ Restored(r) = IF b \in {"file", "empty"}
                       THEN [kernel |-> k, updated |-> u, ro |-> o, etc |-> b, backup |-> "absent"]
                       ELSE r
  BY MovedFields
<1> QED
  BY <1>1 DEF IsRoot

(* The root filesystem of the chroot is written: the partition while it is  *)
(* updated, and rootfs.img otherwise.                                       *)
LEMMA ChrootSet ==
    ASSUME FlowInv, NEW r, SetChroot(r), runs' = runs, stage = "update" => IsRoot(r)
    PROVE  /\ Records'
           /\ disk'.boot = disk.boot /\ disk'.efi = disk.efi /\ disk'.lv = disk.lv
           /\ disk'.hash = disk.hash /\ disk'.etc = disk.etc
           /\ files'.boot = files.boot /\ files'.metadata = files.metadata
           /\ stage = "update" => One(disk'.root) /\ disk'.root[1] = r
<1>1. CASE stage = "update"
  <2>1. disk' = [disk EXCEPT !.root = <<r>>] /\ files' = files
    BY <1>1 DEF SetChroot
  <2>2. One(<<r>>) /\ <<r>>[1] = r
    BY <1>1 DEF One
  <2>3. /\ disk' = [root |-> disk'.root, boot |-> disk'.boot, efi |-> disk'.efi, lv |-> disk'.lv,
                    hash |-> disk'.hash, etc |-> disk'.etc]
        /\ IsBoot(disk'.boot) /\ disk'.root = <<r>> /\ disk'.boot = disk.boot /\ disk'.efi = disk.efi
        /\ disk'.lv = disk.lv /\ disk'.hash = disk.hash /\ disk'.etc = disk.etc
    BY <2>1, <2>2, SetRoot DEF FlowInv
  <2> QED
    BY <2>1, <2>2, <2>3 DEF FlowInv, Records
<1>2. CASE stage # "update"
  <2>1. disk' = disk /\ files' = [files EXCEPT !.root = <<r>>]
    BY <1>2 DEF SetChroot
  <2>2. /\ files' = [boot |-> files'.boot, root |-> files'.root, metadata |-> files'.metadata]
        /\ files'.boot = files.boot /\ files'.metadata = files.metadata
    BY <2>1 DEF FlowInv, Records
  <2> QED
    BY <1>2, <2>1, <2>2 DEF FlowInv, Records
<1> QED
  BY <1>1, <1>2

(* The mounts of the chroot, and [3], [9] their cleanup.                    *)
LEMMA ChrootFlow ==
    ASSUME FlowInv, Types', MountNext \/ Cleanup
    PROVE  FlowInv'
<1>1. UNCHANGED <<opt, runs, outcome, stage>> /\ stage \in {"update", "initrd"} /\ pc \in {"mount", "clean"}
  BY DEF MountNext, Cleanup, Goto, FlowInv, Types
<1>2. outcome = "running" /\ (stage = "update" => InUpdate /\ One(disk.root)) /\ (stage = "initrd" => InInitrd)
  BY <1>1 DEF FlowInv, Places, Flow, InUpdate, InInitrd, Before, Shrinking, Building
<1>3. CASE MountNext /\ Head(todo) # "etc"
  <2>1. /\ pc = "mount" /\ UNCHANGED <<disk, files>> /\ todo' = Tail(todo)
        /\ pc' = IF todo' = <<>> THEN stage ELSE "mount"
    BY <1>3 DEF MountNext
  <2>2. pc' = "mount" /\ \A i \in 1 .. Len(todo') : todo'[i] = "etc" <=> i = Len(todo')
    <3>1. /\ todo \in Seq(MountNames) /\ todo # <<>>
          /\ \A i \in 1 .. Len(todo) : todo[i] = "etc" <=> i = Len(todo)
      BY <2>1 DEF FlowInv, Types, Places
    <3>2. /\ Head(todo) = "etc" <=> Tail(todo) = <<>>
          /\ \A i \in 1 .. Len(Tail(todo)) : Tail(todo)[i] = "etc" <=> i = Len(Tail(todo))
      BY <3>1, ListTail
    <3> QED
      BY <1>3, <2>1, <3>2
  <2>3. InUpdate' = InUpdate /\ InInitrd' = InInitrd /\ pc' = pc /\ NewBoot' = NewBoot
    BY <1>1, <2>1, <2>2 DEF InUpdate, InInitrd, NewBoot
  <2>4. Records' /\ Flow' /\ Etc'
    BY <1>1, <2>1, <2>3 DEF FlowInv, Records, Flow, Etc
  <2>5. Places'
    BY <1>1, <2>2, <2>3 DEF FlowInv, Places
  <2> QED
    BY <2>4, <2>5 DEF FlowInv
<1>4. CASE MountNext /\ Head(todo) = "etc"
  <2>1. /\ pc = "mount" /\ SetChroot(MovedAway(Chroot)) /\ todo' = Tail(todo)
        /\ pc' = IF todo' = <<>> THEN stage ELSE "mount"
    BY <1>4 DEF MountNext
  <2>2. pc' = stage
    BY <1>4, <2>1, ListTail DEF FlowInv, Types, Places
  <2>3. stage = "update" => Chroot = disk.root[1] /\ IsRoot(disk.root[1])
    BY <1>2 DEF Chroot, One
  <2>4. /\ Records'
        /\ disk'.boot = disk.boot /\ disk'.efi = disk.efi /\ disk'.lv = disk.lv
        /\ disk'.hash = disk.hash /\ disk'.etc = disk.etc
        /\ files'.boot = files.boot /\ files'.metadata = files.metadata
        /\ stage = "update" => One(disk'.root) /\ disk'.root[1] = MovedAway(disk.root[1])
    BY <1>1, <2>1, <2>3, Moved, ChrootSet
  <2>5. stage = "update" /\ disk.root[1].etc = "file" =>
          disk'.root[1].etc = "empty" /\ disk'.root[1].backup = "file"
    BY <2>3, <2>4, Moved
  <2>6. /\ pc' \in {"update", "initrd"} /\ pc' = stage /\ InUpdate' = (stage = "update") /\ InInitrd' = (stage = "initrd")
        /\ NewBoot' = NewBoot
    BY <1>1, <2>2 DEF InUpdate, InInitrd, NewBoot
  <2>7. Places'
    BY <1>1, <1>2, <2>2, <2>6 DEF FlowInv, Places, Before, Shrinking, Building
  <2>8. /\ stage = "update" => /\ NewBoot => IsBoot(files.boot[1])
                               /\ runs = 1 /\ disk.etc = "file" => disk.root[1].etc = "file"
        /\ stage = "initrd" => /\ One(disk.lv) /\ disk.lv[1].updated = TRUE /\ disk.hash = disk.lv
                               /\ files.metadata = disk.lv
                               /\ runs = 1 /\ disk.etc = "file" => disk.lv[1].etc = "file"
    BY <1>2, <2>1 DEF FlowInv, Flow, Etc
  <2>9. Flow'
    BY <1>1, <1>2, <2>4, <2>6, <2>8 DEF Flow, Shrinking, Building
  <2>10. Etc'
    BY <1>1, <1>2, <2>4, <2>5, <2>6, <2>8 DEF Etc, Before, Shrinking, Building
  <2> QED
    BY <2>4, <2>7, <2>9, <2>10 DEF FlowInv
<1>5. CASE Cleanup
  <2>1. pc = "clean" /\ SetChroot(Restored(Chroot)) /\ pc' = IF stage = "update" THEN "shrink" ELSE "finish"
    BY <1>5 DEF Cleanup, Goto
  <2>3. stage = "update" => Chroot = disk.root[1] /\ IsRoot(disk.root[1])
    BY <1>2 DEF Chroot, One
  <2>4. /\ Records'
        /\ disk'.boot = disk.boot /\ disk'.efi = disk.efi /\ disk'.lv = disk.lv
        /\ disk'.hash = disk.hash /\ disk'.etc = disk.etc
        /\ files'.boot = files.boot /\ files'.metadata = files.metadata
        /\ stage = "update" => One(disk'.root) /\ disk'.root[1] = Restored(disk.root[1])
    BY <1>1, <2>1, <2>3, Moved, ChrootSet
  <2>5. stage = "update" => /\ disk'.root[1].updated = disk.root[1].updated
                            /\ disk.root[1].backup = "file" => disk'.root[1].etc = "file"
    BY <2>3, <2>4, Moved
  <2>6. CASE stage = "update"
    <3>1. pc' = "shrink" /\ ~InUpdate' /\ ~InInitrd' /\ NewBoot' = NewBoot
      BY <1>1, <2>1, <2>6 DEF InUpdate, InInitrd, NewBoot
    <3>2. /\ NewBoot => IsBoot(files.boot[1])
          /\ disk.root[1].updated = TRUE
          /\ runs = 1 /\ disk.etc = "file" => disk.root[1].backup = "file"
      BY <1>2, <2>1, <2>6 DEF FlowInv, Flow, Etc
    <3>3. Places'
      BY <1>1, <1>2, <2>6, <3>1 DEF Places, Before, Shrinking, Building
    <3>4. Flow'
      BY <1>1, <1>2, <2>4, <2>5, <2>6, <3>1, <3>2 DEF Flow, Shrinking, Building
    <3>5. Etc'
      BY <1>1, <1>2, <2>4, <2>5, <2>6, <3>1, <3>2 DEF Etc, Before, Shrinking, Building
    <3> QED
      BY <2>4, <3>3, <3>4, <3>5 DEF FlowInv
  <2>7. CASE stage = "initrd"
    <3>1. pc' = "finish" /\ ~InUpdate' /\ InInitrd'
      BY <1>1, <2>1, <2>7 DEF InUpdate, InInitrd
    <3>2. /\ One(disk.lv) /\ disk.lv[1].updated = TRUE /\ disk.hash = disk.lv /\ files.metadata = disk.lv
          /\ (IF opt.uki THEN disk.efi ELSE disk.boot.meta) = disk.lv /\ (opt.uki \/ disk.boot.kernel)
          /\ runs = 1 /\ disk.etc = "file" => disk.lv[1].etc = "file"
      BY <1>2, <2>1, <2>7 DEF FlowInv, Flow, Etc
    <3>3. Places'
      BY <1>1, <1>2, <3>1 DEF Places, Before, Shrinking, Building
    <3>4. Flow'
      BY <1>1, <1>2, <2>4, <3>1, <3>2 DEF Flow, Shrinking, Building
    <3>5. Etc'
      BY <1>1, <1>2, <2>4, <3>1, <3>2 DEF Etc, Before, Shrinking, Building
    <3> QED
      BY <2>4, <3>3, <3>4, <3>5 DEF FlowInv
  <2> QED
    BY <1>1, <2>6, <2>7
<1> QED
  BY <1>3, <1>4, <1>5

(* Every step keeps it.                                                     *)
LEMMA FlowNext == FlowInv /\ Types' /\ [Next]_vars => FlowInv'
<1> SUFFICES ASSUME FlowInv, Types', [Next]_vars PROVE FlowInv'
  OBVIOUS
<1>1. CASE UNCHANGED vars
  <2>1. UNCHANGED <<opt, pc, stage, todo, outcome, files, disk, runs>>
    BY <1>1 DEF vars, work
  <2>2. InUpdate' = InUpdate /\ InInitrd' = InInitrd /\ NewBoot' = NewBoot
    BY <2>1 DEF InUpdate, InInitrd, NewBoot
  <2>3. Records' /\ Places'
    BY <2>1, <2>2, Zenon DEF FlowInv, Records, Places
  <2>4. Flow'
    BY <2>1, <2>2, Zenon DEF FlowInv, Flow
  <2>5. Etc'
    BY <2>1, <2>2, Zenon DEF FlowInv, Etc
  <2> QED
    BY <2>3, <2>4, <2>5 DEF FlowInv
<1>2. CASE Next
  <2>1. CASE ProbeMount \/ ProbeUnmount \/ Found \/ CreateLv \/ OpenCrypt \/ Finish \/ Fail \/ Exited
    BY <2>1, QuietFlow
  <2>2. CASE Setup \/ RunHook
    BY <2>2, WorkFlow
  <2>3. CASE Rerun
    BY <2>3, RerunFlow
  <2>4. CASE ExtractMount
    BY <2>4, ExtractMountFlow
  <2>5. CASE ExtractDelete \/ UpdateRootfs \/ Shrink
    BY <2>5, RootFlow
  <2>6. CASE Extract \/ DeletePart
    BY <2>6, ExtractFlow
  <2>7. CASE CreateParts \/ CopyRoot \/ CreateHashLv
    BY <2>7, BuildFlow
  <2>8. CASE WriteMetadata \/ UpdateInitrd
    BY <2>8, MetadataFlow
  <2>9. CASE MountNext \/ Cleanup
    BY <2>9, ChrootFlow
  <2> QED
    BY <1>1, <1>2, <2>1, <2>2, <2>3, <2>4, <2>5, <2>6, <2>7, <2>8, <2>9 DEF Next, Over
<1> QED
  BY <1>1, <1>2

(* What is where, at every step of every conversion.                        *)
LEMMA FlowHolds == Spec => []FlowInv
<1>1. HookInv => Types
  BY DEF HookInv
<1> QED
  BY <1>1, HooksHold, FlowInit, FlowNext, PTL DEF Spec

(* A disk that a conversion reports ready boots: its hash tree, and the     *)
(* root hash in the initrd or the UKI, are of the root filesystem on the    *)
(* logical volume, which has the guest packages, and there is a kernel.     *)
(* This holds for every combination of options, also for a conversion in    *)
(* place that was started again on what failed ones had left.               *)
THEOREM ConvertedBoots == Spec => []Bootable
<1>1. FlowInv => Bootable
  <2> SUFFICES ASSUME FlowInv, outcome = "ok"
               PROVE  /\ disk.lv # None /\ disk.lv[1].updated /\ disk.hash = disk.lv
                      /\ (IF opt.uki THEN disk.efi ELSE disk.boot.meta) = disk.lv
                      /\ opt.uki \/ disk.boot.kernel
    BY DEF Bootable
  <2>1. /\ One(disk.lv) /\ disk.lv[1].updated = TRUE /\ disk.hash = disk.lv
        /\ (IF opt.uki THEN disk.efi ELSE disk.boot.meta) = disk.lv
        /\ opt.uki \/ disk.boot.kernel
    BY DEF FlowInv, Flow
  <2>2. \A x : <<x>> # None
    BY DEF None
  <2> QED
    BY <2>1, <2>2 DEF One
<1> QED
  BY <1>1, FlowHolds, PTL

(* The first conversion of a disk leaves a regular etc/resolv.conf as it    *)
(* was, though it is moved away twice on the way.                           *)
THEOREM EtcKept == Spec => []EtcRestored
<1>1. FlowInv => EtcRestored
  BY DEF FlowInv, Etc, EtcRestored
<1> QED
  BY <1>1, FlowHolds, PTL


=============================================================================
