------------------------ MODULE IntegrityMkfsProofs -------------------------
(***************************************************************************)
(* What holds of mkfs on a volume with integrity, for any number of CPUs   *)
(* and loop devices, any sizes of pages, devices and channels, and any     *)
(* operations of mkfs. The argument follows an operation on its way        *)
(* through the page cache, the relay channel of a CPU, the reader of that  *)
(* CPU and the channel to the collector: as long as the kernel drops no    *)
(* event, each page that mkfs touched is in an event that is still on the  *)
(* way or was collected, and nothing is on the way any more when the       *)
(* readers are done.                                                       *)
(***************************************************************************)
EXTENDS IntegrityMkfs, FiniteSetTheorems, TLAPS

USE IntegrityMkfsAssumption

-----------------------------------------------------------------------------
(* Pages and ranges *)

(* Division rounds down.                                                    *)
LEMMA DivDown ==
    ASSUME NEW a \in Nat, NEW b \in Nat \ {0}
    PROVE  /\ a \div b \in Nat
           /\ (a \div b) * b <= a
           /\ a < (a \div b) * b + b
OBVIOUS

(* A product grows with its first factor.                                   *)
LEMMA Product ==
    ASSUME NEW m \in Int, NEW n \in Int, NEW b \in Nat \ {0}, m < n
    PROVE  m * b + b <= n * b /\ m * b \in Int /\ n * b \in Int
OBVIOUS

(* The first page of a range is the one its first sector is in.             *)
LEMMA FirstPage ==
    ASSUME NEW p \in Nat, NEW s \in Nat, NEW b \in Nat \ {0}
    PROVE  s \div b <= p <=> s < p * b + b
OBVIOUS

(* The last page is the one that the last sector is in.                     *)
LEMMA LastPage ==
    ASSUME NEW p \in Nat, NEW x \in Nat, NEW b \in Nat \ {0}
    PROVE  p <= DivCeil(x, b) - 1 <=> p * b < x
<1> DEFINE q == DivCeil(x, b)
<1>1. q \in Nat /\ q * b <= x + b - 1 /\ x + b - 1 < q * b + b
  BY DivDown DEF DivCeil
<1>2. q - 1 \in Int /\ p * b \in Int /\ q * b \in Int
  BY <1>1
<1> SUFFICES p <= q - 1 <=> p * b < x
  OBVIOUS
<1> HIDE DEF q
<1>3. CASE p <= q - 1
  BY <1>1, <1>2, <1>3, Product
<1>4. CASE q <= p
  <2>1. q * b <= p * b
    BY <1>1, <1>2, <1>4, Product
  <2> QED BY <1>1, <1>2, <1>4, <2>1
<1> QED BY <1>1, <1>2, <1>3, <1>4

(* mkfs touches the pages that the code works out for the event.            *)
LEMMA PagesTouched ==
    ASSUME NEW op \in Ops, NEW p \in Pages
    PROVE  SectorsOf(p) \cap SectorRange(op) # {} <=> p \in PagesOf(op)
<1> DEFINE s == op.sector
           x == op.sector + op.sectors
           b == PageSectors
<1>0. s \in Nat /\ x \in Nat /\ s < x /\ b \in Nat \ {0}
  OBVIOUS
<1>1. p \in Nat /\ p * b \in Nat /\ (p + 1) * b = p * b + b
  BY <1>0 DEF Pages
<1>2. SectorsOf(p) = p * b .. p * b + b - 1
  BY <1>1 DEF SectorsOf
<1>3. SectorRange(op) = s .. x - 1
  BY DEF SectorRange
<1>4. p \in PagesOf(op) <=> s < p * b + b /\ p * b < x
  <2>1. s \div b \in Nat /\ DivCeil(x, b) - 1 \in Int
    BY <1>0, DivDown DEF DivCeil
  <2>2. p \in PagesOf(op) <=> s \div b <= p /\ p <= DivCeil(x, b) - 1
    BY <1>1, <2>1 DEF PagesOf
  <2> QED BY <1>0, <1>1, <2>2, FirstPage, LastPage
<1> HIDE DEF s, x, b
<1>5. (p * b .. p * b + b - 1) \cap (s .. x - 1) # {} <=> s < p * b + b /\ p * b < x
  <2>1. ASSUME s < p * b + b, p * b < x PROVE (p * b .. p * b + b - 1) \cap (s .. x - 1) # {}
    <3>1. CASE s <= p * b
      <4>1. p * b \in (p * b .. p * b + b - 1) \cap (s .. x - 1)
        BY <1>0, <1>1, <2>1, <3>1
      <4> QED BY <4>1
    <3>2. CASE p * b < s
      <4>1. s \in (p * b .. p * b + b - 1) \cap (s .. x - 1)
        BY <1>0, <1>1, <2>1, <3>2
      <4> QED BY <4>1
    <3> QED BY <1>0, <1>1, <3>1, <3>2
  <2> QED BY <1>0, <1>1, <2>1
<1> QED BY <1>2, <1>3, <1>4, <1>5

-----------------------------------------------------------------------------
(* The inductive invariant *)

(* An event is in a queue.                                                  *)
In(e, queue) == \E i \in DOMAIN queue : queue[i] = e

Queued(e) ==
    \/ \E c \in Cpus : In(e, relay[c]) \/ In(e, reader[c].held)
    \/ In(e, channel)
Traced(e) == e \in dirty \/ Queued(e) \/ e \in events

Starting == {"setup", "attach", "blocksize", "monitor"}
Copying == {"migrate", "ok"}

TypeInv ==
    /\ relay \in [Cpus -> Seq(Ops)]
    /\ reader \in [Cpus -> [pc : {"off", "read", "again", "send", "done"}, held : Seq(Ops)]]
    /\ channel \in Seq(Ops) /\ dirty \subseteq Ops /\ events \subseteq Ops
    /\ touched \subseteq Pages /\ count \in Nat /\ dropped \in Nat
    /\ DOMAIN real = Pages

(* How far the processes are: nothing is written back any more when the     *)
(* readers are cancelled, a reader stops only when its relay channel is     *)
(* empty, and the pages are copied when all have stopped.                   *)
PhaseInv ==
    /\ pc \in {"cancel", "join"} \cup Copying => dirty = {}
    /\ cancelled => dirty = {} /\ pc \in {"join", "failed"} \cup Copying
    /\ pc \in Copying => channel = <<>> /\ \A c \in Cpus : reader[c].pc = "done"
    /\ \A c \in Cpus :
         /\ pc \in Starting => reader[c].pc = "off"
         /\ reader[c].pc # "send" => reader[c].held = <<>>
         /\ reader[c].pc \in {"again", "done"} => cancelled
         /\ reader[c].pc = "done" => relay[c] = <<>>

(* What is traced was touched, unless it is a discard.                      *)
SoundInv ==
    \A e \in Ops : Traced(e) /\ e.kind # "discard" => PagesOf(e) \cap Pages \subseteq touched

(* What was touched is traced, unless an event was dropped.                 *)
CompleteInv ==
    dropped = 0 => \A p \in touched : \E e \in Ops : Traced(e) /\ e.kind # "discard" /\ p \in PagesOf(e)

Copied(p) == Whole(p) /\ real[p] = PageContents(p)
CopyInv ==
    /\ positions \cap Pages \subseteq touched
    /\ pc \in Copying => \A p \in Recorded \cap Pages : p \in positions \/ Copied(p)
    /\ pc = "ok" => positions = {}
    /\ OnlyTouched

(* A relay channel never holds more than mkfs has done.                     *)
RelayInv ==
    /\ IsFiniteSet(dirty) /\ count <= MaxOps
    /\ \A c \in Cpus : Len(relay[c]) + Cardinality(dirty) <= count
    /\ MaxOps <= RelayCapacity => dropped = 0

LoopInv ==
    /\ pc = "attach" => ld \in DOMAIN loop
    /\ OwnLoopDevice

TraceInv == TypeInv /\ PhaseInv /\ SoundInv /\ CompleteInv /\ CopyInv /\ RelayInv
IInv == TraceInv /\ LoopInv

-----------------------------------------------------------------------------
(* Queues *)

(* An event at the end of a queue is in it.                                 *)
LEMMA InAppend ==
    ASSUME NEW q \in Seq(Ops), NEW x \in Ops, NEW e
    PROVE  In(e, Append(q, x)) <=> In(e, q) \/ e = x
<1> DEFINE r == Append(q, x)
<1>1. /\ DOMAIN q = 1 .. Len(q) /\ DOMAIN r = 1 .. Len(q) + 1
      /\ \A i \in 1 .. Len(q) : r[i] = q[i]
      /\ r[Len(q) + 1] = x /\ Len(q) \in Nat
  OBVIOUS
<1> HIDE DEF r
<1>2. ASSUME In(e, q) \/ e = x PROVE In(e, r)
  <2>1. Len(q) + 1 \in DOMAIN r /\ \A i \in DOMAIN q : i \in DOMAIN r
    BY <1>1
  <2> QED BY <1>1, <1>2, <2>1 DEF In
<1>3. ASSUME In(e, r) PROVE In(e, q) \/ e = x
  BY <1>1, <1>3 DEF In
<1> QED BY <1>2, <1>3 DEF r

(* What is in a queue is at its head or behind.                             *)
LEMMA InTail ==
    ASSUME NEW q \in Seq(Ops), q # <<>>, NEW e
    PROVE  In(e, q) <=> e = Head(q) \/ In(e, Tail(q))
<1> DEFINE r == Tail(q)
<1>1. /\ DOMAIN q = 1 .. Len(q) /\ DOMAIN r = 1 .. Len(q) - 1
      /\ \A i \in 1 .. Len(q) - 1 : r[i] = q[i + 1]
      /\ Head(q) = q[1] /\ Len(q) \in Nat \ {0}
  OBVIOUS
<1> HIDE DEF r
<1>2. ASSUME In(e, r) \/ e = Head(q) PROVE In(e, q)
  <2>1. 1 \in DOMAIN q /\ \A i \in DOMAIN r : i + 1 \in DOMAIN q
    BY <1>1
  <2> QED BY <1>1, <1>2, <2>1 DEF In
<1>3. ASSUME In(e, q) PROVE In(e, r) \/ e = Head(q)
  <2>1. PICK i \in 1 .. Len(q) : q[i] = e
    BY <1>1, <1>3 DEF In
  <2>2. CASE i = 1
    BY <1>1, <2>1, <2>2
  <2>3. CASE i # 1
    <3>1. i - 1 \in 1 .. Len(q) - 1 /\ r[i - 1] = e
      BY <1>1, <2>1, <2>3
    <3> QED BY <1>1, <3>1 DEF In
  <2> QED BY <2>2, <2>3
<1> QED BY <1>2, <1>3 DEF r

(* One queue behind another.                                                *)
LEMMA InConcat ==
    ASSUME NEW q \in Seq(Ops), NEW r \in Seq(Ops), NEW e
    PROVE  In(e, q \o r) <=> In(e, q) \/ In(e, r)
<1> DEFINE t == q \o r
<1>1. /\ DOMAIN q = 1 .. Len(q) /\ DOMAIN r = 1 .. Len(r) /\ DOMAIN t = 1 .. Len(q) + Len(r)
      /\ \A i \in 1 .. Len(q) : t[i] = q[i]
      /\ \A i \in 1 .. Len(r) : t[Len(q) + i] = r[i]
      /\ Len(q) \in Nat /\ Len(r) \in Nat
  OBVIOUS
<1> HIDE DEF t
<1>2. ASSUME In(e, q) PROVE In(e, t)
  BY <1>1, <1>2 DEF In
<1>3. ASSUME In(e, r) PROVE In(e, t)
  <2>1. PICK i \in 1 .. Len(r) : r[i] = e
    BY <1>1, <1>3 DEF In
  <2>2. Len(q) + i \in 1 .. Len(q) + Len(r) /\ t[Len(q) + i] = e
    BY <1>1, <2>1
  <2> QED BY <1>1, <2>2 DEF In
<1>4. ASSUME In(e, t) PROVE In(e, q) \/ In(e, r)
  <2>1. PICK i \in 1 .. Len(q) + Len(r) : t[i] = e
    BY <1>1, <1>4 DEF In
  <2>2. CASE i <= Len(q)
    <3>1. i \in DOMAIN q /\ q[i] = e
      BY <1>1, <2>1, <2>2
    <3> QED BY <3>1 DEF In
  <2>3. CASE Len(q) < i
    <3> DEFINE j == i - Len(q)
    <3>1. j \in 1 .. Len(r) /\ Len(q) + j = i
      BY <1>1, <2>1, <2>3
    <3> HIDE DEF j
    <3>2. r[j] = e
      BY <1>1, <2>1, <3>1
    <3> QED BY <1>1, <3>1, <3>2 DEF In
  <2> QED BY <1>1, <2>1, <2>2, <2>3
<1> QED BY <1>2, <1>3, <1>4 DEF t

(* Nothing is in an empty queue.                                            *)
LEMMA InEmpty == \A q, e : q = <<>> => ~In(e, q)
BY DEF In

(* One event in a queue of one.                                             *)
LEMMA InSingle == \A e, x : In(e, <<x>>) <=> e = x
BY DEF In

-----------------------------------------------------------------------------
(* The trace *)

(* A step that touches nothing and loses no event.                          *)
LEMMA Carried ==
    ASSUME SoundInv, CompleteInv, touched' = touched,
           \A e \in Ops : Traced(e)' => Traced(e),
           dropped' = 0 => dropped = 0 /\ \A e \in Ops : Traced(e) => Traced(e)'
    PROVE  SoundInv' /\ CompleteInv'
<1>1. SoundInv'
  BY Zenon DEF SoundInv
<1>2. CompleteInv'
  BY Zenon DEF CompleteInv
<1> QED BY <1>1, <1>2

(* A step of force_mkfs up to Done that leaves the trace and the pages.     *)
LEMMA TraceKept ==
    ASSUME TraceInv, UNCHANGED <<disk, kernel, tasks, positions, real>>,
           PhaseInv', pc' \notin Copying
    PROVE  TraceInv'
<1>1. TypeInv'
  BY DEF TraceInv, TypeInv, disk, kernel, tasks
<1>2. \A e \in Ops : Traced(e)' <=> Traced(e)
  BY Zenon DEF Traced, Queued, kernel, tasks
<1>3. SoundInv' /\ CompleteInv'
  BY <1>2, Carried DEF TraceInv, disk, kernel
<1>4. CopyInv'
  BY DEF TraceInv, CopyInv, disk, OnlyTouched, Copying
<1>5. RelayInv'
  BY DEF TraceInv, RelayInv, disk, kernel
<1> QED BY <1>1, <1>3, <1>4, <1>5 DEF TraceInv

(* The steps of force_mkfs that only move it on.                            *)
LEMMA SetupTrace ==
    ASSUME TraceInv, NextFree \/ Attach \/ SetBlockSize \/ OtherProcess
    PROVE  TraceInv'
<1>1. UNCHANGED <<disk, kernel, tasks, positions, real>>
  BY Zenon DEF NextFree, Attach, SetBlockSize, OtherProcess
<1>2. pc \in Starting /\ pc' \in Starting \cup {"failed"}
  BY DEF NextFree, Attach, SetBlockSize, OtherProcess, Retry, Starting
<1>3. PhaseInv'
  BY <1>1, <1>2 DEF TraceInv, PhaseInv, Starting, Copying, kernel, tasks
<1> QED BY <1>1, <1>2, <1>3, TraceKept DEF Starting, Copying

(* mkfs ends, and what it left in the page cache is flushed.                *)
LEMMA EndsTrace ==
    ASSUME TraceInv, MkfsEnds \/ FlushBuffers
    PROVE  TraceInv'
<1>1. UNCHANGED <<disk, kernel, tasks, positions, real>>
  BY Zenon DEF MkfsEnds, FlushBuffers
<1>2. \/ pc = "mkfs" /\ pc' \in {"flush", "failed"}
      \/ pc = "flush" /\ dirty = {} /\ pc' = "cancel"
  BY DEF MkfsEnds, FlushBuffers
<1>3. PhaseInv'
  BY <1>1, <1>2 DEF TraceInv, PhaseInv, Starting, Copying, kernel, tasks
<1> QED BY <1>1, <1>2, <1>3, TraceKept DEF Copying

(* The readers start when nothing was traced yet.                           *)
LEMMA MonitorTrace ==
    ASSUME TraceInv, Monitor
    PROVE  TraceInv'
<1> USE DEF TraceInv, Monitor
<1>1. UNCHANGED <<disk, kernel, cancelled, channel, events, positions, real>>
  OBVIOUS
<1>2. \A c \in Cpus : reader[c].held = <<>> /\ reader'[c] = Reading /\ reader'[c].held = <<>>
  BY DEF PhaseInv, Starting, Reading
<1>3. TypeInv'
  BY <1>1, <1>2 DEF TypeInv, Reading, disk, kernel
<1>4. PhaseInv'
  BY <1>1, <1>2 DEF PhaseInv, Starting, Copying, Reading, kernel
<1>5. \A e \in Ops : Traced(e)' <=> Traced(e)
  <2>1. UNCHANGED <<relay, dirty, channel, events>>
    BY <1>1 DEF kernel
  <2> QED BY <1>2, <2>1, Zenon DEF Traced, Queued
<1>6. SoundInv' /\ CompleteInv'
  BY <1>1, <1>5, Carried DEF disk, kernel
<1>7. CopyInv'
  BY <1>1 DEF CopyInv, disk, OnlyTouched, Copying
<1>8. RelayInv'
  BY <1>1 DEF RelayInv, disk, kernel
<1> QED BY <1>3, <1>4, <1>6, <1>7, <1>8

(* The readers are cancelled.                                               *)
LEMMA CancelTrace ==
    ASSUME TraceInv, Cancel
    PROVE  TraceInv'
<1> USE DEF TraceInv, Cancel
<1>1. UNCHANGED <<disk, kernel, reader, channel, events, positions, real>>
  OBVIOUS
<1>2. TypeInv'
  BY <1>1 DEF TypeInv, disk, kernel
<1>3. PhaseInv'
  BY <1>1 DEF PhaseInv, Starting, Copying, kernel
<1>4. \A e \in Ops : Traced(e)' <=> Traced(e)
  BY <1>1, Zenon DEF Traced, Queued, kernel
<1>5. SoundInv' /\ CompleteInv'
  BY <1>1, <1>4, Carried DEF disk, kernel
<1>6. CopyInv'
  BY <1>1 DEF CopyInv, disk, OnlyTouched, Copying
<1>7. RelayInv'
  BY <1>1 DEF RelayInv, disk, kernel
<1> QED BY <1>2, <1>3, <1>5, <1>6, <1>7

(* An event that the kernel emits is in the relay channel, or dropped.      *)
LEMMA Emitted ==
    ASSUME TypeInv, NEW op \in Ops, NEW cpu \in Cpus, Emit(op, cpu)
    PROVE  /\ relay' \in [Cpus -> Seq(Ops)] /\ dropped' \in Nat
           /\ \A c \in Cpus : \A e : In(e, relay'[c]) => In(e, relay[c]) \/ e = op
           /\ \A c \in Cpus : \A e : In(e, relay[c]) => In(e, relay'[c])
           /\ dropped' = 0 => dropped = 0 /\ In(op, relay'[cpu])
           /\ \A c \in Cpus : Len(relay'[c]) <= Len(relay[c]) + 1
           /\ Len(relay[cpu]) < RelayCapacity => dropped' = dropped
<1>0. \A c \in Cpus : relay[c] \in Seq(Ops) /\ Len(relay[c]) \in Nat
  BY DEF TypeInv
<1>1. CASE /\ Len(relay[cpu]) < RelayCapacity
           /\ relay' = [relay EXCEPT ![cpu] = Append(@, op)] /\ UNCHANGED dropped
  <2>1. relay'[cpu] = Append(relay[cpu], op) /\ \A c \in Cpus \ {cpu} : relay'[c] = relay[c]
    BY <1>1 DEF TypeInv
  <2>2. relay' \in [Cpus -> Seq(Ops)]
    BY <1>0, <1>1 DEF TypeInv
  <2>3. \A e : In(e, relay'[cpu]) <=> In(e, relay[cpu]) \/ e = op
    BY <1>0, <2>1, InAppend
  <2>4. \A c \in Cpus : Len(relay'[c]) <= Len(relay[c]) + 1
    BY <1>0, <2>1
  <2>5. \A c \in Cpus : \A e : In(e, relay'[c]) => In(e, relay[c]) \/ e = op
    BY <2>1, <2>3, Zenon
  <2>6. \A c \in Cpus : \A e : In(e, relay[c]) => In(e, relay'[c])
    BY <2>1, <2>3, Zenon
  <2> QED BY <1>1, <2>2, <2>3, <2>4, <2>5, <2>6 DEF TypeInv
<1>2. CASE ~(Len(relay[cpu]) < RelayCapacity) /\ dropped' = dropped + 1 /\ UNCHANGED relay
  BY <1>0, <1>2 DEF TypeInv
<1> QED BY <1>1, <1>2, Zenon DEF Emit

(* mkfs reads, writes or discards: its pages are touched, and traced in the *)
(* page cache or in a relay channel.                                        *)
LEMMA OperationTrace ==
    ASSUME TraceInv, NEW op \in Ops, Operation(op)
    PROVE  TraceInv'
<1> DEFINE pages == {p \in Pages : SectorsOf(p) \cap SectorRange(op) # {}}
<1>1. /\ pc = "mkfs" /\ count < MaxOps /\ count' = count + 1
      /\ UNCHANGED <<pc, setup, tasks, positions, real>>
      /\ touched' = IF op.kind = "discard" THEN touched ELSE touched \cup pages
      /\ \/ op.kind = "write" /\ dirty' = dirty \cup {op} /\ UNCHANGED <<relay, dropped>>
         \/ op.kind # "write" /\ UNCHANGED dirty /\ \E cpu \in Cpus : Emit(op, cpu)
  BY Zenon DEF Operation
<1>2. pages = PagesOf(op) \cap Pages
  BY PagesTouched
<1> HIDE DEF pages
<1>3. ~cancelled
  BY <1>1 DEF TraceInv, PhaseInv, Copying
<1>4. /\ relay' \in [Cpus -> Seq(Ops)] /\ dropped' \in Nat /\ dirty' \subseteq Ops
      /\ \A c \in Cpus : \A e : In(e, relay'[c]) => In(e, relay[c]) \/ e = op
      /\ \A c \in Cpus : \A e : In(e, relay[c]) => In(e, relay'[c])
      /\ dirty \subseteq dirty' /\ dirty' \subseteq dirty \cup {op}
      /\ dropped' = 0 => dropped = 0 /\ (op \in dirty' \/ \E c \in Cpus : In(op, relay'[c]))
  <2>1. CASE op.kind = "write" /\ dirty' = dirty \cup {op} /\ UNCHANGED <<relay, dropped>>
    BY <2>1 DEF TraceInv, TypeInv
  <2>2. CASE UNCHANGED dirty /\ \E cpu \in Cpus : Emit(op, cpu)
    BY <2>2, Emitted DEF TraceInv, TypeInv
  <2> QED BY <1>1, <2>1, <2>2
<1>5. TypeInv'
  BY <1>1, <1>2, <1>4 DEF TraceInv, TypeInv, tasks
<1>6. PhaseInv'
  BY <1>1, <1>3 DEF TraceInv, PhaseInv, Starting, Copying, tasks
<1>7. \A e \in Ops : Traced(e)' => Traced(e) \/ e = op
  <2>1. UNCHANGED <<reader, channel, events>>
    BY <1>1 DEF tasks
  <2> QED BY <1>4, <2>1, Zenon DEF Traced, Queued
<1>8. dropped' = 0 => dropped = 0 /\ Traced(op)' /\ \A e \in Ops : Traced(e) => Traced(e)'
  <2>1. UNCHANGED <<reader, channel, events>>
    BY <1>1 DEF tasks
  <2> QED BY <1>4, <2>1, Zenon DEF Traced, Queued
<1>9. SoundInv'
  BY <1>1, <1>2, <1>7 DEF TraceInv, SoundInv
<1>10. CompleteInv'
  <2>1. ASSUME dropped' = 0, NEW p \in touched'
        PROVE  \E e \in Ops : Traced(e)' /\ e.kind # "discard" /\ p \in PagesOf(e)
    <3>1. CASE p \in touched
      BY <1>8, <2>1, <3>1, Zenon DEF TraceInv, CompleteInv
    <3>2. CASE p \notin touched
      BY <1>1, <1>2, <1>8, <2>1, <3>2
    <3> QED BY <3>1, <3>2
  <2> QED BY <2>1 DEF CompleteInv
<1>11. CopyInv'
  BY <1>1 DEF TraceInv, CopyInv, OnlyTouched, Copying
<1>12. RelayInv'
  <2>1. CASE op.kind = "write" /\ dirty' = dirty \cup {op} /\ UNCHANGED <<relay, dropped>>
    <3>1. IsFiniteSet(dirty) /\ Cardinality(dirty) \in Nat
      BY FS_CardinalityType DEF TraceInv, RelayInv
    <3>2. IsFiniteSet(dirty') /\ Cardinality(dirty') \in Cardinality(dirty) .. Cardinality(dirty) + 1
      BY <2>1, <3>1, FS_AddElement
    <3>3. \A c \in Cpus : Len(relay[c]) \in Nat
      BY DEF TraceInv, TypeInv
    <3>4. \A c \in Cpus : Len(relay[c]) + Cardinality(dirty) <= count
      BY DEF TraceInv, RelayInv
    <3>5. \A c \in Cpus : Len(relay[c]) + Cardinality(dirty') <= count + 1
      BY <3>1, <3>2, <3>3, <3>4 DEF TraceInv, TypeInv
    <3>6. count \in Nat /\ MaxOps \in Nat /\ RelayCapacity \in Nat
      BY DEF TraceInv, TypeInv
    <3>7. UNCHANGED <<relay, dropped>> /\ count' = count + 1 /\ count + 1 <= MaxOps
      BY <1>1, <2>1, <3>6
    <3> QED BY <3>2, <3>5, <3>7 DEF TraceInv, RelayInv
  <2>2. ASSUME UNCHANGED dirty, NEW cpu \in Cpus, Emit(op, cpu)
        PROVE  RelayInv'
    <3>1. Cardinality(dirty) \in Nat
      BY FS_CardinalityType DEF TraceInv, RelayInv
    <3>2. \A c \in Cpus : Len(relay[c]) \in Nat /\ Len(relay'[c]) \in Nat
      BY <1>4 DEF TraceInv, TypeInv
    <3>3. \A c \in Cpus : Len(relay'[c]) <= Len(relay[c]) + 1
      BY <2>2, Emitted DEF TraceInv
    <3>4. Len(relay[cpu]) < RelayCapacity => dropped' = dropped
      BY <2>2, Emitted DEF TraceInv
    <3>5. \A c \in Cpus : Len(relay[c]) + Cardinality(dirty) <= count
      BY DEF TraceInv, RelayInv
    <3>6. count \in Nat /\ MaxOps \in Nat /\ RelayCapacity \in Nat
      BY DEF TraceInv, TypeInv
    <3>7. \A c \in Cpus : Len(relay'[c]) + Cardinality(dirty) <= count + 1
      BY <3>1, <3>2, <3>3, <3>5, <3>6
    <3>8. MaxOps <= RelayCapacity => dropped' = dropped
      BY <1>1, <3>1, <3>2, <3>4, <3>5, <3>6
    <3> QED BY <1>1, <2>2, <3>6, <3>7, <3>8 DEF TraceInv, RelayInv
  <2> QED BY <1>1, <2>1, <2>2
<1> QED BY <1>5, <1>6, <1>9, <1>10, <1>11, <1>12 DEF TraceInv

(* A buffer is written back.                                                *)
LEMMA WritebackTrace ==
    ASSUME TraceInv, Writeback
    PROVE  TraceInv'
<1>1. PICK op \in dirty, cpu \in Cpus : dirty' = dirty \ {op} /\ Emit(op, cpu)
  BY Zenon DEF Writeback
<1>2. UNCHANGED <<pc, setup, disk, tasks, positions, real>>
  BY DEF Writeback
<1>3. op \in Ops
  BY DEF TraceInv, TypeInv
<1>4. ~cancelled /\ pc \notin {"cancel", "join"} \cup Copying
  BY DEF TraceInv, PhaseInv
<1>5. /\ relay' \in [Cpus -> Seq(Ops)] /\ dropped' \in Nat
      /\ \A c \in Cpus : \A e : In(e, relay'[c]) => In(e, relay[c]) \/ e = op
      /\ \A c \in Cpus : \A e : In(e, relay[c]) => In(e, relay'[c])
      /\ dropped' = 0 => dropped = 0 /\ In(op, relay'[cpu])
  BY <1>1, <1>3, Emitted DEF TraceInv
<1>6. TypeInv'
  BY <1>1, <1>2, <1>5 DEF TraceInv, TypeInv, tasks, disk
<1>7. PhaseInv'
  BY <1>2, <1>4 DEF TraceInv, PhaseInv, Starting, Copying, tasks
<1>8. UNCHANGED <<reader, channel, events>>
  BY <1>2 DEF tasks
<1>9. \A e \in Ops : Traced(e)' => Traced(e)
  BY <1>1, <1>5, <1>8, Zenon DEF Traced, Queued
<1>10. dropped' = 0 => dropped = 0 /\ \A e \in Ops : Traced(e) => Traced(e)'
  <2>1. ASSUME dropped' = 0, NEW e \in Ops, Traced(e) PROVE Traced(e)'
    <3>1. CASE e = op
      BY <1>5, <2>1, <3>1, Zenon DEF Traced, Queued
    <3>2. CASE e # op
      BY <1>1, <1>5, <1>8, <2>1, <3>2, Zenon DEF Traced, Queued
    <3> QED BY <3>1, <3>2
  <2> QED BY <1>5, <2>1
<1>11. SoundInv' /\ CompleteInv'
  BY <1>2, <1>9, <1>10, Carried DEF TraceInv, disk
<1>12. CopyInv'
  BY <1>2, <1>4 DEF TraceInv, CopyInv, OnlyTouched, Copying, disk
<1>13. RelayInv'
  <2>1. IsFiniteSet(dirty) /\ Cardinality(dirty) \in Nat
    BY FS_CardinalityType DEF TraceInv, RelayInv
  <2>2. IsFiniteSet(dirty') /\ Cardinality(dirty') = Cardinality(dirty) - 1 /\ Cardinality(dirty') \in Nat
    BY <1>1, <2>1, FS_RemoveElement, FS_CardinalityType
  <2>3. \A c \in Cpus : Len(relay[c]) \in Nat /\ Len(relay'[c]) \in Nat
    BY <1>5 DEF TraceInv, TypeInv
  <2>4. \A c \in Cpus : Len(relay[c]) + Cardinality(dirty) <= count
    BY DEF TraceInv, RelayInv
  <2>5. count \in Nat /\ MaxOps \in Nat /\ RelayCapacity \in Nat /\ count <= MaxOps /\ count' = count
    BY <1>2 DEF TraceInv, TypeInv, RelayInv, disk
  <2>6. \A c \in Cpus : Len(relay'[c]) <= Len(relay[c]) + 1
    BY <1>1, <1>3, Emitted DEF TraceInv
  <2>7. Len(relay[cpu]) < RelayCapacity => dropped' = dropped
    BY <1>1, <1>3, Emitted DEF TraceInv
  <2>8. ASSUME NEW c \in Cpus PROVE Len(relay'[c]) + Cardinality(dirty') <= count
    <3>1. Len(relay'[c]) <= Len(relay[c]) + 1 /\ Len(relay[c]) + Cardinality(dirty) <= count
      BY <2>4, <2>6
    <3> QED BY <2>1, <2>2, <2>3, <2>5, <3>1
  <2>9. MaxOps <= RelayCapacity => dropped' = dropped
    BY <2>1, <2>2, <2>3, <2>4, <2>5, <2>7
  <2> QED BY <2>2, <2>5, <2>8, <2>9 DEF TraceInv, RelayInv
<1> QED BY <1>6, <1>7, <1>11, <1>12, <1>13 DEF TraceInv

-----------------------------------------------------------------------------
(* The readers and the collector *)

(* A step of theirs that loses no event.                                    *)
LEMMA Moved ==
    ASSUME TraceInv, UNCHANGED <<pc, disk, dirty, dropped, cancelled, positions, real>>,
           TypeInv', PhaseInv',
           \A e \in Ops : Traced(e)' <=> Traced(e),
           pc \notin Copying,
           \A c \in Cpus : Len(relay'[c]) <= Len(relay[c])
    PROVE  TraceInv'
<1>1. SoundInv' /\ CompleteInv'
  BY Carried DEF TraceInv, disk
<1>2. CopyInv'
  BY DEF TraceInv, CopyInv, OnlyTouched, disk, Copying
<1>3. RelayInv'
  <2>1. Cardinality(dirty) \in Nat /\ count \in Nat
    BY FS_CardinalityType DEF TraceInv, TypeInv, RelayInv
  <2>2. \A c \in Cpus : Len(relay[c]) \in Nat /\ Len(relay'[c]) \in Nat
    BY DEF TraceInv, TypeInv
  <2>3. \A c \in Cpus : Len(relay[c]) + Cardinality(dirty) <= count
    BY DEF TraceInv, RelayInv
  <2>4. \A c \in Cpus : Len(relay'[c]) + Cardinality(dirty) <= count
    BY <2>1, <2>2, <2>3
  <2> QED BY <2>4 DEF TraceInv, RelayInv, disk
<1> QED BY <1>1, <1>2, <1>3 DEF TraceInv

(* A reader takes the next event of its relay channel.                      *)
LEMMA ReadTrace ==
    ASSUME TraceInv, NEW c \in Cpus, ReadEvent(c)
    PROVE  TraceInv'
<1> DEFINE e0 == Head(relay[c])
<1>1. /\ reader[c].pc \in {"read", "again"} /\ relay[c] # <<>>
      /\ reader' = [reader EXCEPT ![c] = [pc |-> "send", held |-> <<e0>>]]
      /\ relay' = [relay EXCEPT ![c] = Tail(@)]
      /\ UNCHANGED <<pc, setup, disk, dirty, dropped, cancelled, channel, events, positions, real>>
  BY DEF ReadEvent
<1>2. /\ relay[c] \in Seq(Ops) /\ e0 \in Ops /\ Tail(relay[c]) \in Seq(Ops)
      /\ Len(Tail(relay[c])) = Len(relay[c]) - 1 /\ Len(relay[c]) \in Nat
  BY <1>1 DEF TraceInv, TypeInv
<1>3. \A x : In(x, relay[c]) <=> x = e0 \/ In(x, Tail(relay[c]))
  BY <1>1, <1>2, InTail
<1>4. \A x : In(x, <<e0>>) <=> x = e0
  BY InSingle
<1>5. \A x : ~In(x, reader[c].held)
  <2>1. reader[c].held = <<>>
    BY <1>1 DEF TraceInv, PhaseInv
  <2> QED BY <2>1, InEmpty, Zenon
<1>6. <<e0>> \in Seq(Ops)
  BY <1>2
<1> HIDE DEF e0
<1>7. /\ relay'[c] = Tail(relay[c]) /\ reader'[c] = [pc |-> "send", held |-> <<e0>>]
      /\ reader'[c].pc = "send" /\ reader'[c].held = <<e0>>
      /\ \A d \in Cpus \ {c} : relay'[d] = relay[d] /\ reader'[d] = reader[d]
  BY <1>1 DEF TraceInv, TypeInv
<1>8. TypeInv'
  BY <1>1, <1>2, <1>6 DEF TraceInv, TypeInv, disk
<1>9. pc \notin Copying
  BY <1>1 DEF TraceInv, PhaseInv
<1>10. PhaseInv'
  BY <1>1, <1>7, <1>9 DEF TraceInv, PhaseInv, Starting, Copying
<1>11. \A x \in Ops : Traced(x)' <=> Traced(x)
  <2>1. ASSUME NEW x \in Ops, NEW d \in Cpus
        PROVE  In(x, relay'[d]) \/ In(x, reader'[d].held) <=> In(x, relay[d]) \/ In(x, reader[d].held)
    BY <1>3, <1>4, <1>5, <1>7
  <2> QED BY <1>1, <2>1, Zenon DEF Traced, Queued
<1>12. \A d \in Cpus : Len(relay'[d]) <= Len(relay[d])
  <2>1. \A d \in Cpus : Len(relay[d]) \in Nat
    BY DEF TraceInv, TypeInv
  <2>2. Len(relay'[c]) <= Len(relay[c])
    BY <1>2, <1>7
  <2>3. \A d \in Cpus \ {c} : Len(relay'[d]) <= Len(relay[d])
    BY <1>7, <2>1
  <2> QED BY <2>2, <2>3
<1> QED BY <1>1, <1>8, <1>9, <1>10, <1>11, <1>12, Moved

(* A reader at the end of its relay channel.                                *)
LEMMA EofTrace ==
    ASSUME TraceInv, NEW c \in Cpus, ReadEof(c)
    PROVE  TraceInv'
<1>1. /\ relay[c] = <<>>
      /\ UNCHANGED <<pc, setup, disk, kernel, cancelled, channel, events, positions, real>>
  BY DEF ReadEof
<1>2. PICK l \in {"again", "done"} :
        /\ reader' = [reader EXCEPT ![c].pc = l]
        /\ reader[c].pc \in {"read", "again"}
        /\ cancelled \/ reader[c].pc = "again"
  BY DEF ReadEof
<1>3. reader[c] \in [pc : {"off", "read", "again", "send", "done"}, held : Seq(Ops)]
  BY DEF TraceInv, TypeInv
<1>4. /\ reader'[c].pc = l /\ reader'[c].held = reader[c].held
      /\ \A d \in Cpus \ {c} : reader'[d] = reader[d]
  BY <1>2, <1>3 DEF TraceInv, TypeInv
<1>5. TypeInv'
  <2>1. reader' \in [Cpus -> [pc : {"off", "read", "again", "send", "done"}, held : Seq(Ops)]]
    BY <1>2 DEF TraceInv, TypeInv
  <2> QED BY <1>1, <2>1 DEF TraceInv, TypeInv, disk, kernel
<1>6. pc \notin Copying
  BY <1>2 DEF TraceInv, PhaseInv
<1>7. cancelled
  BY <1>2 DEF TraceInv, PhaseInv
<1>8. PhaseInv'
  BY <1>1, <1>2, <1>4, <1>6, <1>7 DEF TraceInv, PhaseInv, Starting, Copying, kernel
<1>9. \A x \in Ops : Traced(x)' <=> Traced(x)
  <2>1. \A d \in Cpus : reader'[d].held = reader[d].held
    BY <1>4
  <2>2. UNCHANGED <<relay, dirty, channel, events>>
    BY <1>1 DEF kernel
  <2> QED BY <2>1, <2>2, Zenon DEF Traced, Queued
<1>10. \A d \in Cpus : Len(relay'[d]) <= Len(relay[d])
  BY <1>1 DEF TraceInv, TypeInv, kernel
<1> QED BY <1>1, <1>5, <1>6, <1>8, <1>9, <1>10, Moved DEF kernel

(* A reader sends the event it holds.                                       *)
LEMMA SendTrace ==
    ASSUME TraceInv, NEW c \in Cpus, SendEvent(c)
    PROVE  TraceInv'
<1>1. /\ reader[c].pc = "send"
      /\ channel' = channel \o reader[c].held
      /\ reader' = [reader EXCEPT ![c] = Reading]
      /\ UNCHANGED <<pc, setup, disk, kernel, cancelled, events, positions, real>>
  BY DEF SendEvent
<1>2. channel \in Seq(Ops) /\ reader[c].held \in Seq(Ops) /\ channel' \in Seq(Ops)
  BY <1>1 DEF TraceInv, TypeInv
<1>3. /\ reader'[c].pc = "read" /\ reader'[c].held = <<>>
      /\ \A d \in Cpus \ {c} : reader'[d] = reader[d]
  BY <1>1 DEF TraceInv, TypeInv, Reading
<1>4. TypeInv'
  <2>1. reader' \in [Cpus -> [pc : {"off", "read", "again", "send", "done"}, held : Seq(Ops)]]
    BY <1>1 DEF TraceInv, TypeInv, Reading
  <2> QED BY <1>1, <1>2, <2>1 DEF TraceInv, TypeInv, disk, kernel
<1>5. pc \notin Copying
  BY <1>1 DEF TraceInv, PhaseInv
<1>6. PhaseInv'
  BY <1>1, <1>3, <1>5 DEF TraceInv, PhaseInv, Starting, Copying, kernel
<1>7. \A x \in Ops : Traced(x)' <=> Traced(x)
  <2>1. \A x : In(x, channel') <=> In(x, channel) \/ In(x, reader[c].held)
    BY <1>1, <1>2, InConcat
  <2>2. \A x : ~In(x, reader'[c].held)
    BY <1>3, InEmpty, Zenon
  <2>3. UNCHANGED <<relay, dirty, events>>
    BY <1>1 DEF kernel
  <2>4. ASSUME NEW x \in Ops PROVE Queued(x)' <=> Queued(x)
    <3>1. ASSUME Queued(x) PROVE Queued(x)'
      BY <1>3, <2>1, <2>2, <2>3, <3>1, Zenon DEF Queued
    <3>2. ASSUME Queued(x)' PROVE Queued(x)
      BY <1>3, <2>1, <2>2, <2>3, <3>2, Zenon DEF Queued
    <3> QED BY <3>1, <3>2
  <2> QED BY <2>3, <2>4, Zenon DEF Traced
<1>8. \A d \in Cpus : Len(relay'[d]) <= Len(relay[d])
  BY <1>1 DEF TraceInv, TypeInv, kernel
<1> QED BY <1>1, <1>4, <1>5, <1>6, <1>7, <1>8, Moved DEF kernel

(* The collector takes an event from the channel.                           *)
LEMMA CollectTrace ==
    ASSUME TraceInv, Collect
    PROVE  TraceInv'
<1>1. /\ channel # <<>> /\ events' = events \cup {Head(channel)} /\ channel' = Tail(channel)
      /\ UNCHANGED <<pc, setup, disk, kernel, cancelled, reader, positions, real>>
  BY DEF Collect
<1>2. channel \in Seq(Ops) /\ Head(channel) \in Ops /\ Tail(channel) \in Seq(Ops)
  BY <1>1 DEF TraceInv, TypeInv
<1>3. TypeInv'
  BY <1>1, <1>2 DEF TraceInv, TypeInv, disk, kernel
<1>4. pc \notin Copying
  BY <1>1 DEF TraceInv, PhaseInv
<1>5. PhaseInv'
  BY <1>1, <1>4 DEF TraceInv, PhaseInv, Starting, Copying, kernel
<1>6. \A x \in Ops : Traced(x)' <=> Traced(x)
  <2>1. \A x : In(x, channel) <=> x = Head(channel) \/ In(x, channel')
    BY <1>1, <1>2, InTail
  <2>2. UNCHANGED <<relay, dirty, reader>> /\ \A x : x \in events' <=> x \in events \/ x = Head(channel)
    BY <1>1 DEF kernel
  <2> QED BY <2>1, <2>2, Zenon DEF Traced, Queued
<1>7. \A d \in Cpus : Len(relay'[d]) <= Len(relay[d])
  BY <1>1 DEF TraceInv, TypeInv, kernel
<1> QED BY <1>1, <1>3, <1>4, <1>5, <1>6, <1>7, Moved DEF kernel

-----------------------------------------------------------------------------
(* The copy *)

(* When the readers are done, every event was collected, and the pages to   *)
(* be copied are all those that were touched.                               *)
LEMMA AllCollected ==
    ASSUME PhaseInv, dirty = {}, channel = <<>>, \A c \in Cpus : reader[c].pc = "done",
           NEW e \in Ops, Traced(e)
    PROVE  e \in events
<1>1. \A c \in Cpus : relay[c] = <<>> /\ reader[c].held = <<>>
  BY DEF PhaseInv
<1> QED BY <1>1, InEmpty, Zenon DEF Traced, Queued

(* A collected event was traced, so its pages were touched.                 *)
LEMMA RecordedTouched ==
    ASSUME TypeInv, SoundInv
    PROVE  Recorded \cap Pages \subseteq touched
BY DEF TypeInv, SoundInv, Traced, Recorded

(* The collector is joined: the pages of what it collected are copied next. *)
LEMMA JoinTrace ==
    ASSUME TraceInv, Join
    PROVE  TraceInv'
<1>1. /\ pc = "join" /\ pc' = "migrate" /\ positions' = Recorded
      /\ channel = <<>> /\ \A c \in Cpus : reader[c].pc = "done"
      /\ UNCHANGED <<setup, disk, kernel, tasks, real>>
  BY DEF Join
<1>2. TypeInv'
  BY <1>1 DEF TraceInv, TypeInv, disk, kernel, tasks
<1>3. PhaseInv'
  BY <1>1 DEF TraceInv, PhaseInv, Starting, Copying, kernel, tasks
<1>4. \A e \in Ops : Traced(e)' <=> Traced(e)
  BY <1>1, Zenon DEF Traced, Queued, kernel, tasks
<1>5. SoundInv' /\ CompleteInv'
  BY <1>1, <1>4, Carried DEF TraceInv, disk, kernel
<1>6. CopyInv'
  <2>1. Recorded' = Recorded
    BY <1>1 DEF Recorded, tasks
  <2>2. Recorded \cap Pages \subseteq touched
    BY RecordedTouched DEF TraceInv
  <2> QED BY <1>1, <2>1, <2>2 DEF TraceInv, CopyInv, OnlyTouched, disk
<1>7. RelayInv'
  BY <1>1 DEF TraceInv, RelayInv, disk, kernel
<1> QED BY <1>2, <1>3, <1>5, <1>6, <1>7 DEF TraceInv

(* A page is copied, or turns out to be the short one at the end.           *)
LEMMA MigrateTrace ==
    ASSUME TraceInv, NEW page \in positions, Migrate(page)
    PROVE  TraceInv'
<1>1. /\ pc = "migrate" /\ UNCHANGED <<attempts, ld, disk, kernel, tasks>>
      /\ \/ /\ Whole(page) /\ real' = [real EXCEPT ![page] = PageContents(page)]
            /\ positions' = positions \ {page} /\ UNCHANGED <<pc, loop>>
         \/ pc' = "failed" /\ UNCHANGED <<real, positions>>
  BY Zenon DEF Migrate
<1>2. TypeInv'
  BY <1>1 DEF TraceInv, TypeInv, disk, kernel, tasks
<1>3. PhaseInv'
  BY <1>1 DEF TraceInv, PhaseInv, Starting, Copying, kernel, tasks
<1>4. \A e \in Ops : Traced(e)' <=> Traced(e)
  BY <1>1, Zenon DEF Traced, Queued, kernel, tasks
<1>5. SoundInv' /\ CompleteInv'
  BY <1>1, <1>4, Carried DEF TraceInv, disk, kernel
<1>6. CopyInv'
  <2>1. UNCHANGED <<touched, Recorded>> /\ \A p : PageContents(p)' = PageContents(p)
    BY <1>1 DEF Recorded, tasks, disk, PageContents
  <2>2. CASE pc' = "failed" /\ UNCHANGED <<real, positions>>
    BY <2>1, <2>2 DEF TraceInv, CopyInv, OnlyTouched, Copying
  <2>3. CASE /\ Whole(page) /\ real' = [real EXCEPT ![page] = PageContents(page)]
             /\ positions' = positions \ {page} /\ UNCHANGED <<pc, loop>>
    <3>1. \A p \in Pages \ {page} : real'[p] = real[p]
      BY <2>3 DEF TraceInv, TypeInv
    <3>2. page \in Pages => Copied(page)' /\ page \in touched
      BY <2>1, <2>3 DEF TraceInv, TypeInv, Copied, CopyInv
    <3>3. \A p \in Pages : Copied(p) => Copied(p)'
      BY <2>1, <3>1, <3>2 DEF Copied
    <3>4. \A p \in Recorded' \cap Pages : p \in positions' \/ Copied(p)'
      BY <1>1, <2>1, <2>3, <3>2, <3>3 DEF TraceInv, CopyInv, Copying
    <3>5. OnlyTouched'
      BY <2>1, <3>1, <3>2 DEF TraceInv, CopyInv, OnlyTouched
    <3> QED BY <1>1, <2>1, <2>3, <3>4, <3>5 DEF TraceInv, CopyInv
  <2> QED BY <1>1, <2>2, <2>3
<1>7. RelayInv'
  BY <1>1 DEF TraceInv, RelayInv, disk, kernel
<1> QED BY <1>2, <1>3, <1>5, <1>6, <1>7 DEF TraceInv

(* force_mkfs returns when there is nothing left to copy.                   *)
LEMMA DoneTrace ==
    ASSUME TraceInv, Done
    PROVE  TraceInv'
<1>1. /\ pc = "migrate" /\ positions = {} /\ pc' = "ok"
      /\ UNCHANGED <<disk, kernel, tasks, positions, real>>
  BY DEF Done
<1>2. TypeInv'
  BY <1>1 DEF TraceInv, TypeInv, disk, kernel, tasks
<1>3. PhaseInv'
  BY <1>1 DEF TraceInv, PhaseInv, Starting, Copying, kernel, tasks
<1>4. \A e \in Ops : Traced(e)' <=> Traced(e)
  BY <1>1, Zenon DEF Traced, Queued, kernel, tasks
<1>5. SoundInv' /\ CompleteInv'
  BY <1>1, <1>4, Carried DEF TraceInv, disk, kernel
<1>6. CopyInv'
  <2>1. UNCHANGED <<touched, Recorded>> /\ \A p : Copied(p)' <=> Copied(p)
    BY <1>1 DEF Recorded, tasks, disk, PageContents, Copied
  <2> QED BY <1>1, <2>1 DEF TraceInv, CopyInv, OnlyTouched, Copying
<1>7. RelayInv'
  BY <1>1 DEF TraceInv, RelayInv, disk, kernel
<1> QED BY <1>2, <1>3, <1>5, <1>6, <1>7 DEF TraceInv

-----------------------------------------------------------------------------
(* Every reachable state *)

(* The invariant holds at the start.                                        *)
LEMMA Initial == Init => IInv
<1> SUFFICES ASSUME Init PROVE IInv
  OBVIOUS
<1> USE DEF Init
<1>1. TypeInv
  BY DEF TypeInv
<1>2. PhaseInv
  BY DEF PhaseInv, Copying, Starting
<1>3. \A e \in Ops : ~Traced(e)
  <2>1. \A c \in Cpus : relay[c] = <<>> /\ reader[c].held = <<>>
    OBVIOUS
  <2> QED BY <2>1, InEmpty DEF Traced, Queued
<1>4. SoundInv /\ CompleteInv
  BY <1>3 DEF SoundInv, CompleteInv
<1>5. CopyInv
  BY DEF CopyInv, OnlyTouched, Copying
<1>6. RelayInv
  <2>1. \A c \in Cpus : Len(relay[c]) = 0
    OBVIOUS
  <2> QED BY <2>1, FS_EmptySet DEF RelayInv
<1>7. LoopInv
  BY DEF LoopInv, OwnLoopDevice
<1> QED BY <1>1, <1>2, <1>4, <1>5, <1>6, <1>7 DEF IInv, TraceInv

(* The loop device that mkfs writes to was attached by this process, and    *)
(* nobody else takes it away.                                               *)
LEMMA LoopStep ==
    ASSUME LoopInv, [Next]_vars
    PROVE  LoopInv'
<1>1. CASE NextFree \/ Attach \/ SetBlockSize
  BY <1>1 DEF LoopInv, OwnLoopDevice, NextFree, Attach, SetBlockSize, Retry, Free
<1>2. CASE OtherProcess
  BY <1>2 DEF LoopInv, OwnLoopDevice, OtherProcess
<1>3. ASSUME UNCHANGED <<pc, setup>> PROVE LoopInv'
  BY <1>3 DEF LoopInv, OwnLoopDevice, setup
<1>4. ASSUME NEW op \in Ops, Operation(op) PROVE LoopInv'
  BY <1>3, <1>4, Zenon DEF Operation
<1>5. ASSUME NEW c \in Cpus, ReadEvent(c) \/ ReadEof(c) \/ SendEvent(c) PROVE LoopInv'
  BY <1>3, <1>5, Zenon DEF ReadEvent, ReadEof, SendEvent
<1>6. CASE Writeback \/ Collect
  BY <1>3, <1>6, Zenon DEF Writeback, Collect
<1>7. CASE Monitor \/ FlushBuffers \/ Cancel \/ Join
  <2>1. /\ UNCHANGED setup /\ pc \in {"monitor", "flush", "cancel", "join"}
        /\ pc' \in {"mkfs", "cancel", "join", "migrate"}
    BY <1>7 DEF Monitor, FlushBuffers, Cancel, Join
  <2> QED BY <2>1 DEF LoopInv, OwnLoopDevice, setup
<1>8. CASE MkfsEnds \/ Done
  <2>1. \/ pc' \in {"failed", "ok"}
        \/ pc = "mkfs" /\ pc' = "flush" /\ UNCHANGED setup
    BY <1>8, Zenon DEF MkfsEnds, Done, setup
  <2> QED BY <2>1 DEF LoopInv, OwnLoopDevice, setup
<1>9. ASSUME NEW page \in positions, Migrate(page) PROVE LoopInv'
  <2>1. pc' = "failed" \/ UNCHANGED <<pc, setup>>
    BY <1>9, Zenon DEF Migrate, setup
  <2> QED BY <1>3, <2>1 DEF LoopInv, OwnLoopDevice
<1>10. CASE Stopped \/ UNCHANGED vars
  BY <1>3, <1>10 DEF Stopped, vars
<1> QED BY <1>1, <1>2, <1>4, <1>5, <1>6, <1>7, <1>8, <1>9, <1>10, Zenon DEF Next

(* Every step keeps the rest of the invariant.                              *)
LEMMA TraceStep ==
    ASSUME TraceInv, [Next]_vars
    PROVE  TraceInv'
<1>1. CASE Stopped \/ UNCHANGED vars
  <2>1. UNCHANGED vars
    BY <1>1 DEF Stopped
  <2>2. TypeInv' /\ PhaseInv' /\ RelayInv'
    BY <2>1 DEF vars, disk, kernel, tasks, TraceInv, TypeInv, PhaseInv, RelayInv
  <2>3. \A e \in Ops : Traced(e)' <=> Traced(e)
    BY <2>1, Zenon DEF vars, kernel, tasks, Traced, Queued
  <2>4. SoundInv' /\ CompleteInv'
    BY <2>1, <2>3, Carried DEF TraceInv, vars, disk, kernel
  <2>5. UNCHANGED <<touched, Recorded>> /\ \A p : Copied(p)' <=> Copied(p)
    BY <2>1 DEF vars, disk, tasks, Recorded, PageContents, Copied
  <2>6. CopyInv'
    BY <2>1, <2>5 DEF TraceInv, CopyInv, OnlyTouched, vars
  <2> QED BY <2>2, <2>4, <2>6 DEF TraceInv
<1> QED BY <1>1, SetupTrace, EndsTrace, MonitorTrace, CancelTrace, OperationTrace, WritebackTrace,
           ReadTrace, EofTrace, SendTrace, CollectTrace, JoinTrace, MigrateTrace, DoneTrace, Zenon
        DEF Next

(* The invariant holds in every reachable state.                            *)
LEMMA Invariance == Spec => []IInv
<1>1. IInv /\ [Next]_vars => IInv'
  BY LoopStep, TraceStep DEF IInv
<1> QED BY <1>1, Initial, PTL DEF Spec

-----------------------------------------------------------------------------
(* The theorems *)

(* mkfs only ever writes to a loop device that DummyDevice::setup attached  *)
(* in this process, whatever other processes do to the loop devices between *)
(* its attempts.                                                            *)
THEOREM LoopDeviceIsOwn == Spec => []OwnLoopDevice
<1>1. IInv => OwnLoopDevice
  BY DEF IInv, LoopInv
<1> QED BY <1>1, Invariance, PTL

(* Nothing but pages that mkfs touched is ever written to the real device:  *)
(* neither discards nor the bounds of an event spill over, for every page   *)
(* size and every interleaving of the readers.                              *)
THEOREM RestUntouched == Spec => []OnlyTouched
<1>1. IInv => OnlyTouched
  BY DEF IInv, TraceInv, CopyInv
<1> QED BY <1>1, Invariance, PTL

(* What force_mkfs has copied when it succeeds is complete, unless the      *)
(* kernel dropped an event because a relay channel was full (of which       *)
(* shutdown warns, and which force_mkfs does not look at).                  *)
THEOREM CompleteUnlessDropped == Spec => [](dropped = 0 => ReplayComplete)
<1>1. IInv => (dropped = 0 => ReplayComplete)
  <2> SUFFICES ASSUME IInv, dropped = 0, pc = "ok", NEW p \in touched PROVE Copied(p)
    BY DEF ReplayComplete, Copied
  <2>1. PICK e \in Ops : Traced(e) /\ e.kind # "discard" /\ p \in PagesOf(e)
    BY DEF IInv, TraceInv, CompleteInv
  <2>2. e \in events
    BY <2>1, AllCollected DEF IInv, TraceInv, PhaseInv, Copying
  <2>3. p \in Recorded \cap Pages
    BY <2>1, <2>2 DEF Recorded, IInv, TraceInv, TypeInv
  <2> QED BY <2>3 DEF IInv, TraceInv, CopyInv, Copying
<1> QED BY <1>1, Invariance, PTL

(* With relay channels that hold as many events as mkfs has operations, the *)
(* copy is complete without that condition.                                 *)
THEOREM CompleteWithRoom ==
    MaxOps <= RelayCapacity => (Spec => []ReplayComplete)
<1> SUFFICES ASSUME MaxOps <= RelayCapacity PROVE Spec => []ReplayComplete
  OBVIOUS
<1>1. IInv => dropped = 0
  BY DEF IInv, TraceInv, RelayInv
<1> QED BY <1>1, Invariance, CompleteUnlessDropped, PTL
=============================================================================
