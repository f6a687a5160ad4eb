---------------------------- MODULE MetaWalProofs ----------------------------
(***************************************************************************)
(* Proofs about MetaWal, for any disks and any bounds.  The inductive      *)
(* invariant IInv holds until a read of a recovery scan fails: wal::scan   *)
(* takes a read error for the end of the log, and the next apply then      *)
(* writes over what it missed.                                             *)
(***************************************************************************)
EXTENDS MetaWal, TLAPS

(* The clock of a prover also runs while the next obligation is prepared.   *)
USE SMTT(20)

(* The log below the cursor consists of frames, and the view repeats them.  *)
LogBelowCursor ==
    pc # "down" =>
        /\ Len(view) = cursor
        /\ \A s \in Slot : s < cursor =>
              cache[Primary][s] \in Op /\ view[s + 1] = cache[Primary][s]

(* What commit relies on while a frame is in flight.                        *)
InFlight ==
    /\ backup # Primary
    /\ pc \in {"p_sync", "b_write", "b_sync"} => cursor < MaxSlots /\ op \in Op
    /\ pc \in {"b_write", "b_sync"} => backup # NoDisk

(* How far commit has come.                                                 *)
CommitProgress ==
    /\ pc \in {"p_sync", "b_write", "b_sync"} => cache[Primary][cursor] = op
    /\ pc \in {"b_write", "b_sync"} => DurableThrough(Primary, cursor)
    /\ pc = "b_sync" => cache[backup][cursor] = op

(* A running process has its cursor beyond every acknowledged slot, and     *)
(* beyond every frame on a replica but the one it is writing there.         *)
AckedBelowCursor ==
    pc \in Running => \A a \in acked : InWal(a) => a.slot < cursor

ReplicaBelowCursor ==
    pc \in Running =>
        \A d \in Disk \ {Primary}, s \in Slot :
            \A o \in Op : s < WalCapacity /\ o \in {cache[d][s], stable[d][s]} =>
                s < cursor \/ (s = cursor /\ pc = "b_sync")

TypeInv == TypeOK /\ InFlight

IInv ==
    /\ TypeInv
    /\ LogBelowCursor
    /\ CommitProgress
    /\ AckedBelowCursor
    /\ ReplicaBelowCursor
    /\ AckedDurable
    /\ MembersDurable
    /\ ReplicasBehind

-----------------------------------------------------------------------------
(* Writing one slot of one disk leaves every other slot as it was.          *)
LEMMA PutSlot ==
    ASSUME NEW log \in [Disk -> [Slot -> Content]],
           NEW d \in Disk, NEW s \in Slot, NEW c \in Content
    PROVE  /\ Put(log, d, s, c) \in [Disk -> [Slot -> Content]]
           /\ Put(log, d, s, c)[d][s] = c
           /\ \A e \in Disk, t \in Slot :
                 e # d \/ t # s => Put(log, d, s, c)[e][t] = log[e][t]
  BY Zenon DEF Put

LEMMA PrimaryIsDisk == Primary \in Disk
  BY Zenon, DiskAssumption DEF Disk

LEMMA ContentFacts == Op \subseteq Content /\ Empty \in Content
  BY Zenon DEF Content

(* A write that is cut off makes no frame that was not there.               *)
LEMMA PartialFacts ==
    ASSUME NEW c \in Content, NEW x \in Partial(c)
    PROVE  x \in Content /\ (x \in Op => x = c)
<1>1. Torn \notin Op /\ Stub \notin Op
  BY DEF Torn, Stub, Op
<1> QED
  BY Zenon, <1>1 DEF Partial, Content

(* A failing sync leaves each slot as it was or as it should be.            *)
LEMMA SyncFailsFacts ==
    ASSUME TypeOK, PrimarySyncFails
    PROVE  /\ cache' = cache /\ stable' \in [Disk -> [Slot -> Content]]
           /\ \A d \in Disk : d # Primary => stable'[d] = stable[d]
           /\ \A t \in Slot : stable'[Primary][t] \in {stable[Primary][t], cache[Primary][t]}
<1>t. /\ cache \in [Disk -> [Slot -> Content]] /\ stable \in [Disk -> [Slot -> Content]]
      /\ Primary \in Disk
  BY Zenon, PrimaryIsDisk DEF TypeOK
<1>1. PICK done \in SUBSET Slot :
        stable' = [stable EXCEPT ![Primary] =
                      [s \in Slot |-> IF s \in done THEN cache[Primary][s] ELSE @[s]]]
  BY Zenon DEF PrimarySyncFails
<1>2. cache' = cache
  BY Zenon DEF PrimarySyncFails
<1> DEFINE row == [s \in Slot |-> IF s \in done THEN cache[Primary][s] ELSE stable[Primary][s]]
<1>3. stable' = [stable EXCEPT ![Primary] = row]
  BY <1>1, <1>t
<1>4. row \in [Slot -> Content]
  BY <1>t
<1>5. \A t \in Slot : row[t] \in {stable[Primary][t], cache[Primary][t]}
  BY Zenon
<1> HIDE DEF row
<1> QED BY Zenon, <1>2, <1>3, <1>4, <1>5, <1>t

LEMMA InitTypeInv == Init => TypeInv
  BY DiskAssumption, BoundAssumption, ContentFacts
     DEF Init, TypeInv, TypeOK, InFlight, Disk, PCs, Running

(* The bookkeeping at the end of apply keeps its types.                     *)
LEMMA AcknowledgeTypes ==
    ASSUME TypeInv, pc \in {"p_sync", "b_write", "b_sync"},
           NEW members \in SUBSET Disk, Acknowledge(members)
    PROVE  /\ cursor' \in 0 .. MaxSlots
           /\ view' \in Seq(Op)
           /\ acked' \subseteq [slot : Slot, op : Op, members : SUBSET Disk]
  <1> USE BoundAssumption DEF TypeInv, TypeOK, InFlight, Acknowledge
  <1>1. cursor \in Slot /\ cursor' \in 0 .. MaxSlots
    BY DEF Slot
  <1>2. op \in Op
    BY Zenon
  <1>3. view' \in Seq(Op)
    BY <1>2
  <1>4. [slot |-> cursor, op |-> op, members |-> members]
            \in [slot : Slot, op : Op, members : SUBSET Disk]
    BY Zenon, <1>1, <1>2
  <1> QED
    BY Zenon, <1>1, <1>3, <1>4

(* Every step of the model keeps the types and the facts on which the next  *)
(* system call of commit relies.                                            *)
LEMMA TypeStep == TypeInv /\ [Next]_vars => TypeInv'
<1> SUFFICES ASSUME TypeInv, [Next]_vars PROVE TypeInv'
  BY Zenon
<1> USE DiskAssumption, BoundAssumption, PrimaryIsDisk
    DEF TypeInv, TypeOK, InFlight, PCs, Running,
        disks, group, history, bounds
<1>1. CASE PrimaryWrite
  <2> USE <1>1 DEF PrimaryWrite
  <2>1. issued + 1 \in Op /\ issued + 1 \in 0 .. MaxOps /\ cursor \in Slot
    BY DEF Op, Slot
  <2>2. issued + 1 \in Content
    BY Zenon, <2>1 DEF Content
  <2>3. cache' \in [Disk -> [Slot -> Content]]
    BY Zenon, <2>1, <2>2, PutSlot
  <2> QED
    BY Zenon, <2>1, <2>3
<1>2. CASE PrimaryWriteFails
  <2> USE <1>2 DEF PrimaryWriteFails, Fault
  <2>1. cursor \in Slot /\ cache[Primary][cursor] \in Content
    BY DEF Slot
  <2>2. PICK c \in Partial(cache[Primary][cursor]) : cache' = Put(cache, Primary, cursor, c)
    BY Zenon
  <2>3. cache' \in [Disk -> [Slot -> Content]]
    BY Zenon, <2>1, <2>2, PartialFacts, PutSlot
  <2> QED
    BY <2>3
<1>3. CASE PrimarySync
  <2> USE <1>3 DEF PrimarySync
  <2>1. stable' \in [Disk -> [Slot -> Content]]
    BY Zenon
  <2>2. CASE backup # NoDisk
    BY Zenon, <2>1, <2>2 DEF Acknowledge
  <2>3. CASE backup = NoDisk
    <3>1. Acknowledge({Primary}) /\ {Primary} \in SUBSET Disk
      BY Zenon, <2>3
    <3>2. /\ cursor' \in 0 .. MaxSlots /\ view' \in Seq(Op)
          /\ acked' \subseteq [slot : Slot, op : Op, members : SUBSET Disk]
      BY Zenon, <3>1, AcknowledgeTypes
    <3> QED
      BY Zenon, <2>1, <3>1, <3>2 DEF Acknowledge
  <2> QED
    BY Zenon, <2>2, <2>3
<1>4. CASE PrimarySyncFails
  <2>1. cache' = cache /\ stable' \in [Disk -> [Slot -> Content]]
    BY Zenon, <1>4, SyncFailsFacts
  <2> QED BY <1>4, <2>1 DEF PrimarySyncFails, Fault
<1>5. CASE BackupWrite
  <2> USE <1>5 DEF BackupWrite
  <2>1. cursor \in Slot /\ backup \in Disk /\ op \in Content
    BY ContentFacts DEF Slot
  <2>2. cache' \in [Disk -> [Slot -> Content]]
    BY Zenon, <2>1, PutSlot
  <2> QED
    BY Zenon, <2>2
<1>6. CASE BackupWriteFails
  <2> USE <1>6 DEF BackupWriteFails, Fault, FenceBackup
  <2>1. cursor \in Slot /\ backup \in Disk /\ cache[backup][cursor] \in Content
    BY DEF Slot
  <2>2. PICK c \in Partial(cache[backup][cursor]) : cache' = Put(cache, backup, cursor, c)
    BY Zenon
  <2>3. cache' \in [Disk -> [Slot -> Content]]
    BY Zenon, <2>1, <2>2, PartialFacts, PutSlot
  <2> QED
    BY <2>1, <2>3, AcknowledgeTypes DEF Acknowledge
<1>7. CASE BackupSync
  <2> USE <1>7 DEF BackupSync
  <2>1. stable' \in [Disk -> [Slot -> Content]] /\ {Primary, backup} \in SUBSET Disk
    BY Zenon
  <2> QED
    BY Zenon, <2>1, AcknowledgeTypes DEF Acknowledge
<1>8. CASE BackupSyncFails
  <2> USE <1>8 DEF BackupSyncFails, Fault, FenceBackup
  <2>1. /\ cursor' \in 0 .. MaxSlots /\ view' \in Seq(Op)
        /\ acked' \subseteq [slot : Slot, op : Op, members : SUBSET Disk]
    BY Zenon, AcknowledgeTypes
  <2>2. backup \in Disk /\ fenced' \subseteq Disk /\ epoch' \in Nat
    OBVIOUS
  <2>3. /\ cache' = cache /\ stable' = stable /\ pc' = "idle" /\ op' = 0
        /\ backup' = NoDisk /\ issued' = issued
    BY Zenon DEF Acknowledge
  <2>4. faults' \in 0 .. MaxFaults
    OBVIOUS
  <2>5. InFlight'
    BY Zenon, <2>3
  <2> QED
    BY Zenon, <2>1, <2>2, <2>3, <2>4, <2>5
<1>9. ASSUME NEW d \in Disk, PromoteNewBackup(d) PROVE TypeInv'
  <2> USE <1>9 DEF PromoteNewBackup
  <2>1. Resynced \in [Slot -> Content]
    BY ContentFacts DEF Resynced
  <2>2. d # NoDisk
    BY Zenon DEF Disk
  <2> QED
    BY <2>1, <2>2
<1>10. CASE ProcessCrash
  BY <1>10 DEF ProcessCrash
<1>11. CASE PowerLoss
  <2> USE <1>11 DEF PowerLoss
  <2>1. stable' \in [Disk -> [Slot -> Content]]
    BY PartialFacts
  <2> QED
    BY <2>1
<1>12. CASE Open
  BY <1>12 DEF Open, Disk
<1>13. CASE ScanFrame
  BY <1>13 DEF ScanFrame
<1>14. CASE ScanEnd
  BY Zenon, <1>14 DEF ScanEnd
<1>15. CASE ScanReadError
  BY <1>15 DEF ScanReadError
<1>16. CASE ScanPanics
  BY <1>16 DEF ScanPanics
<1>17. CASE UNCHANGED vars
  BY Zenon, <1>17 DEF vars
<1> QED
  BY Zenon, <1>1, <1>2, <1>3, <1>4, <1>5, <1>6, <1>7, <1>8, <1>9, <1>10, <1>11, <1>12,
     <1>13, <1>14, <1>15, <1>16, <1>17 DEF Next

(* Type correctness of the log model, for any disks and bounds.             *)
THEOREM TypeCorrect == Spec => []TypeOK
<1>1. TypeInv => TypeOK
  BY Zenon DEF TypeInv
<1> QED
  BY <1>1, InitTypeInv, TypeStep, PTL DEF Spec
-----------------------------------------------------------------------------
(* A step that leaves the synced slots of d alone keeps what is durable.    *)
Kept(d, t) ==
    cache[d][t] = stable[d][t] =>
        cache'[d][t] = cache[d][t] /\ stable'[d][t] = stable[d][t]

(* A running process only touches the slot under its cursor, and on the     *)
(* primary only when it starts to commit.                                   *)
SyncedKept ==
    /\ \A d \in Disk, t \in Slot : (pc \in Running /\ t >= cursor) \/ Kept(d, t)
    /\ \A t \in Slot : (pc = "idle" /\ t >= cursor) \/ Kept(Primary, t)

(* What is acknowledged is by then durable on every member.                 *)
NewAcksDurable ==
    \A a \in acked' : a \in acked \/
        /\ DurableThrough(Primary, a.slot)'
        /\ Durable(Primary, a.slot, a.op)'
        /\ \A d \in a.members : Durable(d, a.slot, a.op)'

(* A frame that is new on a replica is by then durable on the primary.      *)
NewFramesOnPrimary ==
    \A d \in Disk \ {Primary}, s \in Slot : \A o \in Op :
        o \in {cache'[d][s], stable'[d][s]} =>
            \/ o \in {cache[d][s], stable[d][s]}
            \/ DurableThrough(Primary, s)' /\ Durable(Primary, s, o)'

LEMMA DurableKept ==
    ASSUME NEW d, NEW s, \A t \in 0 .. s : Kept(d, t), s \in 0 .. s
    PROVE  /\ DurableThrough(d, s) => DurableThrough(d, s)'
           /\ \A o \in Op : Durable(d, s, o) => Durable(d, s, o)'
  BY Zenon DEF Kept, DurableThrough, Durable

LEMMA DurableThroughBelow ==
    ASSUME NEW d, NEW s \in Slot, DurableThrough(d, s), NEW t \in 0 .. s
    PROVE  cache[d][t] \in Op /\ stable[d][t] = cache[d][t]
  BY Zenon DEF DurableThrough, Durable

LEMMA SlotFacts ==
    ASSUME NEW s \in Slot
    PROVE  s \in Nat /\ s < MaxSlots /\ 0 .. s \subseteq Slot /\ s \in 0 .. s
  BY BoundAssumption DEF Slot

LEMMA BelowIsBelow ==
    ASSUME NEW n \in Nat, NEW c \in Nat, n < c
    PROVE  \A t \in 0 .. n : ~(t >= c)
  OBVIOUS

(* What is durable survives every step that touches no synced slot.         *)
LEMMA DurabilityStep ==
    ASSUME IInv, SyncedKept
    PROVE  /\ \A a \in acked : InWal(a) =>
                 /\ DurableThrough(Primary, a.slot)'
                 /\ Durable(Primary, a.slot, a.op)'
                 /\ \A d \in a.members : Durable(d, a.slot, a.op)'
           /\ \A d \in Disk \ {Primary}, s \in Slot : \A o \in Op :
                 s < WalCapacity /\ o \in {cache[d][s], stable[d][s]} =>
                     DurableThrough(Primary, s)' /\ Durable(Primary, s, o)'
<1> USE DEF IInv, TypeInv, TypeOK, SyncedKept
<1>1. ASSUME NEW a \in acked, InWal(a)
      PROVE  /\ DurableThrough(Primary, a.slot)'
             /\ Durable(Primary, a.slot, a.op)'
             /\ \A d \in a.members : Durable(d, a.slot, a.op)'
  <2>1. a.slot \in Slot /\ a.op \in Op /\ a.members \subseteq Disk
    BY Zenon
  <2>2. \A t \in 0 .. a.slot : t \in Slot /\ ~(pc \in Running /\ t >= cursor)
    <3>1. a.slot \in Nat /\ cursor \in Nat /\ 0 .. a.slot \subseteq Slot
      BY <2>1, SlotFacts, BoundAssumption
    <3>2. pc \in Running => a.slot < cursor
      BY Zenon, <1>1 DEF AckedBelowCursor
    <3> QED
      BY Zenon, <3>1, <3>2, BelowIsBelow
  <2>3. a.slot \in 0 .. a.slot
    BY Zenon, <2>1, SlotFacts
  <2>4. \A d \in Disk, t \in 0 .. a.slot : Kept(d, t)
    BY Zenon, <2>2
  <2>5. Primary \in Disk
    BY Zenon, PrimaryIsDisk
  <2>6. DurableThrough(Primary, a.slot)' /\ Durable(Primary, a.slot, a.op)'
    BY Zenon, <1>1, <2>1, <2>3, <2>4, <2>5, DurableKept DEF AckedDurable
  <2>7. ASSUME NEW d \in a.members PROVE Durable(d, a.slot, a.op)'
    <3>1. d \in Disk /\ Durable(d, a.slot, a.op)
      BY Zenon, <1>1, <2>1 DEF MembersDurable
    <3> QED
      BY Zenon, <2>1, <2>3, <2>4, <3>1, DurableKept
  <2> QED
    BY Zenon, <2>6, <2>7
<1>2. ASSUME NEW d \in Disk \ {Primary}, NEW s \in Slot, NEW o \in Op,
             s < WalCapacity, o \in {cache[d][s], stable[d][s]}
      PROVE  DurableThrough(Primary, s)' /\ Durable(Primary, s, o)'
  <2>1. DurableThrough(Primary, s) /\ Durable(Primary, s, o)
    BY Zenon, <1>2 DEF ReplicasBehind
  <2>2. pc = "idle" => s < cursor
    BY Zenon, <1>2 DEF ReplicaBelowCursor, Running
  <2>3. \A t \in 0 .. s : t \in Slot /\ ~(pc = "idle" /\ t >= cursor)
    <3>1. s \in Nat /\ cursor \in Nat /\ 0 .. s \subseteq Slot
      BY SlotFacts, BoundAssumption
    <3> QED
      BY <2>2, <3>1
  <2>4. \A t \in 0 .. s : Kept(Primary, t)
    BY Zenon, <2>3
  <2> QED
    BY Zenon, <2>1, <2>4, SlotFacts, DurableKept
<1> QED
  BY Zenon, <1>1, <1>2
(* The same for steps that also acknowledge, or copy a frame to a replica.  *)
LEMMA DurabilityNext ==
    ASSUME IInv, TypeInv', SyncedKept, NewAcksDurable, NewFramesOnPrimary
    PROVE  AckedDurable' /\ MembersDurable' /\ ReplicasBehind'
<1>1. \A a \in acked' : InWal(a) =>
          /\ DurableThrough(Primary, a.slot)'
          /\ Durable(Primary, a.slot, a.op)'
          /\ \A d \in a.members : Durable(d, a.slot, a.op)'
  BY Zenon, DurabilityStep DEF NewAcksDurable
<1>2. AckedDurable' /\ MembersDurable'
  BY Zenon, <1>1 DEF AckedDurable, MembersDurable, InWal
<1>3. ReplicasBehind'
  BY Zenon, DurabilityStep DEF ReplicasBehind, NewFramesOnPrimary
<1> QED
  BY Zenon, <1>2, <1>3

(* The frame in flight joins the log when the caller gets its answer.       *)
LEMMA AckStep ==
    ASSUME IInv, pc \in {"p_sync", "b_write", "b_sync"},
           NEW members, Acknowledge(members), cache'[Primary] = cache[Primary]
    PROVE  LogBelowCursor' /\ CommitProgress' /\ AckedBelowCursor'
<1>1. /\ view \in Seq(Op) /\ Len(view) = cursor /\ cursor \in Nat
      /\ op \in Op /\ cache[Primary][cursor] = op
  BY BoundAssumption
     DEF IInv, TypeInv, TypeOK, InFlight, LogBelowCursor, CommitProgress
<1>2. /\ cursor' = cursor + 1 /\ view' = Append(view, op) /\ pc' = "idle"
      /\ acked' = acked \cup {[slot |-> cursor, op |-> op, members |-> members]}
  BY Zenon DEF Acknowledge
<1>3. \A s \in Slot : s \in Nat
  BY Zenon, SlotFacts
<1>4. \A s \in Slot : s < cursor =>
         cache[Primary][s] \in Op /\ view[s + 1] = cache[Primary][s]
  BY Zenon DEF IInv, LogBelowCursor
<1>5. LogBelowCursor'
  <2>1. Len(view') = cursor'
    BY <1>1, <1>2
  <2>2. ASSUME NEW s \in Slot, s < cursor'
        PROVE  cache'[Primary][s] \in Op /\ view'[s + 1] = cache'[Primary][s]
    <3>1. s = cursor \/ s < cursor
      BY <1>1, <1>2, <1>3, <2>2
    <3>2. CASE s = cursor
      BY <1>1, <1>2, <3>2
    <3>3. CASE s < cursor
      BY <1>1, <1>2, <1>3, <1>4, <3>3
    <3> QED
      BY Zenon, <3>1, <3>2, <3>3
  <2> QED
    BY Zenon, <2>1, <2>2 DEF LogBelowCursor
<1>6. CommitProgress'
  BY Zenon, <1>2 DEF CommitProgress
<1>7. AckedBelowCursor'
  <2>1. \A a \in acked : a.slot \in Slot /\ (InWal(a) => a.slot < cursor)
    BY Zenon DEF IInv, TypeInv, TypeOK, AckedBelowCursor, Running
  <2>2. \A n \in Nat : n < cursor \/ n = cursor => n < cursor'
    BY <1>1, <1>2
  <2>3. ASSUME NEW a \in acked', InWal(a) PROVE a.slot < cursor'
    <3>1. CASE a \in acked
      BY Zenon, <1>3, <2>1, <2>2, <2>3, <3>1
    <3>2. CASE a = [slot |-> cursor, op |-> op, members |-> members]
      BY Zenon, <1>1, <2>2, <3>2
    <3> QED
      BY Zenon, <1>2, <3>1, <3>2
  <2> QED
    BY Zenon, <2>3 DEF AckedBelowCursor, InWal
<1> QED
  BY Zenon, <1>5, <1>6, <1>7

(* The whole log up to the frame in flight is durable after a sync.         *)
LEMMA SyncedThroughCursor ==
    ASSUME IInv, pc \in {"p_sync", "b_write", "b_sync"},
           cache'[Primary] = cache[Primary],
           \A t \in Slot : t <= cursor => stable'[Primary][t] = cache[Primary][t],
           NEW c, c = cursor, NEW o, o = op
    PROVE  /\ c \in Slot /\ o \in Op
           /\ DurableThrough(Primary, c)' /\ Durable(Primary, c, o)'
<1>1. cursor \in Slot /\ op \in Op /\ cache[Primary][cursor] = op
  BY BoundAssumption DEF IInv, TypeInv, TypeOK, InFlight, CommitProgress, Slot
<1>2. \A s \in Slot : s < cursor => cache[Primary][s] \in Op
  BY Zenon DEF IInv, LogBelowCursor
<1>3. ASSUME NEW t \in 0 .. cursor PROVE t \in Slot /\ t <= cursor /\ cache[Primary][t] \in Op
  <2>1. cursor \in Nat /\ 0 .. cursor \subseteq Slot
    BY Zenon, <1>1, SlotFacts
  <2>2. t \in Slot /\ (t = cursor \/ t < cursor)
    BY <2>1
  <2> QED
    BY <1>1, <1>2, <2>1, <2>2
<1>4. \A t \in 0 .. cursor : cache'[Primary][t] \in Op /\ stable'[Primary][t] = cache'[Primary][t]
  BY Zenon, <1>3
<1>5. cursor \in 0 .. cursor
  BY Zenon, <1>1, SlotFacts
<1> QED
  BY Zenon, <1>1, <1>4, <1>5 DEF DurableThrough, Durable
(* write_at of a frame at the cursor.                                       *)
LEMMA WriteAtCursor ==
    ASSUME IInv, pc \in Running, cursor < MaxSlots, stable' = stable,
           NEW w \in Disk, w = Primary => pc = "idle",
           NEW c \in Content, cache' = Put(cache, w, cursor, c)
    PROVE  /\ SyncedKept /\ cursor \in Slot
           /\ cache'[w][cursor] = c
           /\ \A d \in Disk, t \in Slot :
                 d # w \/ t # cursor => cache'[d][t] = cache[d][t]
           /\ \A d \in Disk : d # w => cache'[d] = cache[d]
<1>1. cursor \in Nat /\ cursor \in Slot /\ cache \in [Disk -> [Slot -> Content]]
  BY BoundAssumption DEF IInv, TypeInv, TypeOK, Slot
<1>2. /\ cache'[w][cursor] = c
      /\ \A d \in Disk, t \in Slot :
            d # w \/ t # cursor => cache'[d][t] = cache[d][t]
  BY <1>1, PutSlot
<1>3. \A d \in Disk : d # w => cache'[d] = cache[d]
  BY Zenon, <1>1 DEF Put
<1>4. \A d \in Disk, t \in Slot : d # w \/ t # cursor => Kept(d, t)
  BY Zenon, <1>2 DEF Kept
<1>5. \A t \in Slot : t = cursor => t >= cursor
  BY <1>1
<1>6. SyncedKept
  BY Zenon, <1>4, <1>5, PrimaryIsDisk DEF SyncedKept
<1> QED
  BY Zenon, <1>1, <1>2, <1>3, <1>6

(* A write at the cursor of the primary that no caller has an answer for.   *)
LEMMA CursorStays ==
    ASSUME IInv, pc \in Running, pc' \in Running,
           cursor' = cursor, view' = view, acked' = acked,
           \A t \in Slot : t # cursor => cache'[Primary][t] = cache[Primary][t]
    PROVE  LogBelowCursor' /\ AckedBelowCursor'
<1>1. cursor \in Nat /\ pc # "down" /\ pc' # "down"
  BY BoundAssumption DEF IInv, TypeInv, TypeOK, Running
<1>2. \A t \in Slot : t < cursor => t # cursor
  BY <1>1, SlotFacts
<1>3. LogBelowCursor'
  BY Zenon, <1>1, <1>2 DEF IInv, LogBelowCursor
<1>4. AckedBelowCursor'
  BY Zenon DEF IInv, AckedBelowCursor, InWal
<1> QED
  BY Zenon, <1>3, <1>4

(* An answer to the caller, given when all members hold the frame.          *)
LEMMA AckDurable ==
    ASSUME NEW members, Acknowledge(members),
           \A c, o : c = cursor /\ o = op =>
               /\ DurableThrough(Primary, c)' /\ Durable(Primary, c, o)'
               /\ \A d \in members : Durable(d, c, o)'
    PROVE  NewAcksDurable
<1>1. acked' = acked \cup {[slot |-> cursor, op |-> op, members |-> members]}
  BY Zenon DEF Acknowledge
<1>2. ASSUME NEW a \in acked', a \notin acked
      PROVE  /\ DurableThrough(Primary, a.slot)'
             /\ Durable(Primary, a.slot, a.op)'
             /\ \A d \in a.members : Durable(d, a.slot, a.op)'
  <2>1. a.slot = cursor /\ a.op = op /\ a.members = members
    BY <1>1, <1>2
  <2> QED
    BY Zenon, <2>1
<1> QED
  BY Zenon, <1>2 DEF NewAcksDurable

(* After it, the cursor is beyond every frame on the replicas.              *)
LEMMA AckPassesReplicas ==
    ASSUME IInv, pc \in Running, cursor' = cursor + 1,
           \A d \in Disk \ {Primary}, s \in Slot : \A o \in Op :
               o \in {cache'[d][s], stable'[d][s]} => o \in {cache[d][s], stable[d][s]}
    PROVE  ReplicaBelowCursor'
<1>1. \A s \in Slot : s < cursor \/ s = cursor => s < cursor'
  BY SlotFacts, BoundAssumption DEF IInv, TypeInv, TypeOK
<1>2. \A d \in Disk \ {Primary}, s \in Slot : \A o \in Op :
         s < WalCapacity /\ o \in {cache'[d][s], stable'[d][s]} => s < cursor'
  BY Zenon, <1>1 DEF IInv, ReplicaBelowCursor
<1> QED
  BY Zenon, <1>2 DEF ReplicaBelowCursor

(* Every step keeps the inductive invariant, as long as no read of the      *)
(* recovery scan fails.                                                     *)
LEMMA SafeStep ==
    ASSUME IInv, [Next]_vars, readFaults' = 0
    PROVE  IInv'
<1>t. TypeInv'
  BY Zenon, TypeStep DEF IInv
<1>d. Primary \in Disk
  BY Zenon, PrimaryIsDisk
<1>c. cursor \in Nat /\ WalCapacity \in Nat /\ MaxSlots \in Nat
  BY BoundAssumption DEF IInv, TypeInv, TypeOK
<1>n. \A s \in Slot : s \in Nat
  BY Zenon, SlotFacts
<1>1. CASE PrimaryWrite
  <2> USE <1>1 DEF PrimaryWrite
  <2>0. /\ cursor \in Slot /\ pc = "idle"
        /\ stable' = stable /\ acked' = acked /\ cursor' = cursor /\ view' = view
        /\ \A d \in Disk, t \in Slot :
              d # Primary \/ t # cursor => cache'[d][t] = cache[d][t]
        /\ SyncedKept /\ cache'[Primary][cursor] = issued + 1
    <3>1. issued + 1 \in Content
      BY BoundAssumption DEF IInv, TypeInv, TypeOK, Op, Content
    <3>2. pc \in Running
      BY Zenon DEF Running
    <3>3. /\ SyncedKept /\ cursor \in Slot
          /\ cache'[Primary][cursor] = issued + 1
          /\ \A d \in Disk, t \in Slot :
                d # Primary \/ t # cursor => cache'[d][t] = cache[d][t]
      BY Zenon, <3>1, <3>2, <1>d, WriteAtCursor
    <3> QED
      BY Zenon, <3>3
  <2>3. NewAcksDurable
    BY Zenon, <2>0 DEF NewAcksDurable
  <2>4. NewFramesOnPrimary
    BY Zenon, <2>0 DEF NewFramesOnPrimary
  <2>5. LogBelowCursor' /\ AckedBelowCursor'
    <3>1. pc \in Running /\ pc' \in Running
      BY Zenon, <2>0 DEF Running
    <3> HIDE DEF PrimaryWrite
    <3>2. \A t \in Slot : t # cursor => cache'[Primary][t] = cache[Primary][t]
      BY Zenon, <2>0, <1>d
    <3> QED
      BY Zenon, <2>0, <3>1, <3>2, CursorStays
  <2>7. ReplicaBelowCursor'
    BY <2>0 DEF IInv, ReplicaBelowCursor, Running
  <2>8. CommitProgress'
    BY Zenon, <2>0 DEF CommitProgress
  <2>6. AckedDurable' /\ MembersDurable' /\ ReplicasBehind'
    BY Zenon, <2>0, <2>3, <2>4, <1>t, DurabilityNext
  <2> QED
    BY Zenon, <2>5, <2>6, <2>7, <2>8, <1>t DEF IInv
<1>2. CASE PrimaryWriteFails
  <2> USE <1>2 DEF PrimaryWriteFails, Fault
  <2>0. /\ cursor \in Slot /\ pc = "idle"
        /\ stable' = stable /\ acked' = acked /\ cursor' = cursor /\ view' = view
        /\ \A d \in Disk, t \in Slot :
              d # Primary \/ t # cursor => cache'[d][t] = cache[d][t]
        /\ SyncedKept
    <3>1. cursor \in Slot /\ pc \in Running
      BY <1>c DEF IInv, TypeInv, TypeOK, Slot, Running
    <3>2. PICK c \in Partial(cache[Primary][cursor]) : cache' = Put(cache, Primary, cursor, c)
      BY Zenon
    <3>3. c \in Content
      BY Zenon, <1>d, <3>1, <3>2, PartialFacts DEF IInv, TypeInv, TypeOK
    <3>4. /\ SyncedKept /\ cursor \in Slot
          /\ \A d \in Disk, t \in Slot :
                d # Primary \/ t # cursor => cache'[d][t] = cache[d][t]
      BY Zenon, <3>1, <3>2, <3>3, <1>d, WriteAtCursor
    <3> QED
      BY Zenon, <3>4 DEF group
  <2>3. NewAcksDurable
    BY Zenon, <2>0 DEF NewAcksDurable
  <2>4. NewFramesOnPrimary
    BY Zenon, <2>0 DEF NewFramesOnPrimary
  <2>5. LogBelowCursor' /\ AckedBelowCursor'
    <3>1. pc \in Running /\ pc' \in Running
      BY Zenon, <2>0 DEF Running
    <3> HIDE DEF PrimaryWriteFails
    <3>2. \A t \in Slot : t # cursor => cache'[Primary][t] = cache[Primary][t]
      BY Zenon, <2>0, <1>d
    <3> QED
      BY Zenon, <2>0, <3>1, <3>2, CursorStays
  <2>7. ReplicaBelowCursor'
    BY <2>0 DEF IInv, ReplicaBelowCursor, Running
  <2>8. CommitProgress'
    BY Zenon, <2>0 DEF CommitProgress
  <2>6. AckedDurable' /\ MembersDurable' /\ ReplicasBehind'
    BY Zenon, <2>0, <2>3, <2>4, <1>t, DurabilityNext
  <2> QED
    BY Zenon, <2>5, <2>6, <2>7, <2>8, <1>t DEF IInv
<1>3. CASE PrimarySync
  <2> USE <1>3 DEF PrimarySync
  <2>0. /\ cache' = cache /\ pc = "p_sync"
        /\ \A t \in Slot : stable'[Primary][t] = cache[Primary][t]
        /\ \A d \in Disk \ {Primary} : stable'[d] = stable[d]
    BY Zenon, <1>d DEF IInv, TypeInv, TypeOK
  <2>1. SyncedKept
    BY Zenon, <2>0 DEF SyncedKept, Kept
  <2>s. \A c, o : c = cursor /\ o = op =>
           /\ c \in Slot /\ o \in Op
           /\ DurableThrough(Primary, c)' /\ Durable(Primary, c, o)'
    BY Zenon, <2>0, SyncedThroughCursor
  <2>3. NewAcksDurable
    BY <2>s DEF NewAcksDurable, Acknowledge, history
  <2>4. NewFramesOnPrimary
    BY Zenon, <2>0 DEF NewFramesOnPrimary
  <2>5. LogBelowCursor' /\ CommitProgress' /\ AckedBelowCursor'
    <3>1. CASE backup # NoDisk
      BY Zenon, <2>0, <2>s, <3>1 DEF IInv, LogBelowCursor, CommitProgress,
         AckedBelowCursor, Running, history
    <3>2. CASE backup = NoDisk
      BY Zenon, <2>0, <3>2, AckStep
    <3> QED
      BY Zenon, <3>1, <3>2
  <2>7. ReplicaBelowCursor'
    <3>1. pc' \in Running /\ cursor' \in Nat /\ cursor <= cursor'
      BY <1>c DEF Acknowledge, Running
    <3> QED
      BY <2>0, <3>1, <1>c, <1>n DEF IInv, ReplicaBelowCursor, Running
  <2>6. AckedDurable' /\ MembersDurable' /\ ReplicasBehind'
    BY Zenon, <2>1, <2>3, <2>4, <1>t, DurabilityNext
  <2> QED
    BY Zenon, <2>5, <2>6, <2>7, <1>t DEF IInv
<1>4. CASE PrimarySyncFails
  <2>s. /\ cache' = cache
        /\ \A d \in Disk : d # Primary => stable'[d] = stable[d]
        /\ \A t \in Slot : stable'[Primary][t] \in {stable[Primary][t], cache[Primary][t]}
    BY Zenon, <1>4, SyncFailsFacts DEF IInv, TypeInv
  <2>0. /\ pc = "p_sync" /\ pc' = "idle" /\ op' = 0 /\ acked' = acked /\ cursor' = cursor
        /\ view' = view /\ backup' = backup
    BY Zenon, <1>4 DEF PrimarySyncFails, group, history
  <2>k. \A d \in Disk, t \in Slot : Kept(d, t)
    BY Zenon, <2>s DEF Kept
  <2>1. SyncedKept
    BY Zenon, <2>k, <1>d DEF SyncedKept
  <2>3. NewAcksDurable
    BY Zenon, <2>0 DEF NewAcksDurable
  <2>4. NewFramesOnPrimary
    BY Zenon, <2>s DEF NewFramesOnPrimary
  <2>5. LogBelowCursor' /\ CommitProgress' /\ AckedBelowCursor' /\ ReplicaBelowCursor'
    BY Zenon, <2>0, <2>s DEF IInv, LogBelowCursor, CommitProgress, AckedBelowCursor,
       ReplicaBelowCursor, Running
  <2>6. AckedDurable' /\ MembersDurable' /\ ReplicasBehind'
    BY Zenon, <2>1, <2>3, <2>4, <1>t, DurabilityNext
  <2> QED
    BY Zenon, <2>5, <2>6, <1>t DEF IInv
<1>5. CASE BackupWrite
  <2> USE <1>5 DEF BackupWrite
  <2>0. /\ cursor \in Slot /\ pc = "b_write" /\ backup \in Disk \ {Primary} /\ op \in Op
        /\ stable' = stable /\ acked' = acked /\ cursor' = cursor /\ view' = view
        /\ cache'[backup][cursor] = op /\ backup' = backup /\ op' = op
        /\ SyncedKept /\ cache'[Primary] = cache[Primary]
        /\ \A d \in Disk, t \in Slot :
              d # backup \/ t # cursor => cache'[d][t] = cache[d][t]
    <3>1. cursor \in Slot /\ backup \in Disk \ {Primary} /\ op \in Op /\ op \in Content
      BY <1>c, ContentFacts DEF IInv, TypeInv, TypeOK, InFlight, Slot
    <3>2. pc \in Running /\ cursor < MaxSlots
      BY Zenon, <3>1, SlotFacts DEF Running
    <3>3. /\ SyncedKept /\ cursor \in Slot
          /\ cache'[backup][cursor] = op
          /\ \A d \in Disk, t \in Slot :
                d # backup \/ t # cursor => cache'[d][t] = cache[d][t]
          /\ \A d \in Disk : d # backup => cache'[d] = cache[d]
      BY Zenon, <3>1, <3>2, WriteAtCursor
    <3> QED
      BY Zenon, <3>1, <3>3, <1>d DEF group, history
  <2>3. NewAcksDurable
    BY Zenon, <2>0 DEF NewAcksDurable
  <2>s. \A t \in Slot : t <= cursor => stable[Primary][t] = cache[Primary][t]
    <3>1. DurableThrough(Primary, cursor)
      BY Zenon, <2>0 DEF IInv, CommitProgress
    <3>2. \A t \in Slot : t <= cursor => t \in 0 .. cursor
      BY <1>c, <1>n
    <3> QED
      BY Zenon, <2>0, <3>1, <3>2, DurableThroughBelow
  <2>r. \A c, o : c = cursor /\ o = op =>
           /\ c \in Slot /\ o \in Op
           /\ DurableThrough(Primary, c)' /\ Durable(Primary, c, o)'
    BY Zenon, <2>0, <2>s, SyncedThroughCursor
  <2>4. NewFramesOnPrimary
    BY Zenon, <2>0, <2>r DEF NewFramesOnPrimary
  <2>5. LogBelowCursor' /\ AckedBelowCursor'
    <3>1. pc \in Running /\ pc' \in Running
      BY Zenon, <2>0 DEF Running
    <3> HIDE DEF BackupWrite
    <3> QED
      BY Zenon, <2>0, <3>1, CursorStays
  <2>7. CommitProgress'
    BY Zenon, <2>0, <2>r DEF IInv, CommitProgress
  <2>8. ReplicaBelowCursor'
    <3>1. pc' = "b_sync" /\ cursor' = cursor
      BY Zenon, <2>0
    <3>2. \A d \in Disk \ {Primary}, s \in Slot : \A o \in Op :
             s < WalCapacity /\ o \in {cache'[d][s], stable'[d][s]} => s < cursor \/ s = cursor
      BY <2>0 DEF IInv, ReplicaBelowCursor, Running
    <3> HIDE DEF BackupWrite
    <3> QED
      BY Zenon, <3>1, <3>2 DEF ReplicaBelowCursor
  <2>6. AckedDurable' /\ MembersDurable' /\ ReplicasBehind'
    BY Zenon, <2>0, <2>3, <2>4, <1>t, DurabilityNext
  <2> QED
    BY Zenon, <2>5, <2>6, <2>7, <2>8, <1>t DEF IInv
<1>6. CASE BackupWriteFails
  <2> USE <1>6 DEF BackupWriteFails
  <2>0. /\ cursor \in Slot /\ pc = "b_write" /\ backup \in Disk \ {Primary} /\ op \in Op
        /\ stable' = stable
        /\ \A d \in Disk, t \in Slot :
              d # backup \/ t # cursor => cache'[d][t] = cache[d][t]
        /\ cache'[backup][cursor] \in Op => cache'[backup][cursor] = cache[backup][cursor]
        /\ SyncedKept
        /\ cache'[Primary] = cache[Primary] /\ stable'[Primary] = stable[Primary]
    <3>1. cursor \in Slot /\ backup \in Disk \ {Primary} /\ op \in Op
      BY <1>c DEF IInv, TypeInv, TypeOK, InFlight, Slot
    <3>2. PICK c \in Partial(cache[backup][cursor]) : cache' = Put(cache, backup, cursor, c)
      BY Zenon
    <3>3. c \in Content /\ (c \in Op => c = cache[backup][cursor])
      BY <3>1, <3>2, PartialFacts DEF IInv, TypeInv, TypeOK
    <3>5. pc \in Running /\ cursor < MaxSlots
      BY Zenon, <3>1, SlotFacts DEF Running
    <3>6. /\ SyncedKept
          /\ cache'[backup][cursor] = c
          /\ \A d \in Disk, t \in Slot :
                d # backup \/ t # cursor => cache'[d][t] = cache[d][t]
          /\ \A d \in Disk : d # backup => cache'[d] = cache[d]
      BY Zenon, <3>1, <3>2, <3>3, <3>5, WriteAtCursor
    <3> QED
      BY Zenon, <3>1, <3>2, <3>3, <3>6, <1>d
  <2>s. \A t \in Slot : t <= cursor => stable[Primary][t] = cache[Primary][t]
    <3>1. DurableThrough(Primary, cursor)
      BY Zenon, <2>0 DEF IInv, CommitProgress
    <3>2. \A t \in Slot : t <= cursor => t \in 0 .. cursor
      BY <1>c, <1>n
    <3> QED
      BY Zenon, <2>0, <3>1, <3>2, DurableThroughBelow
  <2>r. \A c, o : c = cursor /\ o = op =>
           /\ c \in Slot /\ o \in Op
           /\ DurableThrough(Primary, c)' /\ Durable(Primary, c, o)'
    BY Zenon, <2>0, <2>s, SyncedThroughCursor
  <2>3. NewAcksDurable
    <3>1. Acknowledge({Primary})
      BY Zenon
    <3> QED
      BY Zenon, <2>r, <3>1, AckDurable
  <2>4. NewFramesOnPrimary
    BY Zenon, <2>0 DEF NewFramesOnPrimary
  <2>5. LogBelowCursor' /\ CommitProgress' /\ AckedBelowCursor'
    BY Zenon, <2>0, AckStep
  <2>7. ReplicaBelowCursor'
    <3>1. cursor' = cursor + 1
      BY Zenon DEF Acknowledge
    <3>2. pc \in Running
      BY Zenon, <2>0 DEF Running
    <3>3. \A d \in Disk \ {Primary}, s \in Slot : \A o \in Op :
             o \in {cache'[d][s], stable'[d][s]} => o \in {cache[d][s], stable[d][s]}
      BY Zenon, <2>0
    <3> QED
      BY Zenon, <3>1, <3>2, <3>3, AckPassesReplicas
  <2>6. AckedDurable' /\ MembersDurable' /\ ReplicasBehind'
    BY Zenon, <2>0, <2>3, <2>4, <1>t, DurabilityNext
  <2> QED
    BY Zenon, <2>5, <2>6, <2>7, <1>t DEF IInv
<1>7. CASE BackupSync
  <2> USE <1>7 DEF BackupSync
  <2>0. /\ cursor \in Slot /\ pc = "b_sync" /\ backup \in Disk \ {Primary} /\ op \in Op
        /\ cache' = cache
        /\ \A t \in Slot : stable'[backup][t] = cache[backup][t]
        /\ \A d \in Disk \ {backup} : stable'[d] = stable[d]
        /\ cache[backup][cursor] = op
    <3>1. cursor \in Slot /\ backup \in Disk \ {Primary} /\ op \in Op
      BY <1>c DEF IInv, TypeInv, TypeOK, InFlight, Slot
    <3>2. cache[backup][cursor] = op
      BY Zenon DEF IInv, CommitProgress
    <3> QED
      BY Zenon, <3>1, <3>2 DEF IInv, TypeInv, TypeOK
  <2>p. cache'[Primary] = cache[Primary] /\ stable'[Primary] = stable[Primary]
    BY Zenon, <2>0, <1>d, <1>t DEF IInv, TypeInv, TypeOK
  <2>1. SyncedKept
    <3> HIDE DEF BackupSync
    <3>1. ASSUME NEW d \in Disk, NEW t \in Slot, cache[d][t] = stable[d][t]
          PROVE  cache'[d][t] = cache[d][t] /\ stable'[d][t] = stable[d][t]
      <4>1. CASE d = backup
        BY Zenon, <2>0, <3>1, <4>1
      <4>2. CASE d # backup
        BY Zenon, <2>0, <4>2
      <4> QED
        BY Zenon, <4>1, <4>2
    <3> QED
      BY Zenon, <3>1, <1>d DEF SyncedKept, Kept
  <2>s. \A t \in Slot : t <= cursor => stable[Primary][t] = cache[Primary][t]
    <3>1. DurableThrough(Primary, cursor)
      BY Zenon, <2>0 DEF IInv, CommitProgress
    <3>2. \A t \in Slot : t <= cursor => t \in 0 .. cursor
      BY <1>c, <1>n
    <3> QED
      BY Zenon, <2>0, <3>1, <3>2, DurableThroughBelow
  <2>r. \A c, o : c = cursor /\ o = op =>
           /\ c \in Slot /\ o \in Op
           /\ DurableThrough(Primary, c)' /\ Durable(Primary, c, o)'
    BY Zenon, <2>0, <2>p, <2>s, SyncedThroughCursor
  <2>3. NewAcksDurable
    <3>0. cache'[backup][cursor] = op /\ stable'[backup][cursor] = op
      BY Zenon, <2>0
    <3>1. \A c, o, d : c = cursor /\ o = op /\ d = backup => Durable(d, c, o)'
      BY Zenon, <3>0 DEF Durable
    <3>2. acked' = acked \cup {[slot |-> cursor, op |-> op, members |-> {Primary, backup}]}
      BY Zenon DEF Acknowledge
    <3> HIDE DEF BackupSync
    <3>3. ASSUME NEW a \in acked', a \notin acked
          PROVE  /\ DurableThrough(Primary, a.slot)'
                 /\ Durable(Primary, a.slot, a.op)'
                 /\ \A d \in a.members : Durable(d, a.slot, a.op)'
      <4>1. a.slot = cursor /\ a.op = op /\ a.members = {Primary, backup}
        BY <3>2, <3>3
      <4> QED
        BY Zenon, <2>r, <3>1, <4>1
    <3> QED
      BY Zenon, <3>3 DEF NewAcksDurable
  <2>4. NewFramesOnPrimary
    BY Zenon, <2>0 DEF NewFramesOnPrimary
  <2>5. LogBelowCursor' /\ CommitProgress' /\ AckedBelowCursor'
    BY Zenon, <2>0, <2>p, AckStep
  <2>7. ReplicaBelowCursor'
    <3>1. cursor' = cursor + 1
      BY Zenon DEF Acknowledge
    <3>2. pc \in Running
      BY Zenon, <2>0 DEF Running
    <3>3. \A d \in Disk \ {Primary}, s \in Slot : \A o \in Op :
             o \in {cache'[d][s], stable'[d][s]} => o \in {cache[d][s], stable[d][s]}
      BY Zenon, <2>0
    <3> QED
      BY Zenon, <3>1, <3>2, <3>3, AckPassesReplicas
  <2>6. AckedDurable' /\ MembersDurable' /\ ReplicasBehind'
    BY Zenon, <2>1, <2>3, <2>4, <1>t, DurabilityNext
  <2> QED
    BY Zenon, <2>5, <2>6, <2>7, <1>t DEF IInv
<1>8. CASE BackupSyncFails
  <2> USE <1>8 DEF BackupSyncFails
  <2>0. /\ cursor \in Slot /\ pc = "b_sync" /\ backup \in Disk \ {Primary} /\ op \in Op
        /\ cache' = cache /\ stable' = stable
    <3>1. cursor \in Slot /\ backup \in Disk \ {Primary} /\ op \in Op
      BY <1>c DEF IInv, TypeInv, TypeOK, InFlight, Slot
    <3> QED
      BY Zenon, <3>1 DEF disks
  <2>p. cache'[Primary] = cache[Primary] /\ stable'[Primary] = stable[Primary]
    BY Zenon, <2>0, <1>d, <1>t DEF IInv, TypeInv, TypeOK
  <2>1. SyncedKept
    BY Zenon, <2>0, <1>c DEF SyncedKept, Kept, Running
  <2>s. \A t \in Slot : t <= cursor => stable[Primary][t] = cache[Primary][t]
    <3>1. DurableThrough(Primary, cursor)
      BY Zenon, <2>0 DEF IInv, CommitProgress
    <3>2. \A t \in Slot : t <= cursor => t \in 0 .. cursor
      BY <1>c, <1>n
    <3> QED
      BY Zenon, <2>0, <3>1, <3>2, DurableThroughBelow
  <2>r. \A c, o : c = cursor /\ o = op =>
           /\ c \in Slot /\ o \in Op
           /\ DurableThrough(Primary, c)' /\ Durable(Primary, c, o)'
    BY Zenon, <2>0, <2>p, <2>s, SyncedThroughCursor
  <2>3. NewAcksDurable
    <3>1. Acknowledge({Primary})
      BY Zenon
    <3> QED
      BY Zenon, <2>r, <3>1, AckDurable
  <2>4. NewFramesOnPrimary
    BY Zenon, <2>0 DEF NewFramesOnPrimary
  <2>5. LogBelowCursor' /\ CommitProgress' /\ AckedBelowCursor'
    BY Zenon, <2>0, <2>p, AckStep
  <2>7. ReplicaBelowCursor'
    <3>1. cursor' = cursor + 1
      BY Zenon DEF Acknowledge
    <3>2. pc \in Running
      BY Zenon, <2>0 DEF Running
    <3>3. \A d \in Disk \ {Primary}, s \in Slot : \A o \in Op :
             o \in {cache'[d][s], stable'[d][s]} => o \in {cache[d][s], stable[d][s]}
      BY Zenon, <2>0
    <3> QED
      BY Zenon, <3>1, <3>2, <3>3, AckPassesReplicas
  <2>6. AckedDurable' /\ MembersDurable' /\ ReplicasBehind'
    BY Zenon, <2>1, <2>3, <2>4, <1>t, DurabilityNext
  <2> QED
    BY Zenon, <2>5, <2>6, <2>7, <1>t DEF IInv
<1>9. ASSUME NEW d \in Disk, PromoteNewBackup(d) PROVE IInv'
  <2> USE <1>9 DEF PromoteNewBackup
  <2>0. /\ pc = "idle" /\ pc' = pc /\ cursor' = cursor /\ view' = view /\ acked' = acked
        /\ d # Primary
        /\ \A e \in Disk \ {d} : cache'[e] = cache[e] /\ stable'[e] = stable[e]
        /\ cache'[d] = Resynced /\ stable'[d] = Resynced
    BY Zenon DEF IInv, TypeInv, TypeOK, history
  <2>1. \A s \in Slot : s < cursor =>
            Resynced[s] = cache[Primary][s] /\ Resynced[s] = stable[Primary][s]
    BY Zenon DEF Resynced
  <2>2. \A s \in Slot : s < cursor => DurableThrough(Primary, s)'
    <3>1. ASSUME NEW s \in Slot, s < cursor PROVE DurableThrough(Primary, s)'
      <4>1. \A t \in 0 .. s : t \in Slot /\ t < cursor
        BY <3>1, <1>c, SlotFacts
      <4>2. \A t \in 0 .. s : cache[Primary][t] \in Op /\ stable[Primary][t] = cache[Primary][t]
        BY Zenon, <4>1, <2>0 DEF IInv, LogBelowCursor
      <4> QED
        BY Zenon, <4>2, <2>0, <1>d DEF DurableThrough, Durable
    <3> QED
      BY Zenon, <3>1
  <2>3. AckedDurable'
    <3>1. cache'[Primary] = cache[Primary] /\ stable'[Primary] = stable[Primary]
      BY Zenon, <2>0, <1>d
    <3>2. \A a \in acked : InWal(a) =>
             DurableThrough(Primary, a.slot)' /\ Durable(Primary, a.slot, a.op)'
      BY Zenon, <3>1 DEF IInv, AckedDurable, DurableThrough, Durable
    <3> QED
      BY Zenon, <2>0, <3>2 DEF AckedDurable, InWal
  <2>4. MembersDurable'
    <3>1. ASSUME NEW a \in acked, InWal(a), NEW e \in a.members
          PROVE  Durable(e, a.slot, a.op)'
      <4>1. a.slot \in Slot /\ e \in Disk
        BY Zenon DEF IInv, TypeInv, TypeOK
      <4>2. a.slot < cursor
        BY Zenon, <2>0, <3>1 DEF IInv, AckedBelowCursor, Running
      <4>3. Durable(Primary, a.slot, a.op) /\ Durable(e, a.slot, a.op)
        BY Zenon, <3>1 DEF IInv, AckedDurable, MembersDurable
      <4> HIDE DEF PromoteNewBackup
      <4>4. CASE e = d
        <5>1. Resynced[a.slot] = cache[Primary][a.slot] /\ Resynced[a.slot] = stable[Primary][a.slot]
          BY Zenon, <2>1, <4>1, <4>2
        <5> QED
          BY Zenon, <2>0, <4>3, <4>4, <5>1 DEF Durable
      <4>5. CASE e # d
        BY Zenon, <2>0, <4>1, <4>3, <4>5 DEF Durable
      <4> QED
        BY Zenon, <4>4, <4>5
    <3> QED
      BY Zenon, <2>0, <3>1 DEF MembersDurable, InWal
  <2>5. ASSUME NEW e \in Disk \ {Primary}, NEW s \in Slot, NEW o \in Op, s < WalCapacity,
               o \in {cache'[e][s], stable'[e][s]}
        PROVE  s < cursor /\ DurableThrough(Primary, s)' /\ Durable(Primary, s, o)'
    <3>1. CASE e = d
      <4>1. s < cursor
        <5>1. Empty \notin Op
          BY DEF Empty, Op
        <5> QED
          BY Zenon, <2>0, <2>5, <3>1, <5>1 DEF Resynced
      <4>2. o = cache[Primary][s] /\ o = stable[Primary][s]
        BY <2>0, <2>1, <2>5, <3>1, <4>1
      <4>3. Durable(Primary, s, o)'
        BY Zenon, <2>0, <4>2, <1>d DEF Durable
      <4> QED
        BY Zenon, <2>2, <4>1, <4>3
    <3>2. CASE e # d
      <4>1. o \in {cache[e][s], stable[e][s]}
        BY Zenon, <2>0, <2>5, <3>2
      <4>2. s < cursor
        BY Zenon, <2>0, <2>5, <4>1 DEF IInv, ReplicaBelowCursor, Running
      <4>3. Durable(Primary, s, o)
        BY Zenon, <2>5, <4>1 DEF IInv, ReplicasBehind
      <4>4. Durable(Primary, s, o)'
        BY Zenon, <2>0, <4>3, <1>d DEF Durable
      <4> QED
        BY Zenon, <2>2, <4>2, <4>4
    <3> QED
      BY Zenon, <3>1, <3>2
  <2>6. ReplicasBehind'
    BY Zenon, <2>5 DEF ReplicasBehind
  <2>7. ReplicaBelowCursor'
    BY Zenon, <2>0, <2>5 DEF ReplicaBelowCursor
  <2>8. LogBelowCursor' /\ CommitProgress' /\ AckedBelowCursor'
    <3>1. pc \in Running /\ pc' \in Running
      BY Zenon, <2>0 DEF Running
    <3>2. \A t \in Slot : cache'[Primary][t] = cache[Primary][t]
      BY Zenon, <2>0, <1>d
    <3>3. CommitProgress'
      BY Zenon, <2>0 DEF CommitProgress
    <3> QED
      BY Zenon, <2>0, <3>1, <3>2, <3>3, CursorStays
  <2> QED
    BY Zenon, <2>3, <2>4, <2>6, <2>7, <2>8, <1>t DEF IInv
<1>10. CASE ProcessCrash
  <2> USE <1>10 DEF ProcessCrash
  <2>0. \A d \in Disk, t \in Slot : Kept(d, t)
    BY Zenon DEF Kept, disks
  <2>1. SyncedKept
    BY Zenon, <2>0, <1>d DEF SyncedKept
  <2>3. NewAcksDurable
    BY Zenon DEF NewAcksDurable, history
  <2>4. NewFramesOnPrimary
    BY Zenon DEF NewFramesOnPrimary, disks
  <2>5. LogBelowCursor' /\ CommitProgress' /\ AckedBelowCursor' /\ ReplicaBelowCursor'
    BY Zenon DEF LogBelowCursor, CommitProgress, AckedBelowCursor, ReplicaBelowCursor,
       Running
  <2>6. AckedDurable' /\ MembersDurable' /\ ReplicasBehind'
    BY Zenon, <2>1, <2>3, <2>4, <1>t, DurabilityNext
  <2> QED
    BY Zenon, <2>5, <2>6, <1>t DEF IInv
<1>11. CASE PowerLoss
  <2> USE <1>11 DEF PowerLoss
  <2>0. \A d \in Disk, t \in Slot : Kept(d, t)
    <3>1. ASSUME NEW d \in Disk, NEW t \in Slot, cache[d][t] = stable[d][t]
          PROVE  cache'[d][t] = cache[d][t] /\ stable'[d][t] = stable[d][t]
      <4>1. <<d, t>> \notin Unsynced
        BY Zenon, <3>1 DEF Unsynced
      <4> QED
        BY Zenon, <3>1, <4>1
    <3> QED
      BY Zenon, <3>1 DEF Kept
  <2>1. SyncedKept
    BY Zenon, <2>0, <1>d DEF SyncedKept
  <2>3. NewAcksDurable
    BY Zenon DEF NewAcksDurable, history
  <2>4. NewFramesOnPrimary
    <3>1. ASSUME NEW d \in Disk, NEW s \in Slot
          PROVE  \A o \in Op : o \in {cache'[d][s], stable'[d][s]} =>
                                   o \in {cache[d][s], stable[d][s]}
      <4>1. stable[d][s] \in Content
        BY Zenon DEF IInv, TypeInv, TypeOK
      <4>2. \A x \in Partial(stable[d][s]) : x \in Op => x = stable[d][s]
        BY Zenon, <4>1, PartialFacts
      <4>3. PICK lost, torn \in SUBSET Unsynced, part \in {Torn, Stub} :
               stable' = [e \in Disk |-> [t \in Slot |->
                             IF <<e, t>> \in torn /\ part \in Partial(stable[e][t]) THEN part
                             ELSE IF <<e, t>> \in lost THEN stable[e][t]
                             ELSE cache[e][t]]]
        BY Zenon
      <4>4. cache' = stable'
        BY Zenon
      <4> HIDE DEF PowerLoss
      <4>5. stable'[d][s] \in Partial(stable[d][s]) \cup {stable[d][s], cache[d][s]}
        BY Zenon, <4>3
      <4> QED
        BY Zenon, <4>2, <4>4, <4>5
    <3> QED
      BY Zenon, <3>1 DEF NewFramesOnPrimary
  <2>5. LogBelowCursor' /\ CommitProgress' /\ AckedBelowCursor' /\ ReplicaBelowCursor'
    BY Zenon DEF LogBelowCursor, CommitProgress, AckedBelowCursor, ReplicaBelowCursor,
       Running
  <2>6. AckedDurable' /\ MembersDurable' /\ ReplicasBehind'
    BY Zenon, <2>1, <2>3, <2>4, <1>t, DurabilityNext
  <2> QED
    BY Zenon, <2>5, <2>6, <1>t DEF IInv
<1>12. CASE Open
  <2> USE <1>12 DEF Open
  <2>0. \A d \in Disk, t \in Slot : Kept(d, t)
    BY Zenon DEF Kept, disks
  <2>1. SyncedKept
    BY Zenon, <2>0, <1>d DEF SyncedKept
  <2>3. NewAcksDurable
    BY Zenon DEF NewAcksDurable, history
  <2>4. NewFramesOnPrimary
    BY Zenon DEF NewFramesOnPrimary, disks
  <2>5. LogBelowCursor' /\ CommitProgress' /\ AckedBelowCursor' /\ ReplicaBelowCursor'
    <3>1. \A s \in Slot : ~(s < 0)
      BY <1>n
    <3> QED
      BY Zenon, <3>1 DEF LogBelowCursor, CommitProgress, AckedBelowCursor,
         ReplicaBelowCursor, Running
  <2>6. AckedDurable' /\ MembersDurable' /\ ReplicasBehind'
    BY Zenon, <2>1, <2>3, <2>4, <1>t, DurabilityNext
  <2> QED
    BY Zenon, <2>5, <2>6, <1>t DEF IInv
<1>13. CASE ScanFrame
  <2> USE <1>13 DEF ScanFrame
  <2>0. \A d \in Disk, t \in Slot : Kept(d, t)
    BY Zenon DEF Kept, disks
  <2>1. SyncedKept
    BY Zenon, <2>0, <1>d DEF SyncedKept
  <2>3. NewAcksDurable
    BY Zenon DEF NewAcksDurable, history
  <2>4. NewFramesOnPrimary
    BY Zenon DEF NewFramesOnPrimary, disks
  <2>v. LogBelowCursor'
    <3>1. Len(view) = cursor /\ view \in Seq(Op) /\ cache[Primary][cursor] \in Op
      BY Zenon DEF IInv, LogBelowCursor, TypeInv, TypeOK
    <3>2. \A s \in Slot : s < cursor =>
             cache[Primary][s] \in Op /\ view[s + 1] = cache[Primary][s]
      BY Zenon DEF IInv, LogBelowCursor
    <3>3. Len(view') = cursor'
      BY <3>1
    <3>4. ASSUME NEW s \in Slot, s < cursor'
          PROVE  cache'[Primary][s] \in Op /\ view'[s + 1] = cache'[Primary][s]
      <4>a. cursor' = cursor + 1 /\ cache' = cache
            /\ view' = Append(view, cache[Primary][cursor])
        BY Zenon DEF disks
      <4> HIDE DEF ScanFrame
      <4>1. s \in Nat /\ (s = cursor \/ s < cursor)
        BY <1>n, <1>c, <3>4, <4>a
      <4>2. CASE s = cursor
        <5>1. Append(view, cache[Primary][cursor])[Len(view) + 1] = cache[Primary][cursor]
          BY <3>1
        <5> QED
          BY Zenon, <3>1, <4>2, <4>a, <5>1
      <4>3. CASE s < cursor
        <5>1. Append(view, cache[Primary][cursor])[s + 1] = view[s + 1]
          BY <3>1, <4>1, <4>3
        <5> QED
          BY Zenon, <3>2, <4>3, <4>a, <5>1
      <4> QED
        BY Zenon, <4>1, <4>2, <4>3
    <3> QED
      BY Zenon, <3>3, <3>4 DEF LogBelowCursor
  <2>5. LogBelowCursor' /\ CommitProgress' /\ AckedBelowCursor' /\ ReplicaBelowCursor'
    BY Zenon, <2>v DEF LogBelowCursor, CommitProgress, AckedBelowCursor, ReplicaBelowCursor, Running
  <2>6. AckedDurable' /\ MembersDurable' /\ ReplicasBehind'
    BY Zenon, <2>1, <2>3, <2>4, <1>t, DurabilityNext
  <2> QED
    BY Zenon, <2>5, <2>6, <1>t DEF IInv
<1>14. CASE ScanEnd
  <2> USE <1>14 DEF ScanEnd
  <2>0. \A d \in Disk, t \in Slot : Kept(d, t)
    BY Zenon DEF Kept, disks
  <2>1. SyncedKept
    BY Zenon, <2>0, <1>d DEF SyncedKept
  <2>3. NewAcksDurable
    BY Zenon DEF NewAcksDurable, history
  <2>4. NewFramesOnPrimary
    BY Zenon DEF NewFramesOnPrimary, disks
  <2>e. \A s \in Slot : s < WalCapacity /\ DurableThrough(Primary, s) => s < cursor
    <3>1. ASSUME NEW s \in Slot, s < WalCapacity, DurableThrough(Primary, s), ~(s < cursor)
          PROVE  FALSE
      <4>1. cursor \in 0 .. s /\ cursor \in Slot
        BY <3>1, <1>c, SlotFacts
      <4>2. cache[Primary][cursor] \in Op
        BY Zenon, <3>1, <4>1, DurableThroughBelow
      <4>3. cursor < WalCapacity /\ cursor < MaxSlots
        BY <3>1, <4>1, <1>c, <1>n, SlotFacts
      <4> QED
        BY <4>2, <4>3, <1>c
    <3> QED
      BY Zenon, <3>1
  <2>5. LogBelowCursor' /\ CommitProgress' /\ AckedBelowCursor' /\ ReplicaBelowCursor'
    <3>1. \A a \in acked : InWal(a) => a.slot < cursor
      BY Zenon, <2>e DEF IInv, AckedDurable, InWal, TypeInv, TypeOK
    <3>2. \A d \in Disk \ {Primary}, s \in Slot : \A o \in Op :
             s < WalCapacity /\ o \in {cache[d][s], stable[d][s]} => s < cursor
      BY Zenon, <2>e DEF IInv, ReplicasBehind
    <3>3. CommitProgress' /\ LogBelowCursor' /\ AckedBelowCursor'
      BY Zenon, <3>1 DEF IInv, CommitProgress, LogBelowCursor, AckedBelowCursor, disks,
         history, InWal
    <3>4. ReplicaBelowCursor'
      BY Zenon, <3>2 DEF ReplicaBelowCursor, disks
    <3> QED
      BY Zenon, <3>3, <3>4
  <2>6. AckedDurable' /\ MembersDurable' /\ ReplicasBehind'
    BY Zenon, <2>1, <2>3, <2>4, <1>t, DurabilityNext
  <2> QED
    BY Zenon, <2>5, <2>6, <1>t DEF IInv
<1>15. CASE ScanReadError
  <2>1. readFaults \in Nat /\ readFaults' = readFaults + 1
    BY <1>15, BoundAssumption DEF ScanReadError, IInv, TypeInv, TypeOK
  <2> QED
    BY <2>1
<1>16. CASE ScanPanics
  <2> USE <1>16 DEF ScanPanics
  <2>0. \A d \in Disk, t \in Slot : Kept(d, t)
    BY Zenon DEF Kept, disks
  <2>1. SyncedKept
    BY Zenon, <2>0, <1>d DEF SyncedKept
  <2>3. NewAcksDurable
    BY Zenon DEF NewAcksDurable, history
  <2>4. NewFramesOnPrimary
    BY Zenon DEF NewFramesOnPrimary, disks
  <2>5. LogBelowCursor' /\ CommitProgress' /\ AckedBelowCursor' /\ ReplicaBelowCursor'
    BY Zenon DEF LogBelowCursor, CommitProgress, AckedBelowCursor, ReplicaBelowCursor,
       Running
  <2>6. AckedDurable' /\ MembersDurable' /\ ReplicasBehind'
    BY Zenon, <2>1, <2>3, <2>4, <1>t, DurabilityNext
  <2> QED
    BY Zenon, <2>5, <2>6, <1>t DEF IInv
<1>17. CASE UNCHANGED vars
  <2>1. /\ cache' = cache /\ stable' = stable /\ pc' = pc /\ cursor' = cursor
        /\ view' = view /\ acked' = acked /\ op' = op /\ backup' = backup
    BY Zenon, <1>17 DEF vars, disks, group, history
  <2>2. SyncedKept /\ NewAcksDurable /\ NewFramesOnPrimary
    BY Zenon, <2>1 DEF SyncedKept, Kept, NewAcksDurable, NewFramesOnPrimary
  <2>3. AckedDurable' /\ MembersDurable' /\ ReplicasBehind'
    BY Zenon, <2>2, <1>t, DurabilityNext
  <2>4. LogBelowCursor' /\ AckedBelowCursor'
    BY Zenon, <2>1 DEF IInv, LogBelowCursor, AckedBelowCursor, InWal
  <2>5. CommitProgress'
    BY Zenon, <2>1 DEF IInv, CommitProgress, DurableThrough, Durable
  <2>6. ReplicaBelowCursor'
    BY Zenon, <2>1 DEF IInv, ReplicaBelowCursor
  <2> QED
    BY Zenon, <2>3, <2>4, <2>5, <2>6, <1>t DEF IInv
<1> QED
  BY Zenon, <1>1, <1>2, <1>3, <1>4, <1>5, <1>6, <1>7, <1>8, <1>9, <1>10, <1>11, <1>12,
     <1>13, <1>14, <1>15, <1>16, <1>17 DEF Next

-----------------------------------------------------------------------------
LEMMA InitIInv == Init => IInv
<1> SUFFICES ASSUME Init PROVE IInv
  BY Zenon
<1>1. TypeInv
  BY Zenon, InitTypeInv
<1>2. Empty \notin Op
  BY DEF Empty, Op
<1>3. \A s \in Slot : ~(s < 0)
  BY SlotFacts
<1>4. LogBelowCursor /\ CommitProgress
  BY Zenon, <1>3 DEF Init, LogBelowCursor, CommitProgress
<1>5. AckedBelowCursor /\ AckedDurable /\ MembersDurable
  BY Zenon DEF Init, AckedBelowCursor, AckedDurable, MembersDurable
<1>6. ReplicaBelowCursor /\ ReplicasBehind
  BY Zenon, <1>2 DEF Init, ReplicaBelowCursor, ReplicasBehind
<1> QED
  BY Zenon, <1>1, <1>4, <1>5, <1>6 DEF IInv

(* Reads that have failed stay counted.                                     *)
LEMMA ReadFaultsStay ==
    ASSUME TypeInv, [Next]_vars, readFaults' = 0
    PROVE  readFaults = 0
<1>1. readFaults \in Nat
  BY BoundAssumption DEF TypeInv, TypeOK
<1>2. readFaults' = readFaults \/ readFaults' = readFaults + 1
  BY Zenon DEF Next, vars, bounds, Fault, PrimaryWrite, PrimaryWriteFails, PrimarySync,
     PrimarySyncFails, BackupWrite, BackupWriteFails, BackupSync, BackupSyncFails,
     PromoteNewBackup, ProcessCrash, PowerLoss, Open, ScanFrame, ScanEnd, ScanReadError,
     ScanPanics
<1> QED
  BY <1>1, <1>2

(* IInv up to the first failing read.                                       *)
CInv == TypeInv /\ (AllRead => IInv)

LEMMA CInvHolds == Spec => []CInv
<1>1. Init => CInv
  BY Zenon, InitIInv, InitTypeInv DEF CInv
<1>2. CInv /\ [Next]_vars => CInv'
  <2> SUFFICES ASSUME CInv, [Next]_vars PROVE CInv'
    BY Zenon
  <2>1. TypeInv'
    BY Zenon, TypeStep DEF CInv
  <2>2. ASSUME readFaults' = 0 PROVE IInv'
    <3>1. IInv
      BY Zenon, <2>2, ReadFaultsStay DEF CInv, AllRead
    <3> QED
      BY Zenon, <2>2, <3>1, SafeStep
  <2> QED
    BY Zenon, <2>1, <2>2 DEF CInv, AllRead
<1> QED
  BY <1>1, <1>2, PTL DEF Spec

(* An acknowledged operation stays durable on the primary and reachable by  *)
(* every later recovery scan.                                               *)
THEOREM Durability == Spec => []AckedSurvives
<1>1. CInv => AckedSurvives
  BY Zenon DEF CInv, IInv, AckedSurvives
<1> QED
  BY <1>1, CInvHolds, PTL

(* Each disk that was a member of the group when apply returned keeps the   *)
(* operation's frame in the primary's slot.                                 *)
THEOREM MemberDurability == Spec => []MembersHoldAck
<1>1. CInv => MembersHoldAck
  BY Zenon DEF CInv, IInv, MembersHoldAck
<1> QED
  BY <1>1, CInvHolds, PTL

(* No replica ever holds a frame that the primary has not made durable in   *)
(* the same slot.                                                           *)
THEOREM ReplicaPrefix == Spec => []ReplicaBehindPrimary
<1>1. CInv => ReplicaBehindPrimary
  BY Zenon DEF CInv, IInv, ReplicaBehindPrimary
<1> QED
  BY <1>1, CInvHolds, PTL

(* After any crashes, an open store shows every acknowledged operation at   *)
(* its position.                                                            *)
THEOREM Recovery == Spec => []AckedVisible
<1>1. CInv => AckedVisible
  <2> SUFFICES ASSUME CInv, AllRead, pc \in Running, NEW a \in acked, InWal(a)
               PROVE  a.slot < Len(view) /\ view[a.slot + 1] = a.op
    BY Zenon DEF AckedVisible
  <2>0. IInv
    BY Zenon DEF CInv
  <2>1. a.slot \in Slot /\ a.slot < cursor
    BY Zenon, <2>0 DEF IInv, TypeInv, TypeOK, AckedBelowCursor
  <2>2. cache[Primary][a.slot] = a.op
    BY Zenon, <2>0 DEF IInv, AckedDurable, Durable
  <2> QED
    BY Zenon, <2>0, <2>1, <2>2 DEF IInv, LogBelowCursor, Running
<1> QED
  BY <1>1, CInvHolds, PTL
=============================================================================
