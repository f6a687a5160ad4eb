------------------------------- MODULE MetaWal -------------------------------
(***************************************************************************)
(* The replicated metadata write-ahead log of tartine-meta:                *)
(*                                                                         *)
(*   lib.rs    MetaReplicator: commit, fence_backup, promote_new_backup    *)
(*   wal.rs    frame, scan                                                 *)
(*   store.rs  MetaStore::open and MetaStore::apply, as far as the log is  *)
(*             concerned (module MetaStore has what the operations mean)   *)
(*                                                                         *)
(* One frame occupies one slot of a disk's log.  An operation is a number, *)
(* the order in which the process was asked to apply it.  The system calls *)
(* of commit (write_at, sync, on the primary and then on the backup) are   *)
(* separate steps, because the process or the machine can stop between     *)
(* any two of them.  The pool sits behind one mutex, so that only one      *)
(* operation is in flight.                                                 *)
(***************************************************************************)
EXTENDS Integers, Sequences

CONSTANTS
    Primary,          \* the metadata disk named first on the command line
    ConfiguredBackup, \* the second one, NoDisk for a one-disk pool
    Spares,           \* disks that can replace the backup
    NoDisk,           \* Option::None for a disk
    WalCapacity,      \* WAL_CAPACITY_BYTES, in slots
    MaxOps,           \* bound: operations the process is asked to apply
    MaxSlots,         \* bound: slots of a disk the model tells apart
    MaxKills,         \* bound: crashes of the process
    MaxPowerLosses,   \* bound: crashes of the machine
    MaxFaults,        \* bound: write_at and sync calls that fail
    MaxReadFaults,    \* bound: read_at calls of the recovery scan that fail
    MaxPromotes       \* bound: calls of promote_new_backup

ASSUME DiskAssumption ==
    /\ Primary # NoDisk
    /\ Primary # ConfiguredBackup
    /\ NoDisk \notin Spares
    /\ {Primary, ConfiguredBackup} \cap Spares = {}

ASSUME BoundAssumption ==
    /\ WalCapacity \in Nat
    /\ MaxOps \in Nat /\ MaxSlots \in Nat
    /\ MaxKills \in Nat /\ MaxPowerLosses \in Nat /\ MaxFaults \in Nat
    /\ MaxReadFaults \in Nat /\ MaxPromotes \in Nat

Disk == ({Primary, ConfiguredBackup} \cup Spares) \ {NoDisk}
Slot == 0 .. MaxSlots - 1
Op   == 1 .. MaxOps

(* What a slot holds: a whole frame, nothing, bytes that are no frame (a    *)
(* partial write: no magic, a short read or a checksum mismatch), or the    *)
(* four bytes of the magic in front of nothing.  Such a stub has length 0   *)
(* and checksum 0, which is the checksum of nothing: scan accepts it.       *)
Empty   == 0
Torn    == -1
Stub    == -2
Content == Op \cup {Empty, Torn, Stub}

(* What the write of a frame leaves of a slot that held c if it is cut off. *)
Partial(c) == {c, Torn} \cup (IF c = Empty THEN {Stub} ELSE {})

VARIABLES
    cache,      \* cache[d][s]: what read_at returns now
    stable,     \* stable[d][s]: what survives a power loss for sure
    pc,         \* where the process is
    op,         \* the operation in flight, 0 if none
    cursor,     \* MetaStore.wal_cursor, the scan's cursor during open
    backup,     \* MetaReplicator.backup_disk and group.backup
    epoch,      \* MetaReplicator.group.epoch
    view,       \* operations handed to apply_locally, in order
    issued,     \* history: number of apply calls so far
    acked,      \* history: [slot, op, members] of every operation commit wrote
    fenced,     \* history: disks fenced out and not promoted again
    kills, losses, faults, readFaults, promotes   \* how much of each bound is used

disks   == <<cache, stable>>
group   == <<backup, epoch, fenced>>
history == <<issued, acked>>
bounds  == <<kills, losses, faults, readFaults, promotes>>
vars    == <<disks, pc, op, cursor, view, group, history, bounds>>

Running   == {"idle", "p_sync", "b_write", "b_sync"}
PCs       == Running \cup {"scan", "down"}

Put(log, d, s, c) == [log EXCEPT ![d] = [@ EXCEPT ![s] = c]]

-----------------------------------------------------------------------------
(* A pool that has just been formatted: Pool::format_with_classes opened    *)
(* the store on empty disks.                                                *)
Init ==
    /\ cache  = [d \in Disk |-> [s \in Slot |-> Empty]]
    /\ stable = [d \in Disk |-> [s \in Slot |-> Empty]]
    /\ pc = "idle" /\ op = 0 /\ cursor = 0 /\ view = <<>>
    /\ backup = ConfiguredBackup /\ epoch = 0 /\ fenced = {}
    /\ issued = 0 /\ acked = {}
    /\ kills = 0 /\ losses = 0 /\ faults = 0 /\ readFaults = 0 /\ promotes = 0

(* Mutant of Acknowledge: wal_cursor is not moved past the frame.           *)
AcknowledgeInPlace(members) ==
    /\ pc' = "idle" /\ op' = 0
    /\ cursor' = cursor
    /\ view' = Append(view, op)
    /\ acked' = acked \cup {[slot |-> cursor, op |-> op, members |-> members]}
    /\ issued' = issued

(* The end of a successful apply: the cursor moves past the frame, the      *)
(* operation reaches the local view and the caller gets its answer.         *)
Acknowledge(members) ==
    /\ pc' = "idle" /\ op' = 0
    /\ cursor' = cursor + 1
    /\ view' = Append(view, op)
    /\ acked' = acked \cup {[slot |-> cursor, op |-> op, members |-> members]}
    /\ issued' = issued

(* Mutant of FenceBackup: the epoch moves, the backup stays in the group.    *)
FenceKeepsBackup ==
    /\ backup' = backup
    /\ epoch' = epoch + 1
    /\ fenced' = fenced \cup {backup}

(* apply's arm for BackupUnavailable: fence_backup, then go on as if the    *)
(* commit had succeeded.                                                    *)
FenceBackup ==
    /\ backup' = NoDisk
    /\ epoch' = epoch + 1
    /\ fenced' = fenced \cup {backup}

Fault == faults < MaxFaults /\ faults' = faults + 1
         /\ UNCHANGED <<kills, losses, readFaults, promotes>>

-----------------------------------------------------------------------------
(* MetaStore::apply up to commit's first system call, write_at on the       *)
(* primary.                                                                 *)
PrimaryWrite ==
    /\ pc = "idle" /\ issued < MaxOps /\ cursor < MaxSlots
    /\ issued' = issued + 1
    /\ op' = issued + 1
    /\ cache' = Put(cache, Primary, cursor, issued + 1)
    /\ pc' = "p_sync"
    /\ UNCHANGED <<stable, cursor, view, group, acked, bounds>>

(* The same call failing, after none or some of the frame's bytes:          *)
(* PrimaryUnavailable, the operation is refused and the cursor stays.       *)
PrimaryWriteFails ==
    /\ pc = "idle" /\ issued < MaxOps /\ cursor < MaxSlots
    /\ Fault
    /\ issued' = issued + 1
    /\ \E c \in Partial(cache[Primary][cursor]) :
          cache' = Put(cache, Primary, cursor, c)
    /\ UNCHANGED <<stable, pc, op, cursor, view, group, acked>>

(* Mutant of PrimarySync: commit does not sync the primary.                 *)
PrimarySyncDropped ==
    /\ pc = "p_sync"
    /\ stable' = stable
    /\ \/ /\ backup # NoDisk
          /\ pc' = "b_write"
          /\ UNCHANGED <<op, cursor, view, history>>
       \/ backup = NoDisk /\ Acknowledge({Primary})
    /\ UNCHANGED <<cache, group, bounds>>

PrimarySync ==
    /\ pc = "p_sync"
    /\ stable' = [stable EXCEPT ![Primary] = cache[Primary]]
    /\ \/ /\ backup # NoDisk
          /\ pc' = "b_write"
          /\ UNCHANGED <<op, cursor, view, history>>
       \/ backup = NoDisk /\ Acknowledge({Primary})
    /\ UNCHANGED <<cache, group, bounds>>

(* Mutant of PrimarySyncFails: the cursor moves although apply returns an   *)
(* error.                                                                   *)
PrimarySyncFailsMoved ==
    /\ pc = "p_sync"
    /\ Fault
    /\ pc' = "idle" /\ op' = 0 /\ cursor' = cursor + 1
    /\ UNCHANGED <<disks, view, group, history>>

(* Mutant of PrimarySyncFails: commit goes on to the backup.                *)
PrimarySyncFailsIgnored ==
    /\ pc = "p_sync" /\ backup # NoDisk
    /\ Fault
    /\ pc' = "b_write"
    /\ UNCHANGED <<disks, op, cursor, view, group, history>>

(* sync fails after it has written some of the frames.  They all stay in    *)
(* the cache, so that a later sync can still write them.                    *)
PrimarySyncFails ==
    /\ pc = "p_sync"
    /\ Fault
    /\ \E done \in SUBSET Slot :
          stable' = [stable EXCEPT ![Primary] =
                        [s \in Slot |-> IF s \in done THEN cache[Primary][s] ELSE @[s]]]
    /\ pc' = "idle" /\ op' = 0
    /\ UNCHANGED <<cache, cursor, view, group, history>>

BackupWrite ==
    /\ pc = "b_write"
    /\ cache' = Put(cache, backup, cursor, op)
    /\ pc' = "b_sync"
    /\ UNCHANGED <<stable, op, cursor, view, group, history, bounds>>

BackupWriteFails ==
    /\ pc = "b_write"
    /\ Fault
    /\ \E c \in Partial(cache[backup][cursor]) :
          cache' = Put(cache, backup, cursor, c)
    /\ FenceBackup
    /\ Acknowledge({Primary})
    /\ UNCHANGED stable

(* Mutant of BackupSync: commit does not sync the backup.                   *)
BackupSyncDropped ==
    /\ pc = "b_sync"
    /\ Acknowledge({Primary, backup})
    /\ UNCHANGED <<disks, group, bounds>>

BackupSync ==
    /\ pc = "b_sync"
    /\ stable' = [stable EXCEPT ![backup] = cache[backup]]
    /\ Acknowledge({Primary, backup})
    /\ UNCHANGED <<cache, group, bounds>>

BackupSyncFails ==
    /\ pc = "b_sync"
    /\ Fault
    /\ FenceBackup
    /\ Acknowledge({Primary})
    /\ UNCHANGED disks

(* The log below the cursor, as a disk that has caught up holds it.         *)
Resynced == [s \in Slot |-> IF s < cursor THEN stable[Primary][s] ELSE Empty]

(* promote_new_backup.  Its contract is a disk that "has been fully         *)
(* resynced"; the copying is not part of the source, so that it is folded   *)
(* into the step and taken while the primary has nothing unsynced.          *)
PromoteNewBackup(d) ==
    /\ pc = "idle" /\ promotes < MaxPromotes
    /\ d \notin {Primary, backup}
    /\ \A s \in Slot : s < cursor => cache[Primary][s] = stable[Primary][s]
    /\ cache'  = [cache EXCEPT ![d] = Resynced]
    /\ stable' = [stable EXCEPT ![d] = Resynced]
    /\ backup' = d /\ epoch' = epoch + 1 /\ fenced' = fenced \ {d}
    /\ promotes' = promotes + 1
    /\ UNCHANGED <<pc, op, cursor, view, history, kills, losses, faults, readFaults>>

-----------------------------------------------------------------------------
(* The process dies (kill -9, panic): its memory is gone, the page cache    *)
(* is not.                                                                  *)
ProcessCrash ==
    /\ pc # "down" /\ kills < MaxKills
    /\ kills' = kills + 1
    /\ pc' = "down" /\ op' = 0 /\ cursor' = 0 /\ view' = <<>>
    /\ UNCHANGED <<disks, group, history, losses, faults, readFaults, promotes>>

Unsynced == {x \in Disk \X Slot : cache[x[1]][x[2]] # stable[x[1]][x[2]]}

(* The machine loses power: every slot written since the last sync holds    *)
(* the new bytes, the old ones or a mixture of a kind, independently of the *)
(* others.                                                                  *)
PowerLoss ==
    /\ losses < MaxPowerLosses
    /\ losses' = losses + 1
    /\ \E lost, torn \in SUBSET Unsynced, part \in {Torn, Stub} :
          stable' = [d \in Disk |-> [s \in Slot |->
                        IF <<d, s>> \in torn /\ part \in Partial(stable[d][s]) THEN part
                        ELSE IF <<d, s>> \in lost THEN stable[d][s]
                        ELSE cache[d][s]]]
    /\ cache' = stable'
    /\ pc' = "down" /\ op' = 0 /\ cursor' = 0 /\ view' = <<>>
    /\ UNCHANGED <<group, history, kills, faults, readFaults, promotes>>

-----------------------------------------------------------------------------
(* Mutant of Open: the scan starts one frame late.                          *)
OpenPastFirst ==
    /\ pc = "down" /\ 0 < MaxSlots
    /\ pc' = "scan" /\ cursor' = 1 /\ view' = <<>>
    /\ backup' = ConfiguredBackup /\ epoch' = 0
    /\ UNCHANGED <<disks, op, fenced, history, bounds>>

(* MetaStore::open, called by Pool::open_with_classes with a group built    *)
(* from the command line: both disks, epoch 0.                              *)
Open ==
    /\ pc = "down"
    /\ pc' = "scan" /\ cursor' = 0 /\ view' = <<>>
    /\ backup' = ConfiguredBackup /\ epoch' = 0
    /\ UNCHANGED <<disks, op, fenced, history, bounds>>

(* One round of wal::scan's loop that finds a frame.  open replays the      *)
(* entries in this order before it returns, and nobody sees the view until  *)
(* then.                                                                    *)
ScanFrame ==
    /\ pc = "scan"
    /\ cursor < WalCapacity /\ cursor < MaxSlots
    /\ cache[Primary][cursor] \in Op
    /\ view' = Append(view, cache[Primary][cursor])
    /\ cursor' = cursor + 1
    /\ UNCHANGED <<disks, pc, op, group, history, bounds>>

(* Mutant of ScanEnd: open keeps no cursor and appends at the start.         *)
ScanEndRewinds ==
    /\ pc = "scan"
    /\ \/ cursor >= WalCapacity
       \/ cursor >= MaxSlots
       \/ cursor \in Slot /\ cache[Primary][cursor] \notin Op \cup {Stub}
    /\ pc' = "idle" /\ cursor' = 0
    /\ UNCHANGED <<disks, op, view, group, history, bounds>>

(* Mutant of ScanEnd: a torn frame does not end the scan.                    *)
ScanEndNotOnTorn ==
    /\ pc = "scan"
    /\ \/ cursor >= WalCapacity
       \/ cursor >= MaxSlots
       \/ cursor \in Slot /\ cache[Primary][cursor] = Empty
    /\ pc' = "idle"
    /\ UNCHANGED <<disks, op, cursor, view, group, history, bounds>>

(* The round that leaves the loop: the end of the region, or no frame.      *)
ScanEnd ==
    /\ pc = "scan"
    /\ \/ cursor >= WalCapacity
       \/ cursor >= MaxSlots
       \/ cursor \in Slot /\ cache[Primary][cursor] \notin Op \cup {Stub}
    /\ pc' = "idle"
    /\ UNCHANGED <<disks, op, cursor, view, group, history, bounds>>

(* read_at returns an error: the loop is left in the same way.              *)
ScanReadError ==
    /\ pc = "scan" /\ cursor < WalCapacity
    /\ readFaults < MaxReadFaults
    /\ readFaults' = readFaults + 1
    /\ pc' = "idle"
    /\ UNCHANGED <<disks, op, cursor, view, group, history, kills, losses, faults, promotes>>

(* The scan takes a stub for a frame, and decode_op panics on its empty     *)
(* payload while open replays it.                                           *)
ScanPanics ==
    /\ pc = "scan" /\ cursor < WalCapacity
    /\ cursor \in Slot /\ cache[Primary][cursor] = Stub
    /\ pc' = "down" /\ cursor' = 0 /\ view' = <<>>
    /\ UNCHANGED <<disks, op, group, history, bounds>>

-----------------------------------------------------------------------------
(* The steps the process takes by itself once it has been called.           *)
Commit == PrimarySync \/ BackupWrite \/ BackupSync
Fail   == PrimarySyncFails \/ BackupWriteFails \/ BackupSyncFails
Scan   == ScanFrame \/ ScanEnd \/ ScanReadError \/ ScanPanics

Next ==
    \/ PrimaryWrite
    \/ PrimaryWriteFails
    \/ PrimarySync
    \/ PrimarySyncFails
    \/ BackupWrite
    \/ BackupWriteFails
    \/ BackupSync
    \/ BackupSyncFails
    \/ \E d \in Disk : PromoteNewBackup(d)
    \/ ProcessCrash
    \/ PowerLoss
    \/ Open
    \/ ScanFrame
    \/ ScanEnd
    \/ ScanReadError
    \/ ScanPanics

Spec == Init /\ [][Next]_vars

(* A call that has been made keeps running: nothing in commit or scan waits *)
(* for anything but the disk, and a disk call returns or fails.             *)
FairSpec == Spec /\ WF_vars(Commit \/ Fail) /\ WF_vars(Scan)

-----------------------------------------------------------------------------
TypeOK ==
    /\ cache  \in [Disk -> [Slot -> Content]]
    /\ stable \in [Disk -> [Slot -> Content]]
    /\ pc \in PCs
    /\ op \in Op \cup {0}
    /\ cursor \in 0 .. MaxSlots
    /\ view \in Seq(Op)
    /\ backup \in Disk \cup {NoDisk}
    /\ epoch \in Nat
    /\ fenced \subseteq Disk
    /\ issued \in 0 .. MaxOps
    /\ acked \subseteq [slot : Slot, op : Op, members : SUBSET Disk]
    /\ kills \in 0 .. MaxKills /\ losses \in 0 .. MaxPowerLosses
    /\ faults \in 0 .. MaxFaults
    /\ readFaults \in 0 .. MaxReadFaults /\ promotes \in 0 .. MaxPromotes

(* Disk d holds op in slot s, and no power loss can take it away.           *)
Durable(d, s, o) == stable[d][s] = o /\ cache[d][s] = o

(* A scan of d, now or after any power loss, reads past slot s.             *)
DurableThrough(d, s) == \A t \in 0 .. s : \E o \in Op : Durable(d, t, o)

InWal(a) == a.slot < WalCapacity

(* No read_at of a recovery scan has failed so far.  wal::scan takes a read *)
(* error for the end of the log, and the next apply writes over what the    *)
(* scan did not reach: what follows is promised up to that moment.          *)
AllRead == readFaults = 0

AckedDurable ==
    \A a \in acked : InWal(a) =>
        /\ DurableThrough(Primary, a.slot)
        /\ Durable(Primary, a.slot, a.op)

(* An operation whose apply returned success is never lost: it stays in its *)
(* slot of the primary, synced, and so does everything before it, so that   *)
(* every later recovery scan reaches it.  commit syncs before apply         *)
(* answers, and no later write may touch a slot below the cursor.           *)
AckedSurvives == AllRead => AckedDurable

MembersDurable ==
    \A a \in acked : InWal(a) =>
        \A d \in a.members : Durable(d, a.slot, a.op)

(* "A MetaOp is not considered committed until it has been durably written  *)
(* to every disk currently in the group" (lib.rs): each disk that was a     *)
(* member when the call returned keeps the frame in the same slot.          *)
MembersHoldAck == AllRead => MembersDurable

ReplicasBehind ==
    \A d \in Disk \ {Primary}, s \in Slot :
        \A o \in Op : s < WalCapacity /\ o \in {cache[d][s], stable[d][s]} =>
            /\ DurableThrough(Primary, s)
            /\ Durable(Primary, s, o)

(* A replica never runs ahead of the primary or disagrees with it: a frame  *)
(* on any other disk, synced or not, is durable on the primary in the same  *)
(* slot, together with all frames before it.  This is why commit writes the *)
(* primary first and gives up when that fails.                              *)
ReplicaBehindPrimary == AllRead => ReplicasBehind

(* Whenever the store is open, its view holds every acknowledged operation  *)
(* at the position at which it was acknowledged, through any number of      *)
(* crashes: MetaStore::open rebuilds what apply promised.                   *)
AckedVisible ==
    AllRead /\ pc \in Running => \A a \in acked : InWal(a) =>
        a.slot < Len(view) /\ view[a.slot + 1] = a.op

(* An open that starts now and can read everything replays slot s.          *)
Replayed(s) == s < WalCapacity /\ \A t \in 0 .. s : cache[Primary][t] \in Op

(* A restart repeats what the running process shows: killed now, it would   *)
(* replay the view from its first operation, as far as the region goes, and *)
(* behind it at most one more, the operation that is in commit or that was  *)
(* refused last.  apply writes at the cursor, moves it only when commit has *)
(* succeeded, and scan resumes it behind the last frame.  Beyond that one   *)
(* slot it takes a read error, or a kill and a power loss, to leave frames. *)
RestartReplaysView ==
    pc \in Running =>
        /\ \A s \in Slot : s < cursor /\ s < WalCapacity =>
              Replayed(s) /\ s < Len(view) /\ view[s + 1] = cache[Primary][s]
        /\ AllRead /\ (kills = 0 \/ losses = 0) =>
              \A s \in Slot : Replayed(s) => s <= cursor

(* apply and open return: no call stays in commit or in the scan for ever,  *)
(* whichever disk calls fail.                                               *)
CallsReturn == (pc \notin {"idle", "down"}) ~> (pc \in {"idle", "down"})

(* MetaStore implements the abstract log: the view of an open store is the  *)
(* log, what apply acknowledged is committed, and a restart (open after a   *)
(* crash of either kind) is one recovery that keeps all of it.              *)
Log == INSTANCE DurableLog WITH
           up <- pc \in Running,
           log <- IF pc \in Running THEN view ELSE <<>>,
           committed <- {<<a.slot + 1, a.op>> : a \in acked},
           intact <- AllRead,
           Capacity <- WalCapacity

RefinesDurableLog == Log!Spec

-----------------------------------------------------------------------------
Replayable(d, s) == \A t \in 0 .. s : stable[d][t] \in Op

(* "Either disk alone has everything needed to reconstruct current state"   *)
(* (DESIGN.md, 6): an acknowledged operation can be replayed from each      *)
(* member of the group.  A restart after commit was interrupted between its *)
(* two disks breaks it.                                                     *)
EitherDiskSuffices ==
    pc \in Running => \A a \in acked :
        \A d \in {Primary, backup} \ {NoDisk} :
            Replayable(d, a.slot) /\ stable[d][a.slot] = a.op

(* As long as the process lives, either disk suffices, whatever fails and   *)
(* whoever is promoted, and a backup that fence_backup dropped, "so a stale *)
(* backup can never be mistaken for current", is not a member (lib.rs).  A  *)
(* restart forgets the fence: open_with_classes starts with both disks.     *)
GroupComplete ==
    kills = 0 /\ losses = 0 => EitherDiskSuffices /\ backup \notin fenced

(* "An op is never visible to reads until it's durable" (store.rs, apply),  *)
(* with power losses and failing calls, up to the first time the process is *)
(* killed: the frame a killed process had not synced is replayed from the   *)
(* page cache.                                                              *)
VisibleIsDurable ==
    pc \in Running /\ kills = 0 => \A s \in Slot :
        s < cursor => stable[Primary][s] = view[s + 1]
=============================================================================
