-------------------------- MODULE MetaWalRefinement --------------------------
(***************************************************************************)
(* MetaWal implements DurableLog, and what a running store shows is its    *)
(* log, for any disks and any bounds and with failing reads.               *)
(*                                                                         *)
(* Beside the invariant of MetaWalProofs this needs that no operation is   *)
(* ever in two slots of the primary, in the cache or on the disk: an       *)
(* operation is written once, when it is new, and a crash only chooses     *)
(* between what a slot holds and what it held.                             *)
(*                                                                         *)
(* The last part is about the time before the first kill, when all members *)
(* of the metadata group are complete and all that is shown is synced.     *)
(***************************************************************************)
EXTENDS MetaWalProofs

(* The clock of a prover also runs while the next obligation is prepared.   *)
USE SMTT(20)

(* The frame in flight is under the cursor.                                 *)
InPlace ==
    pc \in {"p_sync", "b_write", "b_sync"} => cache[Primary][cursor] = op

(* What slot s of the primary holds now or may hold after a power loss.     *)
Held(s) == {cache[Primary][s], stable[Primary][s]}

(* No operation is held by two slots, and none that was not issued.         *)
OncePerSlot == \A s, t \in Slot : \A o \in Op : o \in Held(s) /\ o \in Held(t) => s = t
OnlyIssued  == \A s \in Slot : \A o \in Op : o \in Held(s) => o <= issued

LogInv == TypeInv /\ LogBelowCursor /\ InPlace /\ OncePerSlot /\ OnlyIssued

-----------------------------------------------------------------------------
(* A step puts nothing new into the primary but a new operation, in apply.  *)
NewlyHeld(s) ==
    \A o \in Op : o \in Held(s)' =>
        o \in Held(s) \/ (s = cursor /\ o = issued + 1 /\ issued' = o /\ PrimaryWrite)

LEMMA PrimarySlots ==
    ASSUME TypeInv, [Next]_vars
    PROVE  (\A s \in Slot : NewlyHeld(s)) /\ issued' \in Nat /\ issued' >= issued
<1> USE PrimaryIsDisk DEF TypeInv, TypeOK
<1>n. issued \in Nat
  BY BoundAssumption
<1>t. cache \in [Disk -> [Slot -> Content]]
  BY Zenon
<1>u. ASSUME cache'[Primary] = cache[Primary], stable'[Primary] \in {stable[Primary], cache[Primary]},
             issued' = issued
      PROVE  (\A s \in Slot : NewlyHeld(s)) /\ issued' \in Nat /\ issued' >= issued
  BY <1>u, <1>n DEF NewlyHeld, Held
<1>1. CASE PrimaryWrite
  <2>1. cursor \in Slot /\ issued + 1 \in Content /\ issued' = issued + 1
    BY <1>1, BoundAssumption DEF PrimaryWrite, Slot, Op, Content
  <2>2. \A s \in Slot : /\ s = cursor => cache'[Primary][s] = issued + 1
                        /\ s # cursor => cache'[Primary][s] = cache[Primary][s]
    <3>1. cache' = Put(cache, Primary, cursor, issued + 1)
      BY Zenon, <1>1 DEF PrimaryWrite
    <3> QED BY ONLY SMTT(20), <3>1, <2>1, <1>t, PrimaryIsDisk, PutSlot
  <2>3. stable' = stable
    BY Zenon, <1>1 DEF PrimaryWrite
  <2>4. ASSUME NEW s \in Slot PROVE NewlyHeld(s)
    BY Zenon, <1>1, <2>1, <2>2, <2>3 DEF NewlyHeld, Held
  <2> QED BY <2>1, <2>4, <1>n
<1>2. CASE PrimaryWriteFails
  <2>1. cursor \in Slot /\ cache[Primary][cursor] \in Content /\ issued' = issued + 1
    BY <1>2, BoundAssumption DEF PrimaryWriteFails, Slot
  <2>2. PICK c \in Partial(cache[Primary][cursor]) : cache' = Put(cache, Primary, cursor, c)
    BY Zenon, <1>2 DEF PrimaryWriteFails
  <2>3. c \in Content /\ (c \in Op => c = cache[Primary][cursor])
    BY Zenon, <2>1, PartialFacts
  <2>4. \A s \in Slot : cache'[Primary][s] \in Op => cache'[Primary][s] = cache[Primary][s]
    <3>1. /\ Put(cache, Primary, cursor, c)[Primary][cursor] = c
          /\ \A s \in Slot : s # cursor =>
                Put(cache, Primary, cursor, c)[Primary][s] = cache[Primary][s]
      BY ONLY SMTT(20), <2>1, <2>3, <1>t, PrimaryIsDisk, PutSlot
    <3> QED BY ONLY Zenon, <3>1, <2>2, <2>3
  <2>5. stable' = stable
    BY Zenon, <1>2 DEF PrimaryWriteFails
  <2> QED BY <2>1, <2>4, <2>5, <1>n DEF NewlyHeld, Held
<1>3. CASE PrimarySync
  <2>1. cache' = cache /\ stable'[Primary] = cache[Primary] /\ issued' = issued
    BY Zenon, <1>3 DEF PrimarySync, Acknowledge, history
  <2> QED BY Zenon, <2>1, <1>u
<1>4. CASE BackupWrite \/ BackupWriteFails
  <2>1. backup \in Disk /\ backup # Primary /\ cursor \in Slot
    BY <1>4, BoundAssumption DEF BackupWrite, BackupWriteFails, InFlight, Slot
  <2>2. \E c : cache' = Put(cache, backup, cursor, c)
    BY Zenon, <1>4 DEF BackupWrite, BackupWriteFails
  <2>3. cache'[Primary] = cache[Primary]
    BY Zenon, <2>1, <2>2 DEF Put
  <2>4. stable' = stable /\ issued' = issued
    BY Zenon, <1>4 DEF BackupWrite, BackupWriteFails, Acknowledge, history
  <2> QED BY Zenon, <2>3, <2>4, <1>u
<1>5. CASE BackupSync \/ \E d \in Disk : PromoteNewBackup(d)
  <2>1. cache'[Primary] = cache[Primary] /\ stable'[Primary] = stable[Primary]
        /\ issued' = issued
    BY Zenon, <1>5 DEF BackupSync, PromoteNewBackup, Acknowledge, InFlight, history
  <2> QED BY Zenon, <2>1, <1>u
<1>6. CASE PowerLoss
  <2>1. /\ cache' = stable' /\ issued' = issued
    BY Zenon, <1>6 DEF PowerLoss, history
  <2>2. \A s \in Slot : stable'[Primary][s] \in Partial(stable[Primary][s]) \cup Held(s)
    BY <1>6 DEF PowerLoss, Held
  <2>3. ASSUME NEW s \in Slot, stable'[Primary][s] \in Op PROVE stable'[Primary][s] \in Held(s)
    BY <2>2, <2>3, PartialFacts DEF Held
  <2> QED BY <2>1, <2>3, <1>n DEF NewlyHeld, Held
<1>8. CASE PrimarySyncFails
  <2>1. cache' = cache /\ \A s \in Slot : stable'[Primary][s] \in Held(s)
    BY Zenon, <1>8, SyncFailsFacts DEF Held
  <2>2. issued' = issued
    BY Zenon, <1>8 DEF PrimarySyncFails, history
  <2>3. ASSUME NEW s \in Slot PROVE NewlyHeld(s)
    BY Zenon, <2>1 DEF NewlyHeld, Held
  <2> QED BY <2>2, <2>3, <1>n
<1>7. CASE \/ BackupSyncFails \/ ProcessCrash \/ Open \/ ScanFrame \/ ScanEnd \/ ScanReadError \/ ScanPanics \/ UNCHANGED vars
  <2>1. cache' = cache /\ stable' = stable /\ issued' = issued
    BY Zenon, <1>7 DEF BackupSyncFails, ProcessCrash, Open, ScanFrame,
       ScanEnd, ScanReadError, ScanPanics, Acknowledge, vars, disks, history
  <2> QED BY Zenon, <2>1, <1>u
<1> QED BY Zenon, <1>1, <1>2, <1>3, <1>4, <1>5, <1>6, <1>7, <1>8 DEF Next

(* So each operation keeps to one slot.                                     *)
LEMMA OnceStep ==
    ASSUME TypeInv, OncePerSlot, OnlyIssued, [Next]_vars
    PROVE  OncePerSlot' /\ OnlyIssued'
<1>n. issued \in Nat /\ Slot' = Slot /\ Op' = Op /\ Op \subseteq Nat
  BY BoundAssumption DEF TypeInv, TypeOK, Op
<1>1. (\A s \in Slot : NewlyHeld(s)) /\ issued' \in Nat /\ issued' >= issued
  BY Zenon, PrimarySlots
<1>2. ASSUME NEW s \in Slot, NEW o \in Op, o \in Held(s)' PROVE o <= issued'
  BY <1>n, <1>1, <1>2 DEF NewlyHeld, OnlyIssued
<1>3. ASSUME NEW s \in Slot, NEW t \in Slot, NEW o \in Op, o \in Held(s)', o \in Held(t)'
      PROVE  s = t
  <2>1. o \in Held(s) \/ (s = cursor /\ o = issued + 1)
    BY Zenon, <1>1, <1>3 DEF NewlyHeld
  <2>2. o \in Held(t) \/ (t = cursor /\ o = issued + 1)
    BY Zenon, <1>1, <1>3 DEF NewlyHeld
  <2>3. ~(o = issued + 1 /\ (o \in Held(s) \/ o \in Held(t)))
    BY <1>n DEF OnlyIssued
  <2> QED BY Zenon, <2>1, <2>2, <2>3 DEF OncePerSlot
<1> QED BY Zenon, <1>2, <1>3 DEF OncePerSlot, OnlyIssued

-----------------------------------------------------------------------------
(* The end of an apply appends the frame under the cursor to the view.      *)
LEMMA AcknowledgeLog ==
    ASSUME TypeInv, LogBelowCursor, InPlace, NEW members,
           pc \in {"p_sync", "b_write", "b_sync"}, Acknowledge(members),
           cache'[Primary] = cache[Primary]
    PROVE  LogBelowCursor' /\ InPlace'
<1>1. /\ view \in Seq(Op) /\ op \in Op /\ Len(view) = cursor /\ cursor \in Nat
      /\ cache[Primary][cursor] = op
  BY DEF TypeInv, TypeOK, InFlight, LogBelowCursor, InPlace
<1>2. pc' = "idle" /\ view' = Append(view, op) /\ cursor' = cursor + 1
  BY Zenon DEF Acknowledge
<1>3. Len(view') = cursor' /\ view'[cursor + 1] = op
      /\ \A i \in 1 .. cursor : view'[i] = view[i]
  BY <1>1, <1>2
<1>4. ASSUME NEW s \in Slot, s < cursor'
      PROVE  cache[Primary][s] \in Op /\ view'[s + 1] = cache[Primary][s]
  <2>1. s \in Nat
    BY BoundAssumption DEF Slot
  <2>2. CASE s = cursor
    BY Zenon, <2>2, <1>1, <1>3
  <2>3. CASE s < cursor
    <3>1. s + 1 \in 1 .. cursor
      BY <2>1, <2>3, <1>1
    <3> QED BY Zenon, <3>1, <2>3, <1>1, <1>3 DEF LogBelowCursor, TypeInv, TypeOK, PCs,
               Running
  <2> QED BY <2>1, <2>2, <2>3, <1>4, <1>1, <1>2
<1> QED BY Zenon, <1>2, <1>3, <1>4 DEF LogBelowCursor, InPlace, Slot, Op

(* The view stays the log, step by step.                                    *)
LEMMA ViewStep ==
    ASSUME TypeInv, LogBelowCursor, InPlace, [Next]_vars
    PROVE  LogBelowCursor' /\ InPlace'
<1>t. /\ cache \in [Disk -> [Slot -> Content]] /\ Primary \in Disk
      /\ cursor \in 0 .. MaxSlots /\ issued \in 0 .. MaxOps /\ view \in Seq(Op)
      /\ pc \in PCs /\ MaxSlots \in Nat /\ MaxOps \in Nat
  BY Zenon, PrimaryIsDisk, BoundAssumption DEF TypeInv, TypeOK
<1>k. ASSUME cursor' = cursor, view' = view, pc # "down", pc' # "down",
             \A s \in Slot : s # cursor => cache'[Primary][s] = cache[Primary][s]
      PROVE  LogBelowCursor'
  BY <1>k, <1>t DEF LogBelowCursor, Slot, Op
<1>1. CASE PrimaryWrite
  <2>1. /\ cursor \in Slot /\ issued + 1 \in Content /\ op' = issued + 1
        /\ cache' = Put(cache, Primary, cursor, issued + 1)
        /\ cursor' = cursor /\ view' = view /\ pc = "idle" /\ pc' = "p_sync"
    BY <1>1, <1>t DEF PrimaryWrite, Slot, Op, Content
  <2>2. /\ cache'[Primary][cursor] = issued + 1
        /\ \A s \in Slot : s # cursor => cache'[Primary][s] = cache[Primary][s]
    BY ONLY SMTT(20), <2>1, <1>t, PutSlot
  <2> QED BY Zenon, <2>1, <2>2, <1>k DEF InPlace
<1>2. CASE PrimaryWriteFails
  <2>1. /\ cursor \in Slot /\ cursor' = cursor /\ view' = view /\ pc = "idle" /\ pc' = "idle"
        /\ \E c \in Partial(cache[Primary][cursor]) : cache' = Put(cache, Primary, cursor, c)
    BY <1>2, <1>t DEF PrimaryWriteFails, Slot
  <2>2. \A s \in Slot : s # cursor => cache'[Primary][s] = cache[Primary][s]
    BY Zenon, <2>1, <1>t DEF Put
  <2> QED BY Zenon, <2>1, <2>2, <1>k DEF InPlace
<1>3. CASE PrimarySync
  <2>1. CASE backup = NoDisk /\ Acknowledge({Primary})
    BY <2>1, <1>3, AcknowledgeLog DEF PrimarySync
  <2>2. CASE pc' = "b_write" /\ UNCHANGED <<op, cursor, view, history>>
    BY Zenon, <2>2, <1>3, <1>k DEF PrimarySync, InPlace
  <2> QED BY Zenon, <1>3, <2>1, <2>2 DEF PrimarySync
<1>4. CASE BackupWrite \/ BackupWriteFails
  <2>1. backup \in Disk /\ backup # Primary /\ pc = "b_write"
    BY Zenon, <1>4 DEF BackupWrite, BackupWriteFails, InFlight, TypeInv, TypeOK
  <2>2. \E c : cache' = Put(cache, backup, cursor, c)
    BY Zenon, <1>4 DEF BackupWrite, BackupWriteFails
  <2>3. cache'[Primary] = cache[Primary]
    BY Zenon, <2>1, <2>2, <1>t DEF Put
  <2>4. CASE BackupWrite
    BY Zenon, <2>1, <2>3, <2>4, <1>k DEF BackupWrite, InPlace
  <2>5. CASE BackupWriteFails
    BY <2>1, <2>3, <2>5, AcknowledgeLog DEF BackupWriteFails
  <2> QED BY Zenon, <1>4, <2>4, <2>5
<1>5. CASE BackupSync \/ BackupSyncFails
  BY <1>5, AcknowledgeLog DEF BackupSync, BackupSyncFails, disks
<1>6. CASE PrimarySyncFails
  BY Zenon, <1>6, <1>k DEF PrimarySyncFails, InPlace
<1>7. CASE \E d \in Disk : PromoteNewBackup(d)
  <2>1. cache'[Primary] = cache[Primary] /\ pc = "idle" /\ pc' = "idle"
        /\ cursor' = cursor /\ view' = view
    BY Zenon, <1>7, <1>t DEF PromoteNewBackup
  <2> QED BY Zenon, <2>1, <1>k DEF InPlace
<1>8. CASE ProcessCrash \/ PowerLoss \/ ScanPanics
  BY Zenon, <1>8 DEF ProcessCrash, PowerLoss, ScanPanics, LogBelowCursor, InPlace
<1>9. CASE Open
  <2>1. pc' = "scan" /\ cursor' = 0 /\ view' = <<>>
    BY Zenon, <1>9 DEF Open
  <2>2. Len(view') = cursor' /\ \A s \in Slot : ~(s < cursor')
    BY <2>1, <1>t DEF Slot
  <2> QED BY Zenon, <2>1, <2>2 DEF LogBelowCursor, InPlace, Slot
<1>10. CASE ScanFrame
  <2>1. /\ cache' = cache /\ view' = Append(view, cache[Primary][cursor])
        /\ cursor' = cursor + 1 /\ pc = "scan" /\ pc' = "scan"
        /\ cache[Primary][cursor] \in Op /\ Len(view) = cursor
    BY Zenon, <1>10 DEF ScanFrame, disks, LogBelowCursor
  <2>2. /\ Len(view') = cursor' /\ view'[cursor + 1] = cache[Primary][cursor]
        /\ \A i \in 1 .. cursor : view'[i] = view[i]
    BY <2>1, <1>t
  <2>3. ASSUME NEW s \in Slot, s < cursor'
        PROVE  cache[Primary][s] \in Op /\ view'[s + 1] = cache[Primary][s]
    <3>1. s \in Nat /\ (s = cursor \/ s < cursor)
      BY <2>1, <2>3, <1>t DEF Slot
    <3>2. CASE s < cursor
      <4>1. s + 1 \in 1 .. cursor
        BY <3>1, <3>2, <1>t
      <4> QED BY Zenon, <4>1, <3>2, <2>1, <2>2 DEF LogBelowCursor
    <3> QED BY Zenon, <3>1, <3>2, <2>1, <2>2
  <2> QED BY Zenon, <2>1, <2>2, <2>3 DEF LogBelowCursor, InPlace, Slot, Op
<1>11. CASE ScanEnd \/ ScanReadError
  BY Zenon, <1>11, <1>k DEF ScanEnd, ScanReadError, InPlace, disks
<1>12. CASE UNCHANGED vars
  BY Zenon, <1>12 DEF vars, disks, LogBelowCursor, InPlace
<1> QED BY Zenon, <1>1, <1>2, <1>3, <1>4, <1>5, <1>6, <1>7, <1>8, <1>9, <1>10, <1>11,
           <1>12 DEF Next

LEMMA InitLogInv == Init => LogInv
<1> SUFFICES ASSUME Init PROVE LogInv
  BY Zenon
<1>1. TypeInv
  BY Zenon, InitTypeInv
<1>2. \A s \in Slot : Held(s) = {Empty} /\ s >= 0 /\ s \in Nat
  BY PrimaryIsDisk, BoundAssumption DEF Init, Held, Slot
<1>3. Empty \notin Op
  BY DEF Empty, Op
<1>4. LogBelowCursor /\ InPlace
  BY <1>2 DEF Init, LogBelowCursor, InPlace
<1> QED BY Zenon, <1>1, <1>2, <1>3, <1>4 DEF LogInv, OncePerSlot, OnlyIssued

LEMMA LogInvHolds == Spec => []LogInv
<1>1. LogInv /\ [Next]_vars => LogInv'
  BY Zenon, TypeStep, ViewStep, OnceStep DEF LogInv
<1> QED BY InitLogInv, <1>1, PTL DEF Spec

-----------------------------------------------------------------------------
(* No operation is twice in a view.                                         *)
LEMMA ViewOnce == LogInv /\ pc # "down" => Log!OncePerOp(view)
<1> SUFFICES ASSUME LogInv, pc # "down",
                    NEW i \in 1 .. Len(view), NEW j \in 1 .. Len(view), view[i] = view[j]
             PROVE  i = j
  BY Zenon DEF Log!OncePerOp
<1>1. Len(view) = cursor /\ cursor \in 0 .. MaxSlots /\ MaxSlots \in Nat
  BY Zenon, BoundAssumption DEF LogInv, LogBelowCursor, TypeInv, TypeOK
<1>2. /\ i - 1 \in Slot /\ i - 1 < cursor /\ (i - 1) + 1 = i
      /\ j - 1 \in Slot /\ j - 1 < cursor /\ (j - 1) + 1 = j
  BY <1>1 DEF Slot
<1>3. /\ cache[Primary][i - 1] \in Op /\ view[i] = cache[Primary][i - 1]
      /\ view[j] = cache[Primary][j - 1]
  BY Zenon, <1>2 DEF LogInv, LogBelowCursor
<1>4. view[i] \in Op /\ view[i] \in Held(i - 1) /\ view[i] \in Held(j - 1)
  <2>1. view[i] \in Op /\ view[i] = cache[Primary][i - 1] /\ view[i] = cache[Primary][j - 1]
    BY Zenon, <1>3
  <2> QED BY Zenon, <2>1 DEF Held
<1>5. i - 1 = j - 1
  BY Zenon, <1>2, <1>4 DEF LogInv, OncePerSlot
<1> QED BY Zenon, <1>2, <1>5

LEMMA ViewOnceNext == (LogInv /\ pc # "down" => Log!OncePerOp(view))'
  BY ViewOnce, PTL

LEMMA InitRefines == Init => Log!Init
  BY Zenon DEF Init, Log!Init, AllRead, Running

(* An acknowledgement is a commit of the abstract log.                      *)
LEMMA AcknowledgeCommits ==
    ASSUME LogInv, LogInv', NEW members, pc \in {"p_sync", "b_write", "b_sync"},
           Acknowledge(members), readFaults' = readFaults
    PROVE  Log!Next
<1>1. op \in Op /\ Len(view) = cursor /\ pc \in Running /\ pc' \in Running
  BY Zenon DEF LogInv, TypeInv, InFlight, LogBelowCursor, Acknowledge, Running
<1>2. Log!OncePerOp(view)'
  <2>1. LogInv' /\ pc' # "down"
    BY Zenon DEF Acknowledge
  <2> QED BY Zenon, <2>1, ViewOnceNext
<1>3. ASSUME NEW o \in Op, o = op PROVE Log!Commit(o)
  <2>1. view' = Append(view, o) /\ Log!OncePerOp(view')
    BY Zenon, <1>2, <1>3 DEF Acknowledge, Log!OncePerOp
  <2>2. {<<a.slot + 1, a.op>> : a \in acked'}
            = {<<a.slot + 1, a.op>> : a \in acked} \cup {<<Len(view) + 1, o>>}
    <3> DEFINE e == [slot |-> cursor, op |-> op, members |-> members]
    <3>1. acked' = acked \cup {e}
      BY Zenon DEF Acknowledge
    <3>2. <<e.slot + 1, e.op>> = <<Len(view) + 1, o>>
      BY Zenon, <1>1, <1>3
    <3> HIDE DEF e
    <3> QED BY ONLY Zenon, <3>1, <3>2
  <2>3. AllRead' = AllRead
    BY Zenon DEF AllRead
  <2> QED BY Zenon, <1>1, <2>1, <2>2, <2>3 DEF Log!Commit
<1>4. \E o \in Op : Log!Commit(o)
  BY Zenon, <1>1, <1>3
<1> QED BY Zenon, <1>4 DEF Log!Next

(* The end of a scan that read everything keeps what was acknowledged.      *)
LEMMA RecoveryKeeps ==
    TypeInv /\ AckedVisible /\ AllRead /\ pc \in Running
        => Log!Keeps(view, {<<a.slot + 1, a.op>> : a \in acked})
<1> SUFFICES ASSUME TypeInv, AckedVisible, AllRead, pc \in Running,
                    NEW a \in acked, a.slot + 1 <= WalCapacity
             PROVE  a.slot + 1 <= Len(view) /\ view[a.slot + 1] = a.op
  BY DEF Log!Keeps
<1>1. a.slot \in Nat /\ WalCapacity \in Nat /\ Len(view) \in Nat
  BY BoundAssumption DEF TypeInv, TypeOK, Slot
<1>2. InWal(a)
  BY <1>1 DEF InWal
<1>3. a.slot < Len(view) /\ view[a.slot + 1] = a.op
  BY Zenon, <1>2 DEF AckedVisible
<1> QED BY <1>1, <1>3

LEMMA RecoveryKeepsNext ==
    (TypeInv /\ AckedVisible /\ AllRead /\ pc \in Running
        => Log!Keeps(view, {<<a.slot + 1, a.op>> : a \in acked}))'
  BY RecoveryKeeps, PTL

(* Every step of MetaWal is one of DurableLog or invisible there.           *)
LEMMA StepRefines ==
    ASSUME LogInv, LogInv', TypeInv', AckedVisible', [Next]_vars
    PROVE  [Log!Next]_(Log!vars)
<1>s. ASSUME pc' \in Running <=> pc \in Running, pc \in Running => view' = view,
             acked' = acked, readFaults' = readFaults
      PROVE  UNCHANGED Log!vars
  BY <1>s DEF Log!vars, AllRead
<1>t. pc \in PCs
  BY Zenon DEF LogInv, TypeInv, TypeOK
<1>1. CASE PrimaryWrite \/ PrimaryWriteFails \/ PrimarySyncFails \/ BackupWrite
           \/ \E d \in Disk : PromoteNewBackup(d)
  BY Zenon, <1>1, <1>s DEF PrimaryWrite, PrimaryWriteFails, PrimarySyncFails,
     BackupWrite, PromoteNewBackup, Fault, Running, history, bounds
<1>2. CASE PrimarySync
  <2>1. CASE pc' = "b_write" /\ UNCHANGED <<op, cursor, view, history>>
    BY Zenon, <1>2, <2>1, <1>s DEF PrimarySync, Running, history, bounds
  <2>2. CASE Acknowledge({Primary})
    BY <1>2, <2>2, AcknowledgeCommits DEF PrimarySync, bounds
  <2> QED BY Zenon, <1>2, <2>1, <2>2 DEF PrimarySync
<1>3. CASE BackupWriteFails \/ BackupSyncFails
  BY <1>3, AcknowledgeCommits DEF BackupWriteFails, BackupSyncFails, Fault
<1>4. CASE BackupSync
  <2>1. pc = "b_sync" /\ \E m : Acknowledge(m)
    BY Zenon, <1>4 DEF BackupSync
  <2>2. readFaults' = readFaults
    BY Zenon, <1>4 DEF BackupSync, bounds
  <2> QED BY <2>1, <2>2, AcknowledgeCommits
<1>5. CASE ProcessCrash \/ PowerLoss
  <2>1. pc' = "down" /\ acked' = acked /\ readFaults' = readFaults
    BY Zenon, <1>5 DEF ProcessCrash, PowerLoss, history
  <2>2. CASE pc \in Running
    BY <2>1, <2>2 DEF Log!Next, Log!Crash, Running, AllRead
  <2>3. CASE pc \notin Running
    BY Zenon, <2>1, <2>3, <1>s DEF Running
  <2> QED BY Zenon, <2>2, <2>3
<1>6. CASE Open \/ ScanFrame \/ ScanPanics
  BY Zenon, <1>6, <1>s DEF Open, ScanFrame, ScanPanics, Running, history, bounds
<1>7. CASE ScanEnd \/ ScanReadError
  <2>1. /\ pc = "scan" /\ pc' = "idle" /\ view' = view /\ acked' = acked
        /\ view \in Seq(Op)
    BY Zenon, <1>7 DEF ScanEnd, ScanReadError, history, LogInv, TypeInv, TypeOK
  <2>2. Log!OncePerOp(view')
    BY Zenon, <2>1, ViewOnce DEF Log!OncePerOp
  <2>3. AllRead' => AllRead /\ Log!Keeps(view', {<<a.slot + 1, a.op>> : a \in acked})
    <3>1. AllRead' => AllRead
      BY <1>7 DEF ScanEnd, ScanReadError, bounds, AllRead, LogInv, TypeInv, TypeOK
    <3>2. (pc \in Running)'
      BY Zenon, <2>1 DEF Running
    <3>3. AllRead' => Log!Keeps(view, {<<a.slot + 1, a.op>> : a \in acked})'
      BY Zenon, <3>2, RecoveryKeepsNext
    <3> QED BY Zenon, <2>1, <3>1, <3>3 DEF Log!Keeps
  <2> QED BY Zenon, <2>1, <2>2, <2>3 DEF Log!Next, Log!Recover, Running, AllRead
<1>8. CASE UNCHANGED vars
  BY Zenon, <1>8, <1>s DEF vars, history, bounds
<1> QED BY Zenon, <1>1, <1>2, <1>3, <1>4, <1>5, <1>6, <1>7, <1>8 DEF Next

(* MetaStore implements the abstract log, for any disks, any bounds and     *)
(* failing disk calls: an operation that apply acknowledged keeps its       *)
(* position through every crash and restart until a read of a recovery scan *)
(* fails, and no operation is ever in the view twice.                       *)
THEOREM Refinement == Spec => RefinesDurableLog
<1>1. LogInv /\ LogInv' /\ AckedVisible' /\ [Next]_vars => [Log!Next]_(Log!vars)
  BY Zenon, StepRefines DEF LogInv
<1>2. Spec => Init /\ [][Next]_vars
  BY Zenon DEF Spec
<1> QED BY InitRefines, LogInvHolds, Recovery, <1>1, <1>2, PTL DEF RefinesDurableLog, Log!Spec

-----------------------------------------------------------------------------
(* Within the life of a process: what reads show is durable, and each disk  *)
(* of the group alone is enough.  Both end with a kill, which leaves        *)
(* unsynced frames in the page cache for the next open to replay, and a     *)
(* member of the group one frame behind.                                    *)

(* Until a process is killed, the primary's log is synced up to the cursor, *)
(* through the cursor once commit has synced it, and all of it after a      *)
(* power loss.                                                              *)
Clean(s) == cache[Primary][s] = stable[Primary][s]

SyncedBelow ==
    kills = 0 =>
        /\ pc \in {"down", "scan"} => \A s \in Slot : Clean(s)
        /\ pc \in Running => \A s \in Slot : s < cursor => Clean(s)
        /\ pc \in {"b_write", "b_sync"} => \A s \in Slot : s <= cursor => Clean(s)

LEMMA SyncedStep ==
    ASSUME TypeInv, TypeInv', SyncedBelow, [Next]_vars
    PROVE  SyncedBelow'
<1> SUFFICES ASSUME kills' = 0 PROVE SyncedBelow'
  BY Zenon DEF SyncedBelow
<1>t. /\ cache \in [Disk -> [Slot -> Content]] /\ stable \in [Disk -> [Slot -> Content]]
      /\ Primary \in Disk /\ cursor \in 0 .. MaxSlots /\ MaxSlots \in Nat
      /\ pc \in PCs /\ kills \in Nat /\ Slot \subseteq Int
  BY PrimaryIsDisk, BoundAssumption DEF TypeInv, TypeOK, Slot
<1>0. kills = 0
  <2>1. CASE ProcessCrash
    BY <2>1, <1>t DEF ProcessCrash
  <2>2. CASE PrimaryWrite \/ PrimaryWriteFails \/ PrimarySync \/ PrimarySyncFails
    BY Zenon, <2>2 DEF PrimaryWrite, PrimaryWriteFails, PrimarySync, PrimarySyncFails,
       Fault, bounds
  <2>3. CASE BackupWrite \/ BackupWriteFails \/ BackupSync \/ BackupSyncFails
    BY Zenon, <2>3 DEF BackupWrite, BackupWriteFails, BackupSync, BackupSyncFails,
       Fault, bounds
  <2>4. CASE (\E d \in Disk : PromoteNewBackup(d)) \/ PowerLoss
    BY Zenon, <2>4 DEF PromoteNewBackup, PowerLoss
  <2>5. CASE \/ Open \/ ScanFrame \/ ScanEnd \/ ScanReadError \/ ScanPanics
             \/ UNCHANGED vars
    BY Zenon, <2>5 DEF Open, ScanFrame, ScanEnd, ScanReadError, ScanPanics, bounds, vars
  <2> QED BY Zenon, <2>1, <2>2, <2>3, <2>4, <2>5 DEF Next
<1>k. ASSUME cache'[Primary] = cache[Primary], stable'[Primary] = stable[Primary],
             NEW s \in Slot
      PROVE  Clean(s)' <=> Clean(s)
  BY Zenon, <1>k DEF Clean
<1>1. CASE PrimaryWrite \/ PrimaryWriteFails
  <2>1. /\ cursor' = cursor /\ pc = "idle" /\ pc' \in {"idle", "p_sync"} /\ stable' = stable
        /\ \E c : cache' = Put(cache, Primary, cursor, c)
    BY Zenon, <1>1 DEF PrimaryWrite, PrimaryWriteFails
  <2>2. \A s \in Slot : s # cursor => cache'[Primary][s] = cache[Primary][s]
    BY <2>1, <1>t DEF Put
  <2>3. \A s \in Slot : s < cursor => Clean(s)
    BY Zenon, <2>1, <1>0 DEF SyncedBelow, Running
  <2>4. ASSUME NEW s \in Slot, s < cursor PROVE Clean(s)'
    <3>1. s # cursor /\ Clean(s)
      BY <2>3, <2>4, <1>t
    <3>2. cache'[Primary][s] = cache[Primary][s] /\ stable' = stable
      BY Zenon, <2>1, <2>2, <3>1
    <3> QED BY ONLY Zenon, <3>1, <3>2 DEF Clean
  <2> QED BY Zenon, <2>1, <2>4 DEF SyncedBelow, Slot, Running
<1>2. CASE PrimarySync
  <2>1. \A s \in Slot : Clean(s)'
    <3>1. cache' = cache /\ stable' = [stable EXCEPT ![Primary] = cache[Primary]]
      BY Zenon, <1>2 DEF PrimarySync
    <3> QED BY Zenon, <3>1, <1>t DEF Clean
  <2> QED BY Zenon, <2>1 DEF SyncedBelow, Slot
<1>3. CASE BackupWrite \/ BackupWriteFails \/ BackupSync \/ BackupSyncFails
  <2>1. backup \in Disk /\ backup # Primary /\ pc \in {"b_write", "b_sync"}
    BY Zenon, <1>3 DEF BackupWrite, BackupWriteFails, BackupSync, BackupSyncFails, InFlight, TypeInv, TypeOK
  <2>2. cache'[Primary] = cache[Primary] /\ stable'[Primary] = stable[Primary]
    BY Zenon, <1>3, <2>1, <1>t DEF BackupWrite, BackupWriteFails, BackupSync,
       BackupSyncFails, Put, disks
  <2>3. \A s \in Slot : s <= cursor => Clean(s)'
    BY Zenon, <2>1, <2>2, <1>0, <1>k DEF SyncedBelow
  <2>4. \/ pc' = "b_sync" /\ cursor' = cursor
        \/ pc' = "idle" /\ cursor' = cursor + 1
    BY Zenon, <1>3 DEF BackupWrite, BackupWriteFails, BackupSync, BackupSyncFails,
       Acknowledge
  <2>5. CASE pc' = "b_sync" /\ cursor' = cursor
    BY <2>3, <2>5, <1>t DEF SyncedBelow, Slot
  <2>6. CASE pc' = "idle" /\ cursor' = cursor + 1
    <3>1. \A s \in Slot : s < cursor + 1 => s <= cursor
      BY <1>t
    <3>2. \A s \in Slot : s < cursor' => Clean(s)'
      BY Zenon, <2>3, <2>6, <3>1
    <3> QED BY Zenon, <2>6, <3>2 DEF SyncedBelow, Slot, Running
  <2> QED BY Zenon, <2>4, <2>5, <2>6
<1>9. CASE PrimarySyncFails
  <2>1. /\ cache' = cache /\ pc \in Running /\ pc' = "idle" /\ cursor' = cursor
        /\ \A s \in Slot : stable'[Primary][s] \in {stable[Primary][s], cache[Primary][s]}
    BY Zenon, <1>9, SyncFailsFacts DEF PrimarySyncFails, Running, TypeInv
  <2>2. \A s \in Slot : s < cursor => Clean(s)'
    BY Zenon, <2>1, <1>0 DEF SyncedBelow, Clean
  <2> QED BY Zenon, <2>1, <2>2 DEF SyncedBelow, Slot, Running
<1>4. CASE \E d \in Disk : PromoteNewBackup(d)
  <2>1. /\ cache'[Primary] = cache[Primary] /\ stable'[Primary] = stable[Primary]
        /\ pc \in Running /\ pc' = "idle" /\ cursor' = cursor
    BY Zenon, <1>4, <1>t DEF PromoteNewBackup, disks, Running
  <2>2. \A s \in Slot : s < cursor => Clean(s)'
    BY Zenon, <2>1, <1>0, <1>k DEF SyncedBelow
  <2> QED BY Zenon, <2>1, <2>2 DEF SyncedBelow, Slot, Running
<1>5. CASE ProcessCrash
  BY <1>5, <1>0 DEF ProcessCrash
<1>6. CASE PowerLoss
  BY Zenon, <1>6 DEF PowerLoss, SyncedBelow, Clean, Slot, Running
<1>7. CASE Open \/ ScanFrame \/ ScanEnd \/ ScanReadError \/ ScanPanics
  <2>1. cache' = cache /\ stable' = stable /\ pc \in {"down", "scan"}
        /\ pc' \in {"down", "scan", "idle"}
    BY Zenon, <1>7 DEF Open, ScanFrame, ScanEnd, ScanReadError, ScanPanics, disks
  <2>2. \A s \in Slot : Clean(s)'
    BY Zenon, <2>1, <1>0, <1>k DEF SyncedBelow
  <2> QED BY Zenon, <2>1, <2>2 DEF SyncedBelow, Slot
<1>8. CASE UNCHANGED vars
  BY Zenon, <1>8 DEF vars, disks, bounds, SyncedBelow, Clean, Slot
<1> QED BY Zenon, <1>1, <1>2, <1>3, <1>4, <1>5, <1>6, <1>7, <1>8, <1>9 DEF Next

(* "An op is never visible to reads until it's durable" (store.rs): until a *)
(* process is killed, with power losses and failing disk calls, each        *)
(* operation of the view is on the primary for good.                        *)
THEOREM Visibility == Spec => []VisibleIsDurable
<1>1. Init => SyncedBelow
  BY Zenon, PrimaryIsDisk DEF Init, SyncedBelow, Clean, Running
<1>2. TypeInv /\ TypeInv' /\ SyncedBelow /\ [Next]_vars => SyncedBelow'
  BY Zenon, SyncedStep
<1>3. LogInv => TypeInv
  BY Zenon DEF LogInv
<1>4. LogInv /\ SyncedBelow => VisibleIsDurable
  BY Zenon DEF LogInv, LogBelowCursor, SyncedBelow, Clean, VisibleIsDurable, Running
<1> QED BY LogInvHolds, <1>1, <1>2, <1>3, <1>4, PTL DEF Spec

-----------------------------------------------------------------------------
(* Nothing lies behind the slot at the cursor, nor between the frames of a  *)
(* store that is down, until a read of the scan fails or kills and power    *)
(* losses both happen.  Until the first kill a power loss brings nothing    *)
(* back either.                                                             *)
InOrder == AllRead /\ (kills = 0 \/ losses = 0)

Bare(s) == cache[Primary][s] \notin Op /\ (kills = 0 => stable[Primary][s] \notin Op)

NothingBehind == \A s \in Slot : cursor < s /\ s < WalCapacity => Bare(s)

NoGap ==
    \A s, t \in Slot :
        s < t /\ t < WalCapacity /\ cache[Primary][t] \in Op => cache[Primary][s] \in Op

TailInv ==
    InOrder => /\ pc \in Running => NothingBehind
               /\ pc \in {"scan", "down"} => NoGap

LEMMA InOrderStep ==
    ASSUME TypeInv, [Next]_vars, InOrder'
    PROVE  InOrder /\ kills' \in {kills, kills + 1} /\ (kills' = 0 => kills = 0)
<1>1. kills \in Nat /\ losses \in Nat /\ readFaults \in Nat
  BY BoundAssumption DEF TypeInv, TypeOK
<1>2. CASE ProcessCrash
  BY <1>1, <1>2 DEF ProcessCrash, InOrder, AllRead
<1>3. CASE PowerLoss
  BY <1>1, <1>3 DEF PowerLoss, InOrder, AllRead
<1>4. CASE ScanReadError
  BY <1>1, <1>4 DEF ScanReadError, InOrder, AllRead
<1>5. ASSUME kills' = kills, losses' = losses, readFaults' = readFaults
      PROVE  InOrder /\ kills' \in {kills, kills + 1} /\ (kills' = 0 => kills = 0)
  BY Zenon, <1>5 DEF InOrder, AllRead
<1>6. CASE PrimaryWrite \/ PrimaryWriteFails \/ PrimarySync \/ PrimarySyncFails
  BY Zenon, <1>5, <1>6 DEF PrimaryWrite, PrimaryWriteFails, PrimarySync, PrimarySyncFails,
     Fault, bounds
<1>7. CASE BackupWrite \/ BackupWriteFails \/ BackupSync \/ BackupSyncFails
  BY Zenon, <1>5, <1>7 DEF BackupWrite, BackupWriteFails, BackupSync, BackupSyncFails,
     Fault, bounds
<1>8. CASE \/ \E d \in Disk : PromoteNewBackup(d)
           \/ Open \/ ScanFrame \/ ScanEnd \/ ScanPanics \/ UNCHANGED vars
  BY Zenon, <1>5, <1>8 DEF PromoteNewBackup, Open, ScanFrame, ScanEnd, ScanPanics, vars,
     bounds
<1> QED BY Zenon, <1>2, <1>3, <1>4, <1>6, <1>7, <1>8 DEF Next

(* A running process writes at the cursor only.                             *)
LEMMA BehindStays ==
    ASSUME TypeInv, Next, pc \in Running, pc' \in Running
    PROVE  /\ cursor' \in {cursor, cursor + 1}
           /\ \A s \in Slot : s # cursor =>
                 /\ cache'[Primary][s] = cache[Primary][s]
                 /\ stable'[Primary][s] \in {stable[Primary][s], cache[Primary][s]}
<1>t. /\ cache \in [Disk -> [Slot -> Content]] /\ stable \in [Disk -> [Slot -> Content]]
      /\ Primary \in Disk
  BY Zenon, PrimaryIsDisk DEF TypeInv, TypeOK
<1>1. CASE PrimaryWrite \/ PrimaryWriteFails
  <2>1. /\ cursor' = cursor /\ stable' = stable
        /\ \E c : cache' = Put(cache, Primary, cursor, c)
    BY Zenon, <1>1 DEF PrimaryWrite, PrimaryWriteFails
  <2> QED BY Zenon, <2>1, <1>t DEF Put
<1>2. CASE PrimarySync
  <2>1. /\ cursor' \in {cursor, cursor + 1} /\ cache' = cache
        /\ stable' = [stable EXCEPT ![Primary] = cache[Primary]]
    BY Zenon, <1>2 DEF PrimarySync, Acknowledge
  <2> QED BY Zenon, <2>1, <1>t
<1>3. CASE PrimarySyncFails
  BY Zenon, <1>3, SyncFailsFacts DEF PrimarySyncFails, TypeInv
<1>4. CASE BackupWrite \/ BackupWriteFails \/ BackupSync \/ BackupSyncFails
  <2>1. backup \in Disk /\ backup # Primary
    BY Zenon, <1>4 DEF BackupWrite, BackupWriteFails, BackupSync, BackupSyncFails, InFlight,
       TypeInv, TypeOK
  <2>2. cache'[Primary] = cache[Primary] /\ stable'[Primary] = stable[Primary]
    BY Zenon, <1>4, <2>1, <1>t DEF BackupWrite, BackupWriteFails, BackupSync,
       BackupSyncFails, Put, disks
  <2>3. cursor' \in {cursor, cursor + 1}
    BY Zenon, <1>4 DEF BackupWrite, BackupWriteFails, BackupSync, BackupSyncFails,
       Acknowledge
  <2> QED BY Zenon, <2>2, <2>3
<1>5. CASE \E d \in Disk : PromoteNewBackup(d)
  <2>1. /\ cache'[Primary] = cache[Primary] /\ stable'[Primary] = stable[Primary]
        /\ cursor' = cursor
    BY Zenon, <1>5, <1>t DEF PromoteNewBackup
  <2> QED BY Zenon, <2>1
<1>6. CASE ProcessCrash \/ PowerLoss \/ Open \/ ScanFrame \/ ScanEnd \/ ScanReadError \/ ScanPanics
  BY Zenon, <1>6 DEF ProcessCrash, PowerLoss, Open, ScanFrame, ScanEnd, ScanReadError,
     ScanPanics, Running
<1> QED BY Zenon, <1>1, <1>2, <1>3, <1>4, <1>5, <1>6 DEF Next

(* What the primary holds after a power loss was there before.              *)
LEMMA LossKeeps ==
    ASSUME TypeInv, PowerLoss, NEW s \in Slot
    PROVE  /\ cache'[Primary][s] \in {stable[Primary][s], cache[Primary][s], Torn, Stub}
           /\ Clean(s) => cache'[Primary][s] = cache[Primary][s]
<1>1. PICK lost \in SUBSET Unsynced, torn \in SUBSET Unsynced, part \in {Torn, Stub} :
        stable' = [d \in Disk |-> [t \in Slot |->
                      IF <<d, t>> \in torn /\ part \in Partial(stable[d][t]) THEN part
                      ELSE IF <<d, t>> \in lost THEN stable[d][t]
                      ELSE cache[d][t]]]
  BY Zenon DEF PowerLoss
<1>2. cache' = stable' /\ Primary \in Disk
  BY Zenon, PrimaryIsDisk DEF PowerLoss
<1>3. cache'[Primary][s] = IF <<Primary, s>> \in torn /\ part \in Partial(stable[Primary][s])
                           THEN part
                           ELSE IF <<Primary, s>> \in lost THEN stable[Primary][s]
                           ELSE cache[Primary][s]
  BY Zenon, <1>1, <1>2
<1>4. Clean(s) => <<Primary, s>> \notin torn
  BY SMT DEF Clean, Unsynced
<1>5. Clean(s) => cache[Primary][s] = stable[Primary][s]
  BY Zenon DEF Clean
<1> QED BY Zenon, <1>3, <1>4, <1>5

LEMMA TailStep ==
    ASSUME LogInv, SyncedBelow, TailInv, [Next]_vars
    PROVE  TailInv'
<1> SUFFICES ASSUME InOrder' PROVE TailInv'
  BY Zenon DEF TailInv
<1>o. InOrder /\ kills' \in {kills, kills + 1} /\ (kills' = 0 => kills = 0)
  BY Zenon, InOrderStep DEF LogInv
<1>t. /\ cursor \in Int /\ Slot \subseteq Int /\ WalCapacity \in Int
      /\ cursor \in 0 .. MaxSlots /\ MaxSlots \in Nat /\ Slot = 0 .. MaxSlots - 1
  BY BoundAssumption DEF LogInv, TypeInv, TypeOK, Slot
<1>p. pc \in Running \cup {"scan", "down"}
  BY Zenon DEF LogInv, TypeInv, TypeOK, PCs
<1>v. \A s \in Slot : pc # "down" /\ s < cursor => cache[Primary][s] \in Op
  BY Zenon DEF LogInv, LogBelowCursor
<1>r. pc \in Running => pc # "down" /\ NothingBehind
  BY Zenon, <1>o DEF TailInv, Running
<1>s. pc \in {"scan", "down"} => NoGap
  BY Zenon, <1>o DEF TailInv
<1>x. {"scan", "down"} \cap Running = {}
  BY Zenon DEF Running
<1>g. ASSUME pc' \in {"scan", "down"}, NoGap' PROVE TailInv'
  BY Zenon, <1>g, <1>x DEF TailInv
<1>1. CASE Next /\ pc \in Running /\ pc' \in Running
  <2>1. /\ cursor' \in {cursor, cursor + 1}
        /\ \A s \in Slot : s # cursor =>
              /\ cache'[Primary][s] = cache[Primary][s]
              /\ stable'[Primary][s] \in {stable[Primary][s], cache[Primary][s]}
    BY Zenon, <1>1, BehindStays DEF LogInv
  <2>2. ASSUME NEW s \in Slot, cursor' < s, s < WalCapacity PROVE Bare(s)'
    <3>1. cursor < s /\ s # cursor
      BY <2>1, <2>2, <1>t
    <3>2. Bare(s)
      BY Zenon, <3>1, <2>2, <1>1, <1>r DEF NothingBehind
    <3> QED BY Zenon, <2>1, <3>1, <3>2, <1>o DEF Bare, Op
  <2> QED BY Zenon, <2>2, <1>1, <1>x DEF TailInv, NothingBehind, Slot
<1>2. CASE ProcessCrash
  <2>1. cache' = cache /\ pc' = "down"
    BY Zenon, <1>2 DEF ProcessCrash, disks
  <2>2. ASSUME NEW s \in Slot, NEW t \in Slot, s < t, t < WalCapacity, cache[Primary][t] \in Op
        PROVE  cache[Primary][s] \in Op
    <3>1. CASE pc \in Running
      <4>1. ~(cursor < t)
        BY Zenon, <3>1, <2>2, <1>r DEF NothingBehind, Bare
      <4>2. s < cursor
        BY <4>1, <2>2, <1>t
      <4> QED BY Zenon, <4>2, <3>1, <1>r, <1>v
    <3>2. CASE pc \in {"scan", "down"}
      BY Zenon, <3>2, <2>2, <1>s DEF NoGap
    <3> QED BY Zenon, <3>1, <3>2, <1>p
  <2> QED BY Zenon, <2>1, <2>2, <1>g DEF NoGap, Slot, Op
<1>3. CASE PowerLoss
  <2>0. kills = 0 /\ pc' = "down"
    <3>1. losses' = losses + 1 /\ kills' = kills
      BY Zenon, <1>3 DEF PowerLoss
    <3>2. losses \in Nat
      BY BoundAssumption DEF LogInv, TypeInv, TypeOK
    <3>3. losses' # 0
      BY <3>1, <3>2
    <3> QED BY Zenon, <3>1, <3>3, <1>3 DEF InOrder, PowerLoss
  <2>1. \A s \in Slot :
          /\ cache'[Primary][s] \in {stable[Primary][s], cache[Primary][s], Torn, Stub}
          /\ Clean(s) => cache'[Primary][s] = cache[Primary][s]
    BY Zenon, <1>3, LossKeeps DEF LogInv
  <2>2. Torn \notin Op /\ Stub \notin Op
    BY DEF Torn, Stub, Op
  <2>3. ASSUME NEW s \in Slot, NEW t \in Slot, s < t, t < WalCapacity, cache'[Primary][t] \in Op
        PROVE  cache'[Primary][s] \in Op
    <3>0. stable[Primary][t] \in Op \/ cache[Primary][t] \in Op
      BY Zenon, <2>1, <2>2, <2>3
    <3>1. CASE pc \in Running
      <4>1. ~(cursor < t)
        BY Zenon, <3>0, <3>1, <2>0, <2>3, <1>r DEF NothingBehind, Bare
      <4>2. s < cursor
        BY <4>1, <2>3, <1>t
      <4>3. Clean(s) /\ cache[Primary][s] \in Op
        BY Zenon, <4>2, <3>1, <2>0, <1>r, <1>v DEF SyncedBelow
      <4> QED BY Zenon, <4>3, <2>1
    <3>2. CASE pc \in {"scan", "down"}
      <4>1. Clean(s) /\ Clean(t)
        BY Zenon, <3>2, <2>0 DEF SyncedBelow
      <4>2. cache[Primary][s] \in Op
        BY Zenon, <4>1, <3>0, <3>2, <2>3, <1>s DEF NoGap, Clean
      <4> QED BY Zenon, <4>1, <4>2, <2>1
    <3> QED BY Zenon, <3>1, <3>2, <1>p
  <2> QED BY Zenon, <2>0, <2>3, <1>g DEF NoGap, Slot, Op
<1>4. CASE Open \/ ScanFrame \/ ScanPanics
  <2>1. pc \in {"scan", "down"} /\ pc' \in {"scan", "down"} /\ cache' = cache
    BY Zenon, <1>4 DEF Open, ScanFrame, ScanPanics, disks
  <2> QED BY Zenon, <2>1, <1>s, <1>g DEF NoGap, Slot, Op
<1>5. CASE ScanEnd \/ ScanReadError
  <2>0. ScanEnd
    <3>1. ~ScanReadError
      <4>1. readFaults \in Nat /\ readFaults' = 0
        BY BoundAssumption DEF LogInv, TypeInv, TypeOK, InOrder, AllRead
      <4> QED BY <4>1 DEF ScanReadError
    <3> QED BY Zenon, <3>1, <1>5
  <2>1. /\ pc = "scan" /\ pc' = "idle" /\ cursor' = cursor /\ cache' = cache /\ stable' = stable
        /\ \/ cursor >= WalCapacity
           \/ cursor >= MaxSlots
           \/ cursor \in Slot /\ cache[Primary][cursor] \notin Op \cup {Stub}
    BY Zenon, <2>0 DEF ScanEnd, disks
  <2>2. ASSUME NEW s \in Slot, cursor < s, s < WalCapacity PROVE Bare(s)
    <3>1. cursor \in Slot /\ cache[Primary][cursor] \notin Op
      <4>1. ~(cursor >= WalCapacity) /\ ~(cursor >= MaxSlots)
        BY <2>2, <1>t
      <4> QED BY Zenon, <2>1, <4>1
    <3>2. cache[Primary][s] \notin Op
      BY Zenon, <3>1, <2>1, <2>2, <1>s DEF NoGap
    <3>3. kills = 0 => Clean(s)
      BY Zenon, <2>1 DEF SyncedBelow
    <3> QED BY Zenon, <3>2, <3>3 DEF Bare, Clean
  <2>3. NothingBehind'
    BY Zenon, <2>1, <2>2, <1>o DEF NothingBehind, Bare, Slot, Op
  <2> QED BY Zenon, <2>1, <2>3 DEF TailInv
<1>6. CASE UNCHANGED vars
  <2>1. cache' = cache /\ stable' = stable /\ cursor' = cursor /\ pc' = pc
    BY Zenon, <1>6 DEF vars, disks
  <2> QED BY Zenon, <2>1, <1>o, <1>r, <1>s DEF TailInv, NothingBehind, NoGap, Bare, Slot, Op
<1>7. CASE \/ PrimaryWrite \/ PrimaryWriteFails \/ PrimarySync \/ PrimarySyncFails
           \/ BackupWrite \/ BackupWriteFails \/ BackupSync \/ BackupSyncFails
           \/ \E d \in Disk : PromoteNewBackup(d)
  <2>1. pc \in Running /\ pc' \in Running
    BY Zenon, <1>7 DEF PrimaryWrite, PrimaryWriteFails, PrimarySync, PrimarySyncFails,
       BackupWrite, BackupWriteFails, BackupSync, BackupSyncFails, PromoteNewBackup,
       Acknowledge, Running
  <2>2. Next
    BY Zenon, <1>7 DEF Next
  <2> QED BY Zenon, <2>1, <2>2, <1>1
<1> QED BY Zenon, <1>2, <1>3, <1>4, <1>5, <1>6, <1>7 DEF Next

LEMMA TailSuffices == LogInv /\ TailInv => RestartReplaysView
<1> SUFFICES ASSUME LogInv, TailInv, pc \in Running
             PROVE  /\ \A s \in Slot : s < cursor /\ s < WalCapacity =>
                          /\ Replayed(s)
                          /\ s < Len(view)
                          /\ view[s + 1] = cache[Primary][s]
                    /\ InOrder => \A s \in Slot : Replayed(s) => s <= cursor
  BY Zenon DEF RestartReplaysView, InOrder
<1>t. /\ cursor \in Int /\ Slot \subseteq Int /\ Slot = 0 .. MaxSlots - 1 /\ MaxSlots \in Nat
  BY BoundAssumption DEF LogInv, TypeInv, TypeOK, Slot
<1>l. /\ Len(view) = cursor
      /\ \A s \in Slot : s < cursor =>
            cache[Primary][s] \in Op /\ view[s + 1] = cache[Primary][s]
  BY Zenon DEF LogInv, LogBelowCursor, Running
<1>1. ASSUME NEW s \in Slot, s < cursor, s < WalCapacity PROVE Replayed(s)
  <2>1. \A t \in 0 .. s : t \in Slot /\ t < cursor
    BY <1>1, <1>t
  <2> QED BY Zenon, <2>1, <1>1, <1>l DEF Replayed
<1>2. ASSUME InOrder, NEW s \in Slot, Replayed(s) PROVE s <= cursor
  <2>1. s \in 0 .. s
    BY <1>t
  <2>2. s < WalCapacity /\ cache[Primary][s] \in Op
    BY Zenon, <2>1, <1>2 DEF Replayed
  <2>3. ~(cursor < s)
    BY Zenon, <2>2, <1>2 DEF TailInv, NothingBehind, Bare
  <2> QED BY <2>3, <1>t
<1> QED BY Zenon, <1>1, <1>2, <1>l

(* A restart repeats what a running store shows, as far as the region goes, *)
(* and brings at most one operation more: apply moves wal_cursor and the    *)
(* view together, and only on success, and scan leaves the cursor behind    *)
(* the last frame.                                                          *)
THEOREM RestartShowsView == Spec => []RestartReplaysView
<1>1. Init => SyncedBelow
  BY Zenon, PrimaryIsDisk DEF Init, SyncedBelow, Clean, Running
<1>2. Init => TailInv
  <2>1. Empty \notin Op
    BY DEF Empty, Op
  <2> SUFFICES ASSUME Init PROVE TailInv
    BY Zenon
  <2>2. \A s \in Slot : cache[Primary][s] = Empty /\ stable[Primary][s] = Empty
    BY Zenon, PrimaryIsDisk DEF Init
  <2> QED BY Zenon, <2>1, <2>2 DEF TailInv, NothingBehind, NoGap, Bare
<1>3. LogInv /\ LogInv' /\ SyncedBelow /\ TailInv /\ [Next]_vars => SyncedBelow' /\ TailInv'
  BY Zenon, SyncedStep, TailStep DEF LogInv
<1> QED BY LogInvHolds, TailSuffices, <1>1, <1>2, <1>3, PTL DEF Spec

-----------------------------------------------------------------------------
(* In the life of one process the backup, while there is one, repeats the   *)
(* primary up to the cursor, and what was acknowledged lies there.          *)
Quiet == kills = 0 /\ losses = 0

BackupHas(s) == cache[backup][s] = cache[Primary][s] /\ stable[backup][s] = cache[Primary][s]

AckedInLog == \A a \in acked : a.slot < cursor /\ cache[Primary][a.slot] = a.op

GroupInv ==
    Quiet =>
        /\ pc \in Running /\ backup \notin fenced
        /\ backup # NoDisk => \A s \in Slot : s < cursor => BackupHas(s)
        /\ pc = "b_sync" => cache[backup][cursor] = op
        /\ AckedInLog

LEMMA AckedStep ==
    ASSUME LogInv, AckedInLog, Next, pc \in Running, pc' \in Running
    PROVE  AckedInLog'
<1>t. /\ cache \in [Disk -> [Slot -> Content]] /\ Primary \in Disk
      /\ cursor \in 0 .. MaxSlots /\ MaxSlots \in Nat /\ Slot \subseteq Int
  BY PrimaryIsDisk, BoundAssumption DEF LogInv, TypeInv, TypeOK, Slot
<1>i. cursor \in Int /\ \A a \in acked : a.slot \in Slot /\ a.slot \in Int
  <2>1. acked \subseteq [slot : Slot, op : Op, members : SUBSET Disk]
    BY Zenon DEF LogInv, TypeInv, TypeOK
  <2>2. cursor \in Int
    BY <1>t
  <2>3. Slot \subseteq Int
    BY Zenon, <1>t
  <2> QED BY ONLY Zenon, <2>1, <2>2, <2>3
<1>k. ASSUME acked' = acked, cursor' = cursor,
             \A s \in Slot : s # cursor => cache'[Primary][s] = cache[Primary][s]
      PROVE  AckedInLog'
  <2>1. ASSUME NEW a \in acked
        PROVE  a.slot < cursor /\ cache'[Primary][a.slot] = a.op
    <3>1. a.slot \in Slot /\ a.slot \in Int /\ cursor \in Int
      BY ONLY Zenon, <1>i
    <3>2. a.slot < cursor /\ cache[Primary][a.slot] = a.op
      BY Zenon DEF AckedInLog
    <3>3. a.slot # cursor
      BY ONLY SMTT(20), <3>1, <3>2
    <3> QED BY ONLY Zenon, <3>1, <3>2, <3>3, <1>k
  <2> QED BY Zenon, <1>k, <2>1 DEF AckedInLog
<1>a. ASSUME NEW m, Acknowledge(m), pc \in {"p_sync", "b_write", "b_sync"},
             cache'[Primary] = cache[Primary]
      PROVE  AckedInLog'
  <2>1. cache[Primary][cursor] = op
    BY Zenon, <1>a DEF LogInv, InPlace
  <2>2. /\ acked' = acked \cup {[slot |-> cursor, op |-> op, members |-> m]}
        /\ cursor' = cursor + 1
    BY Zenon, <1>a DEF Acknowledge
  <2>3. ASSUME NEW a \in acked' PROVE a.slot < cursor + 1 /\ cache[Primary][a.slot] = a.op
    <3>1. CASE a \in acked
      <4>1. a.slot \in Int /\ cursor \in Int /\ a.slot < cursor /\ cache[Primary][a.slot] = a.op
        BY Zenon, <3>1, <1>i DEF AckedInLog
      <4> QED BY ONLY SMTT(20), <4>1
    <3>2. CASE a = [slot |-> cursor, op |-> op, members |-> m]
      <4>1. a.slot = cursor /\ a.op = op /\ cursor \in Int
        BY ONLY Zenon, <3>2, <1>i
      <4> QED BY ONLY SMTT(20), <4>1, <2>1
    <3> QED BY Zenon, <2>2, <2>3, <3>1, <3>2
  <2> QED BY Zenon, <2>2, <2>3, <1>a DEF AckedInLog
<1>1. CASE PrimaryWrite \/ PrimaryWriteFails
  <2>1. /\ cursor' = cursor /\ acked' = acked
        /\ \E c : cache' = Put(cache, Primary, cursor, c)
    BY Zenon, <1>1 DEF PrimaryWrite, PrimaryWriteFails
  <2>2. \A s \in Slot : s # cursor => cache'[Primary][s] = cache[Primary][s]
    BY Zenon, <2>1, <1>t DEF Put
  <2> QED BY Zenon, <2>1, <2>2, <1>k
<1>2. CASE PrimarySync
  BY Zenon, <1>2, <1>k, <1>a DEF PrimarySync, history
<1>3. CASE BackupWrite \/ BackupWriteFails \/ BackupSync \/ BackupSyncFails
  <2>1. backup \in Disk /\ backup # Primary /\ pc \in {"b_write", "b_sync"}
    BY Zenon, <1>3 DEF BackupWrite, BackupWriteFails, BackupSync, BackupSyncFails,
       InFlight, LogInv, TypeInv, TypeOK
  <2>2. cache'[Primary] = cache[Primary]
    BY Zenon, <1>3, <2>1, <1>t DEF BackupWrite, BackupWriteFails, BackupSync,
       BackupSyncFails, Put, disks
  <2>3. (acked' = acked /\ cursor' = cursor) \/ \E m : Acknowledge(m)
    BY Zenon, <1>3 DEF BackupWrite, BackupWriteFails, BackupSync, BackupSyncFails,
       history
  <2> QED BY Zenon, <2>1, <2>2, <2>3, <1>k, <1>a
<1>4. CASE PrimarySyncFails \/ \E d \in Disk : PromoteNewBackup(d)
  <2>1. cache'[Primary] = cache[Primary] /\ acked' = acked /\ cursor' = cursor
    BY Zenon, <1>4, <1>t DEF PrimarySyncFails, PromoteNewBackup, disks, history
  <2> QED BY Zenon, <2>1, <1>k
<1>5. CASE ProcessCrash \/ PowerLoss \/ Open \/ ScanFrame \/ ScanEnd \/ ScanReadError \/ ScanPanics
  BY Zenon, <1>5 DEF ProcessCrash, PowerLoss, Open, ScanFrame, ScanEnd, ScanReadError,
     ScanPanics, Running
<1> QED BY Zenon, <1>1, <1>2, <1>3, <1>4, <1>5 DEF Next

LEMMA QuietStep ==
    ASSUME TypeInv, [Next]_vars, Quiet', Quiet => pc \in Running
    PROVE  Quiet /\ pc \in Running /\ pc' \in Running
<1>1. kills \in Nat /\ losses \in Nat
  BY BoundAssumption DEF TypeInv, TypeOK
<1>2. CASE ProcessCrash \/ PowerLoss
  BY <1>1, <1>2 DEF ProcessCrash, PowerLoss, Quiet
<1>3. CASE Open \/ ScanFrame \/ ScanEnd \/ ScanReadError \/ ScanPanics
  BY Zenon, <1>3 DEF Open, ScanFrame, ScanEnd, ScanReadError, ScanPanics, bounds, Quiet,
     Running
<1>4. CASE PrimaryWrite \/ PrimaryWriteFails \/ PrimarySync \/ PrimarySyncFails
  BY Zenon, <1>4 DEF PrimaryWrite, PrimaryWriteFails, PrimarySync, PrimarySyncFails,
     Acknowledge, Fault, bounds, Quiet, Running
<1>5. CASE BackupWrite \/ BackupWriteFails \/ BackupSync \/ BackupSyncFails
  BY Zenon, <1>5 DEF BackupWrite, BackupWriteFails, BackupSync, BackupSyncFails,
     Acknowledge, Fault, bounds, Quiet, Running
<1>6. CASE (\E d \in Disk : PromoteNewBackup(d)) \/ UNCHANGED vars
  BY Zenon, <1>6 DEF PromoteNewBackup, vars, bounds, Quiet, Running
<1> QED BY Zenon, <1>2, <1>3, <1>4, <1>5, <1>6 DEF Next

LEMMA GroupStep ==
    ASSUME LogInv, LogInv', SyncedBelow, GroupInv, [Next]_vars
    PROVE  GroupInv'
<1> SUFFICES ASSUME Quiet' PROVE GroupInv'
  BY Zenon DEF GroupInv
<1>q. Quiet /\ pc \in Running /\ pc' \in Running
  BY Zenon, QuietStep DEF GroupInv, LogInv
<1>t. /\ cache \in [Disk -> [Slot -> Content]] /\ stable \in [Disk -> [Slot -> Content]]
      /\ Primary \in Disk /\ fenced \subseteq Disk /\ NoDisk \notin Disk
      /\ backup \in Disk \cup {NoDisk} /\ backup # Primary
  <2>1. TypeOK /\ backup # Primary
    BY Zenon DEF LogInv, TypeInv, InFlight
  <2>2. NoDisk \notin Disk
    BY ONLY Zenon DEF Disk
  <2> QED BY ONLY Zenon, <2>1, <2>2, PrimaryIsDisk DEF TypeOK
<1>i. cursor \in Int /\ Slot \subseteq Int
  BY BoundAssumption DEF LogInv, TypeInv, TypeOK, Slot
<1>g. /\ backup \notin fenced /\ AckedInLog
      /\ backup # NoDisk => \A s \in Slot : s < cursor => BackupHas(s)
      /\ pc = "b_sync" => cache[backup][cursor] = op
  BY Zenon, <1>q DEF GroupInv
<1>a. AckedInLog'
  <2>1. CASE Next
    BY Zenon, <2>1, <1>q, <1>g, AckedStep
  <2>2. CASE UNCHANGED vars
    <3>1. acked' = acked /\ cursor' = cursor /\ cache' = cache
      BY ONLY Zenon, <2>2 DEF vars, disks, history
    <3> QED BY ONLY Zenon, <3>1, <1>g DEF AckedInLog
  <2> QED BY Zenon, <2>1, <2>2
<1>n. ASSUME backup' = NoDisk, fenced' \subseteq Disk PROVE GroupInv'
  <2>1. pc' # "b_sync"
    BY Zenon, <1>n DEF LogInv, TypeInv, InFlight
  <2> QED BY ONLY Zenon, <2>1, <1>n, <1>a, <1>q, <1>t DEF GroupInv
<1>k. ASSUME backup' = backup, fenced' = fenced, cursor' = cursor, pc' # "b_sync",
             stable'[backup] = stable[backup],
             \A d \in Disk, s \in Slot : s # cursor => cache'[d][s] = cache[d][s]
      PROVE  GroupInv'
  <2>1. ASSUME backup # NoDisk, NEW s \in Slot, s < cursor PROVE BackupHas(s)'
    <3>1. s # cursor /\ backup \in Disk /\ BackupHas(s)
      BY ONLY SMTT(20), <2>1, <1>i, <1>t, <1>g
    <3>2. cache'[backup][s] = cache[backup][s] /\ cache'[Primary][s] = cache[Primary][s]
      BY ONLY Zenon, <3>1, <1>k, <1>t
    <3> QED BY ONLY Zenon, <3>1, <3>2, <1>k DEF BackupHas
  <2>2. Slot' = Slot
    BY ONLY Zenon DEF Slot
  <2> QED BY ONLY Zenon, <2>1, <2>2, <1>k, <1>a, <1>q, <1>g DEF GroupInv
<1>1. CASE PrimaryWrite \/ PrimaryWriteFails
  <2>1. /\ cursor' = cursor /\ pc' # "b_sync" /\ stable' = stable
        /\ backup' = backup /\ fenced' = fenced
        /\ \E c : cache' = Put(cache, Primary, cursor, c)
    BY ONLY Zenon, <1>1 DEF PrimaryWrite, PrimaryWriteFails, group
  <2>2. \A d \in Disk, s \in Slot : s # cursor => cache'[d][s] = cache[d][s]
    BY ONLY SMTT(20), <2>1, <1>t DEF Put
  <2> QED BY ONLY Zenon, <2>1, <2>2, <1>k
<1>2. CASE PrimarySync
  <2>1. /\ cache' = cache /\ stable'[backup] = stable[backup]
        /\ backup' = backup /\ fenced' = fenced
    BY ONLY SMTT(20), <1>2, <1>t DEF PrimarySync, group
  <2>2. CASE backup = NoDisk
    BY ONLY Zenon, <2>1, <2>2, <1>n, <1>t
  <2>3. CASE backup # NoDisk
    <3>1. pc' # "b_sync" /\ cursor' = cursor
      BY ONLY Zenon, <2>3, <1>2 DEF PrimarySync
    <3> QED BY ONLY Zenon, <2>1, <3>1, <1>k
  <2> QED BY Zenon, <2>2, <2>3
<1>3. CASE PrimarySyncFails
  <2>1. /\ cache' = cache /\ cursor' = cursor /\ pc' # "b_sync"
        /\ backup' = backup /\ fenced' = fenced
        /\ \A d \in Disk : d # Primary => stable'[d] = stable[d]
    BY Zenon, <1>3, SyncFailsFacts DEF PrimarySyncFails, group, LogInv, TypeInv
  <2>2. CASE backup = NoDisk
    BY ONLY Zenon, <2>1, <2>2, <1>n, <1>t
  <2>3. CASE backup # NoDisk
    BY ONLY Zenon, <2>1, <2>3, <1>t, <1>k
  <2> QED BY Zenon, <2>2, <2>3
<1>4. CASE BackupWrite
  <2>1. /\ backup \in Disk /\ cursor \in Slot /\ op \in Content
        /\ cache' = Put(cache, backup, cursor, op) /\ stable' = stable
        /\ backup' = backup /\ fenced' = fenced /\ cursor' = cursor /\ op' = op
    BY <1>4, BoundAssumption, ContentFacts
       DEF BackupWrite, group, LogInv, TypeInv, TypeOK, InFlight, Slot
  <2>2. /\ cache'[backup][cursor] = op
        /\ \A d \in Disk, s \in Slot : s # cursor => cache'[d][s] = cache[d][s]
    BY ONLY SMTT(20), <2>1, <1>t, PutSlot
  <2>3. ASSUME NEW s \in Slot, s < cursor PROVE BackupHas(s)'
    <3>1. s # cursor /\ BackupHas(s)
      BY <2>1, <2>3, <1>i, <1>t, <1>g
    <3>2. cache'[backup][s] = cache[backup][s] /\ cache'[Primary][s] = cache[Primary][s]
      BY Zenon, <3>1, <2>1, <2>2, <1>t
    <3> QED BY Zenon, <3>1, <3>2, <2>1 DEF BackupHas
  <2> QED BY Zenon, <2>1, <2>2, <2>3, <1>a, <1>q, <1>g DEF GroupInv, Slot
<1>5. CASE BackupWriteFails \/ BackupSyncFails
  <2>1. backup' = NoDisk /\ fenced' = fenced \cup {backup} /\ backup # NoDisk
    BY Zenon, <1>5 DEF BackupWriteFails, BackupSyncFails, FenceBackup, LogInv, TypeInv,
       InFlight
  <2> QED BY Zenon, <2>1, <1>n, <1>t
<1>6. CASE BackupSync
  <2>1. /\ backup \in Disk /\ pc = "b_sync" /\ pc' = "idle" /\ cursor' = cursor + 1
        /\ cache' = cache /\ stable'[backup] = cache[backup]
        /\ backup' = backup /\ fenced' = fenced
    BY Zenon, <1>6, <1>t DEF BackupSync, Acknowledge, group, LogInv, TypeInv, InFlight
  <2>2. cache[backup][cursor] = cache[Primary][cursor]
    BY Zenon, <2>1, <1>g DEF LogInv, InPlace
  <2>3. ASSUME NEW s \in Slot, s < cursor + 1 PROVE cache[backup][s] = cache[Primary][s]
    <3>1. s = cursor \/ s < cursor
      BY <2>3, <1>i
    <3> QED BY Zenon, <3>1, <2>1, <2>2, <1>g, <1>t DEF BackupHas
  <2>4. ASSUME NEW s \in Slot, s < cursor' PROVE BackupHas(s)'
    <3>1. cache[backup][s] = cache[Primary][s]
      BY Zenon, <2>1, <2>3, <2>4
    <3> QED BY Zenon, <3>1, <2>1 DEF BackupHas
  <2> QED BY Zenon, <2>1, <2>4, <1>a, <1>q, <1>g DEF GroupInv, Slot
<1>7. CASE \E d \in Disk : PromoteNewBackup(d)
  <2>1. PICK d \in Disk : PromoteNewBackup(d)
    BY Zenon, <1>7
  <2>2. /\ d # Primary /\ backup' = d /\ fenced' = fenced \ {d} /\ cursor' = cursor
        /\ pc' # "b_sync"
        /\ cache' = [cache EXCEPT ![d] = Resynced]
        /\ stable' = [stable EXCEPT ![d] = Resynced]
        /\ \A s \in Slot : s < cursor => cache[Primary][s] = stable[Primary][s]
    BY Zenon, <2>1 DEF PromoteNewBackup
  <2>3. cache'[d] = Resynced /\ stable'[d] = Resynced /\ cache'[Primary] = cache[Primary]
    BY Zenon, <2>2, <1>t
  <2>4. ASSUME NEW s \in Slot, s < cursor PROVE BackupHas(s)'
    <3>1. Resynced[s] = stable[Primary][s] /\ stable[Primary][s] = cache[Primary][s]
      BY Zenon, <2>2, <2>4 DEF Resynced
    <3> QED BY Zenon, <3>1, <2>2, <2>3 DEF BackupHas
  <2> QED BY Zenon, <2>2, <2>4, <1>a, <1>q DEF GroupInv, Slot
<1>8. CASE ProcessCrash \/ PowerLoss \/ Open \/ ScanFrame \/ ScanEnd \/ ScanReadError \/ ScanPanics
  BY ONLY Zenon, <1>8, <1>q DEF ProcessCrash, PowerLoss, Open, ScanFrame, ScanEnd,
     ScanReadError, ScanPanics, Running
<1>9. CASE UNCHANGED vars
  <2>1. /\ cache' = cache /\ stable' = stable /\ backup' = backup /\ fenced' = fenced
        /\ cursor' = cursor /\ op' = op /\ pc' = pc
    BY ONLY Zenon, <1>9 DEF vars, disks, group
  <2> QED BY ONLY Zenon, <2>1, <1>a, <1>q, <1>g DEF GroupInv, BackupHas, Slot
<1> QED BY Zenon, <1>1, <1>2, <1>3, <1>4, <1>5, <1>6, <1>7, <1>8, <1>9 DEF Next

LEMMA GroupInvSuffices == LogInv /\ SyncedBelow /\ GroupInv => GroupComplete
<1> SUFFICES ASSUME LogInv, SyncedBelow, GroupInv, Quiet, NEW a \in acked,
                    NEW d \in {Primary, backup} \ {NoDisk}
             PROVE  Replayable(d, a.slot) /\ stable[d][a.slot] = a.op
  BY Zenon DEF GroupComplete, EitherDiskSuffices, GroupInv, Quiet
<1>1. /\ a.slot \in Slot /\ a.slot \in Int /\ cursor \in Int /\ Slot = 0 .. MaxSlots - 1
      /\ MaxSlots \in Int
  <2>1. acked \subseteq [slot : Slot, op : Op, members : SUBSET Disk]
    BY Zenon DEF LogInv, TypeInv, TypeOK
  <2>2. cursor \in 0 .. MaxSlots /\ MaxSlots \in Nat
    BY Zenon, BoundAssumption DEF LogInv, TypeInv, TypeOK
  <2>3. a.slot \in Slot
    BY ONLY Zenon, <2>1
  <2> QED BY ONLY SMTT(20), <2>2, <2>3 DEF Slot
<1>2. a.slot < cursor /\ cache[Primary][a.slot] = a.op
  BY Zenon DEF GroupInv, AckedInLog
<1>3. ASSUME NEW s \in Slot, s < cursor
      PROVE  stable[d][s] = cache[Primary][s] /\ cache[Primary][s] \in Op
  <2>1. pc \in Running /\ kills = 0
    BY Zenon DEF GroupInv, Quiet
  <2>2. cache[Primary][s] \in Op
    BY Zenon, <2>1, <1>3 DEF LogInv, LogBelowCursor, Running
  <2>3. stable[Primary][s] = cache[Primary][s]
    BY Zenon, <2>1, <1>3 DEF SyncedBelow, Clean
  <2>4. d # Primary => stable[d][s] = cache[Primary][s]
    BY Zenon, <1>3 DEF GroupInv, BackupHas
  <2> QED BY Zenon, <2>2, <2>3, <2>4
<1>4. ASSUME NEW s \in 0 .. a.slot PROVE stable[d][s] \in Op
  <2>1. s \in Slot /\ s < cursor
    BY <1>1, <1>2
  <2> QED BY Zenon, <2>1, <1>3
<1>5. stable[d][a.slot] = a.op
  BY Zenon, <1>1, <1>2, <1>3
<1> QED BY Zenon, <1>4, <1>5 DEF Replayable

(* As long as the process lives, each disk of the group alone can replay    *)
(* every acknowledged operation, whatever fails and whichever disk          *)
(* promote_new_backup brings in, and a fenced backup is not a member.       *)
THEOREM GroupIsComplete == Spec => []GroupComplete
<1>1. Init => SyncedBelow /\ GroupInv
  BY PrimaryIsDisk, BoundAssumption
     DEF Init, SyncedBelow, Clean, GroupInv, AckedInLog, Running, Slot
<1>2. LogInv /\ LogInv' /\ SyncedBelow /\ GroupInv /\ [Next]_vars => SyncedBelow' /\ GroupInv'
  BY Zenon, SyncedStep, GroupStep DEF LogInv
<1> QED BY LogInvHolds, GroupInvSuffices, <1>1, <1>2, PTL DEF Spec
=============================================================================
