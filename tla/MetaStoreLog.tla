----------------------------- MODULE MetaStoreLog -----------------------------
(***************************************************************************)
(* The log under MetaStore, for any disks, names, files and crashes, with  *)
(* frames left over from before a crash and scans that end in the middle   *)
(* of one.                                                                 *)
(*                                                                         *)
(* A scan that stops too early lets the next operation overwrite           *)
(* acknowledged ones.  That it never does so in front of an acknowledged   *)
(* frame, or of one a replica holds, is what AlignedSettled adds to        *)
(* MetaWal's invariant: what is settled was written behind frames that     *)
(* were and stay where they are.                                           *)
(***************************************************************************)
EXTENDS MetaStore, MetaWalRefinement

(* The clock of a prover also runs while the next obligation is prepared.   *)
USE SMTT(20)

Committing == {"p_sync", "b_write", "b_sync"}

(* Every file has a number that alloc_inode has passed.                     *)
TablesOK(t) == t \in Tables /\ \A i \in Files(t) : i < t.next

(* The operations apply is given.                                           *)
MetaOps ==
    {CreateInode(i, rec) : i \in Inode, rec \in {NewFile, RootDir}}
    \cup {Link(n, i) : n \in Names, i \in Inode}
    \cup {Unlink(n) : n \in Names}
    \cup {AppendChunk(i, 1) : i \in Inode}
    \cup {BeginConvert(i) : i \in Inode}
    \cup {CompleteConvert(i, len) : i \in Inode, len \in Nat}
    \cup {SetRedundancyScheme(i, s) : i \in Inode, s \in Schemes}
    \cup {UpdateExtents(i, len) : i \in Inode, len \in Nat}

Calls == {NoCall} \cup [kind : {"link"}, name : Names, inode : Inode]
                  \cup [kind : {"complete"}, inode : Inode]

StoreTypes ==
    /\ payload \in [Op -> MetaOps \cup {NoOp}] /\ behind \in [Op -> Content]
    /\ TablesOK(tables) /\ call \in Calls /\ known \subseteq Inode

-----------------------------------------------------------------------------
(* A frame on the primary is of an operation that was issued, and was       *)
(* written behind another one, unless it is the first.                      *)
HeldOK ==
    \A s \in Slot : \A o \in Op : o \in Held(s) =>
        /\ o <= issued /\ payload[o] \in MetaOps
        /\ s > 0 => behind[o] \in Op /\ behind[o] <= issued

AckedOK == (\E a \in acked : a.slot = 0) /\ \A a \in acked : a.op <= issued

(* Slots that an acknowledged operation or a frame on a replica stands for. *)
Settled(s) ==
    \/ \E a \in acked : a.slot = s
    \/ \E d \in Disk \ {Primary} : \E o \in Op : o \in {cache[d][s], stable[d][s]}

AlignedBelow == pc # "down" => \A s \in Slot : s < cursor => Aligned(s)
AlignedAt    == pc \in Committing => Aligned(cursor)
AlignedSettled ==
    \A s \in Slot : s < WalCapacity /\ Settled(s) => \A t \in 0 .. s : Aligned(t)

LogOK ==
    /\ IInv /\ readFaults = 0
    /\ HeldOK /\ AckedOK
    /\ AlignedBelow /\ AlignedAt /\ AlignedSettled

-----------------------------------------------------------------------------
(* The inode's operation was acknowledged in a slot below s.                *)
CreatedBelow(i, s) ==
    \E a \in acked : /\ a.slot < s
                     /\ payload[a.op].type = "CreateInode" /\ payload[a.op].inode = i

(* Between the operations of a call; create_file has its inode by then.     *)
CallOK ==
    /\ pc \in {"down", "scan"} => call = NoCall
    /\ pc = "idle" /\ call.kind = "link" =>
          call.inode \in Files(tables) /\ CreatedBelow(call.inode, cursor)

-----------------------------------------------------------------------------
(* The operations by kind.                                                  *)
OtherOps == {"AppendChunk", "BeginConvert", "CompleteConvert", "SetRedundancyScheme",
             "UpdateExtents"}

LEMMA OpKinds ==
    ASSUME NEW o \in MetaOps
    PROVE  \/ o.type = "CreateInode" /\ o.inode \in Inode /\ o.rec \in {NewFile, RootDir}
           \/ o.type = "Link" /\ o.name \in Names /\ o.inode \in Inode
           \/ o.type = "Unlink" /\ o.name \in Names
           \/ o.type = "AppendChunk" /\ o.inode \in Inode /\ o.len = 1
           \/ o.type = "BeginConvert" /\ o.inode \in Inode
           \/ o.type = "CompleteConvert" /\ o.inode \in Inode /\ o.len \in Nat
           \/ o.type = "SetRedundancyScheme" /\ o.inode \in Inode /\ o.scheme \in Schemes
           \/ o.type = "UpdateExtents" /\ o.inode \in Inode /\ o.len \in Nat
<1>1. CASE o \in {CreateInode(i, rec) : i \in Inode, rec \in {NewFile, RootDir}}
  BY <1>1 DEF CreateInode
<1>2. CASE o \in {Link(n, i) : n \in Names, i \in Inode}
  BY <1>2 DEF Link
<1>3. CASE o \in {Unlink(n) : n \in Names}
  BY <1>3 DEF Unlink
<1>4. CASE o \in {AppendChunk(i, 1) : i \in Inode}
  BY <1>4 DEF AppendChunk
<1>5. CASE o \in {BeginConvert(i) : i \in Inode}
  BY <1>5 DEF BeginConvert
<1>6. CASE o \in {CompleteConvert(i, len) : i \in Inode, len \in Nat}
  BY <1>6 DEF CompleteConvert
<1>7. CASE o \in {SetRedundancyScheme(i, x) : i \in Inode, x \in Schemes}
  BY <1>7 DEF SetRedundancyScheme
<1>8. CASE o \in {UpdateExtents(i, len) : i \in Inode, len \in Nat}
  BY <1>8 DEF UpdateExtents
<1> QED BY <1>1, <1>2, <1>3, <1>4, <1>5, <1>6, <1>7, <1>8 DEF MetaOps

(* Every call hands apply an operation.                                     *)
CallStep ==
    \/ \E n \in Names : Create(n)
    \/ CreateLink
    \/ \E n \in Names : UnlinkFile(n)
    \/ \E i \in known, s \in Schemes : SetRedundancy(i, s)
    \/ \E i \in known, offset \in Size : Write(i, offset)
    \/ \E i \in known, wait \in BOOLEAN : MakeWritable(i, wait)
    \/ CompleteConversion

(* What a call makes sure of before it hands an operation over.             *)
Proper(o, next) ==
    /\ o.type = "CreateInode" => o.inode \notin Files(tables)
    /\ o.type = "UpdateExtents" /\ o.inode \in Files(tables) => o.len >= tables.inodes[o.inode].size
    /\ o.type = "Link" => /\ o.inode \in Files(tables) /\ CreatedBelow(o.inode, cursor)
                          /\ call.kind = "link" /\ o.inode = call.inode
    /\ o.type = "CompleteConvert" =>
          call.kind = "complete" /\ o.len = tables.inodes[o.inode].stored
    /\ next.kind = "link" => o.type = "CreateInode" /\ o.inode = next.inode
    /\ TablesOK(tables') /\ tables'.inodes = tables.inodes /\ tables'.dirs = tables.dirs

Issued == \E o \in MetaOps, next \in Calls : Issue(o, next) /\ Proper(o, next)

LEMMA Issues ==
    ASSUME StoreTypes, CallOK, CallStep
    PROVE  Issued
<1>t. /\ TablesOK(tables) /\ tables \in Tables /\ call \in Calls /\ known \subseteq Inode
      /\ NoCall \in Calls /\ NoCall.kind = "none" /\ Size \subseteq Nat
  BY ViewAssumption DEF StoreTypes, TablesOK, Calls, Size, NoCall
<1>u. UNCHANGED tables =>
        TablesOK(tables') /\ tables'.inodes = tables.inodes /\ tables'.dirs = tables.dirs
  BY Zenon, <1>t
<1>q. ASSUME NEW o \in MetaOps, o.type \in (OtherOps \cup {"Unlink"}) \ {"UpdateExtents", "CompleteConvert"},
             NEW next \in Calls, next.kind # "link", Issue(o, next), UNCHANGED tables
      PROVE  Issued
  BY Zenon, <1>q, <1>u DEF Issued, Proper, OtherOps
<1>1. ASSUME NEW n \in Names, Create(n) PROVE Issued
  <2> DEFINE o    == CreateInode(tables.next, NewFile)
             next == [kind |-> "link", name |-> n, inode |-> tables.next]
  <2>1. o \in MetaOps /\ o.type = "CreateInode" /\ o.inode = tables.next
    BY <1>1 DEF Create, MetaOps, CreateInode
  <2>2. next \in Calls /\ next.kind = "link" /\ next.inode = tables.next
    BY Zenon, <1>1 DEF Create, Calls
  <2>3. /\ tables' = [inodes |-> tables.inodes, dirs |-> tables.dirs, next |-> tables.next + 1]
        /\ tables.next \in Nat /\ tables.next + 1 \in 1 .. MaxInodes + 1
    BY <1>1, <1>t, ViewAssumption DEF Create, Tables, Inode
  <2>4. /\ tables'.inodes = tables.inodes /\ tables'.dirs = tables.dirs
        /\ tables'.next = tables.next + 1 /\ tables' \in Tables
    BY Zenon, <2>3, <1>t DEF Tables
  <2>5. TablesOK(tables')
    <3>1. Files(tables') = Files(tables) /\ Files(tables) \subseteq Nat
      BY <2>4, ViewAssumption DEF Files, Inode
    <3> QED BY <2>3, <2>4, <3>1, <1>t DEF TablesOK
  <2>6. tables.next \notin Files(tables)
    BY <2>3, <1>t DEF TablesOK
  <2>7. Issue(o, next)
    BY Zenon, <1>1 DEF Create
  <2> HIDE DEF o, next
  <2>8. Proper(o, next)
    BY Zenon, <2>1, <2>2, <2>4, <2>5, <2>6 DEF Proper
  <2> QED BY Zenon, <2>1, <2>2, <2>7, <2>8 DEF Issued
<1>2. CASE CreateLink
  <2> DEFINE o == Link(call.name, call.inode)
  <2>1. o \in MetaOps /\ o.type = "Link" /\ o.inode = call.inode
    BY <1>2, <1>t DEF CreateLink, MetaOps, Calls, NoCall, Link
  <2>2. Issue(o, NoCall) /\ UNCHANGED tables /\ call.kind = "link"
    BY Zenon, <1>2 DEF CreateLink
  <2> HIDE DEF o
  <2>3. pc = "idle"
    BY Zenon, <2>2 DEF Issue, PrimaryWrite, PrimaryWriteFails
  <2>4. Proper(o, NoCall)
    BY Zenon, <2>1, <2>2, <2>3, <1>t, <1>u DEF Proper, CallOK
  <2> QED BY Zenon, <2>1, <2>2, <2>4, <1>t DEF Issued
<1>3. ASSUME NEW n \in Names, UnlinkFile(n) PROVE Issued
  <2>1. Unlink(n) \in MetaOps /\ Unlink(n).type = "Unlink"
    BY DEF MetaOps, Unlink
  <2>2. Issue(Unlink(n), NoCall) /\ UNCHANGED tables
    BY Zenon, <1>3 DEF UnlinkFile
  <2> QED BY Zenon, <2>1, <2>2, <1>t, <1>q DEF OtherOps
<1>4. ASSUME NEW i \in known, NEW s \in Schemes, SetRedundancy(i, s) PROVE Issued
  <2>1. /\ SetRedundancyScheme(i, s) \in MetaOps
        /\ SetRedundancyScheme(i, s).type = "SetRedundancyScheme"
    BY <1>t DEF MetaOps, SetRedundancyScheme
  <2>2. Issue(SetRedundancyScheme(i, s), NoCall) /\ UNCHANGED tables
    BY Zenon, <1>4 DEF SetRedundancy
  <2> QED BY Zenon, <2>1, <2>2, <1>t, <1>q DEF OtherOps
<1>5. ASSUME NEW i \in known, NEW offset \in Size, Write(i, offset) PROVE Issued
  <2> DEFINE rec == tables.inodes[i]
             end == IF offset + 1 > rec.size THEN offset + 1 ELSE rec.size
             o   == UpdateExtents(i, end)
  <2>0. UNCHANGED tables
    BY Zenon, <1>5 DEF Write
  <2>1. CASE Issue(AppendChunk(i, 1), NoCall)
    <3>1. AppendChunk(i, 1) \in MetaOps /\ AppendChunk(i, 1).type = "AppendChunk"
      BY <1>t DEF MetaOps, AppendChunk
    <3> QED BY Zenon, <2>0, <2>1, <3>1, <1>t, <1>q DEF OtherOps
  <2>2. CASE Issue(o, NoCall) /\ ClassifyWrite(rec.mode, rec.size, offset) = "RandomWrite"
    <3>1. rec.mode = "Writable"
      BY Zenon, <2>2 DEF ClassifyWrite
    <3>2. rec \in Record
      BY <3>1, <1>t DEF Tables, Absent
    <3>3. end \in Nat /\ end >= rec.size
      BY <3>2, <1>t DEF Record
    <3> HIDE DEF end
    <3>4. o \in MetaOps
      BY <3>3, <1>t DEF MetaOps
    <3>5. o.type = "UpdateExtents" /\ o.inode = i /\ o.len = end
      BY Zenon DEF UpdateExtents
    <3> HIDE DEF o
    <3>6. Proper(o, NoCall)
      BY Zenon, <2>0, <3>3, <3>5, <1>t, <1>u DEF Proper
    <3> QED BY Zenon, <2>2, <3>4, <3>6, <1>t DEF Issued
  <2> QED BY Zenon, <1>5, <2>1, <2>2 DEF Write
<1>6. ASSUME NEW i \in known, NEW wait \in BOOLEAN, MakeWritable(i, wait) PROVE Issued
  <2> DEFINE next == IF wait THEN [kind |-> "complete", inode |-> i] ELSE NoCall
  <2>1. BeginConvert(i) \in MetaOps /\ BeginConvert(i).type = "BeginConvert"
    BY <1>t DEF MetaOps, BeginConvert
  <2>2. next \in Calls /\ next.kind # "link"
    BY Zenon, <1>t DEF Calls
  <2>3. Issue(BeginConvert(i), next) /\ UNCHANGED tables
    BY Zenon, <1>6 DEF MakeWritable
  <2> HIDE DEF next
  <2> QED BY Zenon, <2>1, <2>2, <2>3, <1>q DEF OtherOps
<1>7. CASE CompleteConversion
  <2> DEFINE o == CompleteConvert(call.inode, tables.inodes[call.inode].stored)
  <2>1. call.inode \in Inode /\ tables.inodes[call.inode] \in Record
    BY <1>7, <1>t DEF CompleteConversion, Calls, NoCall, Tables, Absent
  <2>2. /\ o \in MetaOps /\ o.type = "CompleteConvert" /\ o.inode = call.inode
        /\ o.len = tables.inodes[call.inode].stored
    BY <2>1 DEF MetaOps, Record, CompleteConvert
  <2>3. Issue(o, NoCall) /\ UNCHANGED tables /\ call.kind = "complete"
    BY Zenon, <1>7 DEF CompleteConversion
  <2> HIDE DEF o
  <2>4. Proper(o, NoCall)
    BY Zenon, <2>2, <2>3, <1>t, <1>u DEF Proper
  <2> QED BY Zenon, <2>2, <2>3, <2>4, <1>t DEF Issued
<1> QED BY Zenon, <1>1, <1>2, <1>3, <1>4, <1>5, <1>6, <1>7 DEF CallStep

-----------------------------------------------------------------------------
(* The log under the calls of the store.                                    *)
PayloadKept == \A o \in Op : o <= issued => payload'[o] = payload[o] /\ behind'[o] = behind[o]

LEMMA CursorPositive ==
    ASSUME LogOK, pc \in Running
    PROVE  /\ cursor \in Nat /\ cursor > 0 /\ cursor <= MaxSlots /\ cursor - 1 \in Slot
           /\ cache[Primary][cursor - 1] \in Op /\ cache[Primary][cursor - 1] <= issued
<1>1. PICK a \in acked : a.slot = 0
  BY Zenon DEF LogOK, AckedOK
<1>2. InWal(a)
  BY <1>1, StoreAssumption, BoundAssumption DEF InWal
<1>3. cursor > 0 /\ cursor \in 0 .. MaxSlots
  BY Zenon, <1>1, <1>2 DEF LogOK, IInv, AckedBelowCursor, TypeInv, TypeOK
<1>4. cursor \in Nat /\ cursor <= MaxSlots /\ cursor - 1 \in Slot /\ cursor - 1 < cursor
  BY <1>3, BoundAssumption DEF Slot
<1>5. cache[Primary][cursor - 1] \in Op
  BY Zenon, <1>4 DEF LogOK, IInv, LogBelowCursor, Running
<1> QED BY Zenon, <1>3, <1>4, <1>5 DEF LogOK, HeldOK, Held

(* What a step of the store does to the log.                                *)
LogMoves ==
    /\ [Next]_vars \/ ScanMisaligned \/ ReplayFails \/ CompleteConversionFails
    /\ readFaults' = 0
    /\ payload' \in [Op -> MetaOps \cup {NoOp}] /\ behind' \in [Op -> Content]
    /\ PayloadKept
    /\ pc = "idle" /\ pc' = "p_sync" =>
          payload'[issued + 1] \in MetaOps /\ behind'[issued + 1] = cache[Primary][cursor - 1]
    /\ pc = "scan" /\ pc' = "scan" /\ cursor' # cursor => Aligned(cursor)

LEMMA StoreLog ==
    ASSUME StoreTypes, CallOK, LogOK, [StoreMove]_svars
    PROVE  LogMoves
<1>t. /\ payload \in [Op -> MetaOps \cup {NoOp}] /\ behind \in [Op -> Content]
      /\ readFaults = 0 /\ issued \in 0 .. MaxOps
  BY Zenon DEF StoreTypes, LogOK, IInv, TypeInv, TypeOK
<1>1. CASE CallStep
  <2>1. PICK o \in MetaOps, next \in Calls : Issue(o, next)
    BY Zenon, <1>1, Issues DEF Issued
  <2>2. CASE /\ PrimaryWrite
             /\ payload' = [payload EXCEPT ![issued + 1] = o]
             /\ behind' = [behind EXCEPT ![issued + 1] = Before]
    <3>1. pc = "idle" /\ pc' = "p_sync" /\ readFaults' = readFaults /\ issued + 1 \in Op
      BY <2>2, <1>t, BoundAssumption DEF PrimaryWrite, bounds, Op
    <3>2. Before = cache[Primary][cursor - 1] /\ cache[Primary][cursor - 1] \in Content
      <4>1. cursor # 0
        BY <3>1, CursorPositive DEF Running
      <4> QED BY Zenon, <3>1, <4>1, CursorPositive, ContentFacts DEF Running, Before
    <3>3. PayloadKept
      BY <2>2, <3>1, <1>t, BoundAssumption DEF PayloadKept, Op
    <3>4. /\ payload' \in [Op -> MetaOps \cup {NoOp}] /\ behind' \in [Op -> Content]
          /\ payload'[issued + 1] = o /\ behind'[issued + 1] = cache[Primary][cursor - 1]
      BY Zenon, <2>2, <3>1, <3>2, <1>t
    <3> QED BY Zenon, <2>2, <3>1, <3>3, <3>4, <1>t DEF LogMoves, Next
  <2>3. CASE PrimaryWriteFails /\ UNCHANGED store
    BY Zenon, <2>3, <1>t DEF LogMoves, PayloadKept, store, PrimaryWriteFails, Fault,
       Next
  <2> QED BY Zenon, <2>1, <2>2, <2>3 DEF Issue
<1>2. CASE LogStep
  <2>1. UNCHANGED store
    BY Zenon, <1>2 DEF LogStep, Materialize
  <2>2. pc # "idle" /\ pc # "scan" /\ readFaults' = readFaults /\ Next
    BY Zenon, <1>2 DEF LogStep, Commit, Fail, PrimarySync, BackupWrite, BackupSync,
       PrimarySyncFails, BackupWriteFails, BackupSyncFails, Fault, bounds, Next
  <2> QED BY Zenon, <2>1, <2>2, <1>t DEF LogMoves, PayloadKept, store
<1>3. CASE StoreCrash \/ StoreOpen \/ StorePanics
  <2>1. UNCHANGED store
    BY Zenon, <1>3 DEF StoreCrash, StoreOpen, StorePanics
  <2>2. readFaults' = readFaults /\ Next /\ pc' # "p_sync" /\ (pc = "scan" => pc' # "scan")
    BY Zenon, <1>3 DEF StoreCrash, StoreOpen, StorePanics, ProcessCrash, PowerLoss, Open, ScanPanics,
                bounds, Next
  <2> QED BY Zenon, <2>1, <2>2, <1>t DEF LogMoves, PayloadKept, store
<1>4. CASE ReplayFrame
  <2>1. UNCHANGED store /\ ScanFrame /\ Aligned(cursor)
    BY Zenon, <1>4 DEF ReplayFrame
  <2>2. readFaults' = readFaults /\ Next /\ pc = "scan"
    BY Zenon, <2>1 DEF ScanFrame, bounds, Next
  <2> QED BY Zenon, <2>1, <2>2, <1>t DEF LogMoves, PayloadKept, store
<1>5. CASE StoreScanEnd
  <2>1. UNCHANGED store /\ readFaults' = readFaults /\ pc = "scan" /\ pc' = "idle"
        /\ (Next \/ ScanMisaligned)
    BY Zenon, <1>5 DEF StoreScanEnd, ScanEnd, ScanMisaligned, bounds, Next
  <2> QED BY Zenon, <2>1, <1>t DEF LogMoves, PayloadKept, store
<1>6. CASE ReplayFails
  <2>1. UNCHANGED store /\ readFaults' = readFaults /\ pc' = "down"
    BY Zenon, <1>6 DEF ReplayFails, bounds
  <2> QED BY Zenon, <1>6, <2>1, <1>t DEF LogMoves, PayloadKept, store
<1>7. CASE CompleteConversionFails
  <2>1. UNCHANGED store /\ readFaults' = readFaults /\ pc = "idle" /\ pc' = "idle"
    BY Zenon, <1>7 DEF CompleteConversionFails, Fault
  <2> QED BY Zenon, <1>7, <2>1, <1>t DEF LogMoves, PayloadKept, store
<1>8. CASE UNCHANGED svars
  <2>1. UNCHANGED store /\ UNCHANGED vars
    BY Zenon, <1>8 DEF svars
  <2>2. readFaults' = readFaults /\ pc' = pc /\ cursor' = cursor
    BY Zenon, <2>1 DEF vars, bounds
  <2> QED BY Zenon, <2>1, <2>2, <1>t DEF LogMoves, PayloadKept, store
<1> QED BY Zenon, <1>1, <1>2, <1>3, <1>4, <1>5, <1>6, <1>7, <1>8 DEF StoreMove, CallStep

-----------------------------------------------------------------------------
(* What a step of the log touches.                                          *)
CacheKept ==
    /\ \A t \in Slot : \/ cache'[Primary][t] = cache[Primary][t]
                       \/ pc = "idle" /\ t = cursor
                       \/ cache[Primary][t] # stable[Primary][t] /\ losses' # 0
    /\ pc \in Committing \cup {"scan"} /\ pc' # "down" => cache'[Primary] = cache[Primary]

CursorMoves ==
    /\ pc # "down" /\ pc' # "down" =>
          \/ cursor' = cursor /\ view' = view
          \/ /\ cursor' = cursor + 1 /\ (\E x \in Op : view' = Append(view, x))
             /\ pc \in Committing \/ (pc = "scan" /\ pc' = "scan")
    /\ pc = "down" /\ pc' # "down" => cursor' = 0 /\ pc' = "scan"
    /\ pc' \in Committing =>
          \/ PrimaryWrite
          \/ pc \in Committing /\ cursor' = cursor /\ op' = op
    /\ pc \in Committing /\ cursor' # cursor => pc' # "scan"

NewAcks ==
    /\ acked \subseteq acked'
    /\ \A a \in acked' : a \in acked \/
          (pc \in Committing /\ pc' = "idle" /\ cursor' = cursor + 1 /\ a.slot = cursor /\ a.op = op)

NewFrames ==
    \A d \in Disk \ {Primary}, s \in Slot : \A o \in Op :
        o \in {cache'[d][s], stable'[d][s]} =>
            \/ o \in {cache[d][s], stable[d][s]}
            \/ /\ cache'[Primary] = cache[Primary] /\ pc' # "down"
               /\ (pc = "idle" /\ s < cursor) \/ (pc = "b_write" /\ s = cursor)

LEMMA QuietMoves ==
    ASSUME UNCHANGED <<disks, acked>>
    PROVE  CacheKept /\ NewAcks /\ NewFrames
  BY Zenon DEF CacheKept, NewAcks, NewFrames, disks

LEMMA AcknowledgeMoves ==
    ASSUME TypeInv, pc \in Committing, NEW members, Acknowledge(members)
    PROVE  CursorMoves /\ NewAcks
<1>1. CursorMoves
  BY Zenon DEF CursorMoves, Committing, Acknowledge, TypeInv, InFlight
<1>2. NewAcks
  BY DEF NewAcks, Acknowledge
<1> QED BY Zenon, <1>1, <1>2

LEMMA LogStepMoves ==
    ASSUME TypeInv, [Next]_vars \/ ScanMisaligned \/ ReplayFails \/ CompleteConversionFails
    PROVE  CacheKept /\ CursorMoves /\ NewAcks /\ NewFrames
<1>d. Primary \in Disk /\ cursor \in Nat /\ cache \in [Disk -> [Slot -> Content]]
      /\ stable \in [Disk -> [Slot -> Content]]
  BY PrimaryIsDisk, BoundAssumption DEF TypeInv, TypeOK
<1>t. cache \in [Disk -> [Slot -> Content]]
  BY Zenon, <1>d
<1>1. CASE PrimaryWrite
  <2>1. cursor \in Slot /\ issued + 1 \in Content /\ cache' = Put(cache, Primary, cursor, issued + 1)
    BY <1>1, BoundAssumption DEF PrimaryWrite, Slot, Op, Content, TypeInv, TypeOK
  <2>2. \A d \in Disk, t \in Slot : d # Primary \/ t # cursor => cache'[d][t] = cache[d][t]
    <3>1. \A d \in Disk, t \in Slot : d # Primary \/ t # cursor =>
               Put(cache, Primary, cursor, issued + 1)[d][t] = cache[d][t]
      BY ONLY Zenon, <2>1, <1>t, PrimaryIsDisk DEF Put
    <3> QED BY ONLY Zenon, <3>1, <2>1
  <2>3. stable' = stable /\ acked' = acked /\ cursor' = cursor /\ view' = view
        /\ pc = "idle" /\ pc' = "p_sync"
    BY Zenon, <1>1 DEF PrimaryWrite
  <2>4. CacheKept
    BY Zenon, <2>2, <2>3, <1>d DEF CacheKept, Committing
  <2>5. NewFrames /\ NewAcks
    BY Zenon, <2>2, <2>3 DEF NewFrames, NewAcks
  <2>6. CursorMoves
    BY Zenon, <1>1, <2>3 DEF CursorMoves, Committing
  <2> QED BY Zenon, <2>4, <2>5, <2>6
<1>2. CASE PrimaryWriteFails
  <2>0. cursor \in Slot /\ cache[Primary][cursor] \in Content
    BY <1>2, <1>d, BoundAssumption DEF PrimaryWriteFails, Slot, TypeInv, TypeOK
  <2>1. PICK c \in Partial(cache[Primary][cursor]) : cache' = Put(cache, Primary, cursor, c)
    BY Zenon, <1>2 DEF PrimaryWriteFails
  <2>c. c \in Content
    BY Zenon, <2>0, <2>1, PartialFacts
  <2>2. \A d \in Disk, t \in Slot : d # Primary \/ t # cursor => cache'[d][t] = cache[d][t]
    <3>1. \A d \in Disk, t \in Slot : d # Primary \/ t # cursor =>
               Put(cache, Primary, cursor, c)[d][t] = cache[d][t]
      BY ONLY Zenon, <2>0, <2>c, <1>t, PrimaryIsDisk DEF Put
    <3> QED BY ONLY Zenon, <3>1, <2>1
  <2>3. stable' = stable /\ acked' = acked /\ cursor' = cursor /\ view' = view
        /\ pc = "idle" /\ pc' = "idle"
    BY Zenon, <1>2 DEF PrimaryWriteFails
  <2>4. CacheKept
    BY Zenon, <2>2, <2>3, <1>d DEF CacheKept, Committing
  <2>5. NewFrames /\ NewAcks
    BY Zenon, <2>2, <2>3 DEF NewFrames, NewAcks
  <2>6. CursorMoves
    BY Zenon, <2>3 DEF CursorMoves, Committing
  <2> QED BY Zenon, <2>4, <2>5, <2>6
<1>3. CASE PrimarySync
  <2>1. /\ cache' = cache /\ pc \in Committing /\ pc = "p_sync"
        /\ \A d \in Disk \ {Primary} : stable'[d] = stable[d]
    BY Zenon, <1>3, <1>d DEF PrimarySync, Committing
  <2>2. CacheKept /\ NewFrames
    BY Zenon, <2>1 DEF CacheKept, NewFrames
  <2>3. CASE Acknowledge({Primary})
    BY Zenon, <2>1, <2>2, <2>3, AcknowledgeMoves
  <2>4. CASE UNCHANGED <<op, cursor, view, history>> /\ pc' = "b_write"
    BY Zenon, <2>1, <2>2, <2>4 DEF CursorMoves, NewAcks, Committing, history
  <2> QED BY Zenon, <1>3, <2>3, <2>4 DEF PrimarySync
<1>4. CASE BackupWrite
  <2>1. /\ backup \in Disk /\ backup # Primary /\ cursor \in Slot /\ op \in Content
        /\ pc = "b_write" /\ pc' = "b_sync" /\ cache' = Put(cache, backup, cursor, op)
    BY <1>4, BoundAssumption, ContentFacts
       DEF BackupWrite, InFlight, TypeInv, TypeOK, Slot
  <2>2. /\ \A d \in Disk, t \in Slot : d # backup \/ t # cursor => cache'[d][t] = cache[d][t]
        /\ cache'[Primary] = cache[Primary]
    <3>1. cache'[Primary] = cache[Primary]
      BY Zenon, <2>1, <1>d DEF Put
    <3>2. \A d \in Disk, t \in Slot : d # backup \/ t # cursor =>
             Put(cache, backup, cursor, op)[d][t] = cache[d][t]
      BY ONLY Zenon, <2>1, <1>t DEF Put
    <3> QED BY ONLY Zenon, <2>1, <3>1, <3>2
  <2>3. stable' = stable /\ acked' = acked /\ cursor' = cursor /\ view' = view /\ op' = op
    BY Zenon, <1>4 DEF BackupWrite, history
  <2>4. CacheKept /\ CursorMoves /\ NewAcks
    BY Zenon, <2>1, <2>2, <2>3 DEF CacheKept, CursorMoves, NewAcks, Committing
  <2>5. NewFrames
    BY Zenon, <2>1, <2>2, <2>3 DEF NewFrames
  <2> QED BY Zenon, <2>4, <2>5
<1>5. CASE BackupWriteFails
  <2>1. /\ backup \in Disk /\ backup # Primary /\ cursor \in Slot /\ pc = "b_write"
        /\ pc \in Committing
    BY <1>5, BoundAssumption DEF BackupWriteFails, InFlight, TypeInv, TypeOK, Slot, Committing
  <2>2. PICK c \in Partial(cache[backup][cursor]) : cache' = Put(cache, backup, cursor, c)
    BY Zenon, <1>5 DEF BackupWriteFails
  <2>3. cache[backup][cursor] \in Content
    BY Zenon, <2>1, <1>d
  <2>4. c \in Content /\ (c \in Op => c = cache[backup][cursor])
    BY Zenon, <2>3, PartialFacts
  <2>5. /\ \A d \in Disk, t \in Slot : d # backup \/ t # cursor => cache'[d][t] = cache[d][t]
        /\ cache'[backup][cursor] = c
    BY ONLY SMTT(20), <2>1, <2>2, <2>4, <1>t, PutSlot
  <2>6. cache'[Primary] = cache[Primary] /\ stable' = stable
    BY Zenon, <1>5, <2>1, <2>2, <1>d DEF Put, BackupWriteFails
  <2>7. NewFrames
    BY Zenon, <2>4, <2>5, <2>6 DEF NewFrames
  <2>8. CacheKept
    BY Zenon, <2>6 DEF CacheKept
  <2>9. CursorMoves /\ NewAcks
    BY Zenon, <1>5, <2>1, AcknowledgeMoves DEF BackupWriteFails
  <2> QED BY Zenon, <2>7, <2>8, <2>9
<1>6. CASE BackupSync
  <2>1. /\ cache' = cache /\ pc \in Committing
        /\ \A d \in Disk : stable'[d] \in {stable[d], cache[d]}
    BY Zenon, <1>6, <1>d DEF BackupSync, Committing
  <2>2. CacheKept /\ NewFrames
    BY Zenon, <2>1 DEF CacheKept, NewFrames
  <2> QED BY Zenon, <1>6, <2>1, <2>2, AcknowledgeMoves DEF BackupSync
<1>7. CASE BackupSyncFails
  <2>1. UNCHANGED disks /\ pc \in Committing
    BY Zenon, <1>7 DEF BackupSyncFails, Committing
  <2>2. CacheKept /\ NewFrames
    BY Zenon, <2>1 DEF CacheKept, NewFrames, disks
  <2> QED BY Zenon, <1>7, <2>1, <2>2, AcknowledgeMoves DEF BackupSyncFails
<1>8. CASE \E d \in Disk : PromoteNewBackup(d)
  <2>1. PICK d \in Disk : PromoteNewBackup(d)
    BY Zenon, <1>8
  <2>2. /\ d # Primary /\ cache'[Primary] = cache[Primary] /\ stable'[Primary] = stable[Primary]
        /\ \A e \in Disk \ {d} : cache'[e] = cache[e] /\ stable'[e] = stable[e]
        /\ cache'[d] = Resynced /\ stable'[d] = Resynced
        /\ pc = "idle" /\ pc' = "idle" /\ cursor' = cursor /\ view' = view /\ acked' = acked
    BY Zenon, <2>1, <1>d DEF PromoteNewBackup, history
  <2>3. \A s \in Slot : ~(s < cursor) => Resynced[s] \notin Op
    BY BoundAssumption DEF Resynced, Op, Empty
  <2>4. NewFrames
    BY <2>2, <2>3 DEF NewFrames
  <2> QED BY Zenon, <2>2, <2>4 DEF CacheKept, CursorMoves, NewAcks, Committing
<1>9. CASE PowerLoss
  <2>1. cache' = stable' /\ acked' = acked /\ pc' = "down" /\ losses' # 0
    BY <1>9, BoundAssumption DEF PowerLoss, history, TypeInv, TypeOK
  <2>2. \A d \in Disk, s \in Slot : /\ stable'[d][s] \in Partial(stable[d][s]) \cup {cache[d][s], stable[d][s]}
                                    /\ cache[d][s] = stable[d][s] => stable'[d][s] = cache[d][s]
    <3>1. PICK lost \in SUBSET Unsynced, torn \in SUBSET Unsynced, part \in {Torn, Stub} :
            stable' = [d \in Disk |-> [s \in Slot |->
                        IF <<d, s>> \in torn /\ part \in Partial(stable[d][s]) THEN part
                        ELSE IF <<d, s>> \in lost THEN stable[d][s]
                        ELSE cache[d][s]]]
      BY Zenon, <1>9 DEF PowerLoss
    <3>2. \A d \in Disk, s \in Slot : cache[d][s] = stable[d][s] =>
            <<d, s>> \notin torn /\ <<d, s>> \notin lost
      BY Zenon DEF Unsynced
    <3> QED BY Zenon, <3>1, <3>2
  <2>3. ASSUME NEW d \in Disk, NEW s \in Slot, stable'[d][s] \in Op
        PROVE  stable'[d][s] \in {cache[d][s], stable[d][s]}
    <3>1. stable[d][s] \in Content
      BY Zenon, <1>d
    <3> QED BY Zenon, <2>2, <2>3, <3>1, PartialFacts
  <2>4. NewFrames
    BY Zenon, <2>1, <2>3 DEF NewFrames
  <2>5. CacheKept
    BY Zenon, <2>1, <2>2, <1>d DEF CacheKept
  <2> QED BY Zenon, <2>1, <2>4, <2>5 DEF CursorMoves, NewAcks, Committing
<1>13. CASE PrimarySyncFails
  <2>1. /\ cache' = cache /\ acked' = acked
        /\ \A d \in Disk \ {Primary} : stable'[d] = stable[d]
    BY Zenon, <1>13, SyncFailsFacts DEF PrimarySyncFails, history, TypeInv
  <2>2. CacheKept /\ NewAcks /\ NewFrames
    BY Zenon, <2>1 DEF CacheKept, NewAcks, NewFrames
  <2>3. CursorMoves
    BY Zenon, <1>13 DEF PrimarySyncFails, CursorMoves, Committing
  <2> QED BY Zenon, <2>2, <2>3
<1>10. CASE ProcessCrash \/ Open \/ ScanEnd \/ ScanReadError \/ ScanPanics
            \/ UNCHANGED vars
  <2>1. UNCHANGED <<disks, acked>>
    BY Zenon, <1>10 DEF ProcessCrash, Open, ScanEnd, ScanReadError,
       ScanPanics, vars, history
  <2>2. CursorMoves
    BY Zenon, <1>10 DEF ProcessCrash, Open, ScanEnd, ScanReadError,
       ScanPanics, vars, CursorMoves, Committing
  <2> QED BY Zenon, <2>1, <2>2, QuietMoves
<1>11. CASE ScanFrame
  <2>1. UNCHANGED <<disks, acked>> /\ pc = "scan" /\ pc' = "scan"
    BY Zenon, <1>11 DEF ScanFrame, history
  <2>2. CursorMoves
    BY Zenon, <1>11, <2>1 DEF ScanFrame, CursorMoves, Committing
  <2> QED BY Zenon, <2>1, <2>2, QuietMoves
<1>12. CASE ScanMisaligned \/ ReplayFails \/ CompleteConversionFails
  <2>1. UNCHANGED <<disks, acked>>
    BY Zenon, <1>12 DEF ScanMisaligned, ReplayFails, CompleteConversionFails, history
  <2>2. CursorMoves
    BY Zenon, <1>12 DEF ScanMisaligned, ReplayFails, CompleteConversionFails,
       CursorMoves, Committing
  <2> QED BY Zenon, <2>1, <2>2, QuietMoves
<1> QED BY Zenon, <1>1, <1>2, <1>3, <1>4, <1>5, <1>6, <1>7, <1>8, <1>9, <1>10, <1>11,
           <1>12, <1>13 DEF Next

-----------------------------------------------------------------------------
(* What is settled is below the cursor of a running process.                *)
LEMMA SettledBelow ==
    ASSUME LogOK, NEW s \in Slot, s < WalCapacity, Settled(s)
    PROVE  /\ DurableThrough(Primary, s)
           /\ pc = "idle" => s < cursor
           /\ \A t \in 0 .. s : t \in Slot /\ Aligned(t)
<1> USE DEF LogOK, IInv
<1>1. CASE \E a \in acked : a.slot = s
  <2>1. PICK a \in acked : a.slot = s
    BY Zenon, <1>1
  <2>2. InWal(a)
    BY Zenon, <2>1 DEF InWal
  <2> QED BY Zenon, <2>1, <2>2, SlotFacts DEF AckedDurable, AckedBelowCursor,
             AlignedSettled, Running
<1>2. CASE \E d \in Disk \ {Primary} : \E o \in Op : o \in {cache[d][s], stable[d][s]}
  BY Zenon, <1>2, SlotFacts DEF ReplicasBehind, ReplicaBelowCursor, AlignedSettled,
     Running
<1> QED BY Zenon, <1>1, <1>2 DEF Settled

(* A scan that stops at the middle of a leftover frame has passed all that  *)
(* is settled, so that the log's invariant is kept by it as well.           *)
LEMMA StoreIInv ==
    ASSUME LogOK, LogMoves
    PROVE  IInv'
<1>1. CASE [Next]_vars
  BY Zenon, <1>1, SafeStep DEF LogOK, LogMoves
<1>q. ASSUME UNCHANGED <<disks, acked>> PROVE AckedDurable' /\ MembersDurable' /\ ReplicasBehind'
  <2>0. cache' = cache /\ stable' = stable /\ acked' = acked
    BY Zenon, <1>q DEF disks
  <2>1. AckedDurable'
    BY Zenon, <2>0 DEF LogOK, IInv, AckedDurable, InWal, DurableThrough, Durable
  <2>2. MembersDurable'
    BY Zenon, <2>0 DEF LogOK, IInv, MembersDurable, InWal, Durable
  <2>3. ReplicasBehind'
    BY <2>0 DEF LogOK, IInv, ReplicasBehind, DurableThrough, Durable
  <2> QED BY Zenon, <2>1, <2>2, <2>3
<1>2. CASE ScanMisaligned
  <2>0. /\ UNCHANGED <<disks, op, cursor, view, group, history, bounds>>
        /\ pc = "scan" /\ pc' = "idle" /\ cursor \in Slot /\ ~Aligned(cursor)
    BY Zenon, <1>2 DEF ScanMisaligned
  <2>u. UNCHANGED <<cache, stable, op, cursor, view, backup, epoch, fenced, issued, acked,
                    kills, losses, faults, readFaults, promotes>>
    BY Zenon, <2>0 DEF disks, group, history, bounds
  <2>1. ASSUME NEW s \in Slot, s < WalCapacity, Settled(s) PROVE s < cursor
    <3>1. \A t \in 0 .. s : Aligned(t)
      BY Zenon, <2>1, SettledBelow
    <3>2. cursor \notin 0 .. s
      BY Zenon, <3>1, <2>0
    <3> QED BY <3>2, <2>0, BoundAssumption DEF Slot
  <2>2. TypeInv'
    BY Zenon, <2>0, <2>u DEF LogOK, IInv, TypeInv, TypeOK, InFlight, PCs, Running
  <2>3. LogBelowCursor' /\ CommitProgress'
    BY Zenon, <2>0, <2>u DEF LogOK, IInv, LogBelowCursor, CommitProgress
  <2>4. AckedBelowCursor'
    <3>1. ASSUME NEW a \in acked, InWal(a) PROVE a.slot < cursor
      <4>1. a.slot \in Slot /\ Settled(a.slot)
        BY Zenon DEF Settled, LogOK, IInv, TypeInv, TypeOK
      <4> QED BY Zenon, <3>1, <4>1, <2>1 DEF InWal
    <3> QED BY Zenon, <3>1, <2>u DEF AckedBelowCursor, InWal
  <2>5. ReplicaBelowCursor'
    <3>1. ASSUME NEW d \in Disk \ {Primary}, NEW s \in Slot, NEW o \in Op,
                 s < WalCapacity, o \in {cache[d][s], stable[d][s]}
          PROVE  s < cursor
      BY Zenon, <3>1, <2>1 DEF Settled
    <3> QED BY Zenon, <3>1, <2>u DEF ReplicaBelowCursor
  <2> QED BY Zenon, <2>2, <2>3, <2>4, <2>5, <2>u, <1>q DEF IInv, disks
<1>3. CASE ReplayFails
  <2>u. /\ UNCHANGED <<cache, stable, op, backup, epoch, fenced, issued, acked,
                       kills, losses, faults, readFaults, promotes>>
        /\ pc' = "down" /\ cursor' = 0 /\ view' = <<>>
    BY Zenon, <1>3 DEF ReplayFails, disks, group, history, bounds
  <2>2. TypeInv'
    BY <2>u, BoundAssumption DEF LogOK, IInv, TypeInv, TypeOK, InFlight, PCs, Running
  <2>3. LogBelowCursor' /\ CommitProgress' /\ AckedBelowCursor' /\ ReplicaBelowCursor'
    BY Zenon, <2>u DEF LogBelowCursor, CommitProgress, AckedBelowCursor,
       ReplicaBelowCursor, Running
  <2> QED BY Zenon, <2>2, <2>3, <2>u, <1>q DEF IInv, disks
<1>4. CASE CompleteConversionFails
  <2>u. /\ UNCHANGED <<cache, stable, pc, op, cursor, view, backup, epoch, fenced, issued, acked,
                       kills, losses, readFaults, promotes>>
        /\ faults < MaxFaults /\ faults' = faults + 1
    BY Zenon, <1>4 DEF CompleteConversionFails, Fault, disks, group, history
  <2>2. TypeInv'
    BY <2>u, BoundAssumption DEF LogOK, IInv, TypeInv, TypeOK, InFlight
  <2>3. LogBelowCursor' /\ CommitProgress' /\ AckedBelowCursor' /\ ReplicaBelowCursor'
    BY Zenon, <2>u DEF LogOK, IInv, LogBelowCursor, CommitProgress, AckedBelowCursor,
       ReplicaBelowCursor, InWal, DurableThrough, Durable
  <2> QED BY Zenon, <2>2, <2>3, <2>u, <1>q DEF IInv, disks
<1> QED BY Zenon, <1>1, <1>2, <1>3, <1>4 DEF LogMoves

(* Frames on the primary are as the calls left them.                        *)
LEMMA StoreHeld ==
    ASSUME LogOK, LogMoves
    PROVE  /\ issued' \in Nat /\ issued' >= issued /\ \A s \in Slot : NewlyHeld(s)
           /\ HeldOK'
<1>1. (\A s \in Slot : NewlyHeld(s)) /\ issued' \in Nat /\ issued' >= issued /\ issued \in Nat
  <2>0. issued \in Nat
    BY BoundAssumption DEF LogOK, IInv, TypeInv, TypeOK
  <2>1. CASE [Next]_vars
    BY Zenon, <2>0, <2>1, PrimarySlots DEF LogOK, IInv
  <2>2. CASE ScanMisaligned \/ ReplayFails \/ CompleteConversionFails
    <3>1. UNCHANGED <<cache, stable, issued>>
      BY Zenon, <2>2 DEF ScanMisaligned, ReplayFails, CompleteConversionFails, disks,
         history
    <3> QED BY <3>1, <2>0 DEF NewlyHeld, Held
  <2> QED BY Zenon, <2>1, <2>2 DEF LogMoves
<1>n. \A x \in Op : x <= issued => x <= issued'
  BY <1>1, BoundAssumption DEF Op
<1>2. ASSUME NEW s \in Slot, NEW o \in Op, o \in Held(s)'
      PROVE  /\ o <= issued' /\ payload'[o] \in MetaOps
             /\ s > 0 => behind'[o] \in Op /\ behind'[o] <= issued'
  <2>1. CASE o \in Held(s)
    <3>1. /\ o <= issued /\ payload[o] \in MetaOps
          /\ s > 0 => behind[o] \in Op /\ behind[o] <= issued
      BY Zenon, <2>1 DEF LogOK, HeldOK
    <3>2. payload'[o] = payload[o] /\ behind'[o] = behind[o]
      BY Zenon, <3>1 DEF LogMoves, PayloadKept
    <3> QED BY ONLY Zenon, <3>1, <3>2, <1>n
  <2>2. CASE s = cursor /\ o = issued + 1 /\ issued' = o /\ PrimaryWrite
    <3>1. pc = "idle" /\ pc' = "p_sync"
      BY Zenon, <2>2 DEF PrimaryWrite
    <3>2. payload'[o] \in MetaOps /\ behind'[o] = cache[Primary][cursor - 1]
      BY Zenon, <2>2, <3>1 DEF LogMoves
    <3>3. behind'[o] \in Op /\ behind'[o] <= issued
      BY Zenon, <3>1, <3>2, CursorPositive DEF Running
    <3>4. o <= issued'
      BY <2>2, <1>1
    <3> QED BY ONLY Zenon, <3>2, <3>3, <3>4, <1>n
  <2> QED BY Zenon, <1>2, <2>1, <2>2, <1>1 DEF NewlyHeld
<1> QED BY Zenon, <1>1, <1>2 DEF HeldOK

(* A frame stays aligned as long as it and the one before it stay.          *)
Stays(t) == cache[Primary][t] \in Op /\ cache'[Primary][t] = cache[Primary][t]

LEMMA AlignedKept ==
    ASSUME LogOK, LogMoves, NEW s \in Slot, Aligned(s), Stays(s),
           s > 0 => s - 1 \in Slot /\ Stays(s - 1)
    PROVE  Aligned(s)'
<1> SUFFICES ASSUME s > 0
             PROVE  FrameLen(payload'[cache'[Primary][s - 1]]) = FrameLen(payload'[behind'[cache'[Primary][s]]])
  BY Zenon DEF Aligned
<1> DEFINE o == cache[Primary][s]
           p == cache[Primary][s - 1]
<1>1. /\ o \in Op /\ p \in Op /\ cache'[Primary][s] = o /\ cache'[Primary][s - 1] = p
      /\ FrameLen(payload[p]) = FrameLen(payload[behind[o]])
  BY Zenon DEF Stays, Aligned
<1>2. /\ o <= issued /\ p <= issued /\ behind[o] \in Op /\ behind[o] <= issued
  BY Zenon, <1>1 DEF LogOK, HeldOK, Held
<1> HIDE DEF o, p
<1>3. payload'[p] = payload[p] /\ behind'[o] = behind[o] /\ payload'[behind[o]] = payload[behind[o]]
  BY Zenon, <1>1, <1>2 DEF LogMoves, PayloadKept
<1> QED BY Zenon, <1>1, <1>3

(* Below the cursor frames stay, unless the process ends.                   *)
LEMMA StaysBelow ==
    ASSUME LogOK, LogMoves, pc # "down", pc' # "down", NEW t \in Slot, t < cursor
    PROVE  Stays(t)
<1>0. /\ IInv' /\ CursorMoves /\ cursor \in Nat /\ t \in Nat
  <2>1. TypeInv /\ cursor \in Nat /\ t \in Nat
    BY SlotFacts, BoundAssumption DEF LogOK, IInv, TypeInv, TypeOK
  <2>2. CursorMoves
    BY Zenon, <2>1, LogStepMoves DEF LogMoves
  <2> QED BY Zenon, <2>1, <2>2, StoreIInv
<1>1. /\ Len(view) = cursor /\ cache[Primary][t] \in Op /\ view[t + 1] = cache[Primary][t]
      /\ view \in Seq(Op)
  BY Zenon DEF LogOK, IInv, LogBelowCursor, TypeInv, TypeOK
<1>2. (cursor' = cursor /\ view' = view)
      \/ (cursor' = cursor + 1 /\ \E x \in Op : view' = Append(view, x))
  BY Zenon, <1>0 DEF CursorMoves
<1>3. t < cursor' /\ view'[t + 1] = view[t + 1]
  BY <1>0, <1>1, <1>2
<1>4. view'[t + 1] = cache'[Primary][t]
  BY Zenon, <1>0, <1>3 DEF IInv, LogBelowCursor
<1> QED BY Zenon, <1>1, <1>3, <1>4 DEF Stays

LEMMA BeforeIn ==
    ASSUME NEW s \in Slot, s > 0
    PROVE  s - 1 \in Slot /\ s - 1 < s /\ s - 1 \in 0 .. s
  BY BoundAssumption DEF Slot

LEMMA AlignedBelowKept ==
    ASSUME LogOK, LogMoves, pc # "down", pc' # "down", NEW s \in Slot, s < cursor
    PROVE  Aligned(s)'
<1>1. Aligned(s) /\ Stays(s)
  BY Zenon, StaysBelow DEF LogOK, AlignedBelow
<1>2. s > 0 => s - 1 \in Slot /\ s - 1 < cursor
  BY BoundAssumption DEF Slot, LogOK, IInv, TypeInv, TypeOK
<1>3. s > 0 => s - 1 \in Slot /\ Stays(s - 1)
  BY Zenon, <1>2, StaysBelow
<1> QED BY Zenon, <1>1, <1>3, AlignedKept

(* The frame under the cursor, once it is written or scanned.               *)
LEMMA AlignedCursorKept ==
    ASSUME LogOK, LogMoves, Aligned(cursor), cursor \in Slot, cache[Primary][cursor] \in Op,
           pc \in Committing \cup {"scan"}, pc' # "down", NEW c, c = cursor
    PROVE  Aligned(c)'
<1>1. cache'[Primary] = cache[Primary]
  BY Zenon, LogStepMoves DEF CacheKept, LogMoves, LogOK, IInv
<1>2. c \in Slot /\ Aligned(c) /\ Stays(c)
  BY Zenon, <1>1 DEF Stays
<1>3. c > 0 => c - 1 \in Slot /\ Stays(c - 1)
  <2>1. pc # "down"
    BY Zenon DEF Committing
  <2> QED BY Zenon, <1>2, <2>1, BeforeIn, StaysBelow
<1> QED BY Zenon, <1>2, <1>3, AlignedKept

LEMMA InFlightFacts ==
    ASSUME LogOK, pc \in Committing
    PROVE  /\ cursor \in Slot /\ op \in Op /\ cache[Primary][cursor] = op /\ Aligned(cursor)
           /\ op <= issued /\ payload[op] \in MetaOps
<1>1. cursor \in Slot /\ op \in Op /\ cache[Primary][cursor] = op /\ Aligned(cursor)
  BY BoundAssumption
     DEF LogOK, IInv, TypeInv, TypeOK, InFlight, CommitProgress, Committing, AlignedAt, Slot
<1> QED BY Zenon, <1>1 DEF LogOK, HeldOK, Held

LEMMA StoreAligned ==
    ASSUME LogOK, LogMoves
    PROVE  AlignedBelow' /\ AlignedAt'
<1>m. CacheKept /\ CursorMoves /\ NewAcks /\ NewFrames /\ IInv'
  BY Zenon, StoreIInv, LogStepMoves DEF LogOK, LogMoves, IInv
<1>c. cursor \in Nat
  BY BoundAssumption DEF LogOK, IInv, TypeInv, TypeOK
<1>1. ASSUME pc' # "down", NEW s \in Slot, s < cursor' PROVE Aligned(s)'
  <2>0. pc # "down"
    BY <1>1, <1>m, SlotFacts DEF CursorMoves
  <2>1. CASE s < cursor
    BY Zenon, <1>1, <2>0, <2>1, AlignedBelowKept
  <2>2. CASE ~(s < cursor)
    <3>1. /\ s = cursor /\ cursor' = cursor + 1
          /\ pc \in Committing \/ (pc = "scan" /\ pc' = "scan")
      BY <1>1, <1>m, <2>0, <2>2, <1>c, SlotFacts DEF CursorMoves
    <3>2. Aligned(cursor)
      BY <3>1, <1>c, InFlightFacts DEF LogMoves
    <3>3. cache'[Primary] = cache[Primary]
      BY Zenon, <1>1, <1>m, <3>1 DEF CacheKept
    <3>4. cache[Primary][cursor] \in Op
      <4>1. cache'[Primary][s] \in Op
        BY Zenon, <1>1, <1>m DEF IInv, LogBelowCursor
      <4> QED BY Zenon, <4>1, <3>1, <3>3
    <3> QED BY Zenon, <1>1, <3>1, <3>2, <3>4, AlignedCursorKept
  <2> QED BY Zenon, <2>1, <2>2
<1>2. ASSUME pc' \in Committing, NEW c, c = cursor' PROVE Aligned(c)'
  <2>1. CASE PrimaryWrite
    <3>1. /\ pc = "idle" /\ pc' = "p_sync" /\ cursor' = cursor /\ cursor < MaxSlots
          /\ cache' = Put(cache, Primary, cursor, issued + 1)
      BY Zenon, <2>1 DEF PrimaryWrite
    <3>2. cursor \in Slot /\ c = cursor
      BY <3>1, <1>c, <1>2, BoundAssumption DEF Slot
    <3>3. behind'[issued + 1] = cache[Primary][cursor - 1]
      BY Zenon, <3>1 DEF LogMoves
    <3>4. cursor > 0 /\ cursor - 1 \in Slot /\ cursor - 1 < cursor
      BY <3>1, <1>c, CursorPositive DEF Running
    <3>5. cache'[Primary][cursor - 1] = cache[Primary][cursor - 1]
      BY Zenon, <3>1, <3>4, StaysBelow DEF Stays
    <3>6. cache'[Primary][cursor] = issued + 1
      <4>1. cache \in [Disk -> [Slot -> Content]]
        BY Zenon DEF LogOK, IInv, TypeInv, TypeOK
      <4> QED BY Zenon, <3>1, <3>2, <4>1, PrimaryIsDisk DEF Put
    <3> QED BY Zenon, <3>2, <3>3, <3>5, <3>6 DEF Aligned
  <2>2. CASE pc \in Committing /\ cursor' = cursor /\ op' = op
    <3>1. pc' # "down"
      BY Zenon, <1>2 DEF Committing
    <3> QED BY Zenon, <1>2, <2>2, <3>1, InFlightFacts, AlignedCursorKept
  <2> QED BY Zenon, <1>2, <1>m, <2>1, <2>2 DEF CursorMoves
<1>3. AlignedBelow'
  BY Zenon, <1>1 DEF AlignedBelow
<1>4. AlignedAt'
  BY Zenon, <1>2 DEF AlignedAt
<1> QED BY Zenon, <1>3, <1>4

LEMMA StoreSettled ==
    ASSUME LogOK, LogMoves
    PROVE  AlignedSettled'
<1>m. CacheKept /\ CursorMoves /\ NewAcks /\ NewFrames
  BY Zenon, LogStepMoves DEF LogOK, LogMoves, IInv
<1>c. cursor \in Nat
  BY BoundAssumption DEF LogOK, IInv, TypeInv, TypeOK
<1> SUFFICES ASSUME NEW s \in Slot, s < WalCapacity, Settled(s)', NEW t \in 0 .. s
             PROVE  Aligned(t)'
  BY Zenon DEF AlignedSettled
<1>t. t \in Slot /\ t <= s /\ s \in Nat /\ t \in Nat
  BY SlotFacts
<1>1. CASE Settled(s)
  <2>1. /\ DurableThrough(Primary, s) /\ (pc = "idle" => s < cursor)
        /\ \A u \in 0 .. s : u \in Slot /\ Aligned(u)
    BY Zenon, <1>1, SettledBelow
  <2>2. ASSUME NEW u \in 0 .. s PROVE Stays(u)
    <3>1. u \in Slot /\ cache[Primary][u] \in Op /\ stable[Primary][u] = cache[Primary][u]
      BY Zenon, <2>1, DurableThroughBelow
    <3>2. ~(pc = "idle" /\ u = cursor)
      BY <2>1, <1>c, <1>t
    <3> QED BY Zenon, <3>1, <3>2, <1>m DEF CacheKept, Stays
  <2>3. t > 0 => t - 1 \in Slot /\ t - 1 \in 0 .. s
    BY <1>t, BeforeIn
  <2> QED BY Zenon, <2>1, <2>2, <2>3, <1>t, AlignedKept
<1>2. CASE s < cursor /\ pc # "down" /\ pc' # "down"
  <2>1. t < cursor
    BY <1>2, <1>t, <1>c
  <2> QED BY Zenon, <1>2, <1>t, <2>1, AlignedBelowKept
<1>3. CASE s = cursor /\ pc \in Committing /\ pc' # "down"
  <2>1. CASE t < cursor
    BY Zenon, <1>3, <1>t, <2>1, AlignedBelowKept DEF Committing
  <2>2. CASE t = cursor
    BY Zenon, <1>3, <2>2, InFlightFacts, AlignedCursorKept
  <2> QED BY <1>3, <1>t, <1>c, <2>1, <2>2
<1>4. CASE ~Settled(s)
  <2>1. CASE \E a \in acked' : a.slot = s
    <3>1. PICK a \in acked' : a.slot = s
      BY Zenon, <2>1
    <3>2. a \notin acked
      BY Zenon, <1>4, <3>1 DEF Settled
    <3>3. pc \in Committing /\ pc' = "idle" /\ a.slot = cursor
      BY Zenon, <3>2, <1>m DEF NewAcks
    <3> QED BY Zenon, <3>1, <3>3, <1>3
  <2>2. CASE \E d \in Disk \ {Primary} : \E o \in Op : o \in {cache'[d][s], stable'[d][s]}
    <3>1. PICK d \in Disk \ {Primary}, o \in Op : o \in {cache'[d][s], stable'[d][s]}
      BY Zenon, <2>2
    <3>2. o \notin {cache[d][s], stable[d][s]}
      BY Zenon, <1>4, <3>1 DEF Settled
    <3>3. pc' # "down" /\ ((pc = "idle" /\ s < cursor) \/ (pc = "b_write" /\ s = cursor))
      BY Zenon, <3>1, <3>2, <1>m DEF NewFrames
    <3> QED BY Zenon, <3>3, <1>2, <1>3 DEF Committing
  <2> QED BY Zenon, <2>1, <2>2 DEF Settled
<1> QED BY Zenon, <1>1, <1>4

LEMMA LogOKStep ==
    ASSUME LogOK, LogMoves
    PROVE  LogOK'
<1>1. IInv' /\ HeldOK' /\ AlignedBelow' /\ AlignedAt' /\ AlignedSettled' /\ readFaults' = 0
  BY Zenon, StoreIInv, StoreHeld, StoreAligned, StoreSettled DEF LogMoves
<1>2. AckedOK'
  <2>1. acked \subseteq acked' /\ \A a \in acked' : a \in acked \/ (pc \in Committing /\ a.op = op)
    BY Zenon, LogStepMoves DEF NewAcks, LogOK, LogMoves, IInv
  <2>2. issued' \in Nat /\ issued' >= issued /\ issued \in Nat
    BY StoreHeld, BoundAssumption DEF LogOK, IInv, TypeInv, TypeOK
  <2>3. \A a \in acked' : a.op \in Nat
    BY <1>1, BoundAssumption DEF IInv, TypeInv, TypeOK, Op
  <2>4. ASSUME NEW a \in acked' PROVE a.op <= issued'
    <3>1. a.op <= issued
      BY Zenon, <2>1, InFlightFacts DEF LogOK, AckedOK
    <3> QED BY <3>1, <2>2, <2>3
  <2> QED BY Zenon, <2>1, <2>4 DEF LogOK, AckedOK
<1> QED BY Zenon, <1>1, <1>2 DEF LogOK

-----------------------------------------------------------------------------
(* Kills alone, or power losses alone, leave no frame behind the end of the *)
(* log: a power loss needs unsynced frames to lose one in front of another, *)
(* and only a kill leaves more than the one under the cursor unsynced.      *)

(* Every frame on the primary is still where it was written: behind the     *)
(* frame it was written behind, with frames in all the slots below it.      *)
Contiguous ==
    NoLeftovers => \A s \in Slot : \A o \in Op : s < WalCapacity /\ o \in Held(s) =>
        /\ \A t \in Slot : t < s => cache[Primary][t] \in Op
        /\ s > 0 => behind[o] = cache[Primary][s - 1]

EndsAtCursor ==
    NoLeftovers /\ pc \in Running => \A s \in Slot : \A o \in Op :
        s < WalCapacity /\ o \in Held(s) => s <= cursor

TightLog == SyncedBelow /\ Contiguous /\ EndsAtCursor

LEMMA CountsStep ==
    ASSUME LogOK, LogMoves
    PROVE  (kills' = 0 => kills = 0) /\ (losses' = 0 => losses = 0) /\ (NoLeftovers' => NoLeftovers)
<1>t. kills \in Nat /\ losses \in Nat
  BY BoundAssumption DEF LogOK, IInv, TypeInv, TypeOK
<1>1. (kills' = kills \/ kills' = kills + 1) /\ (losses' = losses \/ losses' = losses + 1)
  <2>1. CASE ProcessCrash \/ PowerLoss
    BY Zenon, <2>1 DEF ProcessCrash, PowerLoss
  <2>2. CASE PrimaryWrite \/ PrimaryWriteFails \/ PrimarySync \/ PrimarySyncFails
    BY Zenon, <2>2 DEF PrimaryWrite, PrimaryWriteFails, PrimarySync, PrimarySyncFails,
       Fault, bounds
  <2>3. CASE BackupWrite \/ BackupWriteFails \/ BackupSync \/ BackupSyncFails
    BY Zenon, <2>3 DEF BackupWrite, BackupWriteFails, BackupSync, BackupSyncFails,
       Fault, bounds
  <2>4. CASE \E d \in Disk : PromoteNewBackup(d)
    BY Zenon, <2>4 DEF PromoteNewBackup
  <2>5. CASE \/ Open \/ ScanFrame \/ ScanEnd \/ ScanReadError \/ ScanPanics
             \/ UNCHANGED vars
    BY Zenon, <2>5 DEF Open, ScanFrame, ScanEnd, ScanReadError, ScanPanics, bounds, vars
  <2>6. CASE ScanMisaligned \/ ReplayFails \/ CompleteConversionFails
    BY Zenon, <2>6 DEF ScanMisaligned, ReplayFails, CompleteConversionFails, Fault,
       bounds
  <2> QED BY Zenon, <2>1, <2>2, <2>3, <2>4, <2>5, <2>6 DEF LogMoves, Next
<1>2. (kills' = 0 => kills = 0) /\ (losses' = 0 => losses = 0)
  BY ONLY SMTT(20), <1>1, <1>t
<1> QED BY Zenon, <1>2 DEF NoLeftovers

(* The frames below a frame stay with it.                                   *)
LEMMA FramesBelowStay ==
    ASSUME LogOK, LogMoves, TightLog, NoLeftovers', NEW s \in Slot, NEW o \in Op,
           s < WalCapacity, o \in Held(s), NEW t \in Slot, t < s
    PROVE  Stays(t)
<1>1. CacheKept /\ NoLeftovers /\ pc \in PCs
  BY Zenon, CountsStep, LogStepMoves DEF LogOK, LogMoves, IInv, TypeInv, TypeOK
<1>2. cache[Primary][t] \in Op
  BY Zenon, <1>1 DEF TightLog, Contiguous
<1>3. pc \in Running => s <= cursor
  BY Zenon, <1>1 DEF TightLog, EndsAtCursor
<1>4. ~(pc = "idle" /\ t = cursor)
  BY <1>3, SlotFacts, BoundAssumption DEF Running, LogOK, IInv, TypeInv, TypeOK
<1>5. ASSUME losses' # 0 PROVE cache[Primary][t] = stable[Primary][t]
  <2>1. kills = 0
    BY Zenon, <1>5, CountsStep DEF NoLeftovers
  <2>2. pc \in Running => t < cursor
    BY <1>3, SlotFacts, BoundAssumption DEF LogOK, IInv, TypeInv, TypeOK
  <2> QED BY Zenon, <1>1, <2>1, <2>2 DEF TightLog, SyncedBelow, Clean, PCs
<1> QED BY Zenon, <1>1, <1>2, <1>4, <1>5 DEF CacheKept, Stays

LEMMA ContiguousStep ==
    ASSUME LogOK, LogMoves, TightLog
    PROVE  Contiguous'
<1> SUFFICES ASSUME NoLeftovers', NEW s \in Slot, NEW o \in Op, s < WalCapacity, o \in Held(s)'
             PROVE  /\ \A t \in Slot : t < s => cache'[Primary][t] \in Op
                    /\ s > 0 => behind'[o] = cache'[Primary][s - 1]
  BY Zenon DEF Contiguous
<1>b. s > 0 => s - 1 \in Slot /\ s - 1 < s
  BY Zenon, BeforeIn
<1>1. CASE o \in Held(s)
  <2>1. \A t \in Slot : t < s => Stays(t)
    BY Zenon, <1>1, FramesBelowStay
  <2>2. s > 0 => behind[o] = cache[Primary][s - 1]
    BY Zenon, <1>1, CountsStep DEF TightLog, Contiguous
  <2>3. behind'[o] = behind[o]
    BY Zenon, <1>1 DEF LogOK, HeldOK, LogMoves, PayloadKept
  <2> QED BY Zenon, <2>1, <2>2, <2>3, <1>b DEF Stays
<1>2. CASE s = cursor /\ o = issued + 1 /\ PrimaryWrite
  <2>1. pc = "idle" /\ pc' = "p_sync"
    BY Zenon, <1>2 DEF PrimaryWrite
  <2>2. \A t \in Slot : t < s => Stays(t)
    BY Zenon, <1>2, <2>1, StaysBelow
  <2>3. behind'[o] = cache[Primary][s - 1]
    BY Zenon, <1>2, <2>1 DEF LogMoves
  <2> QED BY Zenon, <2>2, <2>3, <1>b DEF Stays
<1> QED BY Zenon, <1>1, <1>2, StoreHeld DEF NewlyHeld

LEMMA EndsStep ==
    ASSUME LogOK, LogMoves, TightLog
    PROVE  EndsAtCursor'
<1> SUFFICES ASSUME NoLeftovers', pc' \in Running, NEW s \in Slot, NEW o \in Op,
                    s < WalCapacity, o \in Held(s)'
             PROVE  s <= cursor'
  BY Zenon DEF EndsAtCursor
<1>i. TypeInv /\ pc \in PCs /\ cursor \in 0 .. MaxSlots
  BY Zenon DEF LogOK, IInv, TypeInv, TypeOK
<1>n. /\ MaxSlots \in Nat /\ WalCapacity \in Nat
      /\ cursor \in Nat /\ s \in Nat /\ s < MaxSlots
  BY <1>i, BoundAssumption DEF Slot
<1>o. pc' # "down" /\ pc' # "scan"
  BY Zenon DEF Running
<1>m. /\ CursorMoves /\ NoLeftovers /\ pc' # "down" /\ pc' # "scan" /\ pc \in PCs
      /\ cursor \in Nat /\ s \in Nat /\ s < MaxSlots /\ MaxSlots \in Nat /\ WalCapacity \in Nat
  BY Zenon, <1>i, <1>n, <1>o, CountsStep, LogStepMoves DEF LogMoves
<1>c. pc # "down" /\ (cursor' = cursor \/ cursor' = cursor + 1)
  BY Zenon, <1>m DEF CursorMoves
<1>1. CASE s = cursor
  BY <1>1, <1>c, <1>m
<1>2. CASE s # cursor /\ pc \in Running
  <2>1. o \in Held(s)
    BY Zenon, <1>2, StoreHeld DEF NewlyHeld
  <2>2. s <= cursor
    BY Zenon, <1>2, <1>m, <2>1 DEF TightLog, EndsAtCursor
  <2> QED BY <2>2, <1>c, <1>m
<1>3. CASE s # cursor /\ pc = "scan"
  <2>1. ScanEnd \/ ScanMisaligned
    <3>1. ~ScanReadError
      BY BoundAssumption DEF ScanReadError, LogMoves, LogOK
    <3> QED BY Zenon, <1>3, <1>m, <3>1
         DEF LogMoves, Next, PrimaryWrite, PrimaryWriteFails, PrimarySync, PrimarySyncFails,
             BackupWrite, BackupWriteFails, BackupSync, BackupSyncFails, PromoteNewBackup,
             ProcessCrash, PowerLoss, Open, ScanFrame, ScanPanics, ReplayFails,
             CompleteConversionFails, vars
  <2>2. cursor' = cursor /\ o \in Held(s)
    <3>1. cursor' = cursor
      BY Zenon, <2>1 DEF ScanEnd, ScanMisaligned
    <3> QED BY Zenon, <1>3, <3>1, StoreHeld DEF NewlyHeld
  <2> SUFFICES ASSUME cursor < s PROVE FALSE
    BY <1>m, <2>2
  <2>3. cursor \in Slot /\ cursor < WalCapacity /\ cursor < MaxSlots
    BY <1>m DEF Slot
  <2> DEFINE f == cache[Primary][cursor]
  <2>4. f \in Op /\ f \in Held(cursor)
    BY Zenon, <1>m, <2>2, <2>3 DEF TightLog, Contiguous, Held
  <2> HIDE DEF f
  <2>5. Aligned(cursor)
    <3>1. cursor > 0 => behind[f] = cache[Primary][cursor - 1]
      BY Zenon, <1>m, <2>3, <2>4 DEF TightLog, Contiguous
    <3> QED BY Zenon, <3>1 DEF Aligned, f
  <2>6. ~ScanMisaligned
    BY Zenon, <2>5 DEF ScanMisaligned
  <2>7. ~ScanEnd
    BY <1>m, <2>3, <2>4 DEF ScanEnd, f
  <2> QED BY Zenon, <2>1, <2>6, <2>7
<1> QED BY Zenon, <1>1, <1>2, <1>3, <1>c, <1>m DEF PCs

LEMMA TightStep ==
    ASSUME LogOK, LogMoves, TightLog
    PROVE  TightLog'
<1>1. SyncedBelow'
  <2>1. CASE [Next]_vars
    BY Zenon, <2>1, StoreIInv, SyncedStep DEF TightLog, LogOK, IInv
  <2>2. CASE ScanMisaligned \/ ReplayFails
    <3>1. UNCHANGED <<cache, stable, kills>> /\ pc = "scan" /\ pc' \in {"idle", "down"}
      BY Zenon, <2>2 DEF ScanMisaligned, ReplayFails, disks, bounds
    <3> QED BY Zenon, <3>1 DEF TightLog, SyncedBelow, Clean
  <2>3. CASE CompleteConversionFails
    <3>1. UNCHANGED <<cache, stable, kills, pc, cursor>>
      BY Zenon, <2>3 DEF CompleteConversionFails, Fault, disks
    <3> QED BY Zenon, <3>1 DEF TightLog, SyncedBelow, Clean
  <2> QED BY Zenon, <2>1, <2>2, <2>3 DEF LogMoves
<1> QED BY Zenon, <1>1, ContiguousStep, EndsStep DEF TightLog
=============================================================================
