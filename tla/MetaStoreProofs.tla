--------------------------- MODULE MetaStoreProofs ----------------------------
(***************************************************************************)
(* MetaStore for any disks, names, files and crashes: the tables over the  *)
(* log of MetaStoreLog.                                                    *)
(*                                                                         *)
(* An entry finds its inode because the inode's operation was acknowledged *)
(* before the entry's was issued (LinksOK), so that no crash takes it away *)
(* and every scan meets it first (ScanOK).                                 *)
(***************************************************************************)
EXTENDS MetaStoreLog

(* The clock of a prover also runs while the next obligation is prepared.   *)
USE SMTT(20)

(* create_file logs an entry only behind its inode.                         *)
LinksOK ==
    \A s \in Slot : \A o \in Op :
        s < WalCapacity /\ o \in Held(s) /\ payload[o].type = "Link" =>
            CreatedBelow(payload[o].inode, s)

(* What the operation in flight takes for granted of the tables.            *)
FlightOK ==
    pc \in Committing =>
        /\ payload[op].type = "CreateInode" => payload[op].inode \notin Files(tables)
        /\ payload[op].type = "UpdateExtents" /\ payload[op].inode \in Files(tables) =>
              payload[op].len >= tables.inodes[payload[op].inode].size
        /\ payload[op].type = "Link" =>
              /\ payload[op].inode \in Files(tables)
              /\ CreatedBelow(payload[op].inode, cursor)
        /\ call.kind = "link" =>
              payload[op].type = "CreateInode" /\ payload[op].inode = call.inode

(* A scan has created the inodes of the frames it has passed.               *)
ScanOK ==
    pc = "scan" => \A s \in Slot :
        s < cursor /\ payload[cache[Primary][s]].type = "CreateInode" =>
            payload[cache[Primary][s]].inode \in Files(tables)

EntriesOK ==
    \A n \in Names : tables.dirs[n] # NoInode => tables.dirs[n] \in Files(tables)

SInv == StoreTypes /\ LogOK /\ LinksOK /\ FlightOK /\ CallOK /\ ScanOK /\ EntriesOK

-----------------------------------------------------------------------------
(* What apply_locally makes of the tables.                                  *)
LEMMA RecordTypes ==
    /\ NewFile \in Record /\ RootDir \in Record /\ Absent \notin Record
    /\ NoOp \notin MetaOps
<1>1. NewFile \in Record /\ RootDir \in Record
  BY Zenon, ViewAssumption DEF NewFile, RootDir, Record, Modes
<1>2. Absent \notin Record
  <2>1. \A r \in Record : r.mode # "none"
    BY Zenon DEF Record, Modes
  <2> QED BY Zenon, <2>1 DEF Absent
<1>3. NoOp \notin MetaOps
  <2>1. \A o \in MetaOps : o.type # "none"
    <3> TAKE o \in MetaOps
    <3> QED BY Zenon, OpKinds
  <2> QED BY Zenon, <2>1 DEF NoOp
<1> QED BY Zenon, <1>1, <1>2, <1>3

(* One record, and what an operation makes of it.                           *)
RecordGrows(new, old) == Rank[new.mode] >= Rank[old.mode] /\ new.size >= old.size

LEMMA RecordStep ==
    ASSUME NEW o \in MetaOps, o.type \in OtherOps, NEW r \in Record,
           o.type = "AppendChunk" => r.data = "ChunkLog",
           o.type = "BeginConvert" => MayBegin(r.mode),
           o.type = "CompleteConvert" => MayComplete(r.mode)
    PROVE  /\ NewRecord(r, o) \in Record
           /\ (o.type = "UpdateExtents" => o.len >= r.size) => RecordGrows(NewRecord(r, o), r)
<1> DEFINE R == NewRecord(r, o)
<1>0. /\ r.mode \in Modes /\ r.size \in Nat /\ r.stored \in Nat
      /\ r = [mode |-> r.mode, data |-> r.data, size |-> r.size, stored |-> r.stored,
              scheme |-> r.scheme]
  BY Zenon DEF Record
<1>r. /\ Rank["AppendOnly"] = 0 /\ Rank["Converting"] = 1 /\ Rank["Writable"] = 2
      /\ Rank[r.mode] \in 0 .. 2
  BY <1>0 DEF Rank, Modes
<1>1. CASE o.type = "AppendChunk"
  <2>1. o.len = 1 /\ R = Appended(r, o.len)
    BY Zenon, <1>1, OpKinds DEF NewRecord
  <2>2. R = [mode |-> r.mode, data |-> r.data, size |-> r.size + 1,
             stored |-> r.stored + 1, scheme |-> r.scheme]
    <3>1. R = [r EXCEPT !.stored = r.stored + 1, !.size = r.size + 1]
      BY Zenon, <2>1 DEF Appended
    <3> QED BY Zenon, <3>1, <1>0
  <2>3. R \in Record /\ R.mode = r.mode /\ R.size = r.size + 1
    BY <2>2, <1>0 DEF Record
  <2> QED BY <2>3, <1>0, <1>r, <1>1 DEF RecordGrows
<1>2. CASE o.type = "BeginConvert"
  <2>1. R = [r EXCEPT !.mode = "Converting"] /\ r.mode = "AppendOnly"
    BY Zenon, <1>2, OpKinds DEF NewRecord, MayBegin
  <2>2. R \in Record /\ R.mode = "Converting" /\ R.size = r.size
    BY Zenon, <2>1, <1>0 DEF Record, Modes
  <2> QED BY <2>1, <2>2, <1>0, <1>r DEF RecordGrows
<1>3. CASE o.type = "CompleteConvert"
  <2>1. R = Converted(r, o.len) /\ o.len \in Nat
    BY Zenon, <1>3, OpKinds DEF NewRecord
  <2>2. R \in Record /\ R.mode = "Writable" /\ R.size = r.size
    BY Zenon, <2>1, <1>0 DEF Record, Modes, Converted
  <2> QED BY <2>1, <2>2, <1>0, <1>r DEF RecordGrows
<1>4. CASE o.type = "SetRedundancyScheme"
  <2>1. R = [r EXCEPT !.scheme = o.scheme] /\ o.scheme \in Schemes
    BY Zenon, <1>4, OpKinds DEF NewRecord
  <2>2. R \in Record /\ R.mode = r.mode /\ R.size = r.size
    BY Zenon, <2>1, <1>0 DEF Record
  <2> QED BY <2>1, <2>2, <1>0, <1>r DEF RecordGrows
<1>5. CASE o.type = "UpdateExtents"
  <2>1. R = Rewritten(r, o.len) /\ o.len \in Nat
    BY Zenon, <1>5, OpKinds DEF NewRecord
  <2>2. R \in Record /\ R.mode = r.mode /\ R.size = o.len
    BY Zenon, <2>1, <1>0 DEF Record, Rewritten
  <2> QED BY <2>1, <2>2, <1>0, <1>r, <1>5 DEF RecordGrows
<1> QED BY Zenon, <1>1, <1>2, <1>3, <1>4, <1>5 DEF OtherOps

(* The tables after an operation, for each kind of operation.               *)
LEMMA ApplyCreate ==
    ASSUME NEW t, TablesOK(t), NEW o \in MetaOps, o.type = "CreateInode"
    PROVE  /\ TablesOK(ApplyLocally(t, o))
           /\ Files(ApplyLocally(t, o)) = Files(t) \cup {o.inode}
           /\ ApplyLocally(t, o).dirs = t.dirs
           /\ \A i \in Inode \ {o.inode} : ApplyLocally(t, o).inodes[i] = t.inodes[i]
<1> DEFINE u == ApplyLocally(t, o)
<1>0. /\ o.inode \in Inode /\ o.rec \in Record /\ o.rec # Absent
      /\ Inode \subseteq Nat /\ t \in Tables
  BY OpKinds, RecordTypes, ViewAssumption DEF Inode, TablesOK
<1>1. u = [PutInode(t, o.inode, o.rec) EXCEPT !.next = NextAfter(@, o.inode)]
  BY Zenon DEF ApplyLocally
<1>2. /\ u.inodes = [t.inodes EXCEPT ![o.inode] = o.rec] /\ u.dirs = t.dirs
      /\ u.next = NextAfter(t.next, o.inode)
      /\ u = [inodes |-> u.inodes, dirs |-> u.dirs, next |-> u.next]
  BY Zenon, <1>0, <1>1 DEF PutInode, Tables
<1>3. /\ u.next \in 1 .. MaxInodes + 1 /\ u.next >= t.next /\ u.next > o.inode
      /\ u.next \in Nat /\ t.next \in Nat
  BY <1>0, <1>2, ViewAssumption DEF NextAfter, Tables, Inode
<1>4. u.inodes \in [Inode -> Record \cup {Absent}]
  BY Zenon, <1>0, <1>2 DEF Tables
<1>5. u \in Tables
  BY Zenon, <1>0, <1>2, <1>3, <1>4 DEF Tables
<1>6. /\ u.inodes[o.inode] = o.rec
      /\ \A i \in Inode \ {o.inode} : u.inodes[i] = t.inodes[i]
  BY Zenon, <1>0, <1>2 DEF Tables
<1>7. Files(u) = Files(t) \cup {o.inode}
  <2> HIDE DEF u
  <2> QED BY Zenon, <1>0, <1>6 DEF Files
<1>8. \A i \in Files(u) : i < u.next
  <2> HIDE DEF u
  <2>1. u.next \in Nat /\ t.next \in Nat /\ o.inode \in Nat /\ u.next >= t.next /\ u.next > o.inode
    BY Zenon, <1>0, <1>3
  <2>2. \A i \in Files(t) : i \in Nat /\ i < t.next
    <3>1. Files(t) \subseteq Inode
      BY Zenon DEF Files
    <3> QED BY Zenon, <1>0, <3>1 DEF TablesOK
  <2> QED BY ONLY SMTT(20), <1>7, <2>1, <2>2
<1> QED BY Zenon, <1>2, <1>5, <1>6, <1>7, <1>8 DEF TablesOK

LEMMA ApplyName ==
    ASSUME NEW t, TablesOK(t), NEW o \in MetaOps, o.type \in {"Link", "Unlink"}
    PROVE  /\ TablesOK(ApplyLocally(t, o))
           /\ Files(ApplyLocally(t, o)) = Files(t)
           /\ ApplyLocally(t, o).inodes = t.inodes
           /\ \A n \in Names :
                 \/ ApplyLocally(t, o).dirs[n] \in {t.dirs[n], NoInode}
                 \/ o.type = "Link" /\ ApplyLocally(t, o).dirs[n] = o.inode
<1> DEFINE u == ApplyLocally(t, o)
<1>0. t \in Tables
  BY Zenon DEF TablesOK
<1>1. PICK i \in Inode \cup {NoInode}, n \in Names :
        /\ u = [t EXCEPT !.dirs = [@ EXCEPT ![n] = i]]
        /\ i = NoInode \/ (o.type = "Link" /\ i = o.inode)
  BY Zenon, OpKinds DEF ApplyLocally
<1>2. /\ u.inodes = t.inodes /\ u.dirs = [t.dirs EXCEPT ![n] = i] /\ u.next = t.next
      /\ u = [inodes |-> u.inodes, dirs |-> u.dirs, next |-> u.next]
  BY Zenon, <1>0, <1>1 DEF Tables
<1>3. u.dirs \in [Names -> Inode \cup {NoInode}]
      /\ \A m \in Names : u.dirs[m] = t.dirs[m] \/ u.dirs[m] = i
  BY Zenon, <1>0, <1>2 DEF Tables
<1>4. u \in Tables
  BY Zenon, <1>0, <1>2, <1>3 DEF Tables
<1>5. Files(u) = Files(t)
  BY Zenon, <1>2 DEF Files
<1>6. TablesOK(u)
  BY Zenon, <1>2, <1>4, <1>5 DEF TablesOK
<1> HIDE DEF u
<1>7. \A m \in Names : \/ u.dirs[m] \in {t.dirs[m], NoInode}
                       \/ o.type = "Link" /\ u.dirs[m] = o.inode
  <2>1. i = NoInode \/ (o.type = "Link" /\ i = o.inode)
    BY Zenon, <1>1
  <2>2. \A m \in Names : u.dirs[m] = t.dirs[m] \/ u.dirs[m] = i
    BY Zenon, <1>3
  <2> QED BY ONLY Zenon, <2>1, <2>2
<1> QED BY Zenon, <1>2, <1>5, <1>6, <1>7 DEF u

LEMMA ApplyOther ==
    ASSUME NEW t, TablesOK(t), NEW o \in MetaOps, o.type \in OtherOps
    PROVE  /\ TablesOK(ApplyLocally(t, o))
           /\ Files(ApplyLocally(t, o)) = Files(t)
           /\ ApplyLocally(t, o).dirs = t.dirs
           /\ \A i \in Files(t) :
                 (o.type = "UpdateExtents" /\ o.inode \in Files(t) =>
                      o.len >= t.inodes[o.inode].size) =>
                     RecordGrows(ApplyLocally(t, o).inodes[i], t.inodes[i])
<1> DEFINE u == ApplyLocally(t, o)
           r == t.inodes[o.inode]
<1>0. t \in Tables /\ o.inode \in Inode
  BY Zenon, OpKinds DEF TablesOK, OtherOps
<1>s. ASSUME NEW i \in Files(t) PROVE RecordGrows(t.inodes[i], t.inodes[i])
  <2>1. t.inodes[i] \in Record
    BY Zenon, <1>0, <1>s DEF Files, Tables
  <2>2. t.inodes[i].mode \in Modes /\ t.inodes[i].size \in Nat
    BY Zenon, <2>1 DEF Record
  <2> QED BY <2>2 DEF RecordGrows, Rank, Modes
<1>1. CASE ~Valid(t, o)
  <2>1. u = t
    BY Zenon, <1>1 DEF ApplyLocally, OtherOps
  <2> QED BY Zenon, <2>1, <1>s
<1>2. CASE Valid(t, o)
  <2>1. u = PutInode(t, o.inode, NewRecord(r, o))
    BY Zenon, <1>2 DEF ApplyLocally, OtherOps
  <2>2. /\ r # Absent
        /\ o.type = "AppendChunk"     => r.data = "ChunkLog"
        /\ o.type = "BeginConvert"    => MayBegin(r.mode)
        /\ o.type = "CompleteConvert" => MayComplete(r.mode)
    BY Zenon, <1>2 DEF Valid, OtherOps
  <2>3. r \in Record /\ o.inode \in Files(t)
    BY Zenon, <2>2, <1>0 DEF Tables, Files
  <2>4. /\ NewRecord(r, o) \in Record
        /\ (o.type = "UpdateExtents" => o.len >= r.size) => RecordGrows(NewRecord(r, o), r)
    BY Zenon, <2>2, <2>3, RecordStep
  <2>5. /\ u.inodes = [t.inodes EXCEPT ![o.inode] = NewRecord(r, o)]
        /\ u.dirs = t.dirs /\ u.next = t.next
        /\ u = [inodes |-> u.inodes, dirs |-> u.dirs, next |-> u.next]
    BY Zenon, <2>1, <1>0 DEF PutInode, Tables
  <2>6. /\ u.inodes \in [Inode -> Record \cup {Absent}]
        /\ u.inodes[o.inode] = NewRecord(r, o)
        /\ \A i \in Inode \ {o.inode} : u.inodes[i] = t.inodes[i]
    BY Zenon, <2>4, <2>5, <1>0 DEF Tables
  <2>7. Files(u) = Files(t)
    <3> HIDE DEF u
    <3> QED BY Zenon, <2>3, <2>4, <2>6, <1>0, RecordTypes DEF Files
  <2>8. u \in Tables
    BY Zenon, <2>5, <2>6, <1>0 DEF Tables
  <2>9. ASSUME NEW i \in Files(t), o.type = "UpdateExtents" => o.len >= r.size
        PROVE  RecordGrows(u.inodes[i], t.inodes[i])
    <3>1. CASE i = o.inode
      BY Zenon, <3>1, <2>4, <2>6, <2>9
    <3>2. CASE i # o.inode
      BY Zenon, <3>2, <2>6, <1>s DEF Files
    <3> QED BY Zenon, <3>1, <3>2
  <2> QED BY Zenon, <2>3, <2>5, <2>7, <2>8, <2>9 DEF TablesOK
<1> QED BY Zenon, <1>1, <1>2

LEMMA SameRecords ==
    ASSUME NEW t, TablesOK(t), NEW u, u.inodes = t.inodes
    PROVE  AtLeast(u, t) /\ Files(u) = Files(t)
<1> SUFFICES ASSUME NEW i \in Files(t)
             PROVE  /\ i \in Files(u)
                    /\ Rank[u.inodes[i].mode] >= Rank[t.inodes[i].mode]
                    /\ u.inodes[i].size >= t.inodes[i].size
  BY Zenon DEF AtLeast, Files
<1>1. t.inodes[i] \in Record
  BY Zenon DEF Files, TablesOK, Tables
<1>2. t.inodes[i].mode \in Modes /\ t.inodes[i].size \in Nat
  BY Zenon, <1>1 DEF Record
<1> QED BY <1>2 DEF Rank, Modes, Files

(* All of it in one.                                                        *)
LEMMA ApplyStep ==
    ASSUME NEW t, TablesOK(t), NEW o \in MetaOps
    PROVE  /\ TablesOK(ApplyLocally(t, o))
           /\ Files(t) \subseteq Files(ApplyLocally(t, o))
           /\ o.type = "CreateInode" => o.inode \in Files(ApplyLocally(t, o))
           /\ /\ \A n \in Names : t.dirs[n] # NoInode => t.dirs[n] \in Files(t)
              /\ o.type = "Link" => o.inode \in Files(t)
              => \A n \in Names : ApplyLocally(t, o).dirs[n] # NoInode =>
                    ApplyLocally(t, o).dirs[n] \in Files(ApplyLocally(t, o))
           /\ /\ o.type = "CreateInode" => o.inode \notin Files(t)
              /\ o.type = "UpdateExtents" /\ o.inode \in Files(t) =>
                    o.len >= t.inodes[o.inode].size
              => AtLeast(ApplyLocally(t, o), t)
<1>1. CASE o.type = "CreateInode"
  <2>1. o.inode \notin Files(t) => AtLeast(ApplyLocally(t, o), t)
    <3> DEFINE u == ApplyLocally(t, o)
    <3> SUFFICES ASSUME o.inode \notin Files(t), NEW i \in Files(t)
                 PROVE  /\ i \in Files(u)
                        /\ Rank[u.inodes[i].mode] >= Rank[t.inodes[i].mode]
                        /\ u.inodes[i].size >= t.inodes[i].size
      BY Zenon DEF AtLeast
    <3>1. i \in Files(u) /\ u.inodes[i] = t.inodes[i]
      BY <1>1, ApplyCreate DEF Files
    <3>2. t.inodes[i] \in Record
      BY Zenon DEF Files, TablesOK, Tables
    <3>3. t.inodes[i].mode \in Modes /\ t.inodes[i].size \in Nat
      BY Zenon, <3>2 DEF Record
    <3> HIDE DEF u
    <3> QED BY <3>1, <3>3 DEF Rank, Modes
  <2> QED BY Zenon, <1>1, <2>1, ApplyCreate
<1>2. CASE o.type \in {"Link", "Unlink"}
  BY Zenon, <1>2, SameRecords, ApplyName
<1>3. CASE o.type \in OtherOps
  BY Zenon, <1>3, ApplyOther DEF AtLeast, RecordGrows, OtherOps
<1> QED BY Zenon, <1>1, <1>2, <1>3, OpKinds DEF OtherOps

-----------------------------------------------------------------------------
(* The tables over the log.                                                 *)
LEMMA EmptyOK ==
    /\ TablesOK(EmptyTables)
    /\ \A n \in Names : EmptyTables.dirs[n] = NoInode
  BY ViewAssumption DEF TablesOK, EmptyTables, Tables, Files

LEMMA CreatedKept ==
    ASSUME LogOK, LogMoves, NEW i, NEW s, CreatedBelow(i, s)
    PROVE  CreatedBelow(i, s)'
<1>1. PICK a \in acked : /\ a.slot < s
                         /\ payload[a.op].type = "CreateInode" /\ payload[a.op].inode = i
  BY Zenon DEF CreatedBelow
<1>2. a \in acked'
  BY Zenon, <1>1, LogStepMoves DEF NewAcks, LogOK, LogMoves, IInv
<1>3. a.op \in Op /\ a.op <= issued
  BY Zenon, <1>1 DEF LogOK, AckedOK, IInv, TypeInv, TypeOK
<1>4. payload'[a.op] = payload[a.op]
  BY Zenon, <1>3 DEF LogMoves, PayloadKept
<1> QED BY Zenon, <1>1, <1>2, <1>4 DEF CreatedBelow

LEMMA LinksKept ==
    ASSUME LogOK, LogMoves, LinksOK,
           PrimaryWrite /\ payload'[issued + 1].type = "Link" =>
               CreatedBelow(payload'[issued + 1].inode, cursor)
    PROVE  LinksOK'
<1> SUFFICES ASSUME NEW s \in Slot, NEW o \in Op, s < WalCapacity, o \in Held(s)',
                    payload'[o].type = "Link"
             PROVE  CreatedBelow(payload[o].inode, s)'
  BY Zenon DEF LinksOK
<1>1. CASE o \in Held(s)
  <2>1. o <= issued
    BY Zenon, <1>1 DEF LogOK, HeldOK
  <2>2. payload'[o] = payload[o]
    BY Zenon, <2>1 DEF LogMoves, PayloadKept
  <2>3. CreatedBelow(payload[o].inode, s)
    BY Zenon, <1>1, <2>2 DEF LinksOK
  <2>4. ASSUME NEW i, i = payload[o].inode PROVE CreatedBelow(i, s)'
    BY Zenon, <2>3, <2>4, CreatedKept
  <2> QED BY Zenon, <2>2, <2>4 DEF CreatedBelow
<1>2. CASE s = cursor /\ o = issued + 1 /\ PrimaryWrite
  <2>1. CreatedBelow(payload'[issued + 1].inode, cursor)
    BY Zenon, <1>2
  <2>2. ASSUME NEW i, i = payload'[issued + 1].inode, NEW c, c = cursor PROVE CreatedBelow(i, c)'
    BY Zenon, <2>1, <2>2, CreatedKept
  <2> QED BY Zenon, <1>2, <2>2 DEF CreatedBelow
<1> QED BY Zenon, <1>1, <1>2, StoreHeld DEF NewlyHeld

(* What is left to show of a step, once the log is taken care of.           *)
Grows == Serving /\ Serving' => AtLeast(tables', tables)
TablesStep ==
    /\ TablesOK(tables') /\ call' \in Calls /\ known' \subseteq Inode
    /\ LinksOK' /\ FlightOK' /\ CallOK' /\ ScanOK' /\ EntriesOK' /\ Grows

LEMMA CallTables ==
    ASSUME SInv, LogMoves, CallStep
    PROVE  TablesStep
<1>t. TablesOK(tables) /\ call \in Calls /\ known \subseteq Inode /\ NoCall \in Calls /\ NoCall.kind = "none"
      /\ issued \in 0 .. MaxOps /\ payload \in [Op -> MetaOps \cup {NoOp}]
  BY Zenon DEF SInv, StoreTypes, Calls, NoCall, LogOK, IInv, TypeInv, TypeOK
<1>1. PICK o \in MetaOps, next \in Calls : Issue(o, next) /\ Proper(o, next)
  BY Zenon, Issues DEF SInv, Issued
<1>2. /\ TablesOK(tables') /\ tables'.inodes = tables.inodes /\ tables'.dirs = tables.dirs
      /\ known' = known /\ pc = "idle"
  BY Zenon, <1>1 DEF Proper, Issue, PrimaryWrite, PrimaryWriteFails
<1>3. AtLeast(tables', tables) /\ Files(tables') = Files(tables)
  BY Zenon, <1>t, <1>2, SameRecords
<1>4. EntriesOK'
  BY Zenon, <1>2, <1>3 DEF SInv, EntriesOK
<1>5. CASE PrimaryWrite /\ payload' = [payload EXCEPT ![issued + 1] = o] /\ call' = next
  <2>1. /\ pc' = "p_sync" /\ op' = issued + 1 /\ cursor' = cursor /\ issued + 1 \in Op
    BY <1>5, <1>t, BoundAssumption DEF PrimaryWrite, Op
  <2>2. payload'[issued + 1] = o
    BY Zenon, <1>5, <2>1, <1>t
  <2>3. LinksOK'
    BY Zenon, <1>1, <2>2, LinksKept DEF SInv, Proper
  <2>4. ASSUME o.type = "Link", NEW i, i = o.inode, NEW c, c = cursor PROVE CreatedBelow(i, c)'
    BY Zenon, <1>1, <2>4, CreatedKept DEF SInv, Proper
  <2>5. o.type = "Link" => CreatedBelow(o.inode, cursor)'
    BY Zenon, <2>1, <2>4 DEF CreatedBelow
  <2>6. FlightOK'
    BY Zenon, <1>1, <1>2, <1>3, <1>5, <2>1, <2>2, <2>5 DEF FlightOK, Proper
  <2>7. CallOK' /\ ScanOK'
    BY Zenon, <2>1 DEF CallOK, ScanOK
  <2> QED BY Zenon, <1>t, <1>2, <1>3, <1>4, <1>5, <2>3, <2>6, <2>7 DEF TablesStep, Grows
<1>6. CASE PrimaryWriteFails /\ UNCHANGED store /\ call' = NoCall
  <2>1. pc' = "idle"
    BY Zenon, <1>6 DEF PrimaryWriteFails
  <2>2. LinksOK'
    BY Zenon, <2>1, LinksKept DEF SInv, PrimaryWrite
  <2>3. FlightOK' /\ CallOK' /\ ScanOK'
    BY Zenon, <1>6, <1>t, <2>1 DEF FlightOK, CallOK, ScanOK, Committing
  <2> QED BY Zenon, <1>t, <1>2, <1>3, <1>4, <1>6, <2>2, <2>3 DEF TablesStep, Grows
<1> QED BY Zenon, <1>1, <1>5, <1>6 DEF Issue

LEMMA LogTables ==
    ASSUME SInv, LogMoves, LogStep
    PROVE  TablesStep
<1>t. TablesOK(tables) /\ call \in Calls /\ known \subseteq Inode /\ NoCall \in Calls /\ NoCall.kind = "none"
      /\ LogOK /\ FlightOK /\ EntriesOK
  BY Zenon DEF SInv, StoreTypes, Calls, NoCall
<1>p. pc \in Committing /\ pc' \in Committing \cup {"idle"}
  BY Zenon DEF LogStep, Commit, Fail, PrimarySync, BackupWrite, BackupSync,
     PrimarySyncFails, BackupWriteFails, BackupSyncFails, Acknowledge, Committing
<1>f. op \in Op /\ op <= issued /\ payload[op] \in MetaOps
  BY Zenon, <1>t, <1>p, InFlightFacts
<1>m. NewAcks /\ CursorMoves /\ cursor \in Nat
  BY <1>t, LogStepMoves, BoundAssumption DEF LogOK, LogMoves, IInv, TypeInv, TypeOK
<1>l. LinksOK'
  BY Zenon, <1>p, LinksKept DEF SInv, PrimaryWrite, Committing
<1>s. ScanOK'
  BY Zenon, <1>p DEF ScanOK, Committing
<1>1. CASE acked' # acked /\ Materialize
  <2>1. PICK a \in acked' : a \notin acked
    BY Zenon, <1>1, <1>m DEF NewAcks
  <2>2. pc' = "idle" /\ cursor' = cursor + 1 /\ a.slot = cursor /\ a.op = op
    BY Zenon, <2>1, <1>m DEF NewAcks
  <2>3. /\ tables' = ApplyLocally(tables, payload[op]) /\ payload' = payload
        /\ call' \in {call, NoCall}
        /\ known' = known \cup (IF payload[op].type = "Link" THEN {payload[op].inode} ELSE {})
    BY Zenon, <1>1 DEF Materialize, store
  <2>4. /\ TablesOK(tables') /\ Files(tables) \subseteq Files(tables')
        /\ payload[op].type = "CreateInode" => payload[op].inode \in Files(tables')
    BY Zenon, <2>3, <1>t, <1>f, ApplyStep
  <2>5. EntriesOK'
    <3>1. payload[op].type = "Link" => payload[op].inode \in Files(tables)
      BY Zenon, <1>t, <1>p DEF FlightOK
    <3>2. \A n \in Names : tables.dirs[n] # NoInode => tables.dirs[n] \in Files(tables)
      BY Zenon, <1>t DEF EntriesOK
    <3>3. \A n \in Names : tables'.dirs[n] # NoInode => tables'.dirs[n] \in Files(tables')
      BY Zenon, <3>1, <3>2, <2>3, <1>t, <1>f, ApplyStep
    <3> QED BY Zenon, <3>3 DEF EntriesOK
  <2>6. AtLeast(tables', tables)
    <3>1. /\ payload[op].type = "CreateInode" => payload[op].inode \notin Files(tables)
          /\ payload[op].type = "UpdateExtents" /\ payload[op].inode \in Files(tables) =>
                payload[op].len >= tables.inodes[payload[op].inode].size
      BY Zenon, <1>t, <1>p DEF FlightOK
    <3> QED BY Zenon, <3>1, <2>3, <1>t, <1>f, ApplyStep
  <2>7. CallOK'
    <3>1. ASSUME call'.kind = "link"
          PROVE  call'.inode \in Files(tables') /\ CreatedBelow(call.inode, cursor)'
      <4>1. call' = call /\ payload[op].type = "CreateInode" /\ payload[op].inode = call.inode
        BY Zenon, <3>1, <2>3, <1>t, <1>p DEF FlightOK
      <4>2. a.slot < cursor' /\ payload'[a.op].type = "CreateInode" /\ payload'[a.op].inode = call'.inode
        BY <4>1, <2>2, <2>3, <1>m
      <4> QED BY Zenon, <4>1, <4>2, <2>1, <2>4 DEF CreatedBelow
    <3> QED BY Zenon, <3>1, <2>2 DEF CallOK
  <2>8. known' \subseteq Inode
    BY Zenon, <2>3, <1>t, <1>f, OpKinds
  <2>9. FlightOK'
    BY Zenon, <2>2 DEF FlightOK, Committing
  <2> QED BY Zenon, <1>l, <1>s, <1>t, <2>3, <2>4, <2>5, <2>6, <2>7, <2>8, <2>9
             DEF TablesStep, Grows
<1>2. CASE /\ acked' = acked
           /\ call' = IF pc' = "idle" THEN NoCall ELSE call
           /\ UNCHANGED <<store, tables, known, ghosts>>
  <2>1. payload' = payload /\ tables' = tables /\ known' = known
    BY Zenon, <1>2 DEF store
  <2>2. CallOK'
    BY Zenon, <1>p, <1>2, <1>t DEF CallOK, Committing
  <2>3. FlightOK'
    <3> SUFFICES ASSUME pc' \in Committing
                 PROVE  FlightOK'
      BY Zenon DEF FlightOK
    <3>1. op' = op /\ cursor' = cursor /\ call' = call
      BY Zenon, <1>m, <1>p, <1>2 DEF CursorMoves, Committing, PrimaryWrite
    <3>2. CreatedBelow(payload[op].inode, cursor) => CreatedBelow(payload[op].inode, cursor)'
      BY Zenon, <1>2, <2>1, <3>1 DEF CreatedBelow
    <3> QED BY Zenon, <1>t, <1>p, <2>1, <3>1, <3>2 DEF FlightOK
  <2>4. EntriesOK' /\ Grows
    BY Zenon, <1>t, <2>1, SameRecords DEF EntriesOK, Grows
  <2> QED BY Zenon, <1>l, <1>s, <1>t, <1>2, <2>1, <2>2, <2>3, <2>4 DEF TablesStep
<1> QED BY Zenon, <1>1, <1>2 DEF LogStep

(* The process ends: the tables are dropped.                                *)
LEMMA EndTables ==
    ASSUME SInv, LogMoves, pc' = "down", tables' = EmptyTables, call' = NoCall, known' \subseteq Inode
    PROVE  TablesStep
<1>1. LinksOK'
  BY Zenon, LinksKept DEF SInv, PrimaryWrite
<1>2. FlightOK' /\ CallOK' /\ ScanOK' /\ Grows
  BY Zenon DEF FlightOK, CallOK, ScanOK, Grows, Serving, Running, Committing, NoCall
<1>3. TablesOK(tables') /\ EntriesOK' /\ call' \in Calls
  BY Zenon, EmptyOK DEF EntriesOK, Calls
<1> QED BY Zenon, <1>1, <1>2, <1>3 DEF TablesStep

(* The tables stay as they are.                                             *)
LEMMA QuietTables ==
    ASSUME SInv, LogMoves, tables' = tables, call' = NoCall, known' \subseteq Inode,
           pc' \in {"idle", "scan", "down"}, pc' = "scan" => cursor' = 0
    PROVE  TablesStep
<1>1. LinksOK'
  BY Zenon, LinksKept DEF SInv, PrimaryWrite
<1>2. FlightOK' /\ CallOK'
  BY Zenon DEF FlightOK, CallOK, Committing, NoCall
<1>3. ScanOK'
  BY SlotFacts DEF ScanOK
<1>4. TablesOK(tables') /\ EntriesOK' /\ call' \in Calls /\ Grows
  BY Zenon, SameRecords DEF SInv, StoreTypes, EntriesOK, Calls, Grows
<1> QED BY Zenon, <1>1, <1>2, <1>3, <1>4 DEF TablesStep

(* A replayed entry finds its inode: what LinksOK says of the log, the scan *)
(* has made true of the tables.                                             *)
LEMMA ReplayTables ==
    ASSUME SInv, LogMoves, ReplayFrame
    PROVE  TablesStep
<1> DEFINE f == cache[Primary][cursor]
<1>t. TablesOK(tables) /\ call = NoCall /\ known \subseteq Inode /\ LogOK /\ pc = "scan" /\ pc' = "scan"
  BY Zenon DEF SInv, StoreTypes, CallOK, ReplayFrame, ScanFrame
<1>1. /\ cursor \in Slot /\ cursor < WalCapacity /\ f \in Op /\ cursor' = cursor + 1
      /\ cache' = cache /\ payload' = payload /\ call' = call /\ known' = known
      /\ tables' = ApplyLocally(tables, payload[f])
  BY <1>t, BoundAssumption
     DEF ReplayFrame, ScanFrame, LogOK, IInv, TypeInv, TypeOK, Slot, disks, store
<1>2. payload[f] \in MetaOps
  BY Zenon, <1>1, <1>t DEF LogOK, HeldOK, Held
<1>3. ASSUME payload[f].type = "Link" PROVE payload[f].inode \in Files(tables)
  <2>1. CreatedBelow(payload[f].inode, cursor)
    BY Zenon, <1>1, <1>3 DEF SInv, LinksOK, Held
  <2>2. PICK a \in acked : /\ a.slot < cursor /\ payload[a.op].type = "CreateInode"
                           /\ payload[a.op].inode = payload[f].inode
    BY Zenon, <2>1 DEF CreatedBelow
  <2>3. a.slot \in Slot /\ InWal(a)
    BY <1>1, <1>t, <2>2, BoundAssumption DEF LogOK, IInv, TypeInv, TypeOK, InWal, Slot
  <2>4. cache[Primary][a.slot] = a.op
    BY Zenon, <1>t, <2>2, <2>3 DEF LogOK, IInv, AckedDurable, Durable
  <2> QED BY Zenon, <1>t, <2>2, <2>3, <2>4 DEF SInv, ScanOK
<1> HIDE DEF f
<1>4. /\ TablesOK(tables') /\ Files(tables) \subseteq Files(tables')
      /\ payload[f].type = "CreateInode" => payload[f].inode \in Files(tables')
  BY Zenon, <1>1, <1>2, <1>t, ApplyStep
<1>5. EntriesOK'
  <2>1. \A n \in Names : tables.dirs[n] # NoInode => tables.dirs[n] \in Files(tables)
    BY Zenon DEF SInv, EntriesOK
  <2>2. \A n \in Names : tables'.dirs[n] # NoInode => tables'.dirs[n] \in Files(tables')
    BY Zenon, <1>1, <1>2, <1>3, <1>t, <2>1, ApplyStep
  <2> QED BY Zenon, <2>2 DEF EntriesOK
<1>6. ScanOK'
  <2>1. ASSUME NEW s \in Slot, s < cursor + 1, payload[cache[Primary][s]].type = "CreateInode"
        PROVE  payload[cache[Primary][s]].inode \in Files(tables')
    <3>1. CASE s < cursor
      BY Zenon, <1>t, <1>4, <2>1, <3>1 DEF SInv, ScanOK
    <3>2. CASE s = cursor
      BY Zenon, <1>4, <2>1, <3>2 DEF f
    <3> QED BY <1>1, <2>1, <3>1, <3>2, SlotFacts
  <2> QED BY Zenon, <1>1, <2>1 DEF ScanOK
<1>7. LinksOK'
  BY Zenon, <1>t, LinksKept DEF SInv, PrimaryWrite
<1>8. FlightOK' /\ CallOK' /\ Grows /\ call' \in Calls
  BY Zenon, <1>t, <1>1 DEF FlightOK, CallOK, Grows, Serving, Running, Committing, Calls
<1> QED BY Zenon, <1>1, <1>t, <1>4, <1>5, <1>6, <1>7, <1>8 DEF TablesStep

LEMMA StoreStep ==
    ASSUME SInv, [StoreMove]_svars
    PROVE  SInv' /\ Grows
<1>t. TablesOK(tables) /\ call \in Calls /\ known \subseteq Inode /\ Root \in Inode
  BY ViewAssumption DEF SInv, StoreTypes, Root, Inode
<1>1. LogMoves
  BY Zenon, StoreLog DEF SInv
<1>2. LogOK'
  BY Zenon, <1>1, LogOKStep DEF SInv
<1>3. SUFFICES TablesStep
  BY Zenon, <1>1, <1>2, <1>3 DEF SInv, StoreTypes, TablesStep, LogMoves
<1>4. CASE CallStep
  BY Zenon, <1>1, <1>4, CallTables
<1>5. CASE LogStep
  BY Zenon, <1>1, <1>5, LogTables
<1>6. CASE ReplayFrame
  BY Zenon, <1>1, <1>6, ReplayTables
<1>7. CASE StoreCrash \/ ReplayFails \/ StorePanics
  <2>1. pc' = "down" /\ tables' = EmptyTables /\ known' \subseteq Inode
    BY Zenon, <1>7, <1>t DEF StoreCrash, ReplayFails, StorePanics, ProcessCrash,
       PowerLoss, ScanPanics
  <2>2. call' = NoCall
    BY Zenon, <1>7 DEF StoreCrash, ReplayFails, StorePanics, ScanPanics, SInv, CallOK
  <2> QED BY Zenon, <1>1, <2>1, <2>2, EndTables
<1>8. CASE StoreOpen
  <2>1. pc = "down" /\ pc' = "scan" /\ cursor' = 0 /\ UNCHANGED <<tables, call, known>>
    BY Zenon, <1>8 DEF StoreOpen, Open
  <2>2. call' = NoCall
    BY Zenon, <2>1 DEF SInv, CallOK
  <2> QED BY Zenon, <1>1, <1>t, <2>1, <2>2, QuietTables
<1>9. CASE StoreScanEnd
  <2>1. pc = "scan" /\ pc' = "idle" /\ UNCHANGED <<tables, call>>
        /\ known' = {Root} \cup ({tables.dirs[n] : n \in Names} \ {NoInode})
    BY Zenon, <1>9 DEF StoreScanEnd, ScanEnd, ScanMisaligned, Looked
  <2>2. call' = NoCall
    BY Zenon, <2>1 DEF SInv, CallOK
  <2>3. known' \subseteq Inode
    BY Zenon, <1>t, <2>1 DEF TablesOK, Tables
  <2> QED BY Zenon, <1>1, <2>1, <2>2, <2>3, QuietTables
<1>10. CASE CompleteConversionFails
  <2>1. pc' = "idle" /\ UNCHANGED <<tables, known>> /\ call' = NoCall
    BY Zenon, <1>10 DEF CompleteConversionFails
  <2> QED BY Zenon, <1>1, <1>t, <2>1, QuietTables
<1>11. CASE UNCHANGED svars
  <2>1. UNCHANGED <<cache, stable, pc, op, cursor, issued, acked, payload, tables, call, known>>
    BY Zenon, <1>11 DEF svars, vars, disks, history, store
  <2>2. LinksOK' /\ FlightOK' /\ CallOK' /\ ScanOK' /\ EntriesOK'
    BY Zenon, <2>1 DEF SInv, LinksOK, FlightOK, CallOK, ScanOK, EntriesOK, CreatedBelow,
       Held
  <2> QED BY Zenon, <1>t, <2>1, <2>2, SameRecords DEF TablesStep, Grows
<1> QED BY Zenon, <1>4, <1>5, <1>6, <1>7, <1>8, <1>9, <1>10, <1>11 DEF StoreMove,
           CallStep

LEMMA StoreInitOK ==
    ASSUME StoreInit
    PROVE  SInv
<1> DEFINE o == CreateInode(Root, RootDir)
           a == [slot |-> 0, op |-> 1, members |-> {Primary, ConfiguredBackup} \ {NoDisk}]
<1>0. /\ 0 \in Slot /\ 1 \in Op /\ Root \in Inode /\ 1 \in Content /\ 0 \in Content /\ 0 \notin Op
      /\ MaxSlots \in Nat /\ 1 \in 0 .. MaxSlots /\ \A s \in Slot : s \in Nat /\ (s < 1 => s = 0)
      /\ 1 \in 0 .. MaxOps /\ 0 < WalCapacity
  BY StoreAssumption, BoundAssumption, ViewAssumption DEF Slot, Op, Root, Inode, Content, Empty
<1>1. /\ \A d \in Disk, s \in Slot :
            /\ cache[d][s] = (IF s = 0 /\ d \in {Primary, ConfiguredBackup} THEN 1 ELSE Empty)
            /\ stable[d][s] = cache[d][s]
      /\ stable = cache /\ cache \in [Disk -> [Slot -> Content]]
      /\ pc = "idle" /\ op = 0 /\ cursor = 1 /\ view = <<1>> /\ acked = {a} /\ issued = 1
  BY Zenon, <1>0 DEF StoreInit, Empty
<1>2. /\ Primary \in Disk /\ {Primary, ConfiguredBackup} \ {NoDisk} \subseteq Disk
      /\ cache[Primary][0] = 1 /\ stable[Primary][0] = 1
      /\ \A s \in Slot : s # 0 => cache[Primary][s] = 0 /\ stable[Primary][s] = 0
  BY Zenon, <1>0, <1>1, PrimaryIsDisk DEF Disk, Empty
<1>3. TypeInv
  <2>1. a \in [slot : Slot, op : Op, members : SUBSET Disk] /\ <<1>> \in Seq(Op)
    BY <1>0, <1>2
  <2>2. /\ backup \in Disk \cup {NoDisk} /\ epoch \in Nat /\ fenced \subseteq Disk
        /\ kills \in 0 .. MaxKills /\ losses \in 0 .. MaxPowerLosses /\ faults \in 0 .. MaxFaults
        /\ readFaults \in 0 .. MaxReadFaults /\ promotes \in 0 .. MaxPromotes
    BY BoundAssumption DEF StoreInit, Disk
  <2>3. acked \subseteq [slot : Slot, op : Op, members : SUBSET Disk]
    BY Zenon, <1>1, <2>1
  <2> HIDE DEF a
  <2>4. TypeOK
    BY Zenon, <1>0, <1>1, <2>1, <2>2, <2>3 DEF TypeOK, PCs, Running
  <2> QED BY Zenon, <1>1, <2>4, DiskAssumption DEF StoreInit, TypeInv, InFlight
<1>4. DurableThrough(Primary, 0) /\ Durable(Primary, 0, 1)
  BY <1>0, <1>2 DEF DurableThrough, Durable
<1>5. LogBelowCursor /\ CommitProgress /\ AckedBelowCursor
  BY <1>0, <1>1, <1>2 DEF LogBelowCursor, CommitProgress, AckedBelowCursor
<1>6. ASSUME NEW d \in Disk, NEW s \in Slot, NEW x \in Op, x \in {cache[d][s], stable[d][s]}
      PROVE  s = 0 /\ x = 1
  BY <1>0, <1>1, <1>6 DEF Empty
<1>7. ReplicaBelowCursor /\ ReplicasBehind
  BY <1>0, <1>1, <1>4, <1>6 DEF ReplicaBelowCursor, ReplicasBehind
<1>8. AckedDurable /\ MembersDurable
  <2>1. \A d \in a.members : Durable(d, 0, 1)
    BY Zenon, <1>0, <1>1, <1>2 DEF Durable
  <2> QED BY <1>1, <1>4, <2>1 DEF AckedDurable, MembersDurable
<1>9. IInv
  BY Zenon, <1>3, <1>5, <1>7, <1>8 DEF IInv
<1>10. /\ payload[1] = o /\ o \in MetaOps /\ o.type = "CreateInode" /\ o.inode = Root
       /\ payload \in [Op -> MetaOps \cup {NoOp}] /\ behind \in [Op -> Content]
  <2>1. o \in MetaOps /\ o.type = "CreateInode" /\ o.inode = Root
    BY <1>0 DEF MetaOps, CreateInode
  <2> HIDE DEF o
  <2>2. payload = [x \in Op |-> IF x = 1 THEN o ELSE NoOp] /\ behind = [x \in Op |-> 0]
    BY Zenon DEF StoreInit, o
  <2> QED BY Zenon, <1>0, <2>1, <2>2
<1>11. HeldOK /\ AckedOK
  <2>1. HeldOK
    BY <1>0, <1>1, <1>2, <1>6, <1>10 DEF HeldOK, Held
  <2> QED BY <1>1, <2>1 DEF AckedOK
<1>12. Aligned(0) /\ AlignedBelow /\ AlignedAt /\ AlignedSettled
  <2>1. Aligned(0)
    BY DEF Aligned
  <2>2. \A s \in Slot : Settled(s) => s = 0
    BY <1>1, <1>6 DEF Settled
  <2>3. 0 .. 0 = {0}
    OBVIOUS
  <2> QED BY Zenon, <1>0, <1>1, <2>1, <2>2, <2>3 DEF AlignedBelow, AlignedAt,
             AlignedSettled, Committing
<1>13. LogOK
  BY Zenon, <1>9, <1>11, <1>12 DEF LogOK, StoreInit
<1>14. LinksOK
  BY Zenon, <1>2, <1>6, <1>10 DEF LinksOK, Held
<1>15. TablesOK(tables) /\ EntriesOK
  <2>1. tables = ApplyLocally(EmptyTables, o)
    BY Zenon DEF StoreInit
  <2> HIDE DEF o
  <2>2. TablesOK(tables) /\ tables.dirs = EmptyTables.dirs
    BY Zenon, <1>10, <2>1, EmptyOK, ApplyCreate
  <2> QED BY Zenon, <2>2, EmptyOK DEF EntriesOK
<1>16. call \in Calls /\ known \subseteq Inode /\ call = NoCall
  BY Zenon, <1>0 DEF StoreInit, Calls
<1>17. FlightOK /\ CallOK /\ ScanOK
  BY Zenon, <1>1, <1>16 DEF FlightOK, CallOK, ScanOK, Committing, NoCall
<1> QED BY Zenon, <1>10, <1>13, <1>14, <1>15, <1>16, <1>17 DEF SInv, StoreTypes

-----------------------------------------------------------------------------
(* What follows holds until a read of the recovery scan fails, and no read  *)
(* that has failed is forgotten.                                            *)
LEMMA ReadStep ==
    ASSUME readFaults \in Nat, [StoreNext]_svars
    PROVE  readFaults' \in Nat /\ (AllRead' => AllRead /\ [StoreMove]_svars)
<1>1. CASE StoreReadError
  <2>1. readFaults' = readFaults + 1
    BY Zenon, <1>1 DEF StoreReadError, ScanReadError
  <2>2. readFaults' \in Nat /\ readFaults' # 0
    BY <2>1
  <2> QED BY Zenon, <2>2 DEF AllRead
<1>2. ASSUME [StoreMove]_svars, readFaults' = readFaults
      PROVE  readFaults' \in Nat /\ (AllRead' => AllRead /\ [StoreMove]_svars)
  BY Zenon, <1>2 DEF AllRead
<1>3. ASSUME NEW o, NEW next, Issue(o, next) PROVE readFaults' = readFaults
  BY Zenon, <1>3 DEF Issue, PrimaryWrite, PrimaryWriteFails, Fault, bounds
<1>4. CASE CallStep
  BY Zenon, <1>2, <1>3, <1>4 DEF CallStep, StoreMove, Create, CreateLink, UnlinkFile,
     SetRedundancy, Write, MakeWritable, CompleteConversion
<1>5. CASE LogStep
  BY Zenon, <1>2, <1>5 DEF LogStep, Commit, Fail, PrimarySync, BackupWrite, BackupSync,
     PrimarySyncFails, BackupWriteFails, BackupSyncFails, Fault, bounds, StoreMove
<1>6. CASE \/ StoreCrash \/ StoreOpen \/ ReplayFrame \/ ReplayFails \/ StoreScanEnd
           \/ StorePanics \/ CompleteConversionFails
  <2>1. readFaults' = readFaults
    BY Zenon, <1>6 DEF StoreCrash, ProcessCrash, PowerLoss, StoreOpen, Open, ReplayFrame,
       ScanFrame, ReplayFails, StoreScanEnd, ScanEnd, ScanMisaligned, StorePanics, ScanPanics,
       CompleteConversionFails, Fault, bounds
  <2>2. StoreMove
    BY Zenon, <1>6 DEF StoreMove
  <2> QED BY Zenon, <1>2, <2>1, <2>2
<1>7. CASE UNCHANGED svars
  <2>1. readFaults' = readFaults
    BY Zenon, <1>7 DEF svars, vars, bounds
  <2> QED BY Zenon, <1>2, <1>7, <2>1
<1> QED BY Zenon, <1>1, <1>4, <1>5, <1>6, <1>7 DEF StoreNext, StoreMove, CallStep

ReadSInv == readFaults \in Nat /\ (AllRead => SInv)

LEMMA SInvHolds == StoreSpec => []ReadSInv
<1>1. StoreInit => ReadSInv
  <2>1. StoreInit => readFaults \in Nat
    BY DEF StoreInit
  <2> QED BY Zenon, <2>1, StoreInitOK DEF ReadSInv
<1>2. ReadSInv /\ [StoreNext]_svars => ReadSInv'
  BY Zenon, ReadStep, StoreStep DEF ReadSInv
<1> QED BY <1>1, <1>2, PTL DEF StoreSpec

(* What apply acknowledged stays in its slot, synced, below a log a scan    *)
(* can read, until a read of the scan fails: also when frames of several    *)
(* sizes are left over from before a crash and a scan ends in the middle of *)
(* one.                                                                     *)
THEOREM StoreDurability == StoreSpec => []AckedSurvives
<1>1. ReadSInv => AckedSurvives
  BY Zenon DEF ReadSInv, SInv, LogOK, IInv, AckedSurvives
<1> QED BY <1>1, SInvHolds, PTL

(* No directory entry without its inode, however often create_file was      *)
(* interrupted between its two operations and whatever was replayed since,  *)
(* until a read of the recovery scan fails.                                 *)
THEOREM NoDangling == StoreSpec => []NoDanglingEntry
<1>1. ReadSInv => NoDanglingEntry
  BY Zenon DEF ReadSInv, SInv, EntriesOK, NoDanglingEntry
<1> QED BY <1>1, SInvHolds, PTL

(* Between two openings of the store no operation takes a file away, makes  *)
(* it shorter or turns its mode back, until a read of the scan fails.       *)
THEOREM Growth == StoreSpec => FilesOnlyGrow
<1>1. ReadSInv /\ [StoreNext]_svars =>
        [AllRead' /\ Serving /\ Serving' => AtLeast(tables', tables)]_svars
  BY Zenon, ReadStep, StoreStep DEF ReadSInv, Grows
<1> QED BY <1>1, SInvHolds, PTL DEF StoreSpec, FilesOnlyGrow

-----------------------------------------------------------------------------
(* The tables as the log has them.  R lists what a replay of the frames     *)
(* below slot n goes through; being a replay is local to a step, so that    *)
(* what follows needs no recursion.                                         *)
Cell(k) == payload[cache[Primary][k]]

IsReplay(R, n) ==
    /\ R[0] = EmptyTables
    /\ \A k \in Nat : k < n => R[k + 1] = ApplyLocally(R[k], Cell(k))

ReplaysTo(n, t) == \E R : IsReplay(R, n) /\ R[n] = t

LEMMA ReplayNone ==
    ASSUME NEW t
    PROVE  ReplaysTo(0, t) <=> t = EmptyTables
<1>1. ASSUME ReplaysTo(0, t) PROVE t = EmptyTables
  BY Zenon, <1>1 DEF ReplaysTo, IsReplay
<1>2. ReplaysTo(0, EmptyTables)
  <2> DEFINE R == [k \in {0} |-> EmptyTables]
  <2>1. R[0] = EmptyTables
    BY Zenon
  <2>2. \A k \in Nat : ~(k < 0)
    OBVIOUS
  <2> HIDE DEF R
  <2> QED BY Zenon, <2>1, <2>2 DEF ReplaysTo, IsReplay
<1> QED BY Zenon, <1>1, <1>2

LEMMA ReplayOne ==
    ASSUME NEW n \in Nat, NEW u
    PROVE  ReplaysTo(n + 1, u) <=> \E t : ReplaysTo(n, t) /\ u = ApplyLocally(t, Cell(n))
<1>1. ASSUME ReplaysTo(n + 1, u) PROVE \E t : ReplaysTo(n, t) /\ u = ApplyLocally(t, Cell(n))
  <2>1. PICK R : IsReplay(R, n + 1) /\ R[n + 1] = u
    BY Zenon, <1>1 DEF ReplaysTo
  <2>2. n < n + 1 /\ \A k \in Nat : k < n => k < n + 1
    OBVIOUS
  <2>3. IsReplay(R, n) /\ u = ApplyLocally(R[n], Cell(n))
    BY Zenon, <2>1, <2>2 DEF IsReplay
  <2> QED BY Zenon, <2>3 DEF ReplaysTo
<1>2. ASSUME NEW t, ReplaysTo(n, t), u = ApplyLocally(t, Cell(n)) PROVE ReplaysTo(n + 1, u)
  <2>1. PICK R : IsReplay(R, n) /\ R[n] = t
    BY Zenon, <1>2 DEF ReplaysTo
  <2> DEFINE S == [k \in Nat |-> IF k = n + 1 THEN u ELSE R[k]]
  <2>2. S[n + 1] = u /\ \A k \in Nat : k # n + 1 => S[k] = R[k]
    OBVIOUS
  <2> HIDE DEF S
  <2>3. /\ 0 \in Nat /\ 0 # n + 1 /\ n # n + 1
        /\ \A k \in Nat : k < n + 1 => k + 1 \in Nat /\ k # n + 1 /\ (k = n \/ (k < n /\ k + 1 # n + 1))
    OBVIOUS
  <2>4. S[0] = EmptyTables
    BY Zenon, <2>1, <2>2, <2>3 DEF IsReplay
  <2>5. ASSUME NEW k \in Nat, k < n + 1 PROVE S[k + 1] = ApplyLocally(S[k], Cell(k))
    <3>1. CASE k = n
      BY Zenon, <1>2, <2>1, <2>2, <2>3, <3>1
    <3>2. CASE k < n /\ k + 1 # n + 1
      BY Zenon, <2>1, <2>2, <2>3, <2>5, <3>2 DEF IsReplay
    <3> QED BY Zenon, <2>3, <2>5, <3>1, <3>2
  <2> QED BY Zenon, <2>2, <2>4, <2>5 DEF ReplaysTo, IsReplay
<1> QED BY Zenon, <1>1, <1>2

(* The frames below n decide.                                               *)
LEMMA ReplayKept ==
    ASSUME NEW n \in Nat, \A k \in Nat : k < n => Cell(k)' = Cell(k), NEW t
    PROVE  ReplaysTo(n, t)' <=> ReplaysTo(n, t)
<1>1. ASSUME NEW R PROVE IsReplay(R, n)' <=> IsReplay(R, n)
  BY Zenon DEF IsReplay
<1> QED BY Zenon, <1>1 DEF ReplaysTo

-----------------------------------------------------------------------------
(* The fields of the tables after an operation.                             *)
LEMMA ApplyFields ==
    ASSUME NEW t \in Tables, NEW o \in MetaOps
    PROVE  /\ o.type = "CreateInode" =>
                 /\ ApplyLocally(t, o).inodes = [t.inodes EXCEPT ![o.inode] = o.rec]
                 /\ ApplyLocally(t, o).dirs = t.dirs
           /\ o.type = "Link" =>
                 /\ ApplyLocally(t, o).inodes = t.inodes
                 /\ ApplyLocally(t, o).dirs = [t.dirs EXCEPT ![o.name] = o.inode]
           /\ o.type = "Unlink" =>
                 /\ ApplyLocally(t, o).inodes = t.inodes
                 /\ ApplyLocally(t, o).dirs = [t.dirs EXCEPT ![o.name] = NoInode]
           /\ o.type \in OtherOps /\ ~Valid(t, o) => ApplyLocally(t, o) = t
           /\ o.type \in OtherOps /\ Valid(t, o) =>
                 /\ ApplyLocally(t, o).inodes =
                       [t.inodes EXCEPT ![o.inode] = NewRecord(t.inodes[o.inode], o)]
                 /\ ApplyLocally(t, o).dirs = t.dirs
<1>0. t = [inodes |-> t.inodes, dirs |-> t.dirs, next |-> t.next]
  BY Zenon DEF Tables
<1>1. ASSUME o.type = "CreateInode"
      PROVE  /\ ApplyLocally(t, o).inodes = [t.inodes EXCEPT ![o.inode] = o.rec]
             /\ ApplyLocally(t, o).dirs = t.dirs
  <2>1. ApplyLocally(t, o) = [PutInode(t, o.inode, o.rec) EXCEPT !.next = NextAfter(@, o.inode)]
    BY Zenon, <1>1 DEF ApplyLocally
  <2> QED BY Zenon, <2>1, <1>0 DEF PutInode
<1>2. ASSUME o.type = "Link"
      PROVE  /\ ApplyLocally(t, o).inodes = t.inodes
             /\ ApplyLocally(t, o).dirs = [t.dirs EXCEPT ![o.name] = o.inode]
  <2>1. ApplyLocally(t, o) = [t EXCEPT !.dirs = [@ EXCEPT ![o.name] = o.inode]]
    BY Zenon, <1>2 DEF ApplyLocally
  <2> QED BY Zenon, <2>1, <1>0
<1>3. ASSUME o.type = "Unlink"
      PROVE  /\ ApplyLocally(t, o).inodes = t.inodes
             /\ ApplyLocally(t, o).dirs = [t.dirs EXCEPT ![o.name] = NoInode]
  <2>1. ApplyLocally(t, o) = [t EXCEPT !.dirs = [@ EXCEPT ![o.name] = NoInode]]
    BY Zenon, <1>3 DEF ApplyLocally
  <2> QED BY Zenon, <2>1, <1>0
<1>4. ASSUME o.type \in OtherOps, ~Valid(t, o) PROVE ApplyLocally(t, o) = t
  BY Zenon, <1>4 DEF ApplyLocally, OtherOps
<1>5. ASSUME o.type \in OtherOps, Valid(t, o)
      PROVE  /\ ApplyLocally(t, o).inodes =
                   [t.inodes EXCEPT ![o.inode] = NewRecord(t.inodes[o.inode], o)]
             /\ ApplyLocally(t, o).dirs = t.dirs
  <2>1. ApplyLocally(t, o) = PutInode(t, o.inode, NewRecord(t.inodes[o.inode], o))
    BY Zenon, <1>5 DEF ApplyLocally, OtherOps
  <2> QED BY Zenon, <2>1, <1>0 DEF PutInode
<1> QED BY Zenon, <1>1, <1>2, <1>3, <1>4, <1>5

(* Tables that differ at most in the number alloc_inode gives next.         *)
Agree(t, u) == TablesOK(t) /\ t.inodes = u.inodes /\ t.dirs = u.dirs

(* What the operations of the log rely on.                                  *)
Fits(t, o) ==
    /\ o.type = "CreateInode" => o.inode \notin Files(t)
    /\ o.type = "UpdateExtents" /\ o.inode \in Files(t) => o.len >= t.inodes[o.inode].size
    /\ o.type = "Link" => \A n \in Names : t.dirs[n] # o.inode

LEMMA AgreeSame ==
    ASSUME NEW t, NEW u, t.inodes = u.inodes, t.dirs = u.dirs, NEW o
    PROVE  Files(t) = Files(u) /\ (Valid(t, o) <=> Valid(u, o)) /\ (Fits(t, o) <=> Fits(u, o))
<1>1. Files(t) = Files(u)
  BY Zenon DEF Files
<1>2. Valid(t, o) <=> Valid(u, o)
  BY Zenon DEF Valid
<1>3. Fits(t, o) <=> Fits(u, o)
  BY Zenon, <1>1 DEF Fits
<1> QED BY Zenon, <1>1, <1>2, <1>3

LEMMA AgreeStep ==
    ASSUME NEW t, NEW u, Agree(t, u), TablesOK(u), NEW o \in MetaOps
    PROVE  Agree(ApplyLocally(t, o), ApplyLocally(u, o))
<1>1. t \in Tables /\ u \in Tables /\ TablesOK(t) /\ t.inodes = u.inodes /\ t.dirs = u.dirs
  BY Zenon DEF Agree, TablesOK
<1>2. TablesOK(ApplyLocally(t, o))
  BY Zenon, <1>1, ApplyStep
<1>3. Valid(t, o) <=> Valid(u, o)
  BY Zenon, <1>1, AgreeSame
<1>4. /\ ApplyLocally(t, o).inodes = ApplyLocally(u, o).inodes
      /\ ApplyLocally(t, o).dirs = ApplyLocally(u, o).dirs
  <2>1. CASE o.type = "CreateInode"
    <3>1. /\ ApplyLocally(t, o).inodes = [t.inodes EXCEPT ![o.inode] = o.rec]
          /\ ApplyLocally(t, o).dirs = t.dirs
      BY Zenon, <1>1, <2>1, ApplyFields
    <3>2. /\ ApplyLocally(u, o).inodes = [u.inodes EXCEPT ![o.inode] = o.rec]
          /\ ApplyLocally(u, o).dirs = u.dirs
      BY Zenon, <1>1, <2>1, ApplyFields
    <3> QED BY ONLY Zenon, <1>1, <3>1, <3>2
  <2>2. CASE o.type = "Link"
    <3>1. /\ ApplyLocally(t, o).inodes = t.inodes
          /\ ApplyLocally(t, o).dirs = [t.dirs EXCEPT ![o.name] = o.inode]
      BY Zenon, <1>1, <2>2, ApplyFields
    <3>2. /\ ApplyLocally(u, o).inodes = u.inodes
          /\ ApplyLocally(u, o).dirs = [u.dirs EXCEPT ![o.name] = o.inode]
      BY Zenon, <1>1, <2>2, ApplyFields
    <3> QED BY ONLY Zenon, <1>1, <3>1, <3>2
  <2>3. CASE o.type = "Unlink"
    <3>1. /\ ApplyLocally(t, o).inodes = t.inodes
          /\ ApplyLocally(t, o).dirs = [t.dirs EXCEPT ![o.name] = NoInode]
      BY Zenon, <1>1, <2>3, ApplyFields
    <3>2. /\ ApplyLocally(u, o).inodes = u.inodes
          /\ ApplyLocally(u, o).dirs = [u.dirs EXCEPT ![o.name] = NoInode]
      BY Zenon, <1>1, <2>3, ApplyFields
    <3> QED BY ONLY Zenon, <1>1, <3>1, <3>2
  <2>4. CASE o.type \in OtherOps /\ Valid(t, o)
    <3>1. /\ ApplyLocally(t, o).inodes = [t.inodes EXCEPT ![o.inode] = NewRecord(t.inodes[o.inode], o)]
          /\ ApplyLocally(t, o).dirs = t.dirs
      BY Zenon, <1>1, <1>3, <2>4, ApplyFields
    <3>2. /\ ApplyLocally(u, o).inodes = [u.inodes EXCEPT ![o.inode] = NewRecord(u.inodes[o.inode], o)]
          /\ ApplyLocally(u, o).dirs = u.dirs
      BY Zenon, <1>1, <1>3, <2>4, ApplyFields
    <3> QED BY ONLY Zenon, <1>1, <3>1, <3>2
  <2>5. CASE o.type \in OtherOps /\ ~Valid(t, o)
    BY Zenon, <1>1, <1>3, <2>5, ApplyFields
  <2> QED BY Zenon, <2>1, <2>2, <2>3, <2>4, <2>5, OpKinds DEF OtherOps
<1> QED BY Zenon, <1>2, <1>4 DEF Agree

-----------------------------------------------------------------------------
(* What a step of the store is to the tables: an operation handed to        *)
(* commit, one acknowledged, one replayed, or the process going down or up. *)
AckMove ==
    /\ pc \in Committing /\ pc' = "idle" /\ cursor' = cursor + 1
    /\ \E a \in acked' : a.slot = cursor
    /\ Materialize

QuietMove ==
    /\ pc # "down" /\ pc' # "down" /\ cursor' = cursor /\ acked' = acked /\ issued' = issued
    /\ UNCHANGED <<payload, tables, promise, touched, misused, openFails>>
    /\ pc' = "idle" => call' = NoCall \/ (pc = "idle" /\ call' = call)
    /\ pc' \in Committing => pc \in Committing /\ op' = op

DownStep ==
    /\ pc' = "down" /\ tables' = EmptyTables /\ acked' = acked /\ issued' = issued
    /\ UNCHANGED <<payload, promise, touched, misused>>
    /\ \/ openFails' = openFails
       \/ ReplayFails /\ openFails' = openFails \cup {"refused"}
       \/ ScanPanics /\ openFails' = openFails \cup {"panicked"}

OpenStep ==
    /\ pc = "down" /\ pc' = "scan" /\ cursor' = 0 /\ acked' = acked /\ issued' = issued
    /\ UNCHANGED <<payload, tables, promise, touched, misused, openFails>>

DownOK  == pc = "down" => tables = EmptyTables
FreshOp == pc \in Committing => \A a \in acked : a.op # op

LEMMA FreshStep ==
    ASSUME LogOK, LogMoves, FreshOp
    PROVE  FreshOp'
<1> SUFFICES ASSUME pc' \in Committing, NEW a \in acked' PROVE a.op # op'
  BY Zenon DEF FreshOp
<1>1. CursorMoves /\ NewAcks
  BY Zenon, LogStepMoves DEF LogOK, LogMoves, IInv
<1>2. a \in acked
  BY Zenon, <1>1 DEF NewAcks, Committing
<1>3. a.op \in Nat /\ a.op <= issued /\ issued \in Nat
  BY <1>2, BoundAssumption DEF LogOK, AckedOK, IInv, TypeInv, TypeOK, Op
<1>4. CASE PrimaryWrite
  <2>1. op' = issued + 1
    BY Zenon, <1>4 DEF PrimaryWrite
  <2> QED BY ONLY SMTT(20), <2>1, <1>3
<1>5. CASE pc \in Committing /\ op' = op
  BY Zenon, <1>2, <1>5 DEF FreshOp
<1> QED BY Zenon, <1>1, <1>4, <1>5 DEF CursorMoves

LEMMA LogStepKinds ==
    ASSUME SInv, LogMoves, FreshOp, LogStep
    PROVE  AckMove \/ QuietMove
<1>p. pc \in Committing /\ pc' \in Committing \cup {"idle"} /\ issued' = issued
  BY Zenon DEF LogStep, Commit, Fail, PrimarySync, BackupWrite, BackupSync,
     PrimarySyncFails, BackupWriteFails, BackupSyncFails, Acknowledge, Committing,
     history
<1>m. NewAcks /\ CursorMoves
  BY Zenon, LogStepMoves DEF SInv, LogOK, LogMoves, IInv
<1>1. CASE acked' # acked /\ Materialize
  <2>1. PICK a \in acked' : a \notin acked
    BY Zenon, <1>1, <1>m DEF NewAcks
  <2>2. pc' = "idle" /\ cursor' = cursor + 1 /\ a.slot = cursor
    BY Zenon, <2>1, <1>m DEF NewAcks
  <2> QED BY Zenon, <1>p, <1>1, <2>1, <2>2 DEF AckMove
<1>2. CASE /\ acked' = acked
           /\ call' = IF pc' = "idle" THEN NoCall ELSE call
           /\ UNCHANGED <<store, tables, known, ghosts>>
  <2>1. cursor' = cursor
    <3>1. \/ cursor' = cursor
          \/ \E m : acked' = acked \cup {[slot |-> cursor, op |-> op, members |-> m]}
      BY Zenon DEF LogStep, Commit, Fail, PrimarySync, BackupWrite, BackupSync, PrimarySyncFails,
             BackupWriteFails, BackupSyncFails, Acknowledge
    <3>2. ASSUME NEW m, acked' = acked \cup {[slot |-> cursor, op |-> op, members |-> m]}
          PROVE  FALSE
      <4>1. [slot |-> cursor, op |-> op, members |-> m] \in acked
        BY Zenon, <1>2, <3>2
      <4>2. [slot |-> cursor, op |-> op, members |-> m].op = op
        BY Zenon
      <4> QED BY Zenon, <4>1, <4>2, <1>p DEF FreshOp
    <3> QED BY Zenon, <3>1, <3>2
  <2>2. /\ UNCHANGED <<payload, tables, promise, touched, misused, openFails>>
        /\ pc' = "idle" => call' = NoCall
    BY Zenon, <1>2 DEF store, ghosts
  <2>3. pc # "down" /\ pc' # "down" /\ (pc' \in Committing => op' = op)
    BY Zenon, <1>p, <1>m DEF CursorMoves, Committing, PrimaryWrite
  <2> QED BY Zenon, <1>p, <1>2, <2>1, <2>2, <2>3 DEF QuietMove
<1> QED BY Zenon, <1>1, <1>2 DEF LogStep

LEMMA StepKinds ==
    ASSUME SInv, LogMoves, FreshOp, DownOK, [StoreMove]_svars
    PROVE  Issued \/ AckMove \/ ReplayFrame \/ QuietMove \/ DownStep \/ OpenStep
<1>1. CASE CallStep
  BY Zenon, <1>1, Issues DEF SInv
<1>2. CASE LogStep
  BY Zenon, <1>2, LogStepKinds
<1>3. CASE ReplayFrame
  BY Zenon, <1>3
<1>4. CASE StoreCrash \/ ReplayFails \/ StorePanics
  BY Zenon, <1>4 DEF StoreCrash, ReplayFails, StorePanics, ProcessCrash, PowerLoss,
     ScanPanics, DownStep, store, ghosts, history
<1>5. CASE StoreOpen
  BY Zenon, <1>5 DEF StoreOpen, Open, OpenStep, store, ghosts, history
<1>6. CASE StoreScanEnd
  <2>1. pc = "scan" /\ pc' = "idle" /\ cursor' = cursor /\ UNCHANGED <<history, store, tables, call, ghosts>>
    BY Zenon, <1>6 DEF StoreScanEnd, ScanEnd, ScanMisaligned
  <2>2. call = NoCall
    BY Zenon, <2>1 DEF SInv, CallOK
  <2> QED BY Zenon, <2>1, <2>2 DEF QuietMove, store, ghosts, history, Committing
<1>7. CASE CompleteConversionFails
  BY Zenon, <1>7 DEF CompleteConversionFails, QuietMove, store, ghosts, history,
     Committing
<1>8. CASE UNCHANGED svars
  <2>1. UNCHANGED <<pc, op, cursor, issued, acked, payload, tables, call, promise, touched, misused, openFails>>
    BY Zenon, <1>8 DEF svars, vars, history, store, ghosts
  <2>2. CASE pc = "down"
    BY Zenon, <2>1, <2>2 DEF DownOK, DownStep
  <2>3. CASE pc # "down"
    <3>1. pc' = "idle" => pc = "idle" /\ call' = call
      BY Zenon, <2>1
    <3>2. pc' \in Committing => pc \in Committing /\ op' = op
      BY Zenon, <2>1
    <3> QED BY Zenon, <2>1, <2>3, <3>1, <3>2 DEF QuietMove
  <2> QED BY Zenon, <2>2, <2>3
<1> QED BY Zenon, <1>1, <1>2, <1>3, <1>4, <1>5, <1>6, <1>7, <1>8 DEF StoreMove, CallStep

-----------------------------------------------------------------------------
(* The frames below n stand for t.  The invariants name the state's values  *)
(* by bound variables, so that a step can speak of the old ones.            *)
LogAgrees(n, t) == (\E v : ReplaysTo(n, v)) /\ \A v : ReplaysTo(n, v) => Agree(v, t)

CellsStay(n) == \A k \in Nat : k < n => Cell(k)' = Cell(k)

LEMMA AgreesNone == LogAgrees(0, EmptyTables)
  BY Zenon, ReplayNone, EmptyOK DEF LogAgrees, Agree

LEMMA AgreesKept ==
    ASSUME NEW n \in Nat, CellsStay(n), NEW t
    PROVE  LogAgrees(n, t)' <=> LogAgrees(n, t)
<1>1. ASSUME NEW v PROVE ReplaysTo(n, v)' <=> ReplaysTo(n, v)
  BY Zenon, ReplayKept DEF CellsStay
<1> QED BY Zenon, <1>1 DEF LogAgrees

LEMMA AgreesNext ==
    ASSUME NEW n \in Nat, NEW t, TablesOK(t), LogAgrees(n, t), Cell(n) \in MetaOps
    PROVE  LogAgrees(n + 1, ApplyLocally(t, Cell(n)))
<1>1. PICK v : ReplaysTo(n, v)
  BY Zenon DEF LogAgrees
<1>2. ReplaysTo(n + 1, ApplyLocally(v, Cell(n)))
  BY Zenon, <1>1, ReplayOne
<1>3. ASSUME NEW w, ReplaysTo(n + 1, w) PROVE Agree(w, ApplyLocally(t, Cell(n)))
  <2>1. PICK x : ReplaysTo(n, x) /\ w = ApplyLocally(x, Cell(n))
    BY Zenon, <1>3, ReplayOne
  <2>2. Agree(x, t)
    BY Zenon, <2>1 DEF LogAgrees
  <2> QED BY Zenon, <2>1, <2>2, AgreeStep
<1> QED BY Zenon, <1>2, <1>3 DEF LogAgrees

LEMMA AgreesOther ==
    ASSUME NEW n, NEW t, NEW u, LogAgrees(n, t), u.inodes = t.inodes, u.dirs = t.dirs
    PROVE  LogAgrees(n, u)
  BY Zenon DEF LogAgrees, Agree

(* The frames that stay.                                                    *)
LEMMA CellStays ==
    ASSUME LogOK, LogMoves, NEW k \in Slot, Stays(k)
    PROVE  Cell(k)' = Cell(k) /\ Cell(k) \in MetaOps
<1>1. cache[Primary][k] <= issued /\ payload[cache[Primary][k]] \in MetaOps
  BY Zenon DEF Stays, LogOK, HeldOK, Held
<1>2. payload'[cache[Primary][k]] = payload[cache[Primary][k]]
  BY Zenon, <1>1 DEF Stays, LogMoves, PayloadKept
<1> QED BY Zenon, <1>1, <1>2 DEF Cell, Stays

LEMMA CellsBelow ==
    ASSUME LogOK, LogMoves, pc # "down", pc' # "down", NEW c, c = cursor
    PROVE  c \in Nat /\ CellsStay(c)
<1>1. cursor \in 0 .. MaxSlots /\ MaxSlots \in Nat
  BY Zenon, BoundAssumption DEF LogOK, IInv, TypeInv, TypeOK
<1>2. ASSUME NEW k \in Nat, k < c PROVE Cell(k)' = Cell(k)
  <2>1. k \in Slot /\ k < cursor
    BY <1>1, <1>2 DEF Slot
  <2> QED BY Zenon, <2>1, StaysBelow, CellStays
<1> QED BY <1>1, <1>2 DEF CellsStay

LEMMA SettledStay ==
    ASSUME LogOK, LogMoves, NEW s \in Slot, s < WalCapacity, Settled(s)
    PROVE  s + 1 \in Nat /\ CellsStay(s + 1)
<1>m. CacheKept
  BY Zenon, LogStepMoves DEF LogOK, LogMoves, IInv
<1>1. /\ DurableThrough(Primary, s) /\ (pc = "idle" => s < cursor)
      /\ \A u \in 0 .. s : u \in Slot /\ Aligned(u)
  BY Zenon, SettledBelow
<1>2. cursor \in Nat /\ s \in Nat
  BY SlotFacts, BoundAssumption DEF LogOK, IInv, TypeInv, TypeOK
<1>3. ASSUME NEW k \in Nat, k < s + 1 PROVE Cell(k)' = Cell(k)
  <2>0. k \in 0 .. s
    BY <1>2, <1>3
  <2>1. k \in Slot /\ cache[Primary][k] \in Op /\ stable[Primary][k] = cache[Primary][k]
    BY Zenon, <2>0, <1>1, DurableThroughBelow
  <2>2. ~(pc = "idle" /\ k = cursor)
    BY <1>1, <1>2, <1>3
  <2>3. Stays(k)
    BY Zenon, <2>1, <2>2, <1>m DEF CacheKept, Stays
  <2> QED BY Zenon, <2>1, <2>3, CellStays
<1> QED BY <1>2, <1>3 DEF CellsStay

LEMMA FrameStay ==
    ASSUME LogOK, LogMoves, TightLog, NoLeftovers', NEW s \in Slot, NEW o \in Op,
           s < WalCapacity, o \in Held(s)
    PROVE  s \in Nat /\ CellsStay(s)
<1>1. s \in Nat /\ s \in 0 .. MaxSlots - 1 /\ MaxSlots \in Nat
  BY Zenon, SlotFacts, BoundAssumption DEF Slot
<1>2. ASSUME NEW k \in Nat, k < s PROVE Cell(k)' = Cell(k)
  <2>1. k \in Slot
    BY <1>1, <1>2 DEF Slot
  <2>2. Stays(k)
    BY Zenon, <1>2, <2>1, FramesBelowStay
  <2> QED BY Zenon, <2>1, <2>2, CellStays
<1> QED BY Zenon, <1>1, <1>2 DEF CellsStay

(* What the process shows is what the frames below its cursor stand for.    *)
ReplayOK == pc # "down" => \A n, t : n = cursor /\ t = tables => LogAgrees(n, t)

(* An operation that is acknowledged or replayed is the frame at the cursor.*)
LEMMA AppliedFrame ==
    ASSUME SInv, LogMoves, AckMove \/ ReplayFrame, NEW c, c = cursor
    PROVE  /\ pc # "down" /\ pc' # "down" /\ c \in Nat /\ c \in Slot
           /\ cursor' = c + 1 /\ Cell(c) \in MetaOps /\ CellsStay(c + 1)
           /\ tables' = ApplyLocally(tables, Cell(c))
           /\ cache[Primary][c] \in Op /\ cache[Primary][c] \in Held(c)
           /\ payload' = payload /\ UNCHANGED <<misused, openFails>>
<1>1. /\ pc \in Committing \cup {"scan"} /\ pc # "down" /\ pc' # "down" /\ cursor' = cursor + 1
      /\ payload' = payload /\ UNCHANGED <<misused, openFails>>
  BY Zenon DEF AckMove, ReplayFrame, ScanFrame, Committing, Materialize, store, ghosts
<1>2. /\ c \in Slot /\ cache[Primary][c] \in Op
      /\ tables' = ApplyLocally(tables, Cell(c))
  <2>1. CASE AckMove
    <3>1. cursor \in Slot /\ op \in Op /\ cache[Primary][cursor] = op
      BY Zenon, <2>1, InFlightFacts DEF AckMove, SInv
    <3> QED BY Zenon, <2>1, <3>1 DEF AckMove, Materialize, Cell
  <2>2. CASE ReplayFrame
    <3>1. cursor \in Slot
      BY <2>2, BoundAssumption DEF ReplayFrame, ScanFrame, SInv, LogOK, IInv, TypeInv, TypeOK, Slot
    <3> QED BY Zenon, <2>2, <3>1 DEF ReplayFrame, ScanFrame, Cell
  <2> QED BY Zenon, <2>1, <2>2
<1>3. Cell(c) \in MetaOps /\ cache[Primary][c] <= issued
  BY Zenon, <1>2 DEF SInv, LogOK, HeldOK, Held, Cell
<1>4. Cell(c)' = Cell(c)
  <2>1. cache'[Primary] = cache[Primary]
    BY Zenon, <1>1, LogStepMoves DEF CacheKept, LogMoves, SInv, LogOK, IInv
  <2> QED BY Zenon, <1>1, <2>1 DEF Cell
<1>5. c \in Nat /\ CellsStay(c)
  BY Zenon, <1>1, CellsBelow DEF SInv
<1>6. CellsStay(c + 1)
  <2>1. \A k \in Nat : k < c + 1 => k < c \/ k = c
    BY <1>5
  <2> QED BY Zenon, <2>1, <1>4, <1>5 DEF CellsStay
<1> QED BY Zenon, <1>1, <1>2, <1>3, <1>5, <1>6 DEF Held

(* An operation handed to commit: written behind the log, or refused.       *)
Accepts(p, next) ==
    /\ Proper(p, next)
    /\ touched' = IF p.type \in {"Link", "Unlink"} THEN touched \cup {p.name} ELSE touched
    /\ misused' = (misused \/ ~Valid(tables, p))

Writes(p, next) ==
    /\ Accepts(p, next)
    /\ PrimaryWrite /\ pc' = "p_sync" /\ op' = issued + 1 /\ issued + 1 \in Op
    /\ payload'[issued + 1] = p /\ call' = next

LEMMA IssuedKinds ==
    ASSUME SInv, Issued
    PROVE  /\ pc = "idle" /\ pc' # "down" /\ cursor' = cursor /\ acked' = acked
           /\ tables'.inodes = tables.inodes /\ tables'.dirs = tables.dirs /\ TablesOK(tables')
           /\ promise' = promise /\ openFails' = openFails
           /\ \E p \in MetaOps, next \in Calls :
                 /\ Accepts(p, next)
                 /\ \/ Writes(p, next)
                    \/ pc' = "idle" /\ call' = NoCall /\ ~PrimaryWrite
<1>1. PICK p \in MetaOps, next \in Calls : Issue(p, next) /\ Proper(p, next)
  BY Zenon DEF Issued
<1>2. /\ pc = "idle" /\ pc' # "down" /\ cursor' = cursor /\ acked' = acked
      /\ promise' = promise /\ openFails' = openFails
  BY Zenon, <1>1 DEF Issue, PrimaryWrite, PrimaryWriteFails
<1>3. tables'.inodes = tables.inodes /\ tables'.dirs = tables.dirs /\ TablesOK(tables')
  BY Zenon, <1>1 DEF Proper
<1>4. Accepts(p, next)
  BY Zenon, <1>1 DEF Accepts, Issue
<1>5. CASE PrimaryWrite /\ payload' = [payload EXCEPT ![issued + 1] = p] /\ call' = next
  <2>1. pc' = "p_sync" /\ op' = issued + 1 /\ issued + 1 \in Op
    BY <1>5, BoundAssumption DEF PrimaryWrite, Op, SInv, LogOK, IInv, TypeInv, TypeOK
  <2>2. payload'[issued + 1] = p
    BY Zenon, <1>5, <2>1 DEF SInv, StoreTypes
  <2> QED BY Zenon, <1>2, <1>3, <1>4, <1>5, <2>1, <2>2 DEF Writes
<1>6. CASE PrimaryWriteFails /\ call' = NoCall
  <2>1. pc' = "idle" /\ ~PrimaryWrite
    BY Zenon, <1>6, <1>2 DEF PrimaryWriteFails, PrimaryWrite
  <2> QED BY Zenon, <1>2, <1>3, <1>4, <1>6, <2>1
<1> QED BY Zenon, <1>1, <1>5, <1>6 DEF Issue

(* The frames of the primary after a step: the old ones and the one a call  *)
(* has handed over.                                                         *)
LEMMA HeldNext ==
    ASSUME SInv, LogMoves, FreshOp, DownOK, [StoreMove]_svars,
           NEW s \in Slot, NEW o \in Op, o \in Held(s)'
    PROVE  \/ /\ o \in Held(s) /\ payload'[o] = payload[o] /\ payload[o] \in MetaOps
              /\ ~(PrimaryWrite /\ o = issued + 1)
           \/ /\ Issued /\ s = cursor /\ o = issued + 1
              /\ \E next \in Calls, p \in MetaOps : p = payload'[o] /\ Writes(p, next)
<1>1. CASE o \in Held(s)
  <2>1. o <= issued /\ payload[o] \in MetaOps
    BY Zenon, <1>1 DEF SInv, LogOK, HeldOK
  <2>2. payload'[o] = payload[o]
    BY Zenon, <2>1 DEF LogMoves, PayloadKept
  <2>3. issued \in Nat
    BY BoundAssumption DEF SInv, LogOK, IInv, TypeInv, TypeOK
  <2>4. o # issued + 1
    BY ONLY SMTT(20), <2>1, <2>3
  <2> QED BY Zenon, <1>1, <2>1, <2>2, <2>4
<1>2. CASE s = cursor /\ o = issued + 1 /\ issued' = o /\ PrimaryWrite
  <2>1. issued' # issued /\ pc = "idle" /\ pc' = "p_sync"
    BY <1>2, BoundAssumption DEF PrimaryWrite, SInv, LogOK, IInv, TypeInv, TypeOK
  <2>2. Issued
    BY Zenon, <2>1, StepKinds DEF AckMove, ReplayFrame, ScanFrame, QuietMove, DownStep, OpenStep, Committing
  <2>3. PICK p \in MetaOps, next \in Calls : Writes(p, next)
    BY Zenon, <1>2, <2>2, IssuedKinds
  <2>4. p = payload'[o]
    BY Zenon, <1>2, <2>3 DEF Writes
  <2> QED BY Zenon, <1>2, <2>2, <2>3, <2>4
<1>3. NewlyHeld(s)
  BY Zenon, StoreHeld DEF SInv
<1> QED BY Zenon, <1>1, <1>2, <1>3 DEF NewlyHeld

LEMMA ReplayOKStep ==
    ASSUME SInv, LogMoves, FreshOp, DownOK, [StoreMove]_svars, ReplayOK
    PROVE  DownOK' /\ ReplayOK'
<1>k. Issued \/ AckMove \/ ReplayFrame \/ QuietMove \/ DownStep \/ OpenStep
  BY Zenon, StepKinds
<1>1. DownOK'
  <2>1. pc' = "down" => DownStep
    <3>1. AckMove \/ ReplayFrame => pc' # "down"
      BY Zenon DEF AckMove, ReplayFrame, ScanFrame
    <3> QED BY Zenon, <1>k, <3>1, IssuedKinds DEF QuietMove, OpenStep
  <2> QED BY Zenon, <2>1 DEF DownOK, DownStep
<1> SUFFICES ASSUME pc' # "down", NEW n, NEW t, n = cursor', t = tables' PROVE LogAgrees(n, t)'
  BY Zenon, <1>1 DEF ReplayOK
<1> PICK c : c = cursor
  BY Zenon
<1>o. pc # "down" => LogAgrees(c, tables)
  BY Zenon DEF ReplayOK
<1>2. CASE AckMove \/ ReplayFrame
  <2>1. /\ pc # "down" /\ c \in Nat /\ n = c + 1 /\ Cell(c) \in MetaOps /\ CellsStay(c + 1)
        /\ t = ApplyLocally(tables, Cell(c))
    BY Zenon, <1>2, AppliedFrame
  <2>2. LogAgrees(n, t)
    BY Zenon, <1>o, <2>1, AgreesNext DEF SInv, StoreTypes
  <2> QED BY <2>1, <2>2, AgreesKept
<1>3. CASE Issued \/ QuietMove
  <2>1. pc # "down" /\ n = c /\ t.inodes = tables.inodes /\ t.dirs = tables.dirs
    BY Zenon, <1>3, IssuedKinds DEF QuietMove
  <2>2. c \in Nat /\ CellsStay(c)
    BY Zenon, <2>1, CellsBelow DEF SInv
  <2>3. LogAgrees(n, t)
    BY Zenon, <1>o, <2>1, AgreesOther
  <2> QED BY Zenon, <2>1, <2>2, <2>3, AgreesKept
<1>4. CASE OpenStep
  <2>1. n = 0 /\ t = EmptyTables
    BY Zenon, <1>4 DEF OpenStep, DownOK
  <2>2. CellsStay(0)
    BY DEF CellsStay
  <2>3. LogAgrees(0, EmptyTables)'
    BY Zenon, <2>2, AgreesNone, AgreesKept
  <2> QED BY Zenon, <2>1, <2>3
<1> QED BY Zenon, <1>k, <1>2, <1>3, <1>4 DEF DownStep

-----------------------------------------------------------------------------
(* A file's size is what its locator covers.  The one operation that sets   *)
(* one without the other is CompleteConvert, whose length was read from the *)
(* tables; it is in the log behind the BeginConvert that was acknowledged   *)
(* before it, so that every replay meets it with the same tables.           *)
SizesOK(t) == \A i \in Files(t) : t.inodes[i].size = t.inodes[i].stored

CompleteOK ==
    \A s \in Slot : \A o \in Op :
        s < WalCapacity /\ o \in Held(s) /\ payload[o].type = "CompleteConvert" =>
            /\ \E a \in acked : a.slot = s - 1
            /\ \A p, t : p = payload[o] /\ ReplaysTo(s, t) => t.inodes[p.inode].stored = p.len

FlightLen ==
    pc \in Committing /\ payload[op].type = "CompleteConvert" =>
        payload[op].len = tables.inodes[payload[op].inode].stored

BegunOK == pc = "idle" /\ call.kind = "complete" => \E a \in acked : a.slot = cursor - 1

SizeInv == CompleteOK /\ FlightLen /\ BegunOK /\ SizesOK(tables)

LEMMA SizesSame ==
    ASSUME NEW t, NEW u, t.inodes = u.inodes, SizesOK(t)
    PROVE  SizesOK(u)
  BY Zenon DEF SizesOK, Files

LEMMA SizesStep ==
    ASSUME NEW t \in Tables, NEW o \in MetaOps, SizesOK(t),
           o.type = "CompleteConvert" => o.len = t.inodes[o.inode].stored
    PROVE  SizesOK(ApplyLocally(t, o))
<1> DEFINE u == ApplyLocally(t, o)
<1>0. t.inodes \in [Inode -> Record \cup {Absent}]
  BY Zenon DEF Tables
<1>1. CASE o.type = "CreateInode"
  <2>1. u.inodes = [t.inodes EXCEPT ![o.inode] = o.rec]
    BY Zenon, <1>1, ApplyFields
  <2>2. o.rec.size = o.rec.stored
    BY <1>1, OpKinds DEF NewFile, RootDir
  <2> HIDE DEF u
  <2>3. SizesOK(u)
    BY Zenon, <1>0, <2>1, <2>2 DEF SizesOK, Files
  <2> QED BY Zenon, <2>3 DEF u
<1>2. CASE o.type \in {"Link", "Unlink"}
  BY Zenon, <1>2, ApplyFields, SizesSame
<1>3. CASE o.type \in OtherOps /\ ~Valid(t, o)
  BY Zenon, <1>3, ApplyFields
<1>4. CASE o.type \in OtherOps /\ Valid(t, o)
  <2>1. u.inodes = [t.inodes EXCEPT ![o.inode] = NewRecord(t.inodes[o.inode], o)]
    BY Zenon, <1>4, ApplyFields
  <2> DEFINE r == t.inodes[o.inode]
  <2>2. o.inode \in Inode /\ r # Absent
    BY Zenon, <1>4, OpKinds DEF Valid, OtherOps
  <2>3. r \in Record /\ r.size = r.stored
    BY Zenon, <1>0, <2>2 DEF SizesOK, Files
  <2>4. NewRecord(r, o).size = NewRecord(r, o).stored
    <3> HIDE DEF r
    <3> USE <2>3 DEF Record
    <3>1. CASE o.type = "AppendChunk"
      BY Zenon, <3>1 DEF NewRecord, Appended
    <3>2. CASE o.type = "BeginConvert"
      BY Zenon, <3>2 DEF NewRecord
    <3>3. CASE o.type = "CompleteConvert"
      <4>1. NewRecord(r, o) = [r EXCEPT !.mode = "Writable", !.data = "Extents", !.stored = o.len]
        BY Zenon, <3>3 DEF NewRecord, Converted
      <4>2. o.len = r.stored
        BY Zenon, <3>3 DEF r
      <4> QED BY Zenon, <4>1, <4>2
    <3>4. CASE o.type = "SetRedundancyScheme"
      BY Zenon, <3>4 DEF NewRecord
    <3>5. CASE o.type = "UpdateExtents"
      BY Zenon, <3>5 DEF NewRecord, Rewritten
    <3> QED BY Zenon, <1>4, <3>1, <3>2, <3>3, <3>4, <3>5 DEF OtherOps
  <2> HIDE DEF u, r
  <2>5. SizesOK(u)
    <3> SUFFICES ASSUME NEW i \in Files(u) PROVE u.inodes[i].size = u.inodes[i].stored
      BY Zenon DEF SizesOK
    <3>1. CASE i = o.inode
      BY Zenon, <1>0, <2>1, <2>2, <2>4, <3>1 DEF r
    <3>2. CASE i # o.inode
      <4>1. i \in Inode /\ u.inodes[i] = t.inodes[i] /\ i \in Files(t)
        BY Zenon, <1>0, <2>1, <3>2 DEF Files
      <4> QED BY Zenon, <4>1 DEF SizesOK
    <3> QED BY Zenon, <3>1, <3>2
  <2> QED BY Zenon, <2>5 DEF u
<1> QED BY Zenon, <1>1, <1>2, <1>3, <1>4, OpKinds DEF OtherOps

LEMMA CompleteStep ==
    ASSUME SInv, LogMoves, FreshOp, DownOK, [StoreMove]_svars, ReplayOK, SizeInv
    PROVE  CompleteOK'
<1> SUFFICES ASSUME NEW s \in Slot, NEW o \in Op, s < WalCapacity, o \in Held(s)',
                    payload'[o].type = "CompleteConvert", NEW p, p = payload'[o]
             PROVE  /\ \E a \in acked' : a.slot = s - 1
                    /\ \A t : ReplaysTo(s, t)' => t.inodes[p.inode].stored = p.len
  BY Zenon DEF CompleteOK
<1>a. acked \subseteq acked'
  BY Zenon, LogStepMoves DEF NewAcks, SInv, LogOK, LogMoves, IInv
<1>1. CASE o \in Held(s) /\ payload'[o] = payload[o]
  <2>1. /\ \E a \in acked : a.slot = s - 1
        /\ \A t : ReplaysTo(s, t) => t.inodes[p.inode].stored = p.len
    BY Zenon, <1>1 DEF SizeInv, CompleteOK
  <2>2. PICK a \in acked : a.slot = s - 1
    BY Zenon, <2>1
  <2>3. s - 1 \in Slot /\ s - 1 < WalCapacity /\ s \in Nat /\ (s - 1) + 1 = s
    BY <2>2, SlotFacts, BoundAssumption DEF SInv, LogOK, IInv, TypeInv, TypeOK
  <2>4. Settled(s - 1)
    BY Zenon, <2>2 DEF Settled
  <2>5. CellsStay((s - 1) + 1)
    BY Zenon, <2>3, <2>4, SettledStay DEF SInv
  <2>6. CellsStay(s)
    BY Zenon, <2>3, <2>5
  <2>7. ASSUME NEW t, ReplaysTo(s, t)' PROVE ReplaysTo(s, t)
    BY Zenon, <2>3, <2>6, <2>7, ReplayKept DEF CellsStay
  <2> QED BY Zenon, <1>a, <2>1, <2>2, <2>7
<1>2. CASE /\ Issued /\ s = cursor /\ o = issued + 1
           /\ \E next \in Calls, q \in MetaOps : q = payload'[o] /\ Writes(q, next)
  <2>1. PICK next \in Calls : Writes(p, next)
    BY Zenon, <1>2
  <2>2. pc = "idle" /\ pc' # "down"
    BY Zenon, <1>2, IssuedKinds
  <2>3. call.kind = "complete" /\ p.len = tables.inodes[p.inode].stored
    BY Zenon, <2>1 DEF Writes, Accepts, Proper
  <2>4. \E a \in acked : a.slot = s - 1
    BY Zenon, <1>2, <2>2, <2>3 DEF SizeInv, BegunOK
  <2>5. s \in Nat /\ CellsStay(s)
    <3>1. pc # "down"
      BY Zenon, <2>2
    <3> QED BY Zenon, <1>2, <2>2, <3>1, CellsBelow DEF SInv
  <2>6. ASSUME NEW t, ReplaysTo(s, t)' PROVE t.inodes = tables.inodes
    <3>1. ReplaysTo(s, t)
      BY Zenon, <2>5, <2>6, ReplayKept DEF CellsStay
    <3>2. pc # "down"
      BY Zenon, <2>2
    <3> QED BY Zenon, <1>2, <3>1, <3>2 DEF ReplayOK, LogAgrees, Agree
  <2> QED BY Zenon, <1>a, <2>3, <2>4, <2>6
<1> QED BY Zenon, <1>1, <1>2, HeldNext

LEMMA SizeStep ==
    ASSUME SInv, LogMoves, FreshOp, DownOK, [StoreMove]_svars, ReplayOK, SizeInv
    PROVE  SizeInv'
<1>k. Issued \/ AckMove \/ ReplayFrame \/ QuietMove \/ DownStep \/ OpenStep
  BY Zenon, StepKinds
<1>t. tables \in Tables /\ NoCall.kind # "complete"
  BY Zenon DEF SInv, StoreTypes, TablesOK, NoCall
<1>1. CompleteOK'
  BY Zenon, CompleteStep
<1>2. CASE Issued
  <2>1. /\ pc = "idle" /\ cursor' = cursor /\ acked' = acked /\ tables'.inodes = tables.inodes
        /\ tables'.dirs = tables.dirs
    BY Zenon, <1>2, IssuedKinds
  <2>2. SizesOK(tables')
    BY Zenon, <2>1, SizesSame DEF SizeInv
  <2>3. PICK p \in MetaOps, next \in Calls :
           Writes(p, next) \/ (pc' = "idle" /\ call' = NoCall)
    BY Zenon, <1>2, IssuedKinds
  <2>4. CASE Writes(p, next)
    <3>1. pc' = "p_sync" /\ payload'[op'] = p
      BY Zenon, <2>4 DEF Writes
    <3>2. p.type = "CompleteConvert" => p.len = tables'.inodes[p.inode].stored
      BY Zenon, <2>1, <2>4 DEF Writes, Accepts, Proper
    <3>3. FlightLen' /\ BegunOK'
      BY Zenon, <3>1, <3>2 DEF FlightLen, BegunOK
    <3> QED BY Zenon, <1>1, <2>2, <3>3 DEF SizeInv, SizesOK, Files
  <2>5. CASE pc' = "idle" /\ call' = NoCall
    <3>1. FlightLen' /\ BegunOK'
      BY Zenon, <2>5, <1>t DEF FlightLen, BegunOK, Committing
    <3> QED BY Zenon, <1>1, <2>2, <3>1 DEF SizeInv, SizesOK, Files
  <2> QED BY Zenon, <2>3, <2>4, <2>5
<1>3. CASE AckMove \/ ReplayFrame
  <2> PICK c : c = cursor
    BY Zenon
  <2>1. /\ pc # "down" /\ c \in Nat /\ c \in Slot /\ cursor' = c + 1 /\ Cell(c) \in MetaOps
        /\ tables' = ApplyLocally(tables, Cell(c))
        /\ cache[Primary][c] \in Op /\ cache[Primary][c] \in Held(c)
    BY Zenon, <1>3, AppliedFrame
  <2>2. Cell(c).type = "CompleteConvert" => Cell(c).len = tables.inodes[Cell(c).inode].stored
    <3>1. CASE AckMove
      <4>1. pc \in Committing /\ Cell(c) = payload[op]
        BY Zenon, <3>1, InFlightFacts DEF AckMove, Cell, SInv
      <4> QED BY Zenon, <4>1 DEF SizeInv, FlightLen
    <3>2. CASE ReplayFrame
      <4>1. c < WalCapacity
        BY Zenon, <3>2 DEF ReplayFrame, ScanFrame
      <4>2. PICK v : ReplaysTo(c, v) /\ v.inodes = tables.inodes
        BY Zenon, <2>1 DEF ReplayOK, LogAgrees, Agree
      <4>3. Cell(c).type = "CompleteConvert" => v.inodes[Cell(c).inode].stored = Cell(c).len
        <5>1. ASSUME NEW o \in Op, o \in Held(c), payload[o].type = "CompleteConvert"
              PROVE  v.inodes[payload[o].inode].stored = payload[o].len
          <6>1. CompleteOK
            BY Zenon DEF SizeInv
          <6> QED BY ONLY Zenon, <2>1, <4>1, <4>2, <5>1, <6>1 DEF CompleteOK
        <5> QED BY ONLY Zenon, <2>1, <5>1 DEF Cell
      <4> QED BY Zenon, <4>2, <4>3
    <3> QED BY Zenon, <1>3, <3>1, <3>2
  <2>3. SizesOK(tables')
    BY Zenon, <1>t, <2>1, <2>2, SizesStep DEF SizeInv
  <2>4. FlightLen' /\ BegunOK'
    <3>1. pc' \in {"idle", "scan"} /\ (pc' = "idle" => AckMove)
      BY Zenon, <1>3 DEF AckMove, ReplayFrame, ScanFrame
    <3>2. AckMove => \E a \in acked' : a.slot = cursor' - 1
      <4>1. (c + 1) - 1 = c
        BY <2>1
      <4> QED BY Zenon, <2>1, <4>1 DEF AckMove
    <3> QED BY Zenon, <3>1, <3>2 DEF FlightLen, BegunOK, Committing
  <2> QED BY Zenon, <1>1, <2>3, <2>4 DEF SizeInv, SizesOK, Files
<1>4. CASE QuietMove
  <2>1. /\ cursor' = cursor /\ acked' = acked /\ payload' = payload /\ tables' = tables
        /\ pc' = "idle" => call' = NoCall \/ (pc = "idle" /\ call' = call)
        /\ pc' \in Committing => pc \in Committing /\ op' = op
    BY Zenon, <1>4 DEF QuietMove
  <2>2. FlightLen'
    BY Zenon, <2>1 DEF SizeInv, FlightLen
  <2>3. BegunOK'
    BY Zenon, <1>t, <2>1 DEF SizeInv, BegunOK
  <2> QED BY Zenon, <1>1, <2>1, <2>2, <2>3 DEF SizeInv, SizesOK, Files
<1>5. CASE DownStep \/ OpenStep
  <2>1. pc' \in {"down", "scan"} /\ tables' = EmptyTables
    BY Zenon, <1>5 DEF DownStep, OpenStep, DownOK
  <2>2. FlightLen' /\ BegunOK'
    BY Zenon, <2>1 DEF FlightLen, BegunOK, Committing
  <2>3. Files(EmptyTables) = {}
    BY Zenon DEF Files, EmptyTables
  <2> QED BY Zenon, <1>1, <2>1, <2>2, <2>3 DEF SizeInv, SizesOK, Files
<1> QED BY Zenon, <1>k, <1>2, <1>3, <1>4, <1>5

(* The first state: the root directory's frame and nothing else.            *)
LEMMA StoreInitMore ==
    ASSUME StoreInit
    PROVE  FreshOp /\ DownOK /\ ReplayOK /\ SizeInv /\ TightLog
<1> DEFINE r == CreateInode(Root, RootDir)
<1>i. SInv
  BY Zenon, StoreInitOK
<1>0. /\ 0 \in Slot /\ 1 \in Op /\ Root \in Inode /\ 0 \notin Op /\ Empty \notin Op /\ 0 \in Nat
      /\ \A s \in Slot : s \in Nat /\ (s < 1 => s = 0)
  BY StoreAssumption, BoundAssumption, ViewAssumption DEF Slot, Op, Root, Inode, Empty
<1>1. /\ \A s \in Slot : cache[Primary][s] = IF s = 0 THEN 1 ELSE Empty
      /\ stable = cache
  BY Zenon, PrimaryIsDisk DEF StoreInit
<1>2. /\ pc = "idle" /\ cursor = 1 /\ call = NoCall /\ payload[1] = r
      /\ tables = ApplyLocally(EmptyTables, r) /\ r \in MetaOps
  BY <1>0 DEF StoreInit, MetaOps
<1>h. \A s \in Slot : \A o \in Op : o \in Held(s) => s = 0 /\ o = 1
  BY Zenon, <1>0, <1>1 DEF Held
<1>3. FreshOp /\ DownOK
  BY Zenon, <1>2 DEF FreshOp, DownOK, Committing
<1>4. ReplayOK
  <2>1. Cell(0) = r
    BY Zenon, <1>0, <1>1, <1>2 DEF Cell
  <2>2. LogAgrees(0 + 1, ApplyLocally(EmptyTables, r))
    BY Zenon, <1>0, <1>2, <2>1, AgreesNone, AgreesNext, EmptyOK
  <2> QED BY <1>2, <2>2 DEF ReplayOK
<1>5. SizeInv
  <2>1. r.type = "CreateInode"
    BY Zenon DEF CreateInode
  <2>2. CompleteOK
    BY Zenon, <1>2, <1>h, <2>1 DEF CompleteOK
  <2>3. FlightLen /\ BegunOK
    BY Zenon, <1>2 DEF FlightLen, BegunOK, Committing, NoCall
  <2>4. EmptyTables \in Tables /\ SizesOK(EmptyTables)
    BY Zenon, EmptyOK DEF TablesOK, SizesOK, Files, EmptyTables
  <2>5. SizesOK(tables)
    BY Zenon, <1>2, <2>1, <2>4, SizesStep
  <2> QED BY Zenon, <2>2, <2>3, <2>5 DEF SizeInv
<1>6. TightLog
  <2>1. SyncedBelow
    BY Zenon, <1>1 DEF SyncedBelow, Clean
  <2>2. Contiguous /\ EndsAtCursor
    BY <1>0, <1>2, <1>h DEF Contiguous, EndsAtCursor
  <2> QED BY Zenon, <2>1, <2>2 DEF TightLog
<1> QED BY Zenon, <1>3, <1>4, <1>5, <1>6

-----------------------------------------------------------------------------
(* Without leftovers every frame is met by a replay with the tables it was  *)
(* issued against, whether or not it was acknowledged.                      *)
FramesOK ==
    NoLeftovers => \A s \in Slot : \A o \in Op : s < WalCapacity /\ o \in Held(s) =>
        \A p, t : p = payload[o] /\ ReplaysTo(s, t) => Fits(t, p) /\ (~misused => Valid(t, p))

(* A name that a frame behind all acknowledged ones changes was touched.    *)
NamesTouched ==
    NoLeftovers => \A s \in Slot : \A o \in Op :
        /\ s < WalCapacity /\ o \in Held(s) /\ payload[o].type \in {"Link", "Unlink"}
        /\ \A a \in acked : a.slot < s
        => payload[o].name \in touched

(* create_file links a number that no entry has.                            *)
FlightFresh ==
    pc \in Committing /\ payload[op].type = "Link" =>
        \A n \in Names : tables.dirs[n] # payload[op].inode
CallFresh ==
    pc = "idle" /\ call.kind = "link" => \A n \in Names : tables.dirs[n] # call.inode

OneNames(t) ==
    \A m, n \in Names : m # n /\ t.dirs[m] # NoInode => t.dirs[m] # t.dirs[n]

OpenMisuse == NoLeftovers /\ "refused" \in openFails => misused

NameInv ==
    /\ FramesOK /\ NamesTouched /\ FlightFresh /\ CallFresh
    /\ NoLeftovers => OneNames(tables)
    /\ OpenMisuse

LEMMA OneNamesStep ==
    ASSUME NEW t \in Tables, NEW o \in MetaOps, OneNames(t), Fits(t, o)
    PROVE  OneNames(ApplyLocally(t, o))
<1> DEFINE u == ApplyLocally(t, o)
<1>0. t.dirs \in [Names -> Inode \cup {NoInode}]
  BY Zenon DEF Tables
<1>1. CASE u.dirs = t.dirs
  BY Zenon, <1>1 DEF OneNames
<1>2. CASE o.type = "Link"
  <2>1. u.dirs = [t.dirs EXCEPT ![o.name] = o.inode] /\ \A n \in Names : t.dirs[n] # o.inode
    BY Zenon, <1>2, ApplyFields DEF Fits
  <2> HIDE DEF u
  <2>2. OneNames(u)
    BY Zenon, <1>0, <2>1 DEF OneNames
  <2> QED BY Zenon, <2>2 DEF u
<1>3. CASE o.type = "Unlink"
  <2>1. u.dirs = [t.dirs EXCEPT ![o.name] = NoInode]
    BY Zenon, <1>3, ApplyFields
  <2> HIDE DEF u
  <2>2. OneNames(u)
    BY Zenon, <1>0, <2>1 DEF OneNames
  <2> QED BY Zenon, <2>2 DEF u
<1>4. CASE o.type \in {"CreateInode"} \cup OtherOps
  <2>1. o.type = "CreateInode" \/ (o.type \in OtherOps /\ Valid(t, o)) \/ (o.type \in OtherOps /\ ~Valid(t, o))
    BY Zenon, <1>4
  <2>2. u.dirs = t.dirs
    BY Zenon, <2>1, ApplyFields
  <2> QED BY Zenon, <1>1, <2>2
<1> QED BY Zenon, <1>2, <1>3, <1>4, OpKinds DEF OtherOps

LEMMA MisusedStays ==
    ASSUME SInv, LogMoves, FreshOp, DownOK, [StoreMove]_svars, misused
    PROVE  misused'
<1>1. Issued => misused'
  BY Zenon, IssuedKinds DEF Accepts
<1>2. AckMove \/ ReplayFrame => misused'
  BY Zenon, AppliedFrame
<1> QED BY Zenon, StepKinds, <1>1, <1>2 DEF QuietMove, DownStep, OpenStep

(* The tables that a process has before a frame are the replay's.           *)
LEMMA FrameMet ==
    ASSUME SInv, ReplayOK, NameInv, NoLeftovers, pc # "down",
           NEW c \in Slot, c = cursor, c < WalCapacity, cache[Primary][c] \in Op
    PROVE  Fits(tables, Cell(c)) /\ (~misused => Valid(tables, Cell(c)))
<1>1. PICK v : ReplaysTo(c, v) /\ v.inodes = tables.inodes /\ v.dirs = tables.dirs
  BY Zenon DEF ReplayOK, LogAgrees, Agree
<1>2. PICK o \in Op : o = cache[Primary][c] /\ o \in Held(c)
  BY Zenon DEF Held
<1>3. FramesOK
  BY Zenon DEF NameInv
<1>4. Fits(v, payload[o]) /\ (~misused => Valid(v, payload[o]))
  BY ONLY Zenon, <1>1, <1>2, <1>3, NoLeftovers, c \in Slot, c < WalCapacity DEF FramesOK
<1> QED BY Zenon, <1>1, <1>2, <1>4, AgreeSame DEF Cell

LEMMA FrameFits ==
    ASSUME SInv, LogMoves, ReplayOK, NameInv, NoLeftovers, AckMove \/ ReplayFrame, NEW c, c = cursor
    PROVE  Fits(tables, Cell(c))
<1>1. pc # "down" /\ c \in Slot /\ cache[Primary][c] \in Op
  BY Zenon, AppliedFrame
<1>2. CASE AckMove
  <2>1. pc \in Committing /\ Cell(c) = payload[op]
    BY Zenon, <1>2, InFlightFacts DEF AckMove, Cell, SInv
  <2> QED BY Zenon, <2>1 DEF SInv, FlightOK, NameInv, FlightFresh, Fits
<1>3. CASE ReplayFrame
  <2>1. c < WalCapacity
    BY Zenon, <1>3 DEF ReplayFrame, ScanFrame
  <2> QED BY Zenon, <1>1, <2>1, FrameMet
<1> QED BY Zenon, <1>2, <1>3

LEMMA FramesStep ==
    ASSUME SInv, LogMoves, FreshOp, DownOK, [StoreMove]_svars, ReplayOK, TightLog, NameInv
    PROVE  FramesOK'
<1> SUFFICES ASSUME NoLeftovers', NEW s \in Slot, NEW o \in Op, s < WalCapacity, o \in Held(s)',
                    NEW p, p = payload'[o], NEW t, ReplaysTo(s, t)'
             PROVE  Fits(t, p) /\ (~misused' => Valid(t, p))
  BY Zenon DEF FramesOK
<1>n. NoLeftovers
  BY Zenon, CountsStep DEF SInv
<1>1. CASE o \in Held(s) /\ payload'[o] = payload[o]
  <2>1. s \in Nat /\ CellsStay(s)
    BY Zenon, <1>1, FrameStay DEF SInv
  <2>2. ReplaysTo(s, t)
    BY Zenon, <2>1, ReplayKept DEF CellsStay
  <2>3. Fits(t, p) /\ (~misused => Valid(t, p))
    <3>1. FramesOK
      BY Zenon DEF NameInv
    <3> QED BY Zenon, <1>1, <1>n, <2>2, <3>1 DEF FramesOK
  <2> QED BY Zenon, <2>3, MisusedStays
<1>2. CASE /\ Issued /\ s = cursor /\ o = issued + 1
           /\ \E next \in Calls, q \in MetaOps : q = payload'[o] /\ Writes(q, next)
  <2>1. PICK next \in Calls : Writes(p, next)
    BY Zenon, <1>2
  <2>2. pc = "idle" /\ pc' # "down" /\ pc # "down"
    <3>1. pc = "idle" /\ pc' # "down"
      BY Zenon, <1>2, IssuedKinds
    <3> QED BY Zenon, <3>1
  <2>3. s \in Nat /\ CellsStay(s)
    BY Zenon, <1>2, <2>2, CellsBelow DEF SInv
  <2>4. t.inodes = tables.inodes /\ t.dirs = tables.dirs
    <3>1. ReplaysTo(s, t)
      BY Zenon, <2>3, ReplayKept DEF CellsStay
    <3> QED BY Zenon, <1>2, <2>2, <3>1 DEF ReplayOK, LogAgrees, Agree
  <2>5. Fits(tables, p)
    BY Zenon, <2>1, <2>2 DEF Writes, Accepts, Proper, Fits, NameInv, CallFresh
  <2>6. ~misused' => Valid(tables, p)
    BY Zenon, <2>1 DEF Writes, Accepts
  <2> QED BY Zenon, <2>4, <2>5, <2>6, AgreeSame
<1> QED BY Zenon, <1>1, <1>2, HeldNext

LEMMA TouchedStep ==
    ASSUME SInv, LogMoves, FreshOp, DownOK, [StoreMove]_svars, TightLog, NameInv
    PROVE  NamesTouched'
<1> SUFFICES ASSUME NoLeftovers', NEW s \in Slot, NEW o \in Op, s < WalCapacity, o \in Held(s)',
                    payload'[o].type \in {"Link", "Unlink"}, \A a \in acked' : a.slot < s
             PROVE  payload'[o].name \in touched'
  BY Zenon DEF NamesTouched
<1>n. NoLeftovers
  BY Zenon, CountsStep DEF SInv
<1>1. CASE o \in Held(s) /\ payload'[o] = payload[o]
  <2>1. acked \subseteq acked'
    BY Zenon, LogStepMoves DEF NewAcks, SInv, LogOK, LogMoves, IInv
  <2>2. payload[o].name \in touched
    BY Zenon, <1>1, <1>n, <2>1 DEF NameInv, NamesTouched
  <2>3. ~AckMove
    <3>1. ASSUME AckMove PROVE FALSE
      <4>1. cursor < s
        BY Zenon, <3>1 DEF AckMove
      <4>2. pc \in Running
        BY Zenon, <3>1 DEF AckMove, Committing, Running
      <4>3. s <= cursor
        BY Zenon, <1>1, <1>n, <4>2 DEF TightLog, EndsAtCursor
      <4>4. s \in Nat /\ cursor \in Nat
        BY SlotFacts, BoundAssumption DEF SInv, LogOK, IInv, TypeInv, TypeOK
      <4> QED BY ONLY SMTT(20), <4>1, <4>3, <4>4
    <3> QED BY Zenon, <3>1
  <2>4. touched \subseteq touched'
    <3>1. Issued => touched \subseteq touched'
      <4>1. Issued => \E p \in MetaOps, next \in Calls : Accepts(p, next)
        BY Zenon, IssuedKinds
      <4> QED BY Zenon, <4>1 DEF Accepts
    <3>2. ReplayFrame => touched' = touched
      BY Zenon DEF ReplayFrame, ghosts
    <3> QED BY Zenon, StepKinds, <2>3, <3>1, <3>2 DEF QuietMove, DownStep, OpenStep
  <2> QED BY Zenon, <1>1, <2>2, <2>4
<1>2. CASE /\ Issued /\ s = cursor /\ o = issued + 1
           /\ \E next \in Calls, q \in MetaOps : q = payload'[o] /\ Writes(q, next)
  <2>1. PICK next \in Calls, q \in MetaOps : q = payload'[o] /\ Writes(q, next)
    BY Zenon, <1>2
  <2>2. touched' = touched \cup {q.name}
    BY Zenon, <2>1 DEF Writes, Accepts
  <2> QED BY Zenon, <2>1, <2>2
<1> QED BY Zenon, <1>1, <1>2, HeldNext

LEMMA FreshNameStep ==
    ASSUME SInv, LogMoves, FreshOp, DownOK, [StoreMove]_svars, NameInv
    PROVE  FlightFresh' /\ CallFresh'
<1>k. Issued \/ AckMove \/ ReplayFrame \/ QuietMove \/ DownStep \/ OpenStep
  BY Zenon, StepKinds
<1>t. NoCall.kind # "link"
  BY Zenon DEF NoCall
<1>1. CASE Issued
  <2>1. pc = "idle" /\ tables'.dirs = tables.dirs
    BY Zenon, <1>1, IssuedKinds
  <2>2. PICK p \in MetaOps, next \in Calls :
           Writes(p, next) \/ (pc' = "idle" /\ call' = NoCall)
    BY Zenon, <1>1, IssuedKinds
  <2>3. CASE Writes(p, next)
    <3>1. pc' = "p_sync" /\ payload'[op'] = p
      BY Zenon, <2>3 DEF Writes
    <3>2. p.type = "Link" => \A n \in Names : tables.dirs[n] # p.inode
      BY Zenon, <2>1, <2>3 DEF Writes, Accepts, Proper, NameInv, CallFresh
    <3>3. FlightFresh'
      BY Zenon, <2>1, <3>1, <3>2 DEF FlightFresh
    <3>4. CallFresh'
      BY Zenon, <3>1 DEF CallFresh
    <3> QED BY Zenon, <3>3, <3>4
  <2>4. CASE pc' = "idle" /\ call' = NoCall
    <3>1. pc' \notin Committing
      BY Zenon, <2>4 DEF Committing
    <3> QED BY Zenon, <2>4, <1>t, <3>1 DEF FlightFresh, CallFresh
  <2> QED BY Zenon, <2>2, <2>3, <2>4
<1>2. CASE AckMove
  <2>1. /\ pc \in Committing /\ pc' = "idle" /\ tables' = ApplyLocally(tables, payload[op])
        /\ call' = IF Valid(tables, payload[op]) THEN call ELSE NoCall
    BY Zenon, <1>2 DEF AckMove, Materialize
  <2>2. FlightFresh'
    BY Zenon, <2>1 DEF FlightFresh, Committing
  <2>3. ASSUME call'.kind = "link", NEW n \in Names PROVE tables'.dirs[n] # call'.inode
    <3>1. call' = call /\ call.kind = "link"
      BY Zenon, <2>1, <2>3, <1>t
    <3>2. /\ payload[op].type = "CreateInode" /\ payload[op].inode = call.inode
          /\ payload[op].inode \notin Files(tables)
      BY Zenon, <2>1, <3>1 DEF SInv, FlightOK
    <3>3. payload[op] \in MetaOps /\ tables \in Tables
      BY Zenon, <2>1, InFlightFacts DEF SInv, StoreTypes, TablesOK
    <3>4. tables'.dirs = tables.dirs
      BY Zenon, <2>1, <3>2, <3>3, ApplyFields
    <3>5. call.inode # NoInode
      <4>1. payload[op].inode \in Inode
        BY Zenon, <3>2, <3>3, OpKinds
      <4> QED BY <3>2, <4>1 DEF Inode, NoInode
    <3> QED BY Zenon, <3>1, <3>2, <3>4, <3>5 DEF SInv, EntriesOK
  <2> QED BY Zenon, <2>2, <2>3 DEF CallFresh
<1>3. CASE QuietMove
  <2>1. /\ payload' = payload /\ tables' = tables
        /\ pc' = "idle" => call' = NoCall \/ (pc = "idle" /\ call' = call)
        /\ pc' \in Committing => pc \in Committing /\ op' = op
    BY Zenon, <1>3 DEF QuietMove
  <2>2. FlightFresh'
    BY Zenon, <2>1 DEF NameInv, FlightFresh
  <2>3. CallFresh'
    BY Zenon, <1>t, <2>1 DEF NameInv, CallFresh
  <2> QED BY Zenon, <2>2, <2>3
<1>4. CASE ReplayFrame \/ DownStep \/ OpenStep
  <2>1. pc' \in {"scan", "down"}
    BY Zenon, <1>4 DEF ReplayFrame, ScanFrame, DownStep, OpenStep
  <2> QED BY Zenon, <2>1 DEF FlightFresh, CallFresh, Committing
<1> QED BY Zenon, <1>k, <1>1, <1>2, <1>3, <1>4

LEMMA NameStep ==
    ASSUME SInv, LogMoves, FreshOp, DownOK, [StoreMove]_svars, ReplayOK, TightLog, NameInv
    PROVE  NameInv'
<1>k. Issued \/ AckMove \/ ReplayFrame \/ QuietMove \/ DownStep \/ OpenStep
  BY Zenon, StepKinds
<1>1. FramesOK' /\ NamesTouched' /\ FlightFresh' /\ CallFresh'
  BY Zenon, FramesStep, TouchedStep, FreshNameStep
<1>n. NoLeftovers' => NoLeftovers
  BY Zenon, CountsStep DEF SInv
<1>2. ASSUME NoLeftovers' PROVE OneNames(tables')
  <2>1. CASE tables'.dirs = tables.dirs
    BY Zenon, <1>2, <1>n, <2>1 DEF NameInv, OneNames
  <2>2. CASE AckMove \/ ReplayFrame
    <3>1. ASSUME NEW c, c = cursor PROVE OneNames(tables')
      <4>1. tables' = ApplyLocally(tables, Cell(c)) /\ Cell(c) \in MetaOps
        BY Zenon, <2>2, <3>1, AppliedFrame
      <4>2. Fits(tables, Cell(c))
        BY Zenon, <1>2, <1>n, <2>2, <3>1, FrameFits
      <4> QED BY Zenon, <1>2, <1>n, <4>1, <4>2, OneNamesStep DEF NameInv, SInv, StoreTypes, TablesOK
    <3> QED BY Zenon, <3>1
  <2>3. CASE DownStep
    BY Zenon, <2>3, EmptyOK DEF DownStep, OneNames
  <2> QED BY Zenon, <1>k, <2>1, <2>2, <2>3, IssuedKinds DEF QuietMove, OpenStep
<1>3. OpenMisuse'
  <2> SUFFICES ASSUME NoLeftovers', "refused" \in openFails' PROVE misused'
    BY Zenon DEF OpenMisuse
  <2>1. CASE "refused" \in openFails
    BY Zenon, <1>n, <2>1, MisusedStays DEF NameInv, OpenMisuse
  <2>2. CASE ReplayFails
    <3>1. /\ pc # "down" /\ cursor \in Slot /\ cursor < WalCapacity /\ cache[Primary][cursor] \in Op
          /\ ~Valid(tables, Cell(cursor)) /\ misused' = misused
      BY Zenon, <2>2 DEF ReplayFails, Cell
    <3>2. ~misused => Valid(tables, Cell(cursor))
      BY Zenon, <1>n, <3>1, FrameMet
    <3> QED BY Zenon, <3>1, <3>2, MisusedStays
  <2>3. "refused" \in openFails \/ ReplayFails
    <3>1. Issued \/ QuietMove \/ OpenStep => openFails' = openFails
      BY Zenon, IssuedKinds DEF QuietMove, OpenStep
    <3>2. AckMove \/ ReplayFrame => openFails' = openFails
      BY Zenon, AppliedFrame
    <3>3. DownStep => \/ openFails' = openFails \/ ReplayFails
                      \/ openFails' = openFails \cup {"panicked"}
      BY Zenon DEF DownStep
    <3>4. openFails' = openFails \cup {"panicked"} => "refused" \in openFails
      <4>1. "refused" \in openFails'
        OBVIOUS
      <4> QED BY ONLY SMTT(20), <4>1
    <3> QED BY Zenon, <1>k, <3>1, <3>2, <3>3, <3>4
  <2> QED BY Zenon, <2>1, <2>2, <2>3
<1> QED BY Zenon, <1>1, <1>2, <1>3 DEF NameInv, OneNames

-----------------------------------------------------------------------------
(* What was promised.  The last acknowledged operation is in a frame that   *)
(* stays, and the frames up to it stand for the promised tables; a process  *)
(* that has passed that frame has the promise and whatever was handed over  *)
(* since.                                                                   *)
PromiseOK ==
    \A a \in acked : InWal(a) /\ (\A b \in acked : b.slot <= a.slot) =>
        \A n, t : n = a.slot + 1 /\ t = promise => LogAgrees(n, t)

Keeps(t, old, changed) ==
    AtLeast(t, old) /\ \A n \in Names \ changed : t.dirs[n] = old.dirs[n]

KeepOK ==
    NoLeftovers /\ pc # "down" /\ (\A a \in acked : InWal(a) /\ a.slot < cursor) =>
        Keeps(tables, promise, touched)

GhostTypes ==
    /\ TablesOK(promise) /\ touched \subseteq Names
    /\ misused \in BOOLEAN

KeepInv == PromiseOK /\ KeepOK /\ GhostTypes

LEMMA GhostStep ==
    ASSUME SInv, LogMoves, FreshOp, DownOK, [StoreMove]_svars, GhostTypes
    PROVE  GhostTypes'
<1>k. Issued \/ AckMove \/ ReplayFrame \/ QuietMove \/ DownStep \/ OpenStep
  BY Zenon, StepKinds
<1>s. TablesOK(tables')
  BY Zenon, StoreStep DEF SInv, StoreTypes, TablesOK, Files
<1>1. CASE Issued
  <2>1. promise' = promise
    BY Zenon, <1>1, IssuedKinds
  <2>2. PICK p \in MetaOps, next \in Calls : Accepts(p, next)
    BY Zenon, <1>1, IssuedKinds
  <2>3. touched' \subseteq Names
    BY Zenon, <2>2, OpKinds DEF Accepts, GhostTypes
  <2>4. misused' \in BOOLEAN
    BY Zenon, <2>2 DEF Accepts
  <2> QED BY Zenon, <2>1, <2>3, <2>4 DEF GhostTypes, TablesOK, Files
<1>2. CASE AckMove
  <2>1. promise' = tables' /\ touched' = {} /\ misused' = misused
    BY Zenon, <1>2 DEF AckMove, Materialize
  <2> QED BY Zenon, <1>s, <2>1 DEF GhostTypes, TablesOK, Files
<1>3. CASE ReplayFrame \/ QuietMove \/ DownStep \/ OpenStep
  <2>1. promise' = promise /\ touched' = touched /\ misused' = misused
    BY Zenon, <1>3 DEF ReplayFrame, QuietMove, DownStep, OpenStep, ghosts
  <2> QED BY Zenon, <2>1 DEF GhostTypes, TablesOK, Files
<1> QED BY Zenon, <1>k, <1>1, <1>2, <1>3

LEMMA PromiseStep ==
    ASSUME SInv, LogMoves, FreshOp, DownOK, [StoreMove]_svars, ReplayOK, PromiseOK
    PROVE  PromiseOK'
<1> SUFFICES ASSUME NEW a \in acked', InWal(a), \A b \in acked' : b.slot <= a.slot,
                    NEW n, n = a.slot + 1, NEW t, t = promise'
             PROVE  LogAgrees(n, t)'
  BY Zenon DEF PromiseOK, InWal
<1>m. NewAcks
  BY Zenon, LogStepMoves DEF SInv, LogOK, LogMoves, IInv
<1>1. CASE AckMove
  <2>1. PICK b \in acked' : b.slot = cursor
    BY Zenon, <1>1 DEF AckMove
  <2>2. pc \in Committing /\ cursor' = cursor + 1 /\ promise' = tables' /\ pc' # "down"
    BY Zenon, <1>1 DEF AckMove, Materialize
  <2>3. a.slot = cursor
    <3>1. CASE a \in acked
      <4>1. a.slot < cursor
        BY Zenon, <1>1, <2>2, <3>1 DEF SInv, LogOK, IInv, AckedBelowCursor, Committing,
           Running
      <4>2. cursor <= a.slot
        BY Zenon, <2>1
      <4>3. cursor \in Nat /\ a.slot \in Nat
        BY <3>1, SlotFacts, BoundAssumption DEF SInv, LogOK, IInv, TypeInv, TypeOK
      <4> QED BY ONLY SMTT(20), <4>1, <4>2, <4>3
    <3> QED BY Zenon, <3>1, <1>m DEF NewAcks
  <2>4. ReplayOK'
    BY Zenon, ReplayOKStep
  <2> QED BY Zenon, <2>2, <2>3, <2>4 DEF ReplayOK
<1>2. CASE ~AckMove
  <2>1. acked' = acked /\ promise' = promise
    <3>1. Issued => acked' = acked /\ promise' = promise
      BY Zenon, IssuedKinds
    <3>2. ReplayFrame => acked' = acked /\ promise' = promise
      BY Zenon DEF ReplayFrame, ScanFrame, history, ghosts
    <3> QED BY Zenon, <1>2, <3>1, <3>2, StepKinds DEF QuietMove, DownStep, OpenStep
  <2>2. LogAgrees(n, t)
    BY Zenon, <2>1 DEF PromiseOK
  <2>3. a.slot \in Slot /\ a.slot < WalCapacity /\ Settled(a.slot)
    BY Zenon, <2>1 DEF SInv, LogOK, IInv, TypeInv, TypeOK, InWal, Settled
  <2>4. n \in Nat /\ CellsStay(n)
    BY Zenon, <2>3, SettledStay DEF SInv
  <2> QED BY Zenon, <2>2, <2>4, AgreesKept
<1> QED BY Zenon, <1>1, <1>2

LEMMA AtLeastTrans ==
    ASSUME NEW t, NEW u, NEW v, TablesOK(t), TablesOK(u), TablesOK(v), AtLeast(v, u), AtLeast(u, t)
    PROVE  AtLeast(v, t)
<1> SUFFICES ASSUME NEW i \in Files(t)
             PROVE  /\ i \in Files(v)
                    /\ Rank[v.inodes[i].mode] >= Rank[t.inodes[i].mode]
                    /\ v.inodes[i].size >= t.inodes[i].size
  BY Zenon DEF AtLeast
<1>1. /\ i \in Files(u) /\ Rank[u.inodes[i].mode] >= Rank[t.inodes[i].mode]
      /\ u.inodes[i].size >= t.inodes[i].size
  BY Zenon DEF AtLeast
<1>2. /\ i \in Files(v) /\ Rank[v.inodes[i].mode] >= Rank[u.inodes[i].mode]
      /\ v.inodes[i].size >= u.inodes[i].size
  BY Zenon, <1>1 DEF AtLeast
<1>3. ASSUME NEW w, TablesOK(w), i \in Files(w)
      PROVE  Rank[w.inodes[i].mode] \in Nat /\ w.inodes[i].size \in Nat
  <2>1. w.inodes[i] \in Record
    BY Zenon, <1>3 DEF TablesOK, Tables, Files
  <2>2. w.inodes[i].mode \in Modes /\ w.inodes[i].size \in Nat
    BY Zenon, <2>1 DEF Record
  <2> QED BY <2>2 DEF Rank, Modes
<1>4. /\ Rank[t.inodes[i].mode] \in Nat /\ t.inodes[i].size \in Nat
      /\ Rank[u.inodes[i].mode] \in Nat /\ u.inodes[i].size \in Nat
      /\ Rank[v.inodes[i].mode] \in Nat /\ v.inodes[i].size \in Nat
  BY Zenon, <1>1, <1>2, <1>3
<1> QED BY ONLY SMTT(20), <1>1, <1>2, <1>4

LEMMA KeepsSame ==
    ASSUME NEW t, NEW u, NEW old, NEW x, NEW y, u.inodes = t.inodes, u.dirs = t.dirs,
           x \subseteq y, Keeps(t, old, x)
    PROVE  Keeps(u, old, y)
  BY Zenon DEF Keeps, AtLeast, Files

(* A replayed frame gives or keeps the promise.                             *)
LEMMA KeepReplay ==
    ASSUME SInv, LogMoves, ReplayOK, NameInv, KeepInv, NoLeftovers, ReplayFrame,
           \A a \in acked : InWal(a) /\ a.slot < cursor + 1
    PROVE  Keeps(tables', promise, touched)
<1> PICK c : c = cursor
  BY Zenon
<1>1. /\ pc # "down" /\ c \in Nat /\ c \in Slot /\ Cell(c) \in MetaOps
      /\ tables' = ApplyLocally(tables, Cell(c)) /\ cache[Primary][c] \in Op
      /\ cache[Primary][c] \in Held(c)
  BY Zenon, AppliedFrame
<1>2. c < WalCapacity
  BY Zenon DEF ReplayFrame, ScanFrame
<1>t. TablesOK(tables) /\ TablesOK(promise) /\ TablesOK(tables') /\ tables \in Tables
  <2>1. TablesOK(tables) /\ TablesOK(promise) /\ tables \in Tables
    BY Zenon DEF SInv, StoreTypes, KeepInv, GhostTypes, TablesOK
  <2> QED BY Zenon, <1>1, <2>1, ApplyStep
<1>s. \A a \in acked : a.slot \in Nat /\ (a.slot < c + 1 => a.slot = c \/ a.slot < c)
  <2> TAKE a \in acked
  <2>1. a.slot \in Slot
    BY Zenon DEF SInv, LogOK, IInv, TypeInv, TypeOK
  <2>2. a.slot \in Nat
    BY Zenon, <2>1, SlotFacts
  <2> QED BY ONLY SMTT(20), <1>1, <2>2
<1>3. CASE \E a \in acked : a.slot = c
  <2>1. PICK a \in acked : a.slot = c
    BY Zenon, <1>3
  <2>2. \A b \in acked : b.slot <= c
    BY <1>1, <1>s
  <2>3. LogAgrees(c + 1, promise)
    BY Zenon, <2>1, <2>2 DEF KeepInv, PromiseOK
  <2>4. LogAgrees(c + 1, tables')
    <3>1. LogAgrees(c, tables)
      BY Zenon, <1>1 DEF ReplayOK
    <3> QED BY Zenon, <1>1, <1>t, <3>1, AgreesNext
  <2>5. tables'.inodes = promise.inodes /\ tables'.dirs = promise.dirs
    <3>1. PICK v : ReplaysTo(c + 1, v)
      BY Zenon, <2>3 DEF LogAgrees
    <3>2. Agree(v, promise) /\ Agree(v, tables')
      BY Zenon, <2>3, <2>4, <3>1 DEF LogAgrees
    <3> QED BY Zenon, <3>2 DEF Agree
  <2> QED BY Zenon, <1>t, <2>5, SameRecords DEF Keeps
<1>4. CASE \A a \in acked : a.slot < c
  <2>1. Keeps(tables, promise, touched)
    BY Zenon, <1>1, <1>4 DEF KeepInv, KeepOK
  <2>2. Fits(tables, Cell(c))
    BY Zenon, FrameFits
  <2>3. AtLeast(tables', tables)
    BY Zenon, <1>1, <1>t, <2>2, ApplyStep DEF Fits
  <2>4. AtLeast(tables', promise)
    BY Zenon, <1>t, <2>1, <2>3, AtLeastTrans DEF Keeps
  <2>5. ASSUME NEW n \in Names \ touched PROVE tables'.dirs[n] = tables.dirs[n]
    <3>0. tables.dirs \in [Names -> Inode \cup {NoInode}]
      BY Zenon, <1>t DEF Tables
    <3>1. CASE Cell(c).type \in {"Link", "Unlink"}
      <4>1. Cell(c).name \in touched
        BY Zenon, <1>1, <1>2, <1>4, <3>1 DEF NameInv, NamesTouched, Cell
      <4>2. Cell(c).name # n
        BY Zenon, <2>5, <4>1
      <4>3. PICK x : tables'.dirs = [tables.dirs EXCEPT ![Cell(c).name] = x]
        <5>1. \/ tables'.dirs = [tables.dirs EXCEPT ![Cell(c).name] = Cell(c).inode]
              \/ tables'.dirs = [tables.dirs EXCEPT ![Cell(c).name] = NoInode]
          BY Zenon, <1>1, <1>t, <3>1, ApplyFields
        <5> QED BY Zenon, <5>1
      <4> QED BY ONLY Zenon, <3>0, <4>2, <4>3, n \in Names \ touched
    <3>2. CASE Cell(c).type \in {"CreateInode"} \cup OtherOps
      <4>1. \/ Cell(c).type = "CreateInode"
            \/ Cell(c).type \in OtherOps /\ Valid(tables, Cell(c))
            \/ Cell(c).type \in OtherOps /\ ~Valid(tables, Cell(c))
        BY Zenon, <3>2
      <4> QED BY Zenon, <1>1, <1>t, <4>1, ApplyFields
    <3> QED BY Zenon, <1>1, <3>1, <3>2, OpKinds DEF OtherOps
  <2> QED BY Zenon, <2>1, <2>4, <2>5 DEF Keeps
<1> QED BY Zenon, <1>s, <1>3, <1>4

LEMMA KeepStep ==
    ASSUME SInv, LogMoves, FreshOp, DownOK, [StoreMove]_svars, ReplayOK, NameInv, KeepInv
    PROVE  KeepInv'
<1>k. Issued \/ AckMove \/ ReplayFrame \/ QuietMove \/ DownStep \/ OpenStep
  BY Zenon, StepKinds
<1>g. PromiseOK' /\ GhostTypes'
  BY Zenon, PromiseStep, GhostStep DEF KeepInv
<1> SUFFICES ASSUME NoLeftovers', pc' # "down",
                    \A a \in acked' : a.slot < WalCapacity /\ a.slot < cursor'
             PROVE  Keeps(tables', promise', touched')
  BY Zenon, <1>g DEF KeepInv, KeepOK, InWal, Keeps, AtLeast, Files
<1>n. NoLeftovers
  BY Zenon, CountsStep DEF SInv
<1>1. CASE Issued
  <2>1. /\ pc = "idle" /\ cursor' = cursor /\ acked' = acked /\ promise' = promise
        /\ tables'.inodes = tables.inodes /\ tables'.dirs = tables.dirs
    BY Zenon, <1>1, IssuedKinds
  <2>2. PICK p \in MetaOps, next \in Calls : Accepts(p, next)
    BY Zenon, <1>1, IssuedKinds
  <2>3. touched \subseteq touched' /\ pc # "down"
    BY Zenon, <2>1, <2>2 DEF Accepts
  <2>4. Keeps(tables, promise, touched)
    BY Zenon, <1>n, <2>1, <2>3 DEF KeepInv, KeepOK, InWal
  <2> QED BY Zenon, <2>1, <2>3, <2>4, KeepsSame
<1>2. CASE AckMove
  <2>1. promise' = tables' /\ TablesOK(tables')
    <3>1. promise' = tables'
      BY Zenon, <1>2 DEF AckMove, Materialize
    <3> QED BY Zenon, <3>1, StoreStep DEF SInv, StoreTypes, TablesOK, Files
  <2>2. AtLeast(tables', tables')
    BY Zenon, <2>1, SameRecords
  <2> QED BY Zenon, <2>1, <2>2 DEF Keeps
<1>3. CASE ReplayFrame
  <2>1. promise' = promise /\ touched' = touched /\ acked' = acked /\ cursor' = cursor + 1
    BY Zenon, <1>3 DEF ReplayFrame, ScanFrame, ghosts, history
  <2>2. \A a \in acked : InWal(a) /\ a.slot < cursor + 1
    BY Zenon, <2>1 DEF InWal
  <2> QED BY Zenon, <1>n, <1>3, <2>1, <2>2, KeepReplay
<1>4. CASE QuietMove
  <2>1. /\ pc # "down" /\ acked' = acked /\ cursor' = cursor /\ tables' = tables
        /\ promise' = promise /\ touched' = touched
    BY Zenon, <1>4 DEF QuietMove
  <2> QED BY Zenon, <1>n, <2>1 DEF KeepInv, KeepOK, InWal
<1>5. CASE OpenStep
  <2>1. cursor' = 0 /\ acked' = acked
    BY Zenon, <1>5 DEF OpenStep
  <2>2. \E a \in acked : a.slot = 0
    BY Zenon DEF SInv, LogOK, AckedOK
  <2> QED BY <2>1, <2>2
<1> QED BY Zenon, <1>k, <1>1, <1>2, <1>3, <1>4, <1>5 DEF DownStep

LEMMA StoreInitKept ==
    ASSUME StoreInit
    PROVE  NameInv /\ KeepInv
<1> DEFINE r == CreateInode(Root, RootDir)
<1>i. SInv /\ ReplayOK
  BY Zenon, StoreInitOK, StoreInitMore
<1>0. /\ 1 \in Op /\ Root \in Inode /\ Empty \notin Op
  BY StoreAssumption, BoundAssumption, ViewAssumption DEF Op, Root, Inode, Empty
<1>1. /\ \A s \in Slot : cache[Primary][s] = IF s = 0 THEN 1 ELSE Empty
      /\ stable = cache
  BY Zenon, PrimaryIsDisk DEF StoreInit
<1>2. /\ pc = "idle" /\ cursor = 1 /\ call = NoCall /\ payload[1] = r
      /\ tables = ApplyLocally(EmptyTables, r) /\ r \in MetaOps /\ promise = tables /\ touched = {}
      /\ misused = FALSE /\ openFails = {}
  BY <1>0 DEF StoreInit, MetaOps
<1>h. \A s \in Slot : \A o \in Op : o \in Held(s) => s = 0 /\ o = 1
  BY Zenon, <1>0, <1>1 DEF Held
<1>r. r.type = "CreateInode" /\ r.inode = Root
  BY Zenon DEF CreateInode
<1>f. EmptyTables \in Tables /\ Fits(EmptyTables, r) /\ Valid(EmptyTables, r) /\ OneNames(EmptyTables)
  BY Zenon, <1>r, EmptyOK DEF TablesOK, Fits, Valid, Files, EmptyTables, OneNames
<1> HIDE DEF r
<1>3. FramesOK
  <2> SUFFICES ASSUME NEW s \in Slot, NEW o \in Op, o \in Held(s), NEW p, p = payload[o],
                      NEW t, ReplaysTo(s, t)
               PROVE  Fits(t, p) /\ Valid(t, p)
    BY Zenon DEF FramesOK
  <2>1. s = 0 /\ p = r
    BY Zenon, <1>2, <1>h
  <2>2. t = EmptyTables
    BY Zenon, <2>1, ReplayNone
  <2> QED BY Zenon, <1>f, <2>1, <2>2
<1>4. NamesTouched
  BY Zenon, <1>2, <1>h, <1>r DEF NamesTouched
<1>5. FlightFresh /\ CallFresh
  BY Zenon, <1>2 DEF FlightFresh, CallFresh, Committing, NoCall
<1>6. OneNames(tables)
  BY Zenon, <1>2, <1>f, OneNamesStep
<1>7. NameInv
  BY Zenon, <1>2, <1>3, <1>4, <1>5, <1>6 DEF NameInv, OpenMisuse
<1>8. PromiseOK
  <2>1. \A a \in acked : a.slot + 1 = 1
    BY DEF StoreInit
  <2>2. pc # "down"
    BY Zenon, <1>2
  <2> QED BY Zenon, <1>i, <1>2, <2>1, <2>2 DEF PromiseOK, ReplayOK
<1>9. KeepOK
  <2>1. TablesOK(tables)
    BY Zenon, <1>i DEF SInv, StoreTypes
  <2> QED BY Zenon, <1>2, <2>1, SameRecords DEF KeepOK, Keeps
<1>10. GhostTypes
  <2>1. TablesOK(promise)
    BY Zenon, <1>i, <1>2 DEF SInv, StoreTypes
  <2>2. touched \subseteq Names
    BY Zenon, <1>2
  <2>3. misused \in BOOLEAN
    BY Zenon, <1>2
  <2> QED BY Zenon, <2>1, <2>2, <2>3 DEF GhostTypes
<1> QED BY Zenon, <1>7, <1>8, <1>9, <1>10 DEF KeepInv

-----------------------------------------------------------------------------
(* A stub is what a failing write or a power loss has cut off.              *)
CutOff == losses # 0 \/ faults # 0

StubInv ==
    /\ \A s \in Slot : Stub \in Held(s) => CutOff
    /\ "panicked" \in openFails => CutOff

LEMMA StubsStep ==
    ASSUME LogOK, LogMoves, \A s \in Slot : Stub \in Held(s) => CutOff
    PROVE  (CutOff => CutOff') /\ \A s \in Slot : Stub \in Held(s)' => CutOff'
<1>t. /\ losses \in Nat /\ faults \in Nat
      /\ cache \in [Disk -> [Slot -> Content]] /\ stable \in [Disk -> [Slot -> Content]]
      /\ Primary \in Disk /\ issued \in Nat
  BY PrimaryIsDisk, BoundAssumption DEF LogOK, IInv, TypeInv, TypeOK
<1>a. ASSUME losses' = losses + 1 \/ faults' = faults + 1
      PROVE  (CutOff => CutOff') /\ \A s \in Slot : Stub \in Held(s)' => CutOff'
  <2>1. losses' # 0 \/ faults' # 0
    BY ONLY SMTT(20), <1>a, <1>t
  <2> QED BY Zenon, <2>1 DEF CutOff
<1>b. ASSUME losses' = losses, faults' = faults,
             \A s \in Slot : /\ cache'[Primary][s] \in Held(s) \cup {issued + 1}
                             /\ stable'[Primary][s] \in Held(s)
      PROVE  (CutOff => CutOff') /\ \A s \in Slot : Stub \in Held(s)' => CutOff'
  <2>1. Stub # issued + 1
    BY <1>t DEF Stub
  <2>2. \A s \in Slot : Stub \in Held(s)' => Stub \in Held(s)
    BY Zenon, <1>b, <2>1 DEF Held
  <2> QED BY Zenon, <1>b, <2>2 DEF CutOff
<1>1. CASE \/ PrimaryWriteFails \/ PrimarySyncFails \/ BackupWriteFails \/ BackupSyncFails
           \/ PowerLoss \/ CompleteConversionFails
  BY Zenon, <1>1, <1>a DEF PrimaryWriteFails, PrimarySyncFails, BackupWriteFails,
     BackupSyncFails, PowerLoss, CompleteConversionFails, Fault
<1>2. CASE PrimaryWrite
  <2>1. /\ cache' = Put(cache, Primary, cursor, issued + 1) /\ stable' = stable
        /\ losses' = losses /\ faults' = faults
    BY Zenon, <1>2 DEF PrimaryWrite, bounds
  <2>2. \A s \in Slot : cache'[Primary][s] \in {cache[Primary][s], issued + 1}
    BY ONLY SMTT(20), <2>1, <1>t DEF Put
  <2> QED BY Zenon, <2>1, <2>2, <1>b DEF Held
<1>3. CASE PrimarySync
  <2>1. /\ cache' = cache /\ stable' = [stable EXCEPT ![Primary] = cache[Primary]]
        /\ losses' = losses /\ faults' = faults
    BY Zenon, <1>3 DEF PrimarySync, bounds
  <2> QED BY Zenon, <2>1, <1>t, <1>b DEF Held
<1>k. ASSUME cache'[Primary] = cache[Primary], stable'[Primary] = stable[Primary],
             losses' = losses, faults' = faults
      PROVE  (CutOff => CutOff') /\ \A s \in Slot : Stub \in Held(s)' => CutOff'
  BY Zenon, <1>b, <1>k DEF Held
<1>4. CASE BackupWrite \/ BackupSync
  <2>1. backup \in Disk /\ backup # Primary
    BY Zenon, <1>4 DEF BackupWrite, BackupSync, InFlight, LogOK, IInv, TypeInv, TypeOK
  <2> QED BY Zenon, <1>4, <2>1, <1>t, <1>k DEF BackupWrite, BackupSync, Put, bounds
<1>5. CASE \E d \in Disk : PromoteNewBackup(d)
  <2>1. /\ cache'[Primary] = cache[Primary] /\ stable'[Primary] = stable[Primary]
        /\ losses' = losses /\ faults' = faults
    BY Zenon, <1>5, <1>t DEF PromoteNewBackup
  <2> QED BY Zenon, <2>1, <1>k
<1>6. CASE \/ ProcessCrash \/ Open \/ ScanFrame \/ ScanEnd \/ ScanReadError \/ ScanPanics
           \/ ScanMisaligned \/ ReplayFails \/ UNCHANGED vars
  <2>1. cache' = cache /\ stable' = stable /\ losses' = losses /\ faults' = faults
    BY Zenon, <1>6 DEF ProcessCrash, Open, ScanFrame, ScanEnd, ScanReadError, ScanPanics,
       ScanMisaligned, ReplayFails, vars, disks, bounds
  <2> QED BY Zenon, <2>1, <1>k
<1> QED BY Zenon, <1>1, <1>2, <1>3, <1>4, <1>5, <1>6 DEF LogMoves, Next

LEMMA StubStep ==
    ASSUME SInv, LogMoves, FreshOp, DownOK, [StoreMove]_svars, StubInv
    PROVE  StubInv'
<1>k. Issued \/ AckMove \/ ReplayFrame \/ QuietMove \/ DownStep \/ OpenStep
  BY Zenon, StepKinds
<1>1. (CutOff => CutOff') /\ \A s \in Slot : Stub \in Held(s)' => CutOff'
  BY Zenon, StubsStep DEF SInv, StubInv
<1>2. ASSUME "panicked" \in openFails' PROVE "panicked" \in openFails \/ ScanPanics
  <2>1. Issued \/ QuietMove \/ OpenStep => openFails' = openFails
    BY Zenon, IssuedKinds DEF QuietMove, OpenStep
  <2>2. AckMove \/ ReplayFrame => openFails' = openFails
    BY Zenon, AppliedFrame
  <2>3. DownStep => \/ openFails' = openFails \/ ScanPanics
                    \/ openFails' = openFails \cup {"refused"}
    BY Zenon DEF DownStep
  <2>4. openFails' = openFails \cup {"refused"} => "panicked" \in openFails
    BY ONLY SMTT(20), <1>2
  <2> QED BY Zenon, <1>k, <1>2, <2>1, <2>2, <2>3, <2>4
<1>3. ScanPanics => CutOff
  BY Zenon DEF ScanPanics, StubInv, Held
<1> QED BY Zenon, <1>1, <1>2, <1>3 DEF StubInv, Slot

LEMMA StoreInitStub ==
    ASSUME StoreInit
    PROVE  StubInv
<1>1. \A s \in Slot : cache[Primary][s] \in {1, Empty} /\ stable[Primary][s] \in {1, Empty}
  BY Zenon, PrimaryIsDisk DEF StoreInit
<1>2. Stub # 1 /\ Stub # Empty
  BY DEF Stub, Empty
<1>3. openFails = {}
  BY Zenon DEF StoreInit
<1> QED BY Zenon, <1>1, <1>2, <1>3 DEF StubInv, Held

-----------------------------------------------------------------------------
StoreInv ==
    /\ SInv /\ FreshOp /\ DownOK /\ TightLog
    /\ ReplayOK /\ SizeInv /\ NameInv /\ KeepInv /\ StubInv

ReadInv == readFaults \in Nat /\ (AllRead => StoreInv)

LEMMA StoreInvHolds == StoreSpec => []ReadInv
<1>1. StoreInit => StoreInv /\ readFaults \in Nat
  <2>1. StoreInit => readFaults \in Nat
    BY DEF StoreInit
  <2> QED BY Zenon, <2>1, StoreInitOK, StoreInitMore, StoreInitKept, StoreInitStub DEF StoreInv
<1>2. StoreInv /\ [StoreMove]_svars => StoreInv'
  <2> SUFFICES ASSUME StoreInv, [StoreMove]_svars PROVE StoreInv'
    BY Zenon
  <2>1. SInv /\ FreshOp /\ DownOK /\ TightLog /\ ReplayOK /\ SizeInv /\ NameInv /\ KeepInv
        /\ StubInv
    BY Zenon DEF StoreInv
  <2>2. LogMoves /\ LogOK
    BY Zenon, <2>1, StoreLog DEF SInv
  <2>3. SInv' /\ FreshOp' /\ TightLog'
    BY Zenon, <2>1, <2>2, StoreStep, FreshStep, TightStep
  <2>4. DownOK' /\ ReplayOK' /\ SizeInv'
    BY Zenon, <2>1, <2>2, ReplayOKStep, SizeStep
  <2>5. NameInv' /\ KeepInv' /\ StubInv'
    BY Zenon, <2>1, <2>2, NameStep, KeepStep, StubStep
  <2> QED BY Zenon, <2>3, <2>4, <2>5 DEF StoreInv
<1>3. ReadInv /\ [StoreNext]_svars => ReadInv'
  BY Zenon, <1>2, ReadStep DEF ReadInv
<1>4. StoreInit => ReadInv
  BY Zenon, <1>1 DEF ReadInv
<1> QED BY <1>3, <1>4, PTL DEF StoreSpec

(* A file's size is what its locator covers, after every write, conversion  *)
(* and replay, whatever was lost or left over, until a read of the scan     *)
(* fails.                                                                   *)
THEOREM Sizes == StoreSpec => []SizeIsStored
<1>1. ReadInv => SizeIsStored
  BY Zenon DEF ReadInv, StoreInv, SizeInv, SizesOK, SizeIsStored
<1> QED BY <1>1, StoreInvHolds, PTL

(* create_file's number is one that no entry leads to, before and after     *)
(* every restart, if kills and power losses do not both happen and no read  *)
(* of the scan fails.                                                       *)
THEOREM OneName == StoreSpec => []OneNamePerFile
<1>1. ReadInv => OneNamePerFile
  BY Zenon DEF ReadInv, StoreInv, NameInv, OneNames, OneNamePerFile
<1> QED BY <1>1, StoreInvHolds, PTL

(* If kills and power losses do not both happen and no read of the scan     *)
(* fails, MetaStore::open returns an error only if some caller gave apply   *)
(* an operation the tables did not allow, and panics only after a failing   *)
(* disk call or a power loss.                                               *)
THEOREM OpenFailures == StoreSpec => []OpenFailsForAReason
<1>1. ReadInv => OpenFailsForAReason
  <2> SUFFICES ASSUME StoreInv, NoLeftovers
               PROVE  /\ "refused" \in openFails => misused
                      /\ "panicked" \in openFails => losses > 0 \/ faults > 0
    BY Zenon DEF ReadInv, OpenFailsForAReason
  <2>1. "refused" \in openFails => misused
    BY Zenon DEF StoreInv, NameInv, OpenMisuse
  <2>2. losses \in Nat /\ faults \in Nat
    BY BoundAssumption DEF StoreInv, SInv, LogOK, IInv, TypeInv, TypeOK
  <2>3. CutOff => losses > 0 \/ faults > 0
    BY <2>2 DEF CutOff
  <2> QED BY Zenon, <2>1, <2>3 DEF StoreInv, StubInv
<1> QED BY <1>1, StoreInvHolds, PTL

(* As long as the log fits the WAL area, the store that comes up has every  *)
(* file apply has acknowledged, as long and as far converted, under the     *)
(* names it had, but for the names a later call has touched; if kills and   *)
(* power losses do not both happen and no read of the scan fails.           *)
THEOREM Promises ==
    ASSUME MaxSlots <= WalCapacity
    PROVE  StoreSpec => []PromisesKept
<1>1. ReadInv => PromisesKept
  <2> SUFFICES ASSUME StoreInv, NoLeftovers, pc \in Running PROVE Keeps(tables, promise, touched)
    BY Zenon DEF ReadInv, PromisesKept, TablesKeep, Keeps, Serving
  <2>1. \A a \in acked : a.slot < WalCapacity
    <3> TAKE a \in acked
    <3>1. a.slot \in Slot
      BY Zenon DEF StoreInv, SInv, LogOK, IInv, TypeInv, TypeOK
    <3> QED BY <3>1, BoundAssumption DEF Slot
  <2>2. \A a \in acked : InWal(a) /\ a.slot < cursor
    BY Zenon, <2>1 DEF InWal, StoreInv, SInv, LogOK, IInv, AckedBelowCursor
  <2>3. pc # "down"
    BY Zenon DEF Running
  <2> QED BY Zenon, <2>2, <2>3 DEF StoreInv, KeepInv, KeepOK
<1> QED BY <1>1, StoreInvHolds, PTL
=============================================================================
